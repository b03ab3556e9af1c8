--------------------------- MODULE ScreensProofs ---------------------------
(***************************************************************************)
(* The screens of the product, proved one by one: for each screen of       *)
(* MCScreens an inductive invariant, what it implies, that the             *)
(* screen starts in it and that every step of the screen keeps it.  The    *)
(* last section puts them under the one shell of MCScreens, where the      *)
(* screens that are not mounted stand still.                               *)
(*                                                                         *)
(* Liveness is checked by TLC only.                                        *)
(***************************************************************************)
EXTENDS MCScreens, SumTheorems, SequenceTheorems

-----------------------------------------------------------------------------
(* Sequences: what removing and inserting an element leaves. *)

\* What RemoveAt leaves of a sequence.
LEMMA RemovedAt ==
  ASSUME NEW S, NEW s \in Seq(S), NEW i \in 1..Len(s)
  PROVE  /\ RemoveAt(s, i) \in Seq(S) /\ Len(RemoveAt(s, i)) = Len(s) - 1
         /\ \A k \in 1..(Len(s) - 1) : RemoveAt(s, i)[k] = IF k < i THEN s[k] ELSE s[k + 1]
  <1> DEFINE left == SubSeq(s, 1, i - 1)
             right == SubSeq(s, i + 1, Len(s))
  <1>1. Len(s) \in Nat /\ i \in Nat /\ i >= 1 /\ i <= Len(s) /\ \A k \in 1..Len(s) : s[k] \in S
    OBVIOUS
  <1>2. left \in Seq(S) /\ Len(left) = i - 1 /\ \A k \in 1..(i - 1) : left[k] = s[k]
    <2>1. \A k \in 1..(i - 1) : s[k] \in S
      BY <1>1
    <2>2. 1 \in Int /\ i - 1 \in Int
      BY <1>1
    <2>3. /\ left \in Seq(S) /\ Len(left) = (IF 1 <= i - 1 THEN (i - 1) - 1 + 1 ELSE 0)
          /\ \A k \in 1..((i - 1) - 1 + 1) : left[k] = s[1 + k - 1]
      BY <2>1, <2>2, SubSeqProperties
    <2> QED
      BY <1>1, <2>3
  <1>3. /\ right \in Seq(S) /\ Len(right) = Len(s) - i
        /\ \A k \in 1..(Len(s) - i) : right[k] = s[i + k]
    <2>1. \A k \in (i + 1)..Len(s) : s[k] \in S
      BY <1>1
    <2>2. i + 1 \in Int /\ Len(s) \in Int
      BY <1>1
    <2>3. /\ right \in Seq(S)
          /\ Len(right) = (IF i + 1 <= Len(s) THEN Len(s) - (i + 1) + 1 ELSE 0)
          /\ \A k \in 1..(Len(s) - (i + 1) + 1) : right[k] = s[(i + 1) + k - 1]
      BY <2>1, <2>2, SubSeqProperties
    <2> QED
      BY <1>1, <2>3
  <1>4. RemoveAt(s, i) = left \o right
    BY DEF RemoveAt
  <1> HIDE DEF left, right
  <1>5. /\ left \o right \in Seq(S) /\ Len(left \o right) = Len(left) + Len(right)
        /\ \A k \in 1..(Len(left) + Len(right)) :
              (left \o right)[k] = IF k <= Len(left) THEN left[k] ELSE right[k - Len(left)]
    BY <1>2, <1>3, ConcatProperties
  <1>6. Len(left) + Len(right) = Len(s) - 1
    BY <1>1, <1>2, <1>3
  <1>7. ASSUME NEW k \in 1..(Len(s) - 1)
        PROVE  RemoveAt(s, i)[k] = IF k < i THEN s[k] ELSE s[k + 1]
    <2>1. CASE k < i
      <3>1. k \in 1..(i - 1) /\ k <= Len(left)
        BY <1>1, <1>2, <2>1
      <3> QED
        BY <1>2, <1>4, <1>5, <1>6, <2>1, <3>1
    <2>2. CASE ~(k < i)
      <3>1. /\ ~(k <= Len(left)) /\ k - Len(left) \in 1..(Len(s) - i)
            /\ i + (k - Len(left)) = k + 1
        BY <1>1, <1>2, <2>2
      <3> QED
        BY <1>3, <1>4, <1>5, <1>6, <2>2, <3>1
    <2> QED
      BY <2>1, <2>2
  <1> QED
    BY <1>4, <1>5, <1>6, <1>7

\* What InsertAt makes of a sequence.
WithInserted(s, i, e, k) == IF k < i THEN s[k] ELSE IF k = i THEN e ELSE s[k - 1]

LEMMA InsertedAt ==
  ASSUME NEW S, NEW s \in Seq(S), NEW i \in 1..(Len(s) + 1), NEW e \in S
  PROVE  /\ InsertAt(s, i, e) \in Seq(S) /\ Len(InsertAt(s, i, e)) = Len(s) + 1
         /\ \A k \in 1..(Len(s) + 1) : InsertAt(s, i, e)[k] = WithInserted(s, i, e, k)
  <1> DEFINE left == SubSeq(s, 1, i - 1)
             right == SubSeq(s, i, Len(s))
             front == left \o <<e>>
  <1>1. Len(s) \in Nat /\ i \in Nat /\ i >= 1 /\ i <= Len(s) + 1 /\ \A k \in 1..Len(s) : s[k] \in S
    OBVIOUS
  <1>2. left \in Seq(S) /\ Len(left) = i - 1 /\ \A k \in 1..(i - 1) : left[k] = s[k]
    <2>1. \A k \in 1..(i - 1) : s[k] \in S
      BY <1>1
    <2>2. 1 \in Int /\ i - 1 \in Int
      BY <1>1
    <2>3. /\ left \in Seq(S) /\ Len(left) = (IF 1 <= i - 1 THEN (i - 1) - 1 + 1 ELSE 0)
          /\ \A k \in 1..((i - 1) - 1 + 1) : left[k] = s[1 + k - 1]
      BY <2>1, <2>2, SubSeqProperties
    <2> QED
      BY <1>1, <2>3
  <1>3. /\ right \in Seq(S) /\ Len(right) = Len(s) - i + 1
        /\ \A k \in 1..(Len(s) - i + 1) : right[k] = s[i + k - 1]
    <2>1. \A k \in i..Len(s) : s[k] \in S
      BY <1>1
    <2>2. i \in Int /\ Len(s) \in Int
      BY <1>1
    <2>3. /\ right \in Seq(S)
          /\ Len(right) = (IF i <= Len(s) THEN Len(s) - i + 1 ELSE 0)
          /\ \A k \in 1..(Len(s) - i + 1) : right[k] = s[i + k - 1]
      BY <2>1, <2>2, SubSeqProperties
    <2> QED
      BY <1>1, <2>3
  <1>4. InsertAt(s, i, e) = front \o right
    BY DEF InsertAt
  <1> HIDE DEF left, right
  <1>5. /\ front \in Seq(S) /\ Len(front) = i
        /\ \A k \in 1..i : front[k] = IF k < i THEN left[k] ELSE e
    <2>1. <<e>> \in Seq(S) /\ Len(<<e>>) = 1 /\ <<e>>[1] = e
      OBVIOUS
    <2>2. /\ front \in Seq(S) /\ Len(front) = Len(left) + 1
          /\ \A k \in 1..(Len(left) + 1) :
                front[k] = IF k <= Len(left) THEN left[k] ELSE <<e>>[k - Len(left)]
      BY <1>2, <2>1, ConcatProperties
    <2>3. \A k \in 1..i : ~(k < i) => k - Len(left) = 1
      BY <1>1, <1>2
    <2> QED
      BY <1>1, <1>2, <2>1, <2>2, <2>3
  <1> HIDE DEF front
  <1>6. /\ front \o right \in Seq(S) /\ Len(front \o right) = Len(front) + Len(right)
        /\ \A k \in 1..(Len(front) + Len(right)) :
              (front \o right)[k] = IF k <= Len(front) THEN front[k] ELSE right[k - Len(front)]
    BY <1>3, <1>5, ConcatProperties
  <1>7. Len(front) + Len(right) = Len(s) + 1
    BY <1>1, <1>3, <1>5
  <1>8. ASSUME NEW k \in 1..(Len(s) + 1)
        PROVE  InsertAt(s, i, e)[k] = WithInserted(s, i, e, k)
    <2>1. CASE k <= i
      <3>1. k \in 1..i /\ (k < i => k \in 1..(i - 1))
        BY <1>1, <2>1
      <3> QED
        <4>1. InsertAt(s, i, e)[k] = front[k]
          BY <1>4, <1>5, <1>6, <1>7, <2>1
        <4>2. front[k] = IF k < i THEN left[k] ELSE e
          BY <1>5, <3>1
        <4>3. k < i => left[k] = s[k]
          BY <1>2, <3>1
        <4>4. ~(k < i) => k = i
          BY <1>1, <2>1
        <4> QED
          BY ONLY <4>1, <4>2, <4>3, <4>4 DEF WithInserted
    <2>2. CASE ~(k <= i)
      <3>1. /\ ~(k <= Len(front)) /\ k - Len(front) \in 1..(Len(s) - i + 1)
            /\ i + (k - Len(front)) - 1 = k - 1
        BY <1>1, <1>5, <2>2
      <3> QED
        <4>1. InsertAt(s, i, e)[k] = right[k - Len(front)]
          BY <1>4, <1>6, <1>7, <3>1
        <4>2. right[k - Len(front)] = s[k - 1]
          BY <1>3, <3>1
        <4>3. ~(k < i) /\ k # i
          BY <1>1, <2>2
        <4> QED
          BY ONLY <4>1, <4>2, <4>3 DEF WithInserted
    <2> QED
      BY <2>1, <2>2
  <1> QED
    BY <1>4, <1>6, <1>7, <1>8

-----------------------------------------------------------------------------
(* The invoice builder. *)

Free(ls, rate) == \A i \in DOMAIN ls : ls[i].by = "default" => ls[i].rate = rate

\* What is on the screen: its lines, its default rate, its totals.
Composition ==
    /\ client \in Clients \cup {NoClient} /\ treated \subseteq Clients
    /\ lines \in Seq(Lines) /\ Len(lines) \in 1..MaxLines
    /\ applied = DefaultRate
    /\ Free(lines, DefaultRate)
    /\ LinesAreValid(lines) =>
         /\ asked # NoLines => asked = ToApiLines(lines, Category)
         /\ totals # NoLines => totals = ToApiLines(lines, Category)
    /\ totals # NoLines => asked = NoLines

Items == [line : 1..MaxLines, rate : Rates]
Creations == [line : 1..MaxLines, rate : Rates, category : {"S", "AE"}, default : Rates]

OverlayTyped ==
    /\ newItem \in Items \cup {None} /\ creating \in Creations \cup {None}
    /\ creating # None => newItem # None

Requests == [client : Clients, lines : Seq(Lines), category : {"S", "AE"}, edition : Nat,
             press : Nat]
StoredDrafts == [client : Clients, lines : Seq(Lines), category : {"S", "AE"}, edition : Nat,
           press : Nat, lost : BOOLEAN]

\* One save at a time, of the composition on the screen, of which no draft is
\* stored but those whose answer was lost.
DraftsTell ==
    /\ edition \in Nat /\ saving \subseteq Requests /\ drafts \in Seq(StoredDrafts)
    /\ \A r \in saving : r.edition = edition /\ LinesAreValid(r.lines)
    /\ \A r, s \in saving : r = s
    /\ \A i \in DOMAIN drafts :
          /\ LinesAreValid(drafts[i].lines)
          /\ drafts[i].edition <= edition
          /\ drafts[i].edition = edition => drafts[i].lost

BuilderInv ==
    /\ Composition /\ OverlayTyped /\ DraftsTell /\ OneDraftPerComposition
    /\ served \in BOOLEAN /\ clicks \in 0..MaxClicks /\ faults \in 0..MaxFaults

LEMMA RateTypes ==
  /\ FallbackRate \in Rates /\ EmptyLine \in Lines
  /\ \A n \in {0, 6, 21} : Listed(n) \in Rates /\ Column(n) \in Rates
  /\ \A r \in Rates : r.n \in {0, 6, 21}
  /\ \A cl, tr : DefaultOf(cl, tr) \in Rates /\ CategoryOf(cl, tr) \in {"S", "AE"}
  <1>1. \A n \in {0, 6, 21} : Listed(n) \in Rates /\ Column(n) \in Rates
    BY DEF Rates
  <1>2. \A r \in Rates : r.n \in {0, 6, 21}
    BY DEF Rates, Listed, Column
  <1>3. FallbackRate \in Rates
    BY <1>1 DEF FallbackRate
  <1>4. EmptyLine \in Lines
    BY <1>3 DEF EmptyLine, Lines
  <1>5. \A cl, tr : DefaultOf(cl, tr) \in Rates /\ CategoryOf(cl, tr) \in {"S", "AE"}
    BY <1>1, <1>3 DEF DefaultOf, CategoryOf
  <1> QED
    BY <1>1, <1>2, <1>3, <1>4, <1>5

LEMMA BuilderBase == BuilderInit => BuilderInv
  <1> SUFFICES ASSUME BuilderInit PROVE BuilderInv
    OBVIOUS
  <1>1. lines = <<EmptyLine>> /\ EmptyLine \in Lines /\ EmptyLine.rate = FallbackRate
        /\ MaxLines \in Nat \ {0}
    BY RateTypes, BuilderAssumption DEF BuilderInit, EmptyLine
  <1>2. lines \in Seq(Lines) /\ Len(lines) = 1 /\ DOMAIN lines = {1} /\ lines[1] = EmptyLine
    BY <1>1
  <1>3. Len(lines) \in 1..MaxLines
    BY <1>1, <1>2
  <1>4. DefaultRate = FallbackRate
    BY DEF BuilderInit, DefaultRate, DefaultOf, CategoryOf
  <1>5. Free(lines, DefaultRate)
    BY <1>1, <1>2, <1>4 DEF Free
  <1>6. Composition
    BY <1>2, <1>3, <1>4, <1>5 DEF BuilderInit, Composition
  <1>7. OverlayTyped
    BY DEF BuilderInit, OverlayTyped
  <1>8. DraftsTell /\ OneDraftPerComposition
    BY DEF BuilderInit, DraftsTell, OneDraftPerComposition
  <1>9. served \in BOOLEAN
    BY DEF BuilderInit
  <1>10. clicks \in 0..MaxClicks /\ faults \in 0..MaxFaults
    <2>1. clicks = 0 /\ faults = 0
      BY DEF BuilderInit
    <2>2. MaxClicks \in Nat /\ MaxFaults \in Nat
      BY BuilderAssumption
    <2> QED
      BY ONLY <2>1, <2>2
  <1> QED
    BY <1>6, <1>7, <1>8, <1>9, <1>10 DEF BuilderInv

LEMMA BuilderHolds ==
  BuilderInv => BuilderTypeOK /\ TotalsMatchLines /\ FreeLinesFollowTreatment
                /\ OneDraftPerComposition
  <1> SUFFICES ASSUME BuilderInv
               PROVE  BuilderTypeOK /\ TotalsMatchLines /\ FreeLinesFollowTreatment
    BY DEF BuilderInv
  <1>1. TotalsMatchLines /\ FreeLinesFollowTreatment
    BY DEF BuilderInv, Composition, TotalsMatchLines, FreeLinesFollowTreatment, Free
  <1>2. applied \in Rates
    BY RateTypes DEF BuilderInv, Composition, DefaultRate
  <1>3. newItem # None => newItem.line \in 1..MaxLines /\ newItem.rate \in Rates
    BY DEF BuilderInv, OverlayTyped, Items
  <1>4. \A d \in Range(drafts) : d.client \in Clients /\ LinesAreValid(d.lines)
    <2>1. \A i \in DOMAIN drafts : drafts[i] \in StoredDrafts
      BY DEF BuilderInv, DraftsTell
    <2> QED
      BY <2>1 DEF BuilderInv, DraftsTell, StoredDrafts, Range
  <1> QED
    BY <1>1, <1>2, <1>3, <1>4 DEF BuilderInv, Composition, OverlayTyped, DraftsTell, BuilderTypeOK

\* The effects: lines on the old default move, a changed valid draft is previewed.
LEMMA RenderKeeps ==
  ASSUME Composition, NEW cl \in Clients \cup {NoClient}, NEW tr \in SUBSET Clients,
         NEW ls \in Seq(Lines), Len(ls) \in 1..MaxLines,
         Free(ls, applied) \/ Free(ls, DefaultOf(cl, tr)),
         Render(cl, ls, tr)
  PROVE  Composition'
  <1> DEFINE default == DefaultOf(cl, tr)
             now == Moved(ls, applied, default)
             cat == CategoryOf(cl, tr)
  <1>1. /\ client' = cl /\ treated' = tr /\ lines' = now /\ applied' = default
        /\ IF LinesAreValid(now) /\ PreviewDeps(now, cat) # PreviewDeps(lines, Category)
           THEN asked' = ToApiLines(now, cat) /\ totals' = NoLines
           ELSE UNCHANGED <<asked, totals>>
    BY DEF Render
  <1>2. default \in Rates /\ DefaultRate' = default /\ Category' = cat
    BY <1>1, RateTypes DEF DefaultRate, Category
  <1> HIDE DEF default, cat
  <1>3. DOMAIN now = DOMAIN ls /\ \A i \in DOMAIN ls :
          now[i] = IF ls[i].rate = applied THEN [ls[i] EXCEPT !.rate = default] ELSE ls[i]
    BY DEF Moved
  <1>4. Len(ls) \in Nat /\ DOMAIN ls = 1..Len(ls) /\ \A i \in DOMAIN ls : ls[i] \in Lines
    OBVIOUS
  <1>5. \A l \in Lines : [l EXCEPT !.rate = default] \in Lines
          /\ [l EXCEPT !.rate = default].rate = default /\ [l EXCEPT !.rate = default].by = l.by
    BY <1>2 DEF Lines
  <1>6. now \in [1..Len(ls) -> Lines]
    BY <1>3, <1>4, <1>5 DEF Moved
  <1>7. now \in Seq(Lines) /\ Len(now) = Len(ls)
    BY <1>4, <1>6
  <1>8. Free(now, default)
    <2> SUFFICES ASSUME NEW i \in DOMAIN ls, now[i].by = "default"
                 PROVE  now[i].rate = default
      BY <1>3 DEF Free
    <2>1. ls[i].by = "default"
      BY <1>3, <1>4, <1>5
    <2>2. ls[i].rate = applied \/ ls[i].rate = default
      BY <2>1 DEF Free, default
    <2>3. CASE ls[i].rate = applied
      BY <1>3, <1>4, <1>5, <2>3
    <2>4. CASE ls[i].rate # applied
      BY <1>3, <2>2, <2>4
    <2> QED
      BY <2>3, <2>4
  <1> HIDE DEF now
  <1>9. LinesAreValid(now) => \/ asked' = ToApiLines(now, cat) /\ totals' = NoLines
                              \/ now = lines /\ cat = Category /\ UNCHANGED <<asked, totals>>
    BY <1>1 DEF PreviewDeps
  <1>10. totals' # NoLines => asked' = NoLines
    BY <1>1 DEF Composition
  <1>11. LinesAreValid(now) =>
           /\ asked' # NoLines => asked' = ToApiLines(now, cat)
           /\ totals' # NoLines => totals' = ToApiLines(now, cat)
    BY <1>9 DEF Composition
  <1>12. ToApiLines(lines, Category)' = ToApiLines(now, cat) /\ (LinesAreValid(lines)' <=> LinesAreValid(now))
         /\ (Free(lines, DefaultRate)' <=> Free(now, default))
    BY <1>1, <1>2 DEF ToApiLines, LinesAreValid, Free
  <1> QED
    BY <1>1, <1>2, <1>7, <1>8, <1>10, <1>11, <1>12 DEF Composition

\* The user's edits of the lines and the product the overlay fills in.
LEMMA EditsTyped ==
  ASSUME Composition, served \in BOOLEAN, NEW i \in Nat
  PROVE  /\ \A line \in Lines : line.by # "default" =>
              LET ls == SetLine(lines, i, line)
              IN  ls \in Seq(Lines) /\ Len(ls) = Len(lines) /\ Free(ls, applied)
         /\ \A line \in Lines : line.rate = applied =>
              LET ls == Append(lines, line)
              IN  ls \in Seq(Lines) /\ Len(ls) = Len(lines) + 1 /\ Free(ls, applied)
         /\ i \in DOMAIN lines /\ Len(lines) > 1 =>
              LET ls == RemoveAt(lines, i)
              IN  ls \in Seq(Lines) /\ Len(ls) = Len(lines) - 1 /\ Free(ls, applied)
         /\ i \in DOMAIN lines => \A v \in BOOLEAN :
              /\ LET ls == [lines EXCEPT ![i].valid = v]
                 IN  ls \in Seq(Lines) /\ Len(ls) = Len(lines) /\ Free(ls, applied)
              /\ LET ls == [lines EXCEPT ![i].product = v]
                 IN  ls \in Seq(Lines) /\ Len(ls) = Len(lines) /\ Free(ls, applied)
         /\ i \in DOMAIN lines => \A r \in Rates :
              LET ls == [lines EXCEPT ![i].rate = r, ![i].by = "user"]
              IN  ls \in Seq(Lines) /\ Len(ls) = Len(lines) /\ Free(ls, applied)
  <1>1. /\ lines \in Seq(Lines) /\ Free(lines, applied) /\ Len(lines) \in Nat
        /\ DOMAIN lines = 1..Len(lines) /\ \A k \in DOMAIN lines : lines[k] \in Lines
    BY DEF Composition
  <1>2. ASSUME NEW ls, DOMAIN ls = DOMAIN lines,
               \A k \in DOMAIN lines : ls[k] \in Lines,
               ls = [k \in DOMAIN ls |-> ls[k]],
               \A k \in DOMAIN lines : k # i => ls[k] = lines[k],
               i \in DOMAIN lines => ls[i].by # "default" \/ (ls[i].by = lines[i].by /\ ls[i].rate = lines[i].rate)
        PROVE  ls \in Seq(Lines) /\ Len(ls) = Len(lines) /\ Free(ls, applied)
    <2>1. ls \in [1..Len(lines) -> Lines]
      BY <1>1, <1>2
    <2>2. ls \in Seq(Lines) /\ Len(ls) = Len(lines)
      BY <1>1, <2>1
    <2>3. Free(ls, applied)
      BY <1>1, <1>2 DEF Free
    <2> QED
      BY <2>2, <2>3
  <1>3. ASSUME NEW line \in Lines, line.by # "default"
        PROVE  LET ls == SetLine(lines, i, line)
               IN  ls \in Seq(Lines) /\ Len(ls) = Len(lines) /\ Free(ls, applied)
    <2>1. CASE i \in DOMAIN lines
      <3> DEFINE ls == [lines EXCEPT ![i] = line]
      <3>1. SetLine(lines, i, line) = ls
        BY <2>1 DEF SetLine
      <3>2. /\ DOMAIN ls = DOMAIN lines /\ ls = [k \in DOMAIN ls |-> ls[k]]
            /\ \A k \in DOMAIN lines : ls[k] \in Lines /\ (k # i => ls[k] = lines[k])
            /\ ls[i].by # "default"
        BY <1>1, <1>3, <2>1
      <3> HIDE DEF ls
      <3> QED
        BY <1>2, <3>1, <3>2
    <2>2. CASE i \notin DOMAIN lines
      BY <1>1, <2>2 DEF SetLine
    <2> QED
      BY <2>1, <2>2
  <1>4. ASSUME NEW line \in Lines, line.rate = applied
        PROVE  LET ls == Append(lines, line)
               IN  ls \in Seq(Lines) /\ Len(ls) = Len(lines) + 1 /\ Free(ls, applied)
    <2> DEFINE ls == Append(lines, line)
    <2>1. ls \in Seq(Lines) /\ Len(ls) = Len(lines) + 1
      BY <1>1
    <2>2. \A k \in DOMAIN ls : (k \in DOMAIN lines /\ ls[k] = lines[k]) \/ ls[k] = line
      BY <1>1
    <2> HIDE DEF ls
    <2>3. Free(ls, applied)
      BY <1>1, <1>4, <2>2 DEF Free
    <2> QED
      BY <2>1, <2>3 DEF ls
  <1>5. ASSUME i \in DOMAIN lines, Len(lines) > 1
        PROVE  LET ls == RemoveAt(lines, i)
               IN  ls \in Seq(Lines) /\ Len(ls) = Len(lines) - 1 /\ Free(ls, applied)
    <2> DEFINE ls == RemoveAt(lines, i)
    <2>1. /\ ls \in Seq(Lines) /\ Len(ls) = Len(lines) - 1
          /\ \A k \in 1..(Len(lines) - 1) : ls[k] = IF k < i THEN lines[k] ELSE lines[k + 1]
      <3>1. i \in 1..Len(lines) /\ lines \in Seq(Lines)
        BY <1>1, <1>5
      <3> QED
        BY ONLY <3>1, RemovedAt
    <2> HIDE DEF ls
    <2>2. \A k \in DOMAIN ls : \E m \in DOMAIN lines : ls[k] = lines[m]
      BY <1>1, <1>5, <2>1
    <2>3. Free(ls, applied)
      BY <1>1, <2>2 DEF Free
    <2> QED
      BY <2>1, <2>3 DEF ls
  <1>6. ASSUME i \in DOMAIN lines, NEW v \in BOOLEAN
        PROVE  /\ LET ls == [lines EXCEPT ![i].valid = v]
                  IN  ls \in Seq(Lines) /\ Len(ls) = Len(lines) /\ Free(ls, applied)
               /\ LET ls == [lines EXCEPT ![i].product = v]
                  IN  ls \in Seq(Lines) /\ Len(ls) = Len(lines) /\ Free(ls, applied)
    <2>0. /\ [lines[i] EXCEPT !.valid = v] \in Lines /\ [lines[i] EXCEPT !.product = v] \in Lines
          /\ [lines[i] EXCEPT !.valid = v].by = lines[i].by /\ [lines[i] EXCEPT !.product = v].by = lines[i].by
          /\ [lines[i] EXCEPT !.valid = v].rate = lines[i].rate /\ [lines[i] EXCEPT !.product = v].rate = lines[i].rate
      BY <1>1, <1>6 DEF Lines
    <2> DEFINE ls == [lines EXCEPT ![i].valid = v]
               ms == [lines EXCEPT ![i].product = v]
    <2>1. /\ DOMAIN ls = DOMAIN lines /\ ls = [k \in DOMAIN ls |-> ls[k]]
          /\ \A k \in DOMAIN lines : ls[k] \in Lines /\ (k # i => ls[k] = lines[k])
          /\ ls[i].by = lines[i].by /\ ls[i].rate = lines[i].rate
      BY <1>1, <1>6, <2>0
    <2>2. /\ DOMAIN ms = DOMAIN lines /\ ms = [k \in DOMAIN ms |-> ms[k]]
          /\ \A k \in DOMAIN lines : ms[k] \in Lines /\ (k # i => ms[k] = lines[k])
          /\ ms[i].by = lines[i].by /\ ms[i].rate = lines[i].rate
      BY <1>1, <1>6, <2>0
    <2> HIDE DEF ls, ms
    <2>3. ls \in Seq(Lines) /\ Len(ls) = Len(lines) /\ Free(ls, applied)
      BY <1>2, <2>1
    <2>4. ms \in Seq(Lines) /\ Len(ms) = Len(lines) /\ Free(ms, applied)
      BY <1>2, <2>2
    <2> QED
      BY <2>3, <2>4 DEF ls, ms
  <1>7. ASSUME i \in DOMAIN lines, NEW r \in Rates
        PROVE  LET ls == [lines EXCEPT ![i].rate = r, ![i].by = "user"]
               IN  ls \in Seq(Lines) /\ Len(ls) = Len(lines) /\ Free(ls, applied)
    <2> DEFINE ls == [lines EXCEPT ![i].rate = r, ![i].by = "user"]
    <2>1. [lines[i] EXCEPT !.rate = r, !.by = "user"] \in Lines
      BY <1>1, <1>7 DEF Lines
    <2>2. [lines[i] EXCEPT !.rate = r, !.by = "user"].by = "user"
      BY <1>1, <1>7 DEF Lines
    <2>3. ls[i] = [lines[i] EXCEPT !.rate = r, !.by = "user"]
      BY <1>1, <1>7
    <2>4. /\ DOMAIN ls = DOMAIN lines /\ ls = [k \in DOMAIN ls |-> ls[k]]
          /\ \A k \in DOMAIN lines : k # i => ls[k] = lines[k]
      BY <1>1, <1>7
    <2> HIDE DEF ls
    <2>5. ls \in Seq(Lines) /\ Len(ls) = Len(lines) /\ Free(ls, applied)
      BY <1>1, <1>2, <1>7, <2>1, <2>2, <2>3, <2>4
    <2> QED
      BY <2>5 DEF ls
  <1> QED
    BY <1>3, <1>4, <1>5, <1>6, <1>7

LEMMA DraftsKept ==
  ASSUME DraftsTell, OneDraftPerComposition, UNCHANGED <<drafts, edition>>,
         saving' \subseteq saving
  PROVE  DraftsTell' /\ OneDraftPerComposition'
  BY DEF DraftsTell, OneDraftPerComposition

LEMMA CompositionKept ==
  ASSUME Composition, UNCHANGED <<client, lines, treated, applied, asked, totals>>
  PROVE  Composition'
  BY DEF Composition, DefaultRate, Category

\* An event whose render leaves the overlay and the requests alone
LEMMA Rendered ==
  ASSUME BuilderInv, Composition', UNCHANGED <<newItem, creating, saving, drafts, edition>>,
         served' \in BOOLEAN, (Click /\ UNCHANGED faults) \/ UNCHANGED <<clicks, faults>>
  PROVE  BuilderInv'
  <1>1. OverlayTyped'
    BY DEF BuilderInv, OverlayTyped
  <1>2. DraftsTell' /\ OneDraftPerComposition'
    BY DraftsKept DEF BuilderInv
  <1>3. clicks' \in 0..MaxClicks /\ faults' \in 0..MaxFaults
    <2>1. MaxClicks \in Nat /\ MaxFaults \in Nat
      BY BuilderAssumption
    <2> QED
      BY <2>1 DEF BuilderInv, Click
  <1> QED
    BY <1>1, <1>2, <1>3 DEF BuilderInv

\* The answer to a save: one draft more, of the composition it was sent for.
LEMMA DraftStored ==
  ASSUME DraftsTell, OneDraftPerComposition, NEW r \in saving, NEW lost \in BOOLEAN,
         saving' = saving \ {r}, drafts' = Append(drafts, Draft(r, lost)),
         edition' = IF lost THEN edition ELSE edition + 1
  PROVE  DraftsTell' /\ OneDraftPerComposition'
  <1> DEFINE d == Draft(r, lost)
  <1>1. r \in Requests /\ r.edition = edition /\ LinesAreValid(r.lines) /\ edition \in Nat
    BY DEF DraftsTell
  <1>2. d \in StoredDrafts /\ d.edition = edition /\ (d.lost <=> lost) /\ d.lines = r.lines
    BY <1>1 DEF Draft, StoredDrafts, Requests
  <1> HIDE DEF d
  <1>3. saving' = {}
    BY DEF DraftsTell
  <1>4. edition' \in Nat /\ edition <= edition'
    BY <1>1
  <1>5. drafts \in Seq(StoredDrafts) /\ Len(drafts) \in Nat /\ DOMAIN drafts = 1..Len(drafts)
        /\ \A i \in DOMAIN drafts : drafts[i] \in StoredDrafts
    BY DEF DraftsTell
  <1>6. drafts' = Append(drafts, d)
    BY DEF d
  <1>7. drafts' \in Seq(StoredDrafts) /\ Len(drafts') = Len(drafts) + 1 /\ DOMAIN drafts' = 1..(Len(drafts) + 1)
    BY <1>2, <1>5, <1>6
  <1>8. \A i \in DOMAIN drafts' : \/ i \in DOMAIN drafts /\ drafts'[i] = drafts[i]
                                  \/ i = Len(drafts) + 1 /\ drafts'[i] = d
    BY <1>5, <1>6, <1>7
  <1>9. ASSUME NEW i \in DOMAIN drafts'
        PROVE  /\ LinesAreValid(drafts'[i].lines) /\ drafts'[i].edition <= edition'
               /\ drafts'[i].edition = edition' => drafts'[i].lost
    <2>1. CASE i \in DOMAIN drafts /\ drafts'[i] = drafts[i]
      <3>1. drafts[i].edition \in Nat /\ drafts[i].edition <= edition
            /\ (drafts[i].edition = edition => drafts[i].lost) /\ LinesAreValid(drafts[i].lines)
        BY <1>5, <2>1 DEF DraftsTell, StoredDrafts
      <3> QED
        BY <1>1, <1>4, <2>1, <3>1
    <2>2. CASE drafts'[i] = d
      BY <1>1, <1>2, <1>4, <2>2
    <2> QED
      BY <1>8, <2>1, <2>2
  <1>10. DraftsTell'
    BY <1>3, <1>4, <1>7, <1>9 DEF DraftsTell
  <1>11. ASSUME NEW i \in DOMAIN drafts', NEW j \in DOMAIN drafts', i < j,
                drafts'[i].edition = drafts'[j].edition
         PROVE  drafts'[i].lost
    <2>1. i \in DOMAIN drafts /\ drafts'[i] = drafts[i]
      BY <1>5, <1>7, <1>8, <1>11
    <2>2. CASE j \in DOMAIN drafts /\ drafts'[j] = drafts[j]
      BY <1>11, <2>1, <2>2 DEF OneDraftPerComposition
    <2>3. CASE drafts'[j] = d
      BY <1>2, <1>11, <2>1, <2>3 DEF DraftsTell
    <2> QED
      BY <1>8, <2>2, <2>3
  <1> QED
    BY <1>10, <1>11 DEF OneDraftPerComposition

\* What fillFromProduct sets is a line, whichever rate it takes.
LEMMA Filled ==
  ASSUME Composition, served \in BOOLEAN, NEW i \in Nat, NEW rate \in Rates,
         NEW cat, NEW default \in Rates
  PROVE  LET ls == FillFromProduct(lines, i, rate, cat, default)
         IN  ls \in Seq(Lines) /\ Len(ls) = Len(lines) /\ Free(ls, applied)
  <1>1. ServedSpelling(rate) \in Rates
    BY RateTypes DEF ServedSpelling
  <1>2. PICK r \in Rates : r = IF cat = "S" THEN ServedSpelling(rate) ELSE default
    BY <1>1
  <1> DEFINE line == [valid |-> TRUE, product |-> TRUE, by |-> "product", rate |-> r]
  <1>3. line \in Lines /\ line.by # "default"
    BY DEF Lines
  <1>4. FillFromProduct(lines, i, rate, cat, default) = SetLine(lines, i, line)
    BY <1>2 DEF FillFromProduct
  <1> HIDE DEF line
  <1> QED
    BY <1>3, <1>4, EditsTyped

LEMMA BuilderStep == BuilderInv /\ [BuilderNext]_builderVars => BuilderInv'
  <1> SUFFICES ASSUME BuilderInv, [BuilderNext]_builderVars PROVE BuilderInv'
    OBVIOUS
  <1>1. /\ Composition /\ OverlayTyped /\ DraftsTell /\ OneDraftPerComposition
        /\ served \in BOOLEAN /\ clicks \in 0..MaxClicks /\ faults \in 0..MaxFaults
    BY DEF BuilderInv
  <1>2. MaxClicks \in Nat /\ MaxFaults \in Nat /\ MaxLines \in Nat \ {0}
    BY BuilderAssumption
  <1>3. /\ client \in Clients \cup {NoClient} /\ treated \in SUBSET Clients
        /\ lines \in Seq(Lines) /\ Len(lines) \in 1..MaxLines /\ applied = DefaultRate
        /\ Free(lines, applied) /\ DOMAIN lines = 1..Len(lines)
        /\ \A i \in DOMAIN lines : i \in Nat /\ lines[i] \in Lines
    BY <1>1, <1>2 DEF Composition
  <1>4. DefaultRate \in Rates /\ Category \in {"S", "AE"}
    BY RateTypes DEF DefaultRate, Category
  \* Any render of lines the screen may hold keeps the invariant.
  <1>5. ASSUME NEW ls \in Seq(Lines), Len(ls) \in 1..MaxLines, Free(ls, applied),
               Render(client, ls, treated), UNCHANGED <<served, Overlay, Server, faults>>, Click
        PROVE  BuilderInv'
    <2>1. PICK cl \in Clients \cup {NoClient}, tr \in SUBSET Clients : cl = client /\ tr = treated
      BY <1>3
    <2>2. Composition'
      BY <1>1, <1>5, <2>1, RenderKeeps
    <2> QED
      BY <1>1, <1>5, <2>2, Rendered DEF Overlay, Server
  <1>6. ASSUME NEW c \in Clients \cup {NoClient}, PickClient(c)
        PROVE  BuilderInv'
    <2>1. PICK ls \in Seq(Lines), tr \in SUBSET Clients : ls = lines /\ tr = treated
      BY <1>3
    <2>2. Composition'
      BY <1>1, <1>3, <1>6, <2>1, RenderKeeps DEF PickClient
    <2> QED
      BY <1>1, <1>6, <2>2, Rendered DEF PickClient, Overlay, Server
  <1>7. ASSUME NEW i \in DOMAIN lines, TypeLine(i)
        PROVE  BuilderInv'
    <2>1. PICK v \in BOOLEAN : v = ~lines[i].valid
      BY <1>3 DEF Lines
    <2>2. PICK ls \in Seq(Lines) : ls = [lines EXCEPT ![i].valid = v] /\ Len(ls) = Len(lines) /\ Free(ls, applied)
      BY <1>1, <1>3, EditsTyped
    <2>3. Render(client, ls, treated)
      BY <1>7, <2>1, <2>2 DEF TypeLine
    <2> QED
      BY <1>3, <1>5, <1>7, <2>2, <2>3 DEF TypeLine
  <1>8. ASSUME NEW i \in DOMAIN lines, NEW n \in {0, 6, 21}, ChooseRate(i, n)
        PROVE  BuilderInv'
    <2>1. Listed(n) \in Rates
      BY RateTypes
    <2>2. PICK ls \in Seq(Lines) : ls = [lines EXCEPT ![i].rate = Listed(n), ![i].by = "user"]
                                 /\ Len(ls) = Len(lines) /\ Free(ls, applied)
      BY <1>1, <1>3, <2>1, EditsTyped
    <2> QED
      BY <1>3, <1>5, <1>8, <2>2 DEF ChooseRate
  <1>9. CASE AddLine
    <2>1. [EmptyLine EXCEPT !.rate = DefaultRate] \in Lines
          /\ [EmptyLine EXCEPT !.rate = DefaultRate].rate = applied
      BY <1>3, <1>4, RateTypes DEF EmptyLine, Lines
    <2>2. PICK line \in Lines : line = [EmptyLine EXCEPT !.rate = DefaultRate] /\ line.rate = applied
      BY <2>1
    <2>3. PICK ls \in Seq(Lines) : ls = Append(lines, line) /\ Len(ls) = Len(lines) + 1 /\ Free(ls, applied)
      BY <1>1, <2>2, EditsTyped
    <2>4. Len(ls) \in 1..MaxLines
      BY <1>2, <1>3, <1>9, <2>3 DEF AddLine
    <2> QED
      BY <1>5, <1>9, <2>2, <2>3, <2>4 DEF AddLine
  <1>10. ASSUME NEW i \in DOMAIN lines, RemoveLine(i)
         PROVE  BuilderInv'
    <2>1. PICK ls \in Seq(Lines) : ls = RemoveAt(lines, i) /\ Len(ls) = Len(lines) - 1 /\ Free(ls, applied)
      BY <1>1, <1>3, <1>10, EditsTyped DEF RemoveLine
    <2>2. Len(ls) \in 1..MaxLines
      BY <1>2, <1>3, <1>10, <2>1 DEF RemoveLine
    <2> QED
      BY <1>5, <1>10, <2>1, <2>2 DEF RemoveLine
  <1>11. ASSUME NEW i \in DOMAIN lines, NEW n \in {6, 21}, PickProduct(i, n)
         PROVE  BuilderInv'
    <2>1. Column(n) \in Rates
      BY RateTypes
    <2>2. PICK cat \in {"S", "AE"}, default \in Rates : cat = Category /\ default = DefaultRate
      BY <1>4
    <2>3. PICK ls \in Seq(Lines) : ls = FillFromProduct(lines, i, Column(n), cat, default)
                                 /\ Len(ls) = Len(lines) /\ Free(ls, applied)
      BY <1>1, <1>3, <2>1, Filled
    <2> QED
      BY <1>3, <1>5, <1>11, <2>2, <2>3 DEF PickProduct
  <1>12. ASSUME NEW i \in DOMAIN lines, PickFreeText(i)
         PROVE  BuilderInv'
    <2>1. PICK ls \in Seq(Lines) : ls = [lines EXCEPT ![i].product = FALSE]
                                 /\ Len(ls) = Len(lines) /\ Free(ls, applied)
      BY <1>1, <1>3, EditsTyped
    <2> QED
      BY <1>3, <1>5, <1>12, <2>1 DEF PickFreeText
  <1>13. ASSUME NEW i \in DOMAIN lines, OpenNewItem(i)
         PROVE  BuilderInv'
    <2>1. Composition'
      BY <1>1, <1>13, CompositionKept DEF OpenNewItem
    <2>2. lines[i].rate \in Rates
      BY <1>3 DEF Lines
    <2>3. ServedSpelling(lines[i].rate) \in Rates
      BY <2>2, RateTypes DEF ServedSpelling
    <2>4. i \in 1..MaxLines
      BY <1>2, <1>3
    <2>5. newItem' \in Items
      BY <1>13, <2>3, <2>4 DEF OpenNewItem, Items
    <2>6. newItem' # None
      BY <1>13 DEF OpenNewItem, None
    <2>7. OverlayTyped'
      BY <1>1, <1>13, <2>5, <2>6 DEF OpenNewItem, OverlayTyped
    <2>8. DraftsTell' /\ OneDraftPerComposition'
      BY <1>1, <1>13, DraftsKept DEF OpenNewItem, Server
    <2>9. clicks' \in 0..MaxClicks /\ UNCHANGED <<faults, served>>
      BY <1>1, <1>2, <1>13 DEF OpenNewItem, Click
    <2> QED
      BY <1>1, <2>1, <2>7, <2>8, <2>9 DEF BuilderInv
  <1>14. CASE CloseNewItem
    <2>1. Composition'
      BY <1>1, <1>14, CompositionKept DEF CloseNewItem
    <2>2. OverlayTyped'
      BY <1>14 DEF CloseNewItem, OverlayTyped
    <2>3. DraftsTell' /\ OneDraftPerComposition'
      BY <1>1, <1>14, DraftsKept DEF CloseNewItem, Server
    <2>4. clicks' \in 0..MaxClicks /\ UNCHANGED <<faults, served>>
      BY <1>1, <1>2, <1>14 DEF CloseNewItem, Click
    <2> QED
      BY <1>1, <2>1, <2>2, <2>3, <2>4 DEF BuilderInv
  <1>15. CASE SubmitNewItem
    <2>1. Composition'
      BY <1>1, <1>15, CompositionKept DEF SubmitNewItem
    <2>2. newItem # None /\ newItem \in Items /\ newItem.line \in 1..MaxLines /\ newItem.rate \in Rates
      BY <1>1, <1>15 DEF SubmitNewItem, OverlayTyped, Items
    <2>3. Column(newItem.rate.n) \in Rates
      BY <2>2, RateTypes
    <2>4. creating' \in Creations
      BY <1>4, <1>15, <2>2, <2>3 DEF SubmitNewItem, Creations
    <2>5. OverlayTyped'
      BY <1>1, <1>15, <2>2, <2>4 DEF SubmitNewItem, OverlayTyped
    <2>6. DraftsTell' /\ OneDraftPerComposition'
      BY <1>1, <1>15, DraftsKept DEF SubmitNewItem, Server
    <2>7. clicks' \in 0..MaxClicks /\ UNCHANGED <<faults, served>>
      BY <1>1, <1>2, <1>15 DEF SubmitNewItem, Click
    <2> QED
      BY <1>1, <2>1, <2>5, <2>6, <2>7 DEF BuilderInv
  <1>16. CASE HandleCreate
    <2>1. Composition'
      BY <1>1, <1>16, CompositionKept DEF HandleCreate
    <2>2. OverlayTyped'
      BY <1>1, <1>16 DEF HandleCreate, Overlay, OverlayTyped
    <2> DEFINE r == [client |-> client, lines |-> lines, category |-> Category,
                     edition |-> edition, press |-> clicks]
    <2>3. saving' = {r}
      BY <1>16 DEF HandleCreate
    <2>4. client \in Clients /\ clicks \in Nat /\ edition \in Nat
      BY <1>1, <1>2, <1>3, <1>16 DEF HandleCreate, DraftsTell
    <2>5. r \in Requests /\ r.edition = edition /\ r.lines = lines
      BY <1>3, <1>4, <2>4 DEF Requests
    <2>6. LinesAreValid(r.lines)
      BY <1>16, <2>5 DEF HandleCreate
    <2> HIDE DEF r
    <2>7. UNCHANGED <<drafts, edition>>
      BY <1>16 DEF HandleCreate
    <2>8. DraftsTell'
      BY <1>1, <2>3, <2>5, <2>6, <2>7 DEF DraftsTell
    <2>9. OneDraftPerComposition'
      BY <1>1, <2>7 DEF OneDraftPerComposition
    <2>10. clicks' \in 0..MaxClicks /\ UNCHANGED <<faults, served>>
      BY <1>1, <1>2, <1>16 DEF HandleCreate, Click
    <2> QED
      BY <1>1, <2>1, <2>2, <2>8, <2>9, <2>10 DEF BuilderInv
  <1>17. CASE RatesServed
    <2>1. Composition'
      BY <1>1, <1>17, CompositionKept DEF RatesServed
    <2> QED
      BY <1>17, <2>1, Rendered DEF RatesServed, Overlay, Server
  <1>18. CASE TreatmentServed
    <2>1. PICK cl \in Clients \cup {NoClient}, ls \in Seq(Lines), tr \in SUBSET Clients :
            cl = client /\ ls = lines /\ tr = treated \cup {client}
      BY <1>3, <1>18 DEF TreatmentServed
    <2>2. Composition'
      BY <1>1, <1>3, <1>18, <2>1, RenderKeeps DEF TreatmentServed
    <2> QED
      BY <1>1, <1>18, <2>2, Rendered DEF TreatmentServed, Overlay, Server
  <1>19. CASE PreviewServed
    <2>1. Composition'
      <3>1. totals' = asked /\ asked' = NoLines /\ UNCHANGED <<client, lines, treated, applied>>
        BY <1>19 DEF PreviewServed
      <3> QED
        BY <1>1, <3>1 DEF Composition, DefaultRate, Category
    <2> QED
      BY <1>1, <1>19, <2>1, Rendered DEF PreviewServed, Overlay, Server
  <1>20. CASE PreviewFails
    <2>1. Composition'
      <3>1. asked' = NoLines /\ UNCHANGED <<client, lines, treated, applied, totals>>
        BY <1>20 DEF PreviewFails
      <3> QED
        BY <1>1, <3>1 DEF Composition, DefaultRate, Category
    <2>2. OverlayTyped' /\ UNCHANGED <<served, clicks>>
      BY <1>1, <1>20 DEF PreviewFails, Overlay, OverlayTyped
    <2>3. DraftsTell' /\ OneDraftPerComposition'
      BY <1>1, <1>20, DraftsKept DEF PreviewFails, Server
    <2>4. faults' \in 0..MaxFaults
      BY <1>1, <1>2, <1>20 DEF PreviewFails, Fault
    <2> QED
      BY <1>1, <2>1, <2>2, <2>3, <2>4 DEF BuilderInv
  <1>21. CASE ProductCreated
    <2>1. creating \in Creations
      BY <1>1, <1>21 DEF ProductCreated, OverlayTyped
    <2>2. PICK line \in Nat, rate \in Rates, cat \in {"S", "AE"}, default \in Rates :
            line = creating.line /\ rate = creating.rate /\ cat = creating.category
            /\ default = creating.default
      <3>1. creating.line \in Nat /\ creating.rate \in Rates /\ creating.category \in {"S", "AE"}
            /\ creating.default \in Rates
        BY <1>2, <2>1 DEF Creations
      <3> QED
        BY ONLY <3>1, Zenon
    <2>3. PICK ls \in Seq(Lines) : ls = FillFromProduct(lines, line, rate, cat, default)
                                 /\ Len(ls) = Len(lines) /\ Free(ls, applied)
      BY <1>1, Filled
    <2>4. PICK cl \in Clients \cup {NoClient}, tr \in SUBSET Clients : cl = client /\ tr = treated
      BY <1>3
    <2>5. Composition'
      BY <1>1, <1>3, <1>21, <2>2, <2>3, <2>4, RenderKeeps DEF ProductCreated
    <2>6. OverlayTyped' /\ UNCHANGED <<served, clicks, faults>>
      BY <1>21 DEF ProductCreated, OverlayTyped
    <2>7. DraftsTell' /\ OneDraftPerComposition'
      BY <1>1, <1>21, DraftsKept DEF ProductCreated, Server
    <2> QED
      BY <1>1, <2>5, <2>6, <2>7 DEF BuilderInv
  <1>22. CASE ProductRefused
    <2>1. Composition'
      BY <1>1, <1>22, CompositionKept DEF ProductRefused
    <2>2. OverlayTyped' /\ UNCHANGED <<served, clicks>>
      BY <1>1, <1>22 DEF ProductRefused, OverlayTyped
    <2>3. DraftsTell' /\ OneDraftPerComposition'
      BY <1>1, <1>22, DraftsKept DEF ProductRefused, Server
    <2>4. faults' \in 0..MaxFaults
      BY <1>1, <1>2, <1>22 DEF ProductRefused, Fault
    <2> QED
      BY <1>1, <2>1, <2>2, <2>3, <2>4 DEF BuilderInv
  <1>23. ASSUME NEW r \in saving, DraftCreated(r)
         PROVE  BuilderInv'
    <2>1. PICK tr \in SUBSET Clients, ls \in Seq(Lines) : tr = treated /\ ls = <<EmptyLine>>
      <3>1. <<EmptyLine>> \in Seq(Lines)
        BY RateTypes
      <3> QED
        BY <1>3, <3>1, Zenon
    <2>2. Len(ls) \in 1..MaxLines
      BY <1>2, <2>1
    <2>3. Free(ls, DefaultOf(NoClient, tr))
      <3>1. NoClient \notin Clients
        BY BuilderAssumption DEF NoClient
      <3>2. DefaultOf(NoClient, tr) = FallbackRate
        BY <3>1 DEF DefaultOf, CategoryOf
      <3>3. EmptyLine.rate = FallbackRate
        BY DEF EmptyLine
      <3> QED
        BY <2>1, <3>2, <3>3 DEF Free
    <2>4. NoClient \in Clients \cup {NoClient} /\ Render(NoClient, ls, tr)
      BY <1>23, <2>1 DEF DraftCreated
    <2>5. Composition'
      BY <1>1, <2>2, <2>3, <2>4, RenderKeeps
    <2>6. OverlayTyped' /\ UNCHANGED <<served, clicks, faults>>
      BY <1>1, <1>23 DEF DraftCreated, Overlay, OverlayTyped
    <2>7. DraftsTell' /\ OneDraftPerComposition'
      BY <1>1, <1>23, DraftStored DEF DraftCreated
    <2> QED
      BY <1>1, <2>5, <2>6, <2>7 DEF BuilderInv
  <1>24. ASSUME NEW r \in saving, DraftAnswerLost(r)
         PROVE  BuilderInv'
    <2>1. Composition'
      BY <1>1, <1>24, CompositionKept DEF DraftAnswerLost
    <2>2. OverlayTyped' /\ UNCHANGED <<served, clicks>>
      BY <1>1, <1>24 DEF DraftAnswerLost, Overlay, OverlayTyped
    <2>3. DraftsTell' /\ OneDraftPerComposition'
      BY <1>1, <1>24, DraftStored DEF DraftAnswerLost
    <2>4. faults' \in 0..MaxFaults
      BY <1>1, <1>2, <1>24 DEF DraftAnswerLost, Fault
    <2> QED
      BY <1>1, <2>1, <2>2, <2>3, <2>4 DEF BuilderInv
  <1>25. ASSUME NEW r \in saving, DraftRefused(r)
         PROVE  BuilderInv'
    <2>1. Composition'
      BY <1>1, <1>25, CompositionKept DEF DraftRefused
    <2>2. OverlayTyped' /\ UNCHANGED <<served, clicks>>
      BY <1>1, <1>25 DEF DraftRefused, Overlay, OverlayTyped
    <2>3. DraftsTell' /\ OneDraftPerComposition'
      <3>1. saving' \subseteq saving /\ UNCHANGED <<drafts, edition>>
        BY <1>25 DEF DraftRefused
      <3> QED
        BY <1>1, <3>1, DraftsKept
    <2>4. faults' \in 0..MaxFaults
      BY <1>1, <1>2, <1>25 DEF DraftRefused, Fault
    <2> QED
      BY <1>1, <2>1, <2>2, <2>3, <2>4 DEF BuilderInv
  <1>26. CASE UNCHANGED builderVars
    <2>1. Composition'
      BY <1>1, <1>26, CompositionKept DEF builderVars
    <2> QED
      BY <1>1, <1>26, <2>1, Rendered DEF builderVars
  <1> QED
    BY <1>6, <1>7, <1>8, <1>9, <1>10, <1>11, <1>12, <1>13, <1>14, <1>15, <1>16, <1>17, <1>18,
       <1>19, <1>20, <1>21, <1>22, <1>23, <1>24, <1>25, <1>26
       DEF BuilderNext, EditLine, Answers, Failures

-----------------------------------------------------------------------------
(* The invoice workspace. *)

Amounts == [n : Nat, plain : BOOLEAN]
ItemRecords == [key : Nat, named : BOOLEAN, quantity : Amounts, price : Amounts, rate : Nat,
                discount : Nat, product : Products \cup {NoProduct}]

\* Keys are handed out once; the drawer's copy is the line of its key.
WsInv ==
    /\ step \in Range(WorkspaceSteps) /\ customer \in {"none", "listed", "new"}
    /\ issueDate \in 0..MaxDate /\ dueDate \in 0..MaxDate
    /\ creatingCustomer \in BOOLEAN /\ delivering \in BOOLEAN
    /\ keys \in 0..MaxKeys /\ moves \in 0..MaxSteps
    /\ items \in Seq(ItemRecords)
    /\ \A i \in DOMAIN items : items[i].key \in 1..keys
    /\ \A i, j \in DOMAIN items : items[i].key = items[j].key => i = j
    /\ editing # 0 => \E i \in DOMAIN items : items[i].key = editing /\ items[i] = copy

LEMMA WsHolds == WsInv => WsTypeOK /\ DrawerShowsLine
  <1> SUFFICES ASSUME WsInv PROVE WsTypeOK /\ DrawerShowsLine
    OBVIOUS
  <1>1. DrawerShowsLine
    BY DEF WsInv, DrawerShowsLine
  <1>2. editing # 0 => editing \in {items[i].key : i \in DOMAIN items}
    BY DEF WsInv
  <1> QED
    BY <1>1, <1>2 DEF WsInv, WsTypeOK

LEMMA StepsNumbered ==
  /\ DOMAIN WorkspaceSteps = 1..4 /\ Range(WorkspaceSteps) = {"customer", "items", "details", "review"}
  /\ StepIndex("customer") = 1 /\ StepIndex("items") = 2 /\ StepIndex("details") = 3 /\ StepIndex("review") = 4
  /\ \A i \in 1..4 : WorkspaceSteps[i] \in Range(WorkspaceSteps)
  <1>1. DOMAIN WorkspaceSteps = 1..4
    BY DEF WorkspaceSteps
  <1>2. /\ WorkspaceSteps[1] = "customer" /\ WorkspaceSteps[2] = "items"
        /\ WorkspaceSteps[3] = "details" /\ WorkspaceSteps[4] = "review"
    BY DEF WorkspaceSteps
  <1>3. Range(WorkspaceSteps) = {"customer", "items", "details", "review"}
    BY <1>1, <1>2 DEF Range
  <1>4. StepIndex("customer") = 1 /\ StepIndex("items") = 2 /\ StepIndex("details") = 3 /\ StepIndex("review") = 4
    BY <1>1, <1>2 DEF StepIndex
  <1> QED
    BY <1>1, <1>2, <1>3, <1>4

LEMMA WsBase == WsInit => WsInv
  <1> SUFFICES ASSUME WsInit PROVE WsInv
    OBVIOUS
  <1>1. MaxDate \in Nat /\ MaxKeys \in Nat /\ MaxSteps \in Nat
    BY WorkspaceAssumption
  <1>2. step \in Range(WorkspaceSteps) /\ customer \in {"none", "listed", "new"}
    BY StepsNumbered DEF WsInit
  <1>3. issueDate \in 0..MaxDate /\ dueDate \in 0..MaxDate /\ keys \in 0..MaxKeys /\ moves \in 0..MaxSteps
    <2>1. issueDate = 0 /\ dueDate = 0 /\ keys = 0 /\ moves = 0
      BY DEF WsInit
    <2> QED
      BY ONLY <1>1, <2>1
  <1>4. creatingCustomer \in BOOLEAN /\ delivering \in BOOLEAN
    BY DEF WsInit
  <1>5. items = <<>> /\ editing = 0
    BY DEF WsInit
  <1> QED
    BY <1>2, <1>3, <1>4, <1>5 DEF WsInv

\* A line of a fresh key at the end
LEMMA LineAdded ==
  ASSUME WsInv, keys < MaxKeys, NEW l \in ItemRecords, l.key = keys + 1,
         keys' = keys + 1, items' = Append(items, l), Move,
         UNCHANGED <<step, customer, issueDate, dueDate, creatingCustomer, editing, copy, delivering>>
  PROVE  WsInv'
  <1>1. MaxKeys \in Nat /\ MaxSteps \in Nat
    BY WorkspaceAssumption
  <1>2. keys \in Nat /\ items \in Seq(ItemRecords) /\ Len(items) \in Nat /\ DOMAIN items = 1..Len(items)
    BY <1>1 DEF WsInv
  <1>3. items' \in Seq(ItemRecords) /\ DOMAIN items' = 1..(Len(items) + 1)
    BY <1>2
  <1>4. \A i \in DOMAIN items : i \in DOMAIN items' /\ items'[i] = items[i]
    BY <1>2, <1>3
  <1>5. \A i \in DOMAIN items' : i \in DOMAIN items \/ (i = Len(items) + 1 /\ items'[i] = l)
    BY <1>2, <1>3
  <1>6. \A i \in DOMAIN items : items[i].key \in 1..keys
    BY DEF WsInv
  <1>7. \A i \in DOMAIN items' : items'[i].key \in 1..keys'
    BY <1>2, <1>4, <1>5, <1>6
  <1>8. \A i, j \in DOMAIN items' : items'[i].key = items'[j].key => i = j
    <2> SUFFICES ASSUME NEW i \in DOMAIN items', NEW j \in DOMAIN items', items'[i].key = items'[j].key
                 PROVE  i = j
      OBVIOUS
    <2>1. CASE i \in DOMAIN items /\ j \in DOMAIN items
      BY <1>4, <2>1 DEF WsInv
    <2>2. CASE i \in DOMAIN items /\ j \notin DOMAIN items
      BY <1>2, <1>4, <1>5, <1>6, <2>2
    <2>3. CASE i \notin DOMAIN items /\ j \in DOMAIN items
      BY <1>2, <1>4, <1>5, <1>6, <2>3
    <2>4. CASE i \notin DOMAIN items /\ j \notin DOMAIN items
      BY <1>5, <2>4
    <2> QED
      BY <2>1, <2>2, <2>3, <2>4
  <1>9. editing' # 0 => \E i \in DOMAIN items' : items'[i].key = editing' /\ items'[i] = copy'
    BY <1>4 DEF WsInv
  <1>10. keys' \in 0..MaxKeys /\ moves' \in 0..MaxSteps
    BY <1>1, <1>2 DEF WsInv, Move
  <1> QED
    BY <1>3, <1>7, <1>8, <1>9, <1>10 DEF WsInv

LEMMA WsStep == WsInv /\ [WsNext]_wsVars => WsInv'
  <1> SUFFICES ASSUME WsInv, [WsNext]_wsVars PROVE WsInv'
    OBVIOUS
  <1>1. MaxDate \in Nat /\ MaxKeys \in Nat /\ MaxSteps \in Nat
    BY WorkspaceAssumption
  <1>2. Move => moves' \in 0..MaxSteps
    BY <1>1 DEF Move, WsInv
  <1>3. /\ items \in Seq(ItemRecords) /\ Len(items) \in Nat /\ DOMAIN items = 1..Len(items)
        /\ \A i \in DOMAIN items : items[i] \in ItemRecords /\ items[i].key \in 1..keys
        /\ keys \in 0..MaxKeys
        /\ \A i, j \in DOMAIN items : items[i].key = items[j].key => i = j
    BY DEF WsInv
  \* steps that leave the lines and their drawer alone
  <1>4. ASSUME UNCHANGED <<items, editing, copy, keys>>, moves' \in 0..MaxSteps,
               step' \in Range(WorkspaceSteps), customer' \in {"none", "listed", "new"},
               issueDate' \in 0..MaxDate, dueDate' \in 0..MaxDate,
               creatingCustomer' \in BOOLEAN, delivering' \in BOOLEAN
        PROVE  WsInv'
    BY <1>4 DEF WsInv
  <1>5. /\ step \in {"customer", "items", "details", "review"} /\ customer \in {"none", "listed", "new"}
        /\ issueDate \in 0..MaxDate /\ dueDate \in 0..MaxDate
        /\ creatingCustomer \in BOOLEAN /\ delivering \in BOOLEAN
    BY StepsNumbered DEF WsInv
  <1>6. StepIndex(step) \in 1..4 /\ (step # "review" => StepIndex(step) + 1 \in 1..4)
        /\ (StepIndex(step) > 1 => StepIndex(step) - 1 \in 1..4)
    BY <1>5, StepsNumbered
  <1>7. CASE Continue
    <2>1. step' \in Range(WorkspaceSteps)
      BY <1>6, <1>7, StepsNumbered DEF Continue
    <2> QED
      BY <1>2, <1>4, <1>5, <1>7, <2>1 DEF Continue, Document, Drawers
  <1>8. CASE Back
    <2>1. step' \in Range(WorkspaceSteps)
      BY <1>6, <1>8, StepsNumbered DEF Back
    <2> QED
      BY <1>2, <1>4, <1>5, <1>8, <2>1 DEF Back, Document, Drawers
  <1>9. ASSUME NEW s \in Range(WorkspaceSteps), StepClick(s)
        PROVE  WsInv'
    BY <1>2, <1>4, <1>5, <1>9 DEF StepClick, Document, Drawers
  <1>10. CASE ToDelivery
    <2>1. step' \in Range(WorkspaceSteps) /\ delivering' \in BOOLEAN
      BY <1>5, <1>10, StepsNumbered DEF ToDelivery
    <2> QED
      BY <1>2, <1>4, <1>5, <1>10, <2>1 DEF ToDelivery, Document, Drawers
  <1>11. step \in Range(WorkspaceSteps)
    BY DEF WsInv
  <1>12. ASSUME NEW c \in {"none", "listed"}, SelectCustomer(c)
         PROVE  WsInv'
    BY <1>2, <1>4, <1>5, <1>11, <1>12 DEF SelectCustomer, Drawers
  <1>13. CASE OpenCustomerDrawer
    <2>1. creatingCustomer' \in BOOLEAN
      BY <1>13 DEF OpenCustomerDrawer
    <2> QED
      BY <1>2, <1>4, <1>5, <1>11, <1>13, <2>1 DEF OpenCustomerDrawer, Document
  <1>14. CASE SubmitCustomer
    <2>1. creatingCustomer' \in BOOLEAN /\ customer' \in {"none", "listed", "new"}
      BY <1>14 DEF SubmitCustomer
    <2> QED
      BY <1>2, <1>4, <1>5, <1>11, <1>14, <2>1 DEF SubmitCustomer
  <1>15. CASE CloseCustomerDrawer
    <2>1. creatingCustomer' \in BOOLEAN
      BY <1>15 DEF CloseCustomerDrawer
    <2> QED
      BY <1>2, <1>4, <1>5, <1>11, <1>15, <2>1 DEF CloseCustomerDrawer, Document
  <1>16. ASSUME NEW from \in 0..MaxDate, NEW to \in 0..MaxDate, SetDates(from, to)
         PROVE  WsInv'
    BY <1>2, <1>4, <1>5, <1>11, <1>16 DEF SetDates, Drawers
  <1>17. EmptyItem(keys + 1) \in ItemRecords /\ EmptyItem(keys + 1).key = keys + 1
    BY <1>1, <1>3 DEF EmptyItem, ItemRecords, Plain, Amounts
  <1>18. CASE AddBlank
    <2>1. PICK l \in ItemRecords : l = EmptyItem(keys + 1) /\ l.key = keys + 1
      BY <1>17
    <2> QED
      BY <1>18, <2>1, LineAdded DEF AddBlank, Drawers
  <1>19. ASSUME NEW p \in Products, AddFromCatalog(p)
         PROVE  WsInv'
    <2>1. Price[p] \in Nat /\ Rate[p] \in Nat
      BY WorkspaceAssumption
    <2>4. Plain(Price[p]) \in Amounts
      BY <2>1 DEF Plain, Amounts
    <2>2. CatalogItem(keys + 1, p) \in ItemRecords /\ CatalogItem(keys + 1, p).key = keys + 1
      BY <1>17, <2>1, <2>4 DEF CatalogItem, ItemRecords
    <2>3. PICK l \in ItemRecords : l = CatalogItem(keys + 1, p) /\ l.key = keys + 1
      BY <2>2
    <2> QED
      BY <1>19, <2>3, LineAdded DEF AddFromCatalog, Drawers
  <1>20. ASSUME NEW i \in DOMAIN items, OpenLine(i)
         PROVE  WsInv'
    <2>1. /\ editing' = items[i].key /\ copy' = items[i] /\ Move
          /\ UNCHANGED <<step, customer, issueDate, dueDate, items, keys, creatingCustomer, delivering>>
      BY <1>20 DEF OpenLine, Document
    <2> QED
      BY <1>2, <1>3, <2>1 DEF WsInv
  <1>21. CASE CloseLine
    BY <1>2, <1>21 DEF CloseLine, Document, WsInv
  <1>22. CASE DropLine
    <2>1. PICK i \in DOMAIN items : items' = RemoveAt(items, i)
      BY <1>22 DEF DropLine
    <2>2. i \in 1..Len(items)
      BY <1>3
    <2>3. /\ items' \in Seq(ItemRecords) /\ Len(items') = Len(items) - 1
          /\ \A k \in 1..(Len(items) - 1) : items'[k] = IF k < i THEN items[k] ELSE items[k + 1]
      BY <1>3, <2>1, <2>2, RemovedAt
    <2>4. DOMAIN items' = 1..(Len(items) - 1)
      BY <2>3
    <2>5. \A k \in DOMAIN items' : \/ k < i /\ k \in DOMAIN items /\ items'[k] = items[k]
                                   \/ k >= i /\ k + 1 \in DOMAIN items /\ items'[k] = items[k + 1]
      BY <1>3, <2>2, <2>3, <2>4
    <2>6. \A k \in DOMAIN items' : items'[k].key \in 1..keys
      BY <1>3, <2>5
    <2>7. ASSUME NEW k \in DOMAIN items', NEW m \in DOMAIN items', items'[k].key = items'[m].key
          PROVE  k = m
      <3>1. CASE k < i /\ m < i
        BY <1>3, <2>4, <2>5, <2>7, <3>1
      <3>2. CASE k >= i /\ m >= i
        <4>1. k + 1 = m + 1
          BY <1>3, <2>2, <2>4, <2>5, <2>7, <3>2
        <4> QED
          BY <2>4, <4>1
      <3>3. CASE k < i /\ m >= i
        <4>1. k = m + 1
          BY <1>3, <2>2, <2>4, <2>5, <2>7, <3>3
        <4> QED
          BY <2>2, <2>4, <3>3, <4>1
      <3>4. CASE k >= i /\ m < i
        <4>1. k + 1 = m
          BY <1>3, <2>2, <2>4, <2>5, <2>7, <3>4
        <4> QED
          BY <2>2, <2>4, <3>4, <4>1
      <3> QED
        BY <2>2, <2>4, <3>1, <3>2, <3>3, <3>4
    <2>8. /\ editing' = 0 /\ Move
          /\ UNCHANGED <<step, customer, issueDate, dueDate, keys, creatingCustomer, delivering>>
      BY <1>22 DEF DropLine
    <2> QED
      BY <1>2, <2>3, <2>6, <2>7, <2>8 DEF WsInv
  <1>23. ASSUME editing # 0, NEW next \in Edits(copy), Patch(next)
         PROVE  WsInv'
    <2>1. PICK i \in DOMAIN items : items[i].key = editing /\ items[i] = copy
      BY <1>23 DEF WsInv
    <2>2. copy \in ItemRecords /\ copy.key = editing
      BY <1>3, <2>1
    <2>3. next \in ItemRecords /\ next.key = editing
      <3>1. CASE next = [copy EXCEPT !.named = ~copy.named, !.product = NoProduct]
        BY <2>2, <3>1 DEF ItemRecords
      <3>2. ASSUME NEW a \in Amounts, next = [copy EXCEPT !.price = a, !.product = NoProduct]
            PROVE  next \in ItemRecords /\ next.key = editing
        BY <2>2, <3>2 DEF ItemRecords
      <3>3. CASE next = [copy EXCEPT !.rate = IF copy.rate = 21 THEN 6 ELSE 21, !.product = NoProduct]
        BY <2>2, <3>3 DEF ItemRecords
      <3>4. CASE next = [copy EXCEPT !.discount = 50]
        BY <2>2, <3>4 DEF ItemRecords
      <3>5. ASSUME NEW a \in Amounts, next = [copy EXCEPT !.quantity = a]
            PROVE  next \in ItemRecords /\ next.key = editing
        BY <2>2, <3>5 DEF ItemRecords
      <3>6. copy.price.n \in Nat
        BY <2>2 DEF ItemRecords, Amounts
      <3>7. /\ {Plain(copy.price.n + 1), WithComma(copy.price.n + 1), Garbage} \subseteq Amounts
            /\ {Plain(2), WithComma(2), Garbage} \subseteq Amounts
        BY <3>6 DEF Plain, WithComma, Garbage, Amounts
      <3> QED
        BY <3>1, <3>2, <3>3, <3>4, <3>5, <3>7 DEF Edits
    <2>4. /\ items' = [k \in DOMAIN items |-> IF items[k].key = next.key THEN next ELSE items[k]]
          /\ copy' = next /\ Move
          /\ UNCHANGED <<step, customer, issueDate, dueDate, keys, creatingCustomer, editing, delivering>>
      BY <1>23 DEF Patch
    <2>5. items' \in [1..Len(items) -> ItemRecords] /\ DOMAIN items' = DOMAIN items
      BY <1>3, <2>3, <2>4
    <2>6. items' \in Seq(ItemRecords)
      BY <1>3, <2>5
    <2>7. \A k \in DOMAIN items : items'[k].key = items[k].key
      BY <1>3, <2>3, <2>4
    <2>8. items'[i] = next /\ items'[i].key = editing
      BY <2>1, <2>3, <2>4
    <2> QED
      BY <1>2, <1>3, <2>1, <2>4, <2>5, <2>6, <2>7, <2>8 DEF WsInv
  <1>24. CASE UNCHANGED wsVars
    BY <1>24 DEF wsVars, WsInv
  <1> QED
    BY <1>7, <1>8, <1>9, <1>10, <1>12, <1>13, <1>14, <1>15, <1>16, <1>18, <1>19, <1>20, <1>21,
       <1>22, <1>23, <1>24 DEF WsNext

-----------------------------------------------------------------------------
(* The amounts of the workspace: sums over the lines, and over their rates. *)

\* The members of a finite set, part by part.
Parted(I, R, key, part) ==
    /\ IsFiniteSet(I) /\ IsFiniteSet(R)
    /\ \A i \in I : key[i] \in R
    /\ \A r \in R : part[r] \subseteq I /\ \A i \in I : i \in part[r] <=> key[i] = r

\* The bases by rate are the net of all lines ...
LEMMA BasesAdd ==
  ASSUME NEW I, NEW R, NEW key, NEW part, Parted(I, R, key, part),
         NEW sub, \A i \in I : sub[i] \in Int, NEW k \in Int,
         NEW basis, \A r \in R : basis[r] = SumFunctionOnSet(sub, part[r]) * k
  PROVE  SumFunctionOnSet(basis, R) = SumFunctionOnSet(sub, I) * k
  <1>0. /\ IsFiniteSet(I) /\ IsFiniteSet(R)
        /\ \A i \in I : key[i] \in R
        /\ \A r \in R : part[r] \subseteq I /\ \A i \in I : i \in part[r] <=> key[i] = r
    BY DEF Parted
  <1> USE <1>0
  <1>1. PICK byRate : byRate = [r \in R |-> SumFunctionOnSet(sub, part[r])]
    OBVIOUS
  <1>2. \A r \in R : byRate[r] = SumFunctionOnSet(sub, part[r]) /\ basis[r] = byRate[r] * k
    BY <1>1, Zenon
  <1>3. PICK N \in Int : N = SumFunctionOnSet(sub, I)
    BY SumType
  <1>4. \A r \in R : IsFiniteSet(part[r]) /\ byRate[r] \in Int
    <2> TAKE r \in R
    <2>1. IsFiniteSet(part[r]) /\ \A i \in part[r] : sub[i] \in Int
      BY FS_Subset
    <2> QED
      BY <1>2, <2>1, SumType
  <1>5. SumFunctionOnSet(byRate, R) = N
    <2>1. \A i \in I : key[i] \in R /\ sub[i] \in Int
      OBVIOUS
    <2>2. \A r \in R : byRate[r] = SumFunctionOnSet(sub, part[r])
      BY <1>2
    <2>3. /\ IsFiniteSet(I) /\ IsFiniteSet(R)
          /\ \A r \in R : part[r] \subseteq I /\ \A i \in I : i \in part[r] <=> key[i] = r
      OBVIOUS
    <2>4. SumFunctionOnSet(byRate, R) = SumFunctionOnSet(sub, I)
      BY ONLY <2>1, <2>2, <2>3, SumByKey
    <2> QED
      BY <1>3, <2>4
  <1>6. SumFunctionOnSet(basis, R) = N * k
    <2>1. \A r \in R : basis[r] = k * byRate[r]
      <3> TAKE r \in R
      <3>1. PICK x \in Int : x = byRate[r]
        BY <1>4
      <3>2. x * k = k * x
        OBVIOUS
      <3> QED
        BY <1>2, <3>1, <3>2
    <2>2. \A r \in R : byRate[r] \in Int /\ basis[r] = k * byRate[r]
      BY <1>4, <2>1
    <2>3. SumFunctionOnSet(basis, R) = k * SumFunctionOnSet(byRate, R)
      BY ONLY <1>0, <2>2, k \in Int, SumScaled
    <2>4. k * N = N * k
      OBVIOUS
    <2> QED
      BY <1>5, <2>3, <2>4
  <1> QED
    BY <1>3, <1>6

\* VAT at the rate of a line, and at the rate of a row, of what the discount leaves.
LineVat(I, key, sub, k, vat) ==
    \A i \in I : sub[i] \in Int /\ vat[i] \in Int /\ vat[i] = (sub[i] * k) * key[i]
RowVat(R, part, sub, k, vats) ==
    R \subseteq Nat /\ \A r \in R : vats[r] = (SumFunctionOnSet(sub, part[r]) * k) * r

\* ... and the VAT by rate is the VAT of all.
LEMMA VatAdds ==
  ASSUME NEW I, NEW R, NEW key, NEW part, Parted(I, R, key, part), NEW sub, NEW k \in Int,
         NEW vat, LineVat(I, key, sub, k, vat), NEW vats, RowVat(R, part, sub, k, vats)
  PROVE  SumFunctionOnSet(vats, R) = SumFunctionOnSet(vat, I)
  <1>0. /\ IsFiniteSet(I) /\ IsFiniteSet(R)
        /\ \A i \in I : key[i] \in R
        /\ \A r \in R : part[r] \subseteq I /\ \A i \in I : i \in part[r] <=> key[i] = r
        /\ R \subseteq Nat /\ \A i \in I : sub[i] \in Int
        /\ \A i \in I : vat[i] \in Int /\ vat[i] = (sub[i] * k) * key[i]
        /\ \A r \in R : vats[r] = (SumFunctionOnSet(sub, part[r]) * k) * r
    BY DEF Parted, LineVat, RowVat
  <1> USE <1>0
  <1>1. PICK byRate : byRate = [r \in R |-> SumFunctionOnSet(sub, part[r])]
    OBVIOUS
  <1>2. \A r \in R : byRate[r] = SumFunctionOnSet(sub, part[r]) /\ vats[r] = (byRate[r] * k) * r
    BY <1>1, Zenon
  <1>3. PICK V \in Int : V = SumFunctionOnSet(vat, I)
    BY SumType
  <1>4. \A r \in R : IsFiniteSet(part[r]) /\ byRate[r] \in Int
    <2> TAKE r \in R
    <2>1. IsFiniteSet(part[r]) /\ \A i \in part[r] : sub[i] \in Int
      BY FS_Subset
    <2> QED
      BY <1>2, <2>1, SumType
  <1>5. SumFunctionOnSet(vats, R) = V
    <2>1. \A r \in R : vats[r] = SumFunctionOnSet(vat, part[r])
      <3> TAKE r \in R
      <3>1. PICK S : S = part[r]
        OBVIOUS
      <3>2. PICK x \in Int, n \in Int, c \in Int : x = byRate[r] /\ n = r /\ c = k * n
        <4>1. byRate[r] \in Int /\ r \in Int
          <5>1. R \subseteq Nat /\ byRate[r] \in Int
            BY <1>4
          <5> QED
            BY <5>1
        <4>2. k * r \in Int
          BY <4>1
        <4> QED
          BY <4>1, <4>2, Zenon
      <3>3. IsFiniteSet(S) /\ S \subseteq I /\ \A i \in S : key[i] = n
        BY <1>4, <3>1, <3>2
      <3>4. \A i \in S : sub[i] \in Int /\ vat[i] = c * sub[i]
        <4> TAKE i \in S
        <4>1. PICK y \in Int : y = sub[i]
          BY <3>3
        <4>2. (y * k) * n = c * y
          BY ONLY <3>2, y \in Int, k \in Int, n \in Int
        <4> QED
          BY <3>3, <4>1, <4>2
      <3>5. SumFunctionOnSet(vat, S) = c * x
        <4>1. x = SumFunctionOnSet(sub, S)
          BY <1>2, <3>1, <3>2
        <4>2. SumFunctionOnSet(vat, S) = c * SumFunctionOnSet(sub, S)
          BY <3>3, <3>4, SumScaled
        <4> QED
          BY <4>1, <4>2
      <3>6. c * x = (x * k) * n
        BY ONLY <3>2, x \in Int, k \in Int, n \in Int
      <3> QED
        BY <1>2, <3>1, <3>2, <3>5, <3>6
    <2>2. \A i \in I : key[i] \in R /\ vat[i] \in Int
      OBVIOUS
    <2>3. /\ IsFiniteSet(I) /\ IsFiniteSet(R)
          /\ \A r \in R : part[r] \subseteq I /\ \A i \in I : i \in part[r] <=> key[i] = r
      OBVIOUS
    <2>4. SumFunctionOnSet(vats, R) = SumFunctionOnSet(vat, I)
      BY ONLY <2>1, <2>2, <2>3, SumByKey
    <2> QED
      BY <1>3, <2>4
  <1> QED
    BY <1>3, <1>5

\* What the screens print of any lines adds up, at any discount.
LEMMA ComputedTotals ==
  ASSUME NEW ls \in Seq(ItemRecords), NEW discount \in Int,
         NEW t, t = ComputeTotals(ls, discount), NEW R, R = VatRates(ls)
  PROVE  /\ SumOver([i \in DOMAIN ls |-> Gross(ls[i])], DOMAIN ls) * 10000 - t.discount = t.subtotal
         /\ SumOver([r \in R |-> t.summary[r].base], R) = t.subtotal
         /\ SumOver([r \in R |-> t.summary[r].vat], R) = t.vat
         /\ t.total = t.subtotal * 100 + t.vat
         /\ IsFiniteSet(R)
  <1> DEFINE I == DOMAIN ls
             key == [i \in I |-> ls[i].rate]
             part == [r \in R |-> RowOf(ls, r)]
             gross == [i \in I |-> Gross(ls[i])]
             vat == [i \in I |-> LineSubtotal(ls[i]) * (100 - discount) * ls[i].rate]
             sub == Subtotals(ls)
             byRate == [r \in R |-> SumOver(sub, RowOf(ls, r))]
             basis == [r \in R |-> SumOver(sub, RowOf(ls, r)) * (100 - discount)]
             vats == [r \in R |-> SumOver(sub, RowOf(ls, r)) * (100 - discount) * r]
  <1>1. PICK k \in Int : k = 100 - discount
    OBVIOUS
  <1>2. IsFiniteSet(I)
    <2>1. I = 1..Len(ls) /\ Len(ls) \in Nat
      OBVIOUS
    <2> QED
      BY <2>1, FS_Interval
  <1>0. \A i \in I : ls[i] \in ItemRecords
    OBVIOUS
  <1>3. \A i \in I : key[i] \in R /\ key[i] = ls[i].rate /\ ls[i].rate \in Nat
    <2> TAKE i \in I
    <2>1. ls[i].rate \in Nat
      BY <1>0 DEF ItemRecords
    <2>2. ls[i].rate \in VatRates(ls)
      BY Zenon DEF VatRates
    <2> QED
      BY <2>1, <2>2
  <1>4. R \subseteq Nat /\ IsFiniteSet(R) /\ \A r \in R : \E i \in I : key[i] = r
    <2>1. \A r \in R : \E i \in I : key[i] = r
      BY DEF VatRates
    <2>2. R \subseteq Nat
      BY <1>3, <2>1
    <2>3. key \in [I -> R]
      BY <1>3
    <2>4. key \in Surjection(I, R)
      <3> HIDE DEF key, I
      <3> QED
        BY <2>1, <2>3, Zenon DEF Surjection
    <2>5. IsFiniteSet(R)
      <3> HIDE DEF key, I
      <3> QED
        BY <1>2, <2>4, FS_Surjection
    <2> QED
      BY <2>1, <2>2, <2>5
  <1>5. \A i \in I : gross[i] \in Int /\ sub[i] \in Int /\ vat[i] \in Int /\ vat[i] = (sub[i] * k) * key[i]
    <2> TAKE i \in I
    <2>1. PICK q \in Nat, p \in Nat, d \in Nat, r \in Nat :
            q = ls[i].quantity.n /\ p = ls[i].price.n /\ d = ls[i].discount /\ r = ls[i].rate
      BY <1>0 DEF ItemRecords, Amounts
    <2>2. gross[i] = q * p /\ sub[i] = (q * p) * (100 - d)
          /\ vat[i] = (((q * p) * (100 - d)) * k) * r /\ key[i] = r
      BY <1>1, <2>1 DEF Gross, LineSubtotal, Subtotals
    <2>3. PICK s \in Int : s = (q * p) * (100 - d)
      OBVIOUS
    <2>4. (s * k) * r \in Int /\ q * p \in Int
      OBVIOUS
    <2> QED
      BY <2>2, <2>3, <2>4
  <1>6. \A r \in R : /\ part[r] = RowOf(ls, r) /\ part[r] \subseteq I
                     /\ \A i \in I : i \in part[r] <=> key[i] = r
    BY DEF RowOf
  <1>7. \A r \in R : byRate[r] = SumOver(sub, RowOf(ls, r)) /\ basis[r] = byRate[r] * k /\ vats[r] = (byRate[r] * k) * r
    BY <1>1
  <1>8. /\ SumOver(vat, I) = ComputeTotals(ls, discount).vat
        /\ ComputeTotals(ls, discount).subtotal = SumOver(sub, I) * k
        /\ ComputeTotals(ls, discount).discount
             = (SumOver(gross, I) * 100 - SumOver(sub, I)) * 100 + SumOver(sub, I) * discount
        /\ ComputeTotals(ls, discount).total = (SumOver(sub, I) * k) * 100 + SumOver(vat, I)
    BY <1>1 DEF ComputeTotals
  <1>9. /\ [r \in R |-> ComputeTotals(ls, discount).summary[r].base] = basis
        /\ [r \in R |-> ComputeTotals(ls, discount).summary[r].vat] = vats
    BY DEF ComputeTotals, VatSummary
  <1> HIDE DEF I, key, part, gross, vat, sub, byRate, basis, vats
  <1>10. PICK G \in Int, N \in Int, V \in Int :
           G = SumFunctionOnSet(gross, I) /\ N = SumFunctionOnSet(sub, I) /\ V = SumFunctionOnSet(vat, I)
    BY <1>2, <1>5, SumType
  <1>11. \A r \in R : /\ basis[r] = SumFunctionOnSet(sub, part[r]) * k
                      /\ vats[r] = (SumFunctionOnSet(sub, part[r]) * k) * r
    BY <1>6, <1>7, Zenon DEF SumOver
  <1>13. SumFunctionOnSet(basis, R) = N * k /\ SumFunctionOnSet(vats, R) = V
    <2>1. PICK I0, key0, sub0, vat0, part0, basis0, vats0 :
            I0 = I /\ key0 = key /\ sub0 = sub /\ vat0 = vat /\ part0 = part /\ basis0 = basis /\ vats0 = vats
      OBVIOUS
    <2>2. \A i \in I0 : sub0[i] \in Int
      BY <1>5, <2>1, Zenon
    <2>8. LineVat(I0, key0, sub0, k, vat0)
      BY <1>3, <1>5, <2>1, Zenon DEF LineVat
    <2>3. Parted(I0, R, key0, part0)
      BY <1>2, <1>3, <1>4, <1>6, <2>1, Zenon DEF Parted
    <2>4. R \subseteq Nat
      BY <1>4
    <2>5. \A r \in R : basis0[r] = SumFunctionOnSet(sub0, part0[r]) * k
      BY <1>11, <2>1, Zenon
    <2>9. RowVat(R, part0, sub0, k, vats0)
      BY <1>11, <2>1, <2>4, Zenon DEF RowVat
    <2>6. SumFunctionOnSet(basis0, R) = SumFunctionOnSet(sub0, I0) * k
      BY ONLY <2>2, <2>3, <2>5, k \in Int, BasesAdd
    <2>7. SumFunctionOnSet(vats0, R) = SumFunctionOnSet(vat0, I0)
      BY ONLY <2>3, <2>8, <2>9, k \in Int, VatAdds
    <2> QED
      BY <1>10, <2>1, <2>6, <2>7, Zenon
  <1>15. G * 10000 - ((G * 100 - N) * 100 + N * discount) = N * k
    <2>1. N * k = N * 100 - N * discount
      BY ONLY <1>1, N \in Int, k \in Int, discount \in Int
    <2>2. N * discount \in Int
      OBVIOUS
    <2> QED
      BY <2>1, <2>2
  <1>16. /\ SumOver(gross, I) = G /\ SumOver(sub, I) = N /\ SumOver(vat, I) = V
         /\ SumOver(basis, R) = N * k /\ SumOver(vats, R) = V
    BY <1>10, <1>13 DEF SumOver
  <1> DEFINE bases == [r \in R |-> t.summary[r].base]
             amounts == [r \in R |-> t.summary[r].vat]
  <1>18. /\ SumOver(gross, I) * 10000 - t.discount = t.subtotal
         /\ SumOver(bases, R) = t.subtotal /\ SumOver(amounts, R) = t.vat
         /\ t.total = t.subtotal * 100 + t.vat
    <2>1. /\ t.vat = V /\ t.subtotal = N * k /\ t.total = (N * k) * 100 + V
          /\ t.discount = (G * 100 - N) * 100 + N * discount
      BY <1>8, <1>16
    <2>2. bases = basis /\ amounts = vats
      BY <1>9, Zenon
    <2>3. SumOver(gross, I) * 10000 - t.discount = t.subtotal
      BY <1>15, <1>16, <2>1
    <2> HIDE DEF bases, amounts
    <2>4. SumOver(bases, R) = t.subtotal
      BY <1>16, <2>1, <2>2, Zenon
    <2>5. SumOver(amounts, R) = t.vat
      BY <1>16, <2>1, <2>2, Zenon
    <2>6. t.total = t.subtotal * 100 + t.vat
      BY <2>1
    <2> QED
      BY ONLY <2>3, <2>4, <2>5, <2>6
  <1> QED
    BY <1>4, <1>18 DEF I, gross

\* So the live preview and the review step show one invoice.
LEMMA TotalsAdd == items \in Seq(ItemRecords) => TotalsAddUp
  <1> SUFFICES ASSUME items \in Seq(ItemRecords), NEW discount \in {0, 10, 100}
               PROVE  LET document == LivePreview(discount)
                          t == document.totals
                          rates == DOMAIN t.summary
                          review == ReviewSummary(discount)
                          legible == \A i \in DOMAIN document.rows : ~document.rows[i].nan
                          printed == [i \in DOMAIN document.rows |-> document.rows[i].total]
                      IN  /\ legible =>
                               SumOver(printed, DOMAIN printed) * 10000 - t.discount = review.subtotal
                          /\ SumOver([r \in rates |-> t.summary[r].base], rates) = review.subtotal
                          /\ SumOver([r \in rates |-> t.summary[r].vat], rates) = review.vat
                          /\ Cardinality(rates) < 2 => VatRows(t) = {review.vat}
                          /\ review.total = review.subtotal * 100 + review.vat
    BY ZenonT(30) DEF TotalsAddUp
  <1> DEFINE t == LivePreview(discount).totals
             rates == DOMAIN t.summary
             gross == [i \in DOMAIN items |-> Gross(items[i])]
             legible == \A i \in DOMAIN LivePreview(discount).rows : ~LivePreview(discount).rows[i].nan
             printed == [i \in DOMAIN LivePreview(discount).rows |-> LivePreview(discount).rows[i].total]
             review == ReviewSummary(discount)
             bases == [r \in rates |-> t.summary[r].base]
             amounts == [r \in rates |-> t.summary[r].vat]
  <1>1. t = ComputeTotals(items, discount)
    BY DEF LivePreview
  <1> HIDE DEF t
  <1>2. discount \in Int /\ rates = VatRates(items)
    BY <1>1 DEF ComputeTotals, VatSummary
  <1>3. /\ SumOver(gross, DOMAIN items) * 10000 - t.discount = t.subtotal
        /\ SumOver(bases, rates) = t.subtotal
        /\ SumOver(amounts, rates) = t.vat
        /\ t.total = t.subtotal * 100 + t.vat
        /\ IsFiniteSet(rates)
    BY <1>1, <1>2, ComputedTotals
  <1>5. legible => printed = gross /\ DOMAIN printed = DOMAIN items
    <2>1. LivePreview(discount).rows = [i \in DOMAIN items |-> PreviewRow(items[i])]
      BY DEF LivePreview
    <2>2. \A i \in DOMAIN items : ~PreviewRow(items[i]).nan => PreviewRow(items[i]).total = Gross(items[i])
      BY DEF PreviewRow
    <2> QED
      BY <2>1, <2>2
  <1>6. review.subtotal = t.subtotal /\ review.vat = t.vat /\ review.total = t.total
    BY <1>1 DEF ReviewSummary
  <1>7. Cardinality(rates) < 2 => VatRows(t) = {t.vat}
    <2>1. Cardinality(rates) \in Nat
      BY <1>3, FS_CardinalityType
    <2> QED
      BY <2>1 DEF VatRows
  <1> HIDE DEF rates, gross, legible, printed, review, bases, amounts
  <1>8. legible => SumOver(printed, DOMAIN printed) * 10000 - t.discount = review.subtotal
    BY <1>3, <1>5, <1>6
  <1>9. SumOver(bases, rates) = review.subtotal /\ SumOver(amounts, rates) = review.vat
    BY <1>3, <1>6
  <1>10. Cardinality(rates) < 2 => VatRows(t) = {review.vat}
    BY <1>6, <1>7
  <1>11. review.total = review.subtotal * 100 + review.vat
    BY <1>3, <1>6
  <1>12. /\ legible => SumOver(printed, DOMAIN printed) * 10000 - t.discount = review.subtotal
         /\ SumOver(bases, rates) = review.subtotal
         /\ SumOver(amounts, rates) = review.vat
         /\ Cardinality(rates) < 2 => VatRows(t) = {review.vat}
         /\ review.total = review.subtotal * 100 + review.vat
    BY ONLY <1>8, <1>9, <1>10, <1>11
  <1> QED
    BY ONLY <1>12, ZenonT(30) DEF legible, printed, review, rates, bases, amounts, t

-----------------------------------------------------------------------------
(* The actions on an invoice, from the list and from its own screen. *)

Sendings == [kind : Kinds, invoice : Invoices, form : Nat, latest : BOOLEAN, press : Nat]
Dialogs == [kind : Kinds, invoice : Invoices]
Recordings == [form : Nat, lost : BOOLEAN]

ActTypes ==
    /\ ActTypeOK
    /\ dialog \in Dialogs \cup {NoDialog}
    /\ sent \subseteq Sendings /\ presses \in Nat
    /\ recorded \in Seq(Recordings)
    /\ rejected \subseteq Nat

\* A payment or credit note is never started while another action is pending.
Recording(m) == m.kind \in {"payment", "credit_note"}

OneRecording ==
    /\ \A m \in sent : Recording(m) => m.latest
    /\ \A m, n \in sent : Recording(m) /\ Recording(n) => m = n

\* What was recorded for the form on the screen, or for one under way, was lost.
FormsSpent ==
    /\ \A m \in sent : m.form <= form
    /\ \A f \in rejected : f <= form
    /\ \A i \in DOMAIN recorded :
          /\ recorded[i].form <= form
          /\ recorded[i].form = form /\ dialog # NoDialog => recorded[i].lost
          /\ \A m \in sent : Recording(m) /\ recorded[i].form = m.form => recorded[i].lost

\* The list has one action under way at a time, and remembers its error.
ListTells ==
    screen = "list" =>
        /\ \A m \in sent : m.latest /\ m.kind # "duplicate"
        /\ \A m, n \in sent : m = n
        /\ dialog # NoDialog => dialog.kind # "duplicate"
        /\ dialog # NoDialog /\ form \in rejected /\ sent = {} => failed # {}

ActInv == ActTypes /\ OneRecording /\ FormsSpent /\ RecordedOnce /\ ListTells

LEMMA ActBase == ActInit => ActInv
  <1> SUFFICES ASSUME ActInit PROVE ActInv
    OBVIOUS
  <1>1. ActTypes
    BY ActionsAssumption DEF ActInit, ActTypes, ActTypeOK, Statuses
  <1> QED
    BY <1>1 DEF ActInit, ActInv, OneRecording, FormsSpent, RecordedOnce, ListTells

LEMMA ActOutcome == ActInv => ActTypeOK /\ RecordedOnce /\ OutcomeShown
  <1> SUFFICES ASSUME ActInv PROVE OutcomeShown
    BY DEF ActInv, ActTypes
  <1>1. screen = "list" /\ ~ActionPending => sent = {}
    BY DEF ActInv, ListTells, ActionPending, Pending
  <1> QED
    BY <1>1 DEF ActInv, ListTells, OutcomeShown

\* Starting a mutation whose place in the hook is free, or which is no recording
LEMMA ActMutates ==
  ASSUME ActInv, NEW kind \in Kinds, NEW i \in Invoices, Mutate(kind, i),
         UNCHANGED <<World, dialog, form>>, dialog # NoDialog \/ kind = "duplicate",
         ~ActionPending \/ kind \in {"issue", "delete"},
         screen = "list" => ~ActionPending /\ kind # "duplicate"
  PROVE  ActInv'
  <1> DEFINE new == [kind |-> kind, invoice |-> i, form |-> form, latest |-> TRUE, press |-> presses]
             Older(m) == IF m.kind = kind THEN [m EXCEPT !.latest = FALSE] ELSE m
  <1>1. /\ sent' = {Older(m) : m \in sent} \cup {new}
        /\ failed' = failed \ {kind} /\ presses' = presses + 1
      BY DEF Mutate
  <1>2. UNCHANGED <<screen, status, shown, rejected, recorded, deleted, gone, losses, others, dialog, form>>
      BY DEF World
  <1>3. sent \subseteq Sendings /\ form \in Nat /\ presses \in Nat
    BY ActionsAssumption DEF ActInv, ActTypes, ActTypeOK
  <1>4. new \in Sendings /\ new.kind = kind /\ new.form = form /\ new.latest
    BY <1>3 DEF Sendings
  <1>5. \A m \in sent : /\ Older(m) \in Sendings /\ Older(m).kind = m.kind /\ Older(m).form = m.form
                        /\ (m.kind # kind => Older(m) = m)
                        /\ (m.kind = kind => ~Older(m).latest)
    BY <1>3 DEF Sendings
  <1> HIDE DEF new, Older
  <1>6. \A x \in sent' : x = new \/ \E m \in sent : x = Older(m)
    BY <1>1
  <1>7. ActTypes'
    <2>1. sent' \subseteq Sendings
      BY <1>4, <1>5, <1>6
    <2>2. \A m, n \in sent' : m.kind = n.kind /\ m.latest /\ n.latest => m = n
      <3> SUFFICES ASSUME NEW m \in sent', NEW n \in sent', m.kind = n.kind, m.latest, n.latest
                   PROVE  m = n
        OBVIOUS
      <3>1. CASE m.kind = kind
        BY <1>4, <1>5, <1>6, <3>1
      <3>2. CASE m.kind # kind
        <4>1. m \in sent /\ n \in sent
          BY <1>4, <1>5, <1>6, <3>2
        <4> QED
          BY <4>1 DEF ActInv, ActTypes, ActTypeOK
      <3> QED
        BY <3>1, <3>2
    <2>3. failed' \subseteq Kinds /\ presses' \in Nat
      BY <1>1, <1>3 DEF ActInv, ActTypes, ActTypeOK
    <2> QED
      BY <1>2, <2>1, <2>2, <2>3 DEF ActInv, ActTypes, ActTypeOK
  <1>8. ~ActionPending => \A m \in sent : ~m.latest
    BY DEF ActionPending, Pending
  <1>9. Recording(new) => \A m \in sent : ~Recording(m)
    BY <1>4, <1>8 DEF ActInv, OneRecording, Recording
  <1>10. \A x \in sent' : Recording(x) => x = new \/ (x \in sent /\ Recording(x) /\ ~Recording(new))
    BY <1>4, <1>5, <1>6, <1>9 DEF Recording
  <1>11. OneRecording'
    BY <1>4, <1>10 DEF ActInv, OneRecording, Recording
  <1>12. FormsSpent'
    <2>1. \A x \in sent' : x.form <= form
      BY <1>3, <1>4, <1>5, <1>6 DEF ActInv, FormsSpent
    <2>2. ASSUME NEW k \in DOMAIN recorded, NEW m \in sent', Recording(m), recorded[k].form = m.form
          PROVE  recorded[k].lost
      <3>1. CASE m = new
        BY <1>4, <2>2, <3>1 DEF ActInv, FormsSpent, Recording
      <3>2. CASE m # new
        BY <1>10, <2>2, <3>2 DEF ActInv, FormsSpent
      <3> QED
        BY <3>1, <3>2
    <2> QED
      BY <1>2, <2>1, <2>2 DEF ActInv, FormsSpent
  <1>13. RecordedOnce'
    BY <1>2 DEF ActInv, RecordedOnce
  <1>14. ListTells'
    <2> SUFFICES ASSUME screen = "list"
                 PROVE  /\ \A m \in sent' : m.latest /\ m.kind # "duplicate"
                        /\ \A m, n \in sent' : m = n
                        /\ sent' # {}
      BY <1>2 DEF ActInv, ListTells
    <2>1. sent = {}
      BY <1>8 DEF ActInv, ListTells
    <2>2. sent' = {new}
      BY <1>1, <2>1
    <2> QED
      BY <1>4, <2>2
  <1> QED
    BY <1>7, <1>11, <1>12, <1>13, <1>14 DEF ActInv

\* An answer takes its request off the screen; what it records is of its form.
LEMMA ActAnswers ==
  ASSUME ActInv, NEW m \in sent, NEW lost \in BOOLEAN, sent' = sent \ {m},
         Record(m, lost) \/ UNCHANGED recorded,
         status' \in [Invoices -> Statuses], shown' \in [Invoices -> Statuses],
         UNCHANGED <<screen, form, presses>>,
         ~lost => dialog' = IF m.latest /\ m.kind # "duplicate" THEN NoDialog ELSE dialog,
         lost => dialog' = dialog /\ rejected' = rejected \cup {m.form}
                 /\ failed' = (IF m.latest THEN failed \cup {m.kind} ELSE failed),
         ~lost => UNCHANGED <<rejected, failed>>
  PROVE  ActInv'
  <1>1. m \in Sendings /\ form \in Nat /\ m.form <= form /\ m.form \in Nat /\ m.kind \in Kinds
    BY ActionsAssumption DEF ActInv, ActTypes, ActTypeOK, FormsSpent, Sendings
  <1>2. dialog' = dialog \/ dialog' = NoDialog
    OBVIOUS
  <1>3. rejected' \subseteq rejected \cup {m.form} /\ failed \subseteq failed' /\ failed' \subseteq failed \cup {m.kind}
    OBVIOUS
  <1> DEFINE entry == [form |-> m.form, lost |-> lost]
  <1>4. \/ UNCHANGED recorded
        \/ Recording(m) /\ recorded' = Append(recorded, entry)
    BY DEF Record, Recording
  <1>5. entry \in Recordings /\ entry.form = m.form /\ (entry.lost <=> lost)
    BY <1>1 DEF Recordings
  <1> HIDE DEF entry
  <1>6. recorded \in Seq(Recordings)
    BY DEF ActInv, ActTypes
  <1>7. recorded' \in Seq(Recordings)
    BY <1>4, <1>5, <1>6
  <1>8. \A k \in DOMAIN recorded' :
          \/ k \in DOMAIN recorded /\ recorded'[k] = recorded[k]
          \/ k \notin DOMAIN recorded /\ Recording(m) /\ recorded'[k] = entry /\ k = Len(recorded) + 1
    BY <1>4, <1>5, <1>6
  <1>9. ActTypes'
    BY <1>1, <1>2, <1>3, <1>7 DEF ActInv, ActTypes, ActTypeOK
  <1>10. OneRecording'
    BY DEF ActInv, OneRecording
  <1>11. FormsSpent'
    <2>1. (\A n \in sent' : n.form <= form') /\ \A f \in rejected' : f <= form'
      BY <1>1, <1>3 DEF ActInv, FormsSpent
    <2>2. ASSUME NEW k \in DOMAIN recorded'
          PROVE  /\ recorded'[k].form <= form
                 /\ recorded'[k].form = form /\ dialog' # NoDialog => recorded'[k].lost
                 /\ \A n \in sent' : Recording(n) /\ recorded'[k].form = n.form => recorded'[k].lost
      <3>1. CASE k \in DOMAIN recorded /\ recorded'[k] = recorded[k]
        BY <1>2, <3>1 DEF ActInv, FormsSpent
      <3>2. CASE Recording(m) /\ recorded'[k] = entry
        <4>1. \A n \in sent' : ~Recording(n)
          BY <3>2 DEF ActInv, OneRecording
        <4>2. m.latest /\ m.kind # "duplicate"
          BY <3>2 DEF ActInv, OneRecording, Recording
        <4>3. dialog' # NoDialog => lost
          BY <4>2
        <4> QED
          BY <1>1, <1>5, <3>2, <4>1, <4>3
      <3> QED
        BY <1>8, <3>1, <3>2
    <2> QED
      BY <2>1, <2>2 DEF FormsSpent
  <1>12. RecordedOnce'
    <2> SUFFICES ASSUME NEW j \in DOMAIN recorded', NEW k \in DOMAIN recorded', j < k,
                        recorded'[j].form = recorded'[k].form
                 PROVE  recorded'[j].lost
      BY DEF RecordedOnce
    <2>1. DOMAIN recorded = 1..Len(recorded) /\ Len(recorded) \in Nat
      BY <1>6
    <2>2. DOMAIN recorded' = 1..Len(recorded') /\ Len(recorded') \in Nat
      BY <1>7
    <2>3. j \in DOMAIN recorded /\ recorded'[j] = recorded[j]
      <3>1. CASE k \in DOMAIN recorded
        BY <1>8, <2>1, <2>2, <3>1
      <3>2. CASE k = Len(recorded) + 1
        BY <1>8, <2>1, <2>2, <3>2
      <3> QED
        BY <1>8, <3>1, <3>2
    <2>4. CASE k \in DOMAIN recorded /\ recorded'[k] = recorded[k]
      BY <2>3, <2>4 DEF ActInv, RecordedOnce
    <2>5. CASE Recording(m) /\ recorded'[k] = entry
      BY <1>5, <2>3, <2>5 DEF ActInv, FormsSpent
    <2> QED
      BY <1>8, <2>4, <2>5
  <1>13. ListTells'
    <2> SUFFICES ASSUME screen = "list"
                 PROVE  dialog' # NoDialog => failed' # {} /\ dialog'.kind # "duplicate"
      BY DEF ActInv, ListTells
    <2>1. m.latest /\ m.kind # "duplicate"
      BY DEF ActInv, ListTells
    <2>2. ~lost => dialog' = NoDialog
      BY <2>1
    <2>3. lost => m.kind \in failed' /\ dialog' = dialog
      BY <2>1
    <2> QED
      BY <2>2, <2>3 DEF ActInv, ListTells
  <1> QED
    BY <1>9, <1>10, <1>11, <1>12, <1>13 DEF ActInv

\* Steps that neither send nor answer
LEMMA ActIdles ==
  ASSUME ActInv, UNCHANGED <<screen, sent, failed, rejected, recorded, presses>>,
         status' \in [Invoices -> Statuses], shown' \in [Invoices -> Statuses],
         \/ UNCHANGED form /\ (dialog' = dialog \/ dialog' = NoDialog)
         \/ form' = form + 1 /\ form < MaxForms /\ dialog' \in Dialogs /\ dialog'.kind # "duplicate"
  PROVE  ActInv'
  <1>1. form \in Nat /\ MaxForms \in Nat /\ form <= MaxForms
    BY ActionsAssumption DEF ActInv, ActTypes, ActTypeOK
  <1>2. form' \in 0..MaxForms /\ form <= form'
    BY <1>1
  <1>3. ActTypes'
    BY <1>2 DEF ActInv, ActTypes, ActTypeOK, Dialogs
  <1>4. OneRecording' /\ RecordedOnce'
    BY DEF ActInv, OneRecording, RecordedOnce
  <1>5. FormsSpent'
    <2>1. sent \subseteq Sendings /\ rejected \subseteq Nat /\ recorded \in Seq(Recordings)
      BY DEF ActInv, ActTypes
    <2>2. \A m \in sent : m.form \in Nat /\ m.form <= form
      BY <2>1 DEF ActInv, FormsSpent, Sendings
    <2>3. \A k \in DOMAIN recorded : recorded[k].form \in Nat /\ recorded[k].form <= form
      <3>1. \A k \in DOMAIN recorded : recorded[k] \in Recordings
        BY <2>1
      <3> QED
        BY <3>1 DEF ActInv, FormsSpent, Recordings
    <2>4. CASE UNCHANGED form /\ (dialog' = dialog \/ dialog' = NoDialog)
      <3>1. dialog' # NoDialog => dialog # NoDialog
        BY <2>4
      <3> QED
        BY <2>4, <3>1 DEF ActInv, FormsSpent
    <2>5. CASE form' = form + 1
      BY <1>1, <2>1, <2>2, <2>3, <2>5 DEF ActInv, FormsSpent
    <2> QED
      BY <2>4, <2>5
  <1>6. ListTells'
    <2>1. form + 1 \notin rejected
      BY <1>1 DEF ActInv, ActTypes, FormsSpent
    <2> QED
      BY <2>1 DEF ActInv, ListTells
  <1> QED
    BY <1>3, <1>4, <1>5, <1>6 DEF ActInv

LEMMA ActStep == ActInv /\ [ActNext]_actVars => ActInv'
  <1> SUFFICES ASSUME ActInv, [ActNext]_actVars PROVE ActInv'
    OBVIOUS
  <1>1. /\ status \in [Invoices -> Statuses] /\ shown \in [Invoices -> Statuses]
        /\ \A m \in sent : m.kind \in Kinds /\ m.invoice \in Invoices
        /\ (dialog # NoDialog => dialog \in Dialogs /\ dialog.kind \in Kinds /\ dialog.invoice \in Invoices)
    BY DEF ActInv, ActTypes, ActTypeOK, Sendings
  <1>2. \A kind \in Kinds, s \in Statuses : After(kind, s) \subseteq Statuses
    BY DEF After, Kinds, Statuses
  <1>3. ASSUME NEW kind \in Kinds, NEW i \in Invoices, StartAction(kind, i)
        PROVE  ActInv'
    <2>1. kind # "duplicate"
      BY <1>3 DEF StartAction, Offered
    <2>2. dialog' \in Dialogs /\ dialog'.kind # "duplicate"
      BY <1>3, <2>1 DEF StartAction, Dialogs
    <2>3. UNCHANGED <<screen, sent, failed, rejected, recorded, presses>>
          /\ status' = status /\ shown' = shown /\ form' = form + 1 /\ form < MaxForms
      BY <1>3 DEF StartAction, World
    <2> QED
      BY <1>1, <2>2, <2>3, ActIdles
  <1>4. ASSUME NEW kind \in Kinds, NEW i \in Invoices, Elsewhere(kind, i)
        PROVE  ActInv'
    <2>1. UNCHANGED <<screen, sent, failed, rejected, recorded, presses>>
          /\ shown' = shown /\ form' = form /\ dialog' = dialog
          /\ \E s \in After(kind, status[i]) : status' = [status EXCEPT ![i] = s]
      BY <1>4 DEF Elsewhere
    <2>2. status' \in [Invoices -> Statuses]
      BY <1>1, <1>2, <2>1
    <2> QED
      BY <1>1, <2>1, <2>2, ActIdles
  <1>5. CASE CloseAction
    BY <1>1, <1>5, ActIdles DEF CloseAction, World
  <1>6. CASE Refetch
    BY <1>1, <1>6, ActIdles DEF Refetch
  <1>7. CASE UNCHANGED actVars
    BY <1>1, <1>7, ActIdles DEF actVars
  <1>8. CASE SubmitAction
    <2>1. screen = "list" => dialog.kind # "duplicate"
      BY <1>8 DEF SubmitAction, ActInv, ListTells
    <2>2. dialog # NoDialog /\ ~ActionPending /\ Mutate(dialog.kind, dialog.invoice)
          /\ UNCHANGED <<World, dialog, form>>
      BY <1>8 DEF SubmitAction
    <2>3. PICK kind \in Kinds, i \in Invoices : kind = dialog.kind /\ i = dialog.invoice
      <3>1. dialog.kind \in Kinds /\ dialog.invoice \in Invoices
        BY <1>1, <2>2
      <3> QED
        BY ONLY <3>1, Zenon
    <2>4. Mutate(kind, i)
      BY <2>2, <2>3
    <2> QED
      BY <2>1, <2>2, <2>3, <2>4, ActMutates
  <1>9. CASE ConfirmAction
    <2>1. dialog.kind \in {"issue", "delete"} /\ screen # "list" /\ Mutate(dialog.kind, dialog.invoice)
          /\ UNCHANGED <<World, dialog, form>>
      BY <1>9 DEF ConfirmAction
    <2>2. dialog # NoDialog
      BY <2>1 DEF NoDialog
    <2>3. PICK kind \in Kinds, i \in Invoices : kind = dialog.kind /\ i = dialog.invoice
      <3>1. dialog.kind \in Kinds /\ dialog.invoice \in Invoices
        BY <1>1, <2>2
      <3> QED
        BY ONLY <3>1, Zenon
    <2>4. Mutate(kind, i)
      BY <2>1, <2>3
    <2> QED
      BY <2>1, <2>2, <2>3, <2>4, ActMutates
  <1>10. ASSUME NEW i \in Invoices, Duplicate(i)
         PROVE  ActInv'
    <2>1. screen # "list" /\ ~ActionPending /\ Mutate("duplicate", i) /\ UNCHANGED <<World, dialog, form>>
      BY <1>10 DEF Duplicate
    <2>2. "duplicate" \in Kinds
      BY DEF Kinds
    <2> QED
      BY <2>1, <2>2, ActMutates
  <1>11. ASSUME NEW m \in sent, Accepted(m)
         PROVE  ActInv'
    <2>1. status' \in [Invoices -> Statuses] /\ shown' \in [Invoices -> Statuses]
      <3>1. PICK s \in After(m.kind, status[m.invoice]) : status' = [status EXCEPT ![m.invoice] = s]
        BY <1>11 DEF Accepted
      <3> QED
        BY <1>1, <1>2, <1>11, <3>1 DEF Accepted
    <2>2. /\ sent' = sent \ {m} /\ Record(m, FALSE) /\ UNCHANGED <<screen, form, presses, rejected, failed>>
          /\ dialog' = IF m.latest /\ m.kind # "duplicate" THEN NoDialog ELSE dialog
      BY <1>11 DEF Accepted
    <2> QED
      BY <2>1, <2>2, ActAnswers
  <1>12. ASSUME NEW m \in sent, Refused(m)
         PROVE  ActInv'
    BY <1>1, <1>12, ActAnswers DEF Refused
  <1>13. ASSUME NEW m \in sent, AnswerLost(m)
         PROVE  ActInv'
    <2>1. status' \in [Invoices -> Statuses]
      <3>1. PICK s \in After(m.kind, status[m.invoice]) : status' = [status EXCEPT ![m.invoice] = s]
        BY <1>13 DEF AnswerLost
      <3> QED
        BY <1>1, <1>2, <3>1
    <2>2. /\ sent' = sent \ {m} /\ Record(m, TRUE) /\ UNCHANGED <<screen, form, presses, dialog, shown>>
          /\ failed' = (IF m.latest THEN failed \cup {m.kind} ELSE failed)
          /\ rejected' = rejected \cup {m.form}
      BY <1>13 DEF AnswerLost
    <2> QED
      BY <1>1, <2>1, <2>2, ActAnswers
  <1> QED
    BY <1>3, <1>4, <1>5, <1>6, <1>7, <1>8, <1>9, <1>10, <1>11, <1>12, <1>13 DEF ActNext, Answer

-----------------------------------------------------------------------------
(* The template studio. *)

BlockRecords == [kind : Range(BlockKinds), visible : BOOLEAN]
Layouts == {b \in Seq(BlockRecords) : RequiredShownIn(b)}
TemplateNames == {"default", "house"}
Templates == [name : TemplateNames, blocks : Layouts, look : {0, 1}, of : Nat]
TemplateDrafts == [name : TemplateNames, blocks : Layouts, appearance : {0, 1}, of : Nat]
StoredRows == [doc : DocKinds, name : TemplateNames, blocks : Layouts, appearance : {0, 1},
               of : Nat, press : Nat]
Saves == [op : {"create", "update", "publish"}, id : Nat, doc : DocKinds, draft : TemplateDrafts,
          applied : BOOLEAN, press : Nat]
Drags == [from : DOMAIN BlockKinds, over : DOMAIN BlockKinds]

StudioTypes ==
    /\ docKind \in DocKinds /\ stage \in {"gallery", "editor"} /\ picked \in BOOLEAN
    /\ studioMoves \in 0..MaxStudioMoves /\ studioFaults \in 0..MaxStudioFaults
    /\ studio \in Templates \cup {NoTemplate} /\ drag \in Drags \cup {NoDrag}
    /\ studio = NoTemplate => drag = NoDrag
    /\ abandoned \in BOOLEAN

ServerTypes ==
    /\ stored \in Seq(StoredRows) /\ rows \in Seq(StoredRows) /\ Len(rows) <= Len(stored)
    /\ published \subseteq Layouts
    /\ requests \subseteq Saves /\ editingId \in 0..Len(stored)

\* One save at a time; no row is younger than one that has not been written.
OneSave ==
    /\ \A q, p \in requests : q = p
    /\ \A id \in DOMAIN stored : stored[id].press <= studioMoves
    /\ \A q \in requests :
          /\ q.press <= studioMoves
          /\ q.op # "create" \/ q.applied => q.id \in DOMAIN stored
          /\ ~q.applied => \A id \in DOMAIN stored : stored[id].press <= q.press

StudioFormed == StudioTypes /\ ServerTypes /\ OneSave

\* OwnRow, and while a create is under way its composition is on the screen.
OwnRows ==
    /\ OwnRow
    /\ ~abandoned => \A q \in requests : q.op = "create" =>
         studio # NoTemplate /\ editingId = 0 /\ studio.of = q.draft.of

StudioInv == StudioFormed /\ OwnRows

LEMMA StudioConstants ==
  /\ BlockKinds \in Seq(STRING) /\ Len(BlockKinds) \in Nat
  /\ DOMAIN BlockKinds = 1..Len(BlockKinds)
  /\ RequiredBlocks \subseteq Range(BlockKinds)
  /\ \A p \in Presets : p \subseteq Range(BlockKinds)
  /\ MaxStudioMoves \in Nat /\ MaxStudioFaults \in Nat
  BY StudioAssumption

LEMMA NoneOpen == NoTemplate \notin Templates /\ NoDrag \notin Drags
  <1>1. ASSUME NoTemplate \in Templates PROVE FALSE
    <2>1. "blocks" \in DOMAIN NoTemplate
      BY <1>1 DEF Templates
    <2> QED
      BY <2>1 DEF NoTemplate
  <1>2. ASSUME NoDrag \in Drags PROVE FALSE
    <2>1. "over" \in DOMAIN NoDrag
      BY <1>2 DEF Drags
    <2> QED
      BY <2>1 DEF NoDrag
  <1> QED
    BY <1>1, <1>2

LEMMA FormedHolds == StudioFormed => StudioTypeOK /\ RequiredShown
  <1> SUFFICES ASSUME StudioFormed PROVE StudioTypeOK /\ RequiredShown
    OBVIOUS
  <1>1. Cardinality(requests) <= 1
    <2>1. CASE requests = {}
      BY <2>1, FS_EmptySet
    <2>2. CASE requests # {}
      <3>1. PICK q \in requests : TRUE
        BY <2>2
      <3>2. requests = {q}
        BY <3>1 DEF StudioFormed, OneSave
      <3>3. Cardinality({q}) = 1
        BY FS_Singleton
      <3> QED
        BY <3>2, <3>3
    <2> QED
      BY <2>1, <2>2
  <1>2. \A q \in requests : q.op \in {"create", "update", "publish"}
    BY DEF StudioFormed, ServerTypes, Saves
  <1>3. drag # NoDrag => drag.from \in DOMAIN BlockKinds /\ drag.over \in DOMAIN BlockKinds
    BY DEF StudioFormed, StudioTypes, Drags
  <1>4. StudioTypeOK
    BY <1>1, <1>2, <1>3 DEF StudioFormed, StudioTypes, ServerTypes, StudioTypeOK
  <1>5. studio # NoTemplate => RequiredShownIn(studio.blocks)
    BY DEF StudioFormed, StudioTypes, Templates, Layouts
  <1>6. ASSUME NEW id \in DOMAIN stored PROVE RequiredShownIn(stored[id].blocks)
    <2>1. stored[id] \in StoredRows
      BY DEF StudioFormed, ServerTypes
    <2> QED
      BY <2>1 DEF StoredRows, Layouts
  <1>7. \A blocks \in published : RequiredShownIn(blocks)
    BY DEF StudioFormed, ServerTypes, Layouts
  <1> QED
    BY <1>4, <1>5, <1>6, <1>7 DEF RequiredShown

\* A preset shows what is required.
LEMMA PresetShows == \A shows \in Presets \cup {{}} : PresetBlocks(shows) \in Layouts
  <1> SUFFICES ASSUME NEW shows \in Presets \cup {{}} PROVE PresetBlocks(shows) \in Layouts
    OBVIOUS
  <1>1. /\ Len(BlockKinds) \in Nat /\ DOMAIN BlockKinds = 1..Len(BlockKinds)
    BY StudioConstants
  <1>2. DOMAIN PresetBlocks(shows) = 1..Len(BlockKinds)
    BY <1>1 DEF PresetBlocks
  <1>3. \A i \in 1..Len(BlockKinds) :
           /\ PresetBlocks(shows)[i].kind = BlockKinds[i]
           /\ PresetBlocks(shows)[i].visible <=> BlockKinds[i] \in RequiredBlocks \cup shows
           /\ PresetBlocks(shows)[i] \in BlockRecords
    <2> SUFFICES ASSUME NEW i \in 1..Len(BlockKinds)
                 PROVE  /\ PresetBlocks(shows)[i].kind = BlockKinds[i]
                        /\ PresetBlocks(shows)[i].visible <=> BlockKinds[i] \in RequiredBlocks \cup shows
                        /\ PresetBlocks(shows)[i] \in BlockRecords
      OBVIOUS
    <2>9. (BlockKinds[i] \in RequiredBlocks \cup shows) \in BOOLEAN
      OBVIOUS
    <2>0. PICK v \in BOOLEAN : v = (BlockKinds[i] \in RequiredBlocks \cup shows)
      BY ONLY <2>9, Zenon
    <2>1. PresetBlocks(shows)[i] = [kind |-> BlockKinds[i], visible |-> v]
      BY <1>1, <2>0 DEF PresetBlocks
    <2>2. BlockKinds[i] \in Range(BlockKinds)
      BY <1>1 DEF Range
    <2>3. PresetBlocks(shows)[i] \in BlockRecords
      BY <2>1, <2>2 DEF BlockRecords
    <2>4. PresetBlocks(shows)[i].kind = BlockKinds[i] /\ (PresetBlocks(shows)[i].visible <=> v)
      BY <2>1
    <2> QED
      BY <2>0, <2>3, <2>4
  <1>4. PresetBlocks(shows) \in Seq(BlockRecords) /\ Len(PresetBlocks(shows)) = Len(BlockKinds)
    <2>1. PresetBlocks(shows) \in [1..Len(BlockKinds) -> BlockRecords]
      BY <1>1, <1>3 DEF PresetBlocks
    <2> QED
      BY <1>1, <2>1, SeqDef, LenProperties
  <1>5. {PresetBlocks(shows)[i].kind : i \in DOMAIN PresetBlocks(shows)} = Range(BlockKinds)
    BY <1>1, <1>2, <1>3 DEF Range
  <1> QED
    BY <1>2, <1>3, <1>4, <1>5 DEF Layouts, RequiredShownIn, Whole

\* A move keeps every block, once, as it is.
LEMMA Reordered ==
  ASSUME NEW b \in Layouts, NEW from \in DOMAIN BlockKinds, NEW to \in DOMAIN BlockKinds
  PROVE  Reorder(b, from, to) \in Layouts
  <1>1. b \in Seq(BlockRecords) /\ Len(b) = Len(BlockKinds) /\ Len(b) \in Nat /\ DOMAIN b = 1..Len(b)
        /\ \A i \in DOMAIN b : b[i] \in BlockRecords
    BY DEF Layouts, RequiredShownIn, Whole
  <1>2. from \in 1..Len(b) /\ to \in 1..Len(b)
    BY <1>1, StudioConstants
  <1>3. PICK cut \in Seq(BlockRecords) :
           /\ cut = RemoveAt(b, from) /\ Len(cut) = Len(b) - 1
           /\ \A k \in 1..(Len(b) - 1) : cut[k] = IF k < from THEN b[k] ELSE b[k + 1]
    BY <1>1, <1>2, RemovedAt
  <1>4. to \in 1..(Len(cut) + 1) /\ Len(cut) + 1 = Len(b) /\ b[from] \in BlockRecords
    BY <1>1, <1>2, <1>3
  <1>5. PICK moved \in Seq(BlockRecords) :
           /\ moved = InsertAt(cut, to, b[from]) /\ Len(moved) = Len(b)
           /\ \A k \in 1..Len(b) :
                 moved[k] = IF k < to THEN cut[k] ELSE IF k = to THEN b[from] ELSE cut[k - 1]
    <2>1. PICK e \in BlockRecords : e = b[from]
      BY ONLY <1>4, Zenon
    <2>2. /\ InsertAt(cut, to, e) \in Seq(BlockRecords)
          /\ Len(InsertAt(cut, to, e)) = Len(cut) + 1
          /\ \A k \in 1..(Len(cut) + 1) : InsertAt(cut, to, e)[k] = WithInserted(cut, to, e, k)
      BY ONLY <1>4, InsertedAt, Zenon
    <2>3. PICK ins \in Seq(BlockRecords) : ins = InsertAt(cut, to, e)
      BY ONLY <2>2, Zenon
    <2> QED
      BY ONLY <1>4, <2>1, <2>2, <2>3 DEF WithInserted
  <1>6. Reorder(b, from, to) = moved
    BY <1>3, <1>5 DEF Reorder
  <1>7. DOMAIN moved = 1..Len(b)
    BY <1>5
  <1>8. ASSUME NEW k \in 1..Len(b) PROVE \E j \in 1..Len(b) : moved[k] = b[j]
    <2>1. CASE k < to
      <3>1. k \in 1..(Len(b) - 1) /\ moved[k] = cut[k] /\ k + 1 \in 1..Len(b)
        BY <1>1, <1>2, <1>5, <2>1
      <3>2. cut[k] = b[k] \/ cut[k] = b[k + 1]
        BY <1>3, <3>1
      <3> QED
        BY <3>1, <3>2
    <2>2. CASE k = to
      BY <1>2, <1>5, <2>2
    <2>3. CASE k > to
      <3>1. k - 1 \in 1..(Len(b) - 1) /\ moved[k] = cut[k - 1] /\ (k - 1) + 1 = k /\ k - 1 \in 1..Len(b)
        BY <1>1, <1>2, <1>5, <2>3
      <3>2. cut[k - 1] = b[k - 1] \/ cut[k - 1] = b[(k - 1) + 1]
        BY <1>3, <3>1
      <3> QED
        BY <3>1, <3>2
    <2> QED
      BY <1>1, <1>2, <2>1, <2>2, <2>3
  <1>9. ASSUME NEW j \in 1..Len(b) PROVE \E k \in 1..Len(b) : moved[k] = b[j]
    <2>1. CASE j = from
      BY <1>2, <1>5, <2>1
    <2>2. ASSUME NEW c \in 1..(Len(b) - 1), cut[c] = b[j] PROVE \E k \in 1..Len(b) : moved[k] = b[j]
      <3>1. CASE c < to
        <4>1. c \in 1..Len(b) /\ moved[c] = cut[c]
          BY <1>1, <1>5, <3>1
        <4> QED
          BY <2>2, <4>1
      <3>2. CASE ~(c < to)
        <4>1. c + 1 \in 1..Len(b) /\ ~(c + 1 < to) /\ c + 1 # to /\ (c + 1) - 1 = c
          BY <1>1, <1>2, <3>2
        <4>2. moved[c + 1] = cut[c]
          BY <1>5, <4>1
        <4> QED
          BY <2>2, <4>1, <4>2
      <3> QED
        BY <3>1, <3>2
    <2>3. CASE j < from
      <3>1. j \in 1..(Len(b) - 1) /\ cut[j] = b[j]
        BY <1>1, <1>2, <1>3, <2>3
      <3> QED
        BY <2>2, <3>1
    <2>4. CASE j > from
      <3>1. j - 1 \in 1..(Len(b) - 1) /\ ~(j - 1 < from) /\ (j - 1) + 1 = j
        BY <1>1, <1>2, <2>4
      <3>2. cut[j - 1] = b[j]
        BY <1>3, <3>1
      <3> QED
        BY <2>2, <3>1, <3>2
    <2> QED
      BY <1>1, <1>2, <2>1, <2>3, <2>4
  <1>10. {moved[k].kind : k \in DOMAIN moved} = {b[j].kind : j \in DOMAIN b}
    <2>1. \A k \in DOMAIN moved : \E j \in DOMAIN b : moved[k].kind = b[j].kind
      BY <1>1, <1>7, <1>8
    <2>2. \A j \in DOMAIN b : \E k \in DOMAIN moved : moved[k].kind = b[j].kind
      BY <1>1, <1>7, <1>9
    <2> QED
      <3>1. \A x : x \in {moved[k].kind : k \in DOMAIN moved} <=> x \in {b[j].kind : j \in DOMAIN b}
        <4> SUFFICES ASSUME NEW x
                     PROVE  x \in {moved[k].kind : k \in DOMAIN moved} <=> x \in {b[j].kind : j \in DOMAIN b}
          OBVIOUS
        <4>1. ASSUME NEW k \in DOMAIN moved, x = moved[k].kind PROVE x \in {b[j].kind : j \in DOMAIN b}
          BY <2>1, <4>1
        <4>2. ASSUME NEW j \in DOMAIN b, x = b[j].kind PROVE x \in {moved[k].kind : k \in DOMAIN moved}
          BY <2>2, <4>2
        <4> QED
          BY <4>1, <4>2
      <3> QED
        BY ONLY <3>1
  <1>11. \A k \in DOMAIN moved : moved[k].kind \in RequiredBlocks => moved[k].visible
    BY <1>1, <1>7, <1>8 DEF Layouts, RequiredShownIn
  <1> QED
    <2>1. {b[j].kind : j \in DOMAIN b} = Range(BlockKinds)
      BY DEF Layouts, RequiredShownIn, Whole
    <2>2. RequiredShownIn(moved)
      BY <1>1, <1>5, <1>10, <1>11, <2>1 DEF RequiredShownIn, Whole
    <2> QED
      BY <1>6, <2>2 DEF Layouts

\* Hiding or showing a block that no document needs.
LEMMA Toggled ==
  ASSUME NEW b \in Layouts, NEW i \in DOMAIN BlockKinds, b[i].kind \notin RequiredBlocks
  PROVE  [b EXCEPT ![i].visible = ~@] \in Layouts
  <1>1. b \in Seq(BlockRecords) /\ Len(b) = Len(BlockKinds) /\ Len(b) \in Nat /\ DOMAIN b = 1..Len(b)
        /\ \A k \in DOMAIN b : b[k] \in BlockRecords
    BY DEF Layouts, RequiredShownIn, Whole
  <1>2. i \in DOMAIN b
    BY <1>1, StudioConstants
  <1>3. PICK new \in BlockRecords : new = [b[i] EXCEPT !.visible = ~b[i].visible] /\ new.kind = b[i].kind
    <2>1. b[i] \in BlockRecords
      BY <1>1, <1>2
    <2>2. [b[i] EXCEPT !.visible = ~b[i].visible] \in BlockRecords
          /\ [b[i] EXCEPT !.visible = ~b[i].visible].kind = b[i].kind
      BY <2>1 DEF BlockRecords
    <2> QED
      BY ONLY <2>2, Zenon
  <1>4. PICK c \in Seq(BlockRecords) : c = [b EXCEPT ![i] = new]
    <2>1. [b EXCEPT ![i] = new] \in Seq(BlockRecords)
      BY <1>1, <1>2, <1>3
    <2> QED
      BY ONLY <2>1, Zenon
  <1>5. [b EXCEPT ![i].visible = ~@] = c
    BY <1>3, <1>4
  <1>6. Len(c) = Len(b) /\ DOMAIN c = DOMAIN b /\ c[i] = new /\ \A k \in DOMAIN b : k # i => c[k] = b[k]
    BY <1>1, <1>2, <1>4
  <1>7. \A k \in DOMAIN b : c[k].kind = b[k].kind
    BY <1>3, <1>6
  <1>8. {c[k].kind : k \in DOMAIN c} = {b[k].kind : k \in DOMAIN b}
    BY <1>6, <1>7
  <1>9. \A k \in DOMAIN c : c[k].kind \in RequiredBlocks => c[k].visible
    BY <1>3, <1>6 DEF Layouts, RequiredShownIn
  <1> QED
    BY <1>5, <1>6, <1>8, <1>9 DEF Layouts, RequiredShownIn, Whole

LEMMA FormedBase == StudioInit => StudioFormed
  <1> SUFFICES ASSUME StudioInit PROVE StudioFormed
    OBVIOUS
  <1>1. House \in StoredRows /\ House.press = 0
    <2>1. PresetBlocks({}) \in Layouts
      BY PresetShows
    <2>2. PICK b \in Layouts : House = [doc |-> "invoice", name |-> "house", blocks |-> b, appearance |-> 0,
                                       of |-> 0, press |-> 0]
      BY <2>1 DEF House
    <2>3. House \in StoredRows
      <3>1. "invoice" \in DocKinds /\ "house" \in TemplateNames /\ 0 \in {0, 1} /\ 0 \in Nat
        BY DEF DocKinds, TemplateNames
      <3> QED
        BY ONLY <2>2, <3>1 DEF StoredRows
    <2>4. House.press = 0
      BY <2>2
    <2> QED
      BY <2>3, <2>4
  <1>2. stored \in Seq(StoredRows) /\ Len(rows) <= Len(stored) /\ rows \in Seq(StoredRows)
        /\ 0 \in 0..Len(stored) /\ \A id \in DOMAIN stored : stored[id].press = 0
    <2>1. CASE stored = <<>>
      BY <2>1 DEF StudioInit
    <2>2. CASE stored = <<House>>
      BY <1>1, <2>2 DEF StudioInit
    <2> QED
      BY <2>1, <2>2 DEF StudioInit
  <1>3. ServerTypes
    BY <1>2 DEF StudioInit, ServerTypes
  <1>4. studioMoves \in 0..MaxStudioMoves /\ studioFaults \in 0..MaxStudioFaults
    <2>1. studioMoves = 0 /\ studioFaults = 0 /\ MaxStudioMoves \in Nat /\ MaxStudioFaults \in Nat
      BY StudioConstants DEF StudioInit
    <2> QED
      BY ONLY <2>1
  <1>5. StudioTypes
    BY <1>4 DEF StudioInit, StudioTypes, DocKinds
  <1>6. OneSave
    BY <1>2 DEF StudioInit, OneSave
  <1> QED
    BY <1>3, <1>5, <1>6 DEF StudioFormed

LEMMA RowTypes ==
  ASSUME StudioFormed
  PROVE  /\ stored \in Seq(StoredRows) /\ Len(stored) \in Nat /\ DOMAIN stored = 1..Len(stored)
         /\ \A id \in DOMAIN stored :
               /\ stored[id] \in StoredRows /\ stored[id].press \in Nat
               /\ stored[id].doc \in DocKinds /\ stored[id].blocks \in Layouts
         /\ \A q \in requests : q \in Saves /\ q.press \in Nat
  <1>1. /\ stored \in Seq(StoredRows) /\ Len(stored) \in Nat /\ DOMAIN stored = 1..Len(stored)
        /\ \A id \in DOMAIN stored : stored[id] \in StoredRows
        /\ \A q \in requests : q \in Saves
    BY DEF StudioFormed, ServerTypes
  <1>2. \A r \in StoredRows : r.press \in Nat /\ r.doc \in DocKinds /\ r.blocks \in Layouts
    BY DEF StoredRows
  <1>3. \A q \in Saves : q.press \in Nat
    BY DEF Saves
  <1> QED
    BY <1>1, <1>2, <1>3

\* Steps on the screen leave the server's part alone.
LEMMA StudioScreen ==
  ASSUME StudioFormed, UNCHANGED TemplateServer, StudioMove, StudioTypes', editingId' \in 0..Len(stored)
  PROVE  StudioFormed'
  <1>1. studioMoves \in Nat /\ studioMoves' = studioMoves + 1
    BY StudioConstants DEF StudioFormed, StudioTypes, StudioMove
  <1>2. ServerTypes'
    BY DEF StudioFormed, ServerTypes, TemplateServer
  <1>3. /\ \A id \in DOMAIN stored : stored[id] \in StoredRows /\ stored[id].press \in Nat
        /\ \A q \in requests : q.press \in Nat
    BY RowTypes
  <1>4. OneSave'
    BY <1>1, <1>3 DEF StudioFormed, OneSave, TemplateServer
  <1> QED
    BY <1>2, <1>4 DEF StudioFormed

LEMMA StudioMoved ==
  ASSUME StudioFormed, StudioMove
  PROVE  studioMoves' \in 0..MaxStudioMoves
  BY StudioConstants DEF StudioFormed, StudioTypes, StudioMove

\* Pressing Save or Publish.
LEMMA Pressed ==
  ASSUME StudioFormed, NEW op \in {"create", "update", "publish"}, StudioMove, Editor, requests = {},
         Request(op), op # "create" => editingId # 0,
         UNCHANGED <<abandoned, stored, published, rows, docKind, studio, editingId, stage, picked, drag,
                     studioFaults>>
  PROVE  StudioFormed'
  <1>1. studioMoves \in Nat /\ studioMoves' = studioMoves + 1
    BY StudioConstants DEF StudioFormed, StudioTypes, StudioMove
  <1>2. PICK d \in TemplateDrafts : d = FromStudio(studio)
    <2>1. studio \in Templates
      BY DEF StudioFormed, StudioTypes, Editor
    <2>2. FromStudio(studio) \in TemplateDrafts
      BY <2>1 DEF FromStudio, Templates, TemplateDrafts
    <2> QED
      BY ONLY <2>2, Zenon
  <1>3. editingId \in Nat /\ docKind \in DocKinds /\ Len(stored) \in Nat /\ DOMAIN stored = 1..Len(stored)
    BY DEF StudioFormed, StudioTypes, ServerTypes
  <1>4. PICK q \in Saves :
           q = [op |-> op, id |-> editingId, doc |-> docKind, draft |-> d,
                applied |-> FALSE, press |-> studioMoves + 1]
    <2>1. [op |-> op, id |-> editingId, doc |-> docKind, draft |-> d,
           applied |-> FALSE, press |-> studioMoves + 1] \in Saves
      <3>1. FALSE \in BOOLEAN /\ studioMoves + 1 \in Nat
        BY <1>1
      <3> QED
        BY <1>3, <3>1 DEF Saves
    <2> QED
      BY ONLY <2>1, Zenon
  <1>5. requests' = {q}
    BY <1>2, <1>4 DEF Request
  <1>6. q.op = op /\ q.id = editingId /\ ~q.applied /\ q.press = studioMoves + 1
    BY <1>4
  <1>7. StudioTypes'
    BY StudioMoved DEF StudioFormed, StudioTypes
  <1>8. ServerTypes'
    BY <1>5 DEF StudioFormed, ServerTypes
  <1>9. op # "create" => editingId \in DOMAIN stored
    BY <1>3 DEF StudioFormed, ServerTypes
  <1>10. \A id \in DOMAIN stored : stored[id].press \in Nat /\ stored[id].press <= studioMoves
    BY RowTypes DEF StudioFormed, OneSave
  <1>11. OneSave'
    BY <1>1, <1>3, <1>5, <1>6, <1>9, <1>10 DEF OneSave
  <1> QED
    BY <1>7, <1>8, <1>11 DEF StudioFormed

\* The server writes a row or cuts a version of one; no row gets older.
LEMMA Applied ==
  ASSUME StudioFormed, NEW q \in requests, Apply(q)
  PROVE  StudioFormed' /\ SavesInOrder
  <1>1. /\ q \in Saves /\ ~q.applied /\ requests = {q}
        /\ q.op \in {"create", "update", "publish"} /\ q.press \in Nat /\ q.press <= studioMoves
        /\ q.id \in Nat /\ q.doc \in DocKinds /\ q.draft \in TemplateDrafts
        /\ studioMoves \in Nat
    BY StudioConstants DEF StudioFormed, StudioTypes, ServerTypes, OneSave, Saves, Apply
  <1>2. /\ stored \in Seq(StoredRows) /\ Len(stored) \in Nat /\ DOMAIN stored = 1..Len(stored)
        /\ \A id \in DOMAIN stored :
              /\ stored[id] \in StoredRows /\ stored[id].press \in Nat
              /\ stored[id].press <= q.press /\ stored[id].doc \in DocKinds
              /\ stored[id].blocks \in Layouts
    BY <1>1, RowTypes DEF StudioFormed, OneSave
  <1>3. q.op # "create" => q.id \in DOMAIN stored
    BY <1>1 DEF StudioFormed, OneSave
  <1>4. ASSUME NEW d \in DocKinds PROVE Written(q, d) \in StoredRows /\ Written(q, d).press = q.press
    <2>1. q.draft.name \in TemplateNames /\ q.draft.blocks \in Layouts /\ q.draft.appearance \in {0, 1}
          /\ q.draft.of \in Nat
      BY <1>1 DEF TemplateDrafts
    <2> QED
      BY <1>1, <1>4, <2>1 DEF Written, StoredRows
  <1>5. /\ stored' \in Seq(StoredRows) /\ Len(stored) <= Len(stored') /\ Len(stored') \in Nat
        /\ DOMAIN stored' = 1..Len(stored') /\ DOMAIN stored \subseteq DOMAIN stored'
        /\ \A id \in DOMAIN stored' :
              \/ id \in DOMAIN stored /\ stored'[id] = stored[id]
              \/ stored'[id].press = q.press
        /\ q.op = "create" => Len(stored) + 1 \in DOMAIN stored'
    <2>1. CASE q.op = "create"
      <3>1. PICK w \in StoredRows : w = Written(q, q.doc) /\ w.press = q.press
        <4>1. Written(q, q.doc) \in StoredRows /\ Written(q, q.doc).press = q.press
          BY <1>1, <1>4
        <4> QED
          BY ONLY <4>1, Zenon
      <3>2. stored' = Append(stored, w)
        BY <2>1, <3>1 DEF Apply
      <3> QED
        BY <1>2, <3>1, <3>2
    <2>2. CASE q.op = "update"
      <3>1. q.id \in DOMAIN stored
        BY <1>3, <2>2
      <3>2. PICK w \in StoredRows : w = Written(q, stored[q.id].doc) /\ w.press = q.press
        <4>1. Written(q, stored[q.id].doc) \in StoredRows /\ Written(q, stored[q.id].doc).press = q.press
          BY <1>2, <1>4, <3>1
        <4> QED
          BY ONLY <4>1, Zenon
      <3>3. stored' = [stored EXCEPT ![q.id] = w]
        BY <2>2, <3>2 DEF Apply
      <3>4. stored' \in Seq(StoredRows) /\ Len(stored') = Len(stored) /\ DOMAIN stored' = DOMAIN stored
        BY <1>2, <3>1, <3>3
      <3>5. \A id \in DOMAIN stored' : stored'[id] = IF id = q.id THEN w ELSE stored[id]
        BY <3>3, <3>4
      <3> QED
        BY <1>2, <2>2, <3>2, <3>4, <3>5
    <2>3. CASE q.op = "publish"
      BY <1>2, <2>3 DEF Apply
    <2> QED
      BY <1>1, <2>1, <2>2, <2>3
  <1>6. published' \subseteq Layouts
    BY <1>2, <1>3 DEF StudioFormed, ServerTypes, Apply
  <1>7. PICK n \in Nat : n = (IF q.op = "create" THEN Len(stored) + 1 ELSE q.id)
    <2>1. (IF q.op = "create" THEN Len(stored) + 1 ELSE q.id) \in Nat
      BY <1>1, <1>2
    <2> QED
      BY ONLY <2>1, Zenon
  <1>8. PICK p \in Saves : p = [q EXCEPT !.applied = TRUE, !.id = n]
    <2>1. [q EXCEPT !.applied = TRUE, !.id = n] \in Saves
      BY <1>1 DEF Saves
    <2> QED
      BY ONLY <2>1, Zenon
  <1>9. p.id = n /\ p.applied /\ p.press = q.press
    BY <1>1, <1>8 DEF Saves
  <1>10. requests' = {p}
    BY <1>1, <1>7, <1>8 DEF Apply
  <1>11. n \in DOMAIN stored'
    BY <1>3, <1>5, <1>7
  <1>12. StudioTypes'
    BY DEF StudioFormed, StudioTypes, Apply
  <1>13. ServerTypes'
    <2>1. rows' \in Seq(StoredRows) /\ Len(rows') \in Nat /\ Len(rows') <= Len(stored)
          /\ editingId' \in 0..Len(stored)
      BY <1>2 DEF StudioFormed, ServerTypes, Apply
    <2> QED
      BY <1>2, <1>5, <1>6, <1>10, <2>1 DEF ServerTypes
  <1>14. \A id \in DOMAIN stored' : stored'[id].press <= q.press
    BY <1>1, <1>2, <1>5
  <1>15. \A id \in DOMAIN stored' : stored'[id].press <= studioMoves
    BY <1>1, <1>2, <1>5
  <1>16. UNCHANGED studioMoves
    BY DEF Apply
  <1>17. OneSave'
    BY <1>1, <1>9, <1>10, <1>11, <1>15, <1>16 DEF OneSave
  <1>18. SavesInOrder
    BY <1>1, <1>2, <1>5 DEF SavesInOrder
  <1> QED
    BY <1>12, <1>13, <1>17, <1>18 DEF StudioFormed

LEMMA SavesKept == UNCHANGED stored /\ StudioFormed => SavesInOrder
  <1>1. StudioFormed => \A id \in DOMAIN stored : stored[id].press \in Nat
    BY RowTypes
  <1> QED
    BY <1>1 DEF SavesInOrder

LEMMA FormedStep == StudioFormed /\ [StudioNext]_studioVars => StudioFormed' /\ SavesInOrder
  <1> SUFFICES ASSUME StudioFormed, [StudioNext]_studioVars PROVE StudioFormed' /\ SavesInOrder
    OBVIOUS
  <1>1. /\ StudioTypes /\ ServerTypes /\ OneSave
        /\ editingId \in 0..Len(stored) /\ Len(stored) \in Nat /\ 0 \in 0..Len(stored)
    BY DEF StudioFormed, ServerTypes
  <1>2. Editor => studio \in Templates /\ studio.blocks \in Layouts /\ studio.look \in {0, 1}
                  /\ studio.name \in TemplateNames
    BY <1>1 DEF StudioTypes, Editor, Templates
  \* a step that keeps the server: it is enough that the screen stays well formed
  <1>3. ASSUME UNCHANGED TemplateServer, StudioMove, StudioTypes', editingId' \in 0..Len(stored)
        PROVE  StudioFormed' /\ SavesInOrder
    BY <1>3, StudioScreen, SavesKept DEF TemplateServer
  <1>4. ASSUME NEW t \in Templates, Editor, StudioMove, studio' = t,
               UNCHANGED <<TemplateServer, abandoned, docKind, editingId, stage, picked, drag>>
        PROVE  StudioFormed' /\ SavesInOrder
    <2>1. StudioTypes'
      BY <1>1, <1>4, NoneOpen, StudioMoved DEF StudioTypes, TemplateServer
    <2> QED
      BY <1>1, <1>3, <1>4, <2>1
  <1>5. ASSUME NEW b \in Layouts, studio \in Templates
        PROVE  [studio EXCEPT !.blocks = b] \in Templates
    BY <1>5 DEF Templates
  <1>6. ASSUME NEW d \in DocKinds, ChooseDocKind(d)
        PROVE  StudioFormed' /\ SavesInOrder
    <2>1. StudioTypes'
      BY <1>1, <1>6, StudioMoved DEF StudioTypes, TemplateServer, ChooseDocKind
    <2> QED
      BY <1>1, <1>3, <1>6, <2>1 DEF ChooseDocKind
  <1>7. ASSUME NEW shows \in Presets, NEW name \in TemplateNames, NEW of \in Nat
        PROVE  TemplateFromPreset(shows, name, of) \in Templates
    <2>1. PICK b \in Layouts : b = PresetBlocks(shows)
      BY PresetShows
    <2>2. TemplateFromPreset(shows, name, of) = [name |-> name, blocks |-> b, look |-> 0, of |-> of]
      BY <2>1 DEF TemplateFromPreset
    <2> QED
      BY <2>2 DEF Templates
  <1>8. CASE NewTemplate
    <2>0. studioMoves + 1 \in Nat
      BY <1>1, StudioConstants DEF StudioTypes
    <2>1. studio' \in Templates
      BY <1>7, <1>8, <2>0 DEF NewTemplate, TemplateNames
    <2>2. StudioTypes'
      BY <1>1, <1>8, <2>1, NoneOpen, StudioMoved DEF StudioTypes, TemplateServer, NewTemplate
    <2> QED
      BY <1>1, <1>3, <1>8, <2>2 DEF NewTemplate
  <1>9. ASSUME NEW id \in DOMAIN rows, OpenTemplate(id)
        PROVE  StudioFormed' /\ SavesInOrder
    <2>1. rows[id] \in StoredRows /\ id \in 0..Len(stored)
      BY <1>1, <1>9 DEF ServerTypes
    <2>2. ToStudio(rows[id]) \in Templates
      BY <2>1 DEF ToStudio, StoredRows, Templates
    <2>3. StudioTypes'
      BY <1>1, <1>9, <2>2, NoneOpen, StudioMoved DEF StudioTypes, TemplateServer, OpenTemplate
    <2> QED
      BY <1>3, <1>9, <2>1, <2>3 DEF OpenTemplate
  <1>10. ASSUME NEW shows \in Presets, PickPreset(shows)
         PROVE  StudioFormed' /\ SavesInOrder
    <2>1. studio.name \in TemplateNames /\ studio.of \in Nat
      BY <1>1, <1>10 DEF StudioTypes, PickPreset, Templates
    <2>2. studio' \in Templates
      BY <1>7, <1>10, <2>1 DEF PickPreset
    <2>3. StudioTypes'
      BY <1>1, <1>10, <2>2, NoneOpen, StudioMoved DEF StudioTypes, TemplateServer, PickPreset
    <2> QED
      BY <1>1, <1>3, <1>10, <2>3 DEF PickPreset
  <1>11. CASE Customise
    <2>1. StudioTypes'
      BY <1>1, <1>11, StudioMoved DEF StudioTypes, TemplateServer, Customise
    <2> QED
      BY <1>1, <1>3, <1>11, <2>1 DEF Customise
  <1>12. CASE BackToGallery
    <2>1. StudioTypes'
      BY <1>1, <1>12, StudioMoved DEF StudioTypes, TemplateServer, BackToGallery
    <2> QED
      BY <1>1, <1>3, <1>12, <2>1 DEF BackToGallery
  <1>13. CASE Exit
    <2>1. StudioTypes'
      BY <1>1, <1>13, StudioMoved DEF StudioTypes, TemplateServer, Exit
    <2> QED
      BY <1>1, <1>3, <1>13, <2>1 DEF Exit
  <1>14. CASE EditLook
    <2>1. [studio EXCEPT !.look = 1 - @] \in Templates
      <3>1. studio \in Templates /\ studio.look \in {0, 1}
        BY <1>2, <1>14 DEF EditLook
      <3>2. 1 - studio.look \in {0, 1}
        BY <3>1
      <3> QED
        BY <3>1, <3>2 DEF Templates
    <2> QED
      BY <1>4, <1>14, <2>1 DEF EditLook
  <1>15. ASSUME NEW i \in DOMAIN BlockKinds, ToggleVisible(i)
         PROVE  StudioFormed' /\ SavesInOrder
    <2>1. studio \in Templates /\ studio.blocks \in Layouts
      BY <1>2, <1>15 DEF ToggleVisible
    <2>2. PICK t \in Templates : t = [studio EXCEPT !.blocks = [studio.blocks EXCEPT ![i].visible = ~@]]
      <3>1. PICK b \in Layouts : b = [studio.blocks EXCEPT ![i].visible = ~@]
        <4>1. [studio.blocks EXCEPT ![i].visible = ~@] \in Layouts
          BY <1>15, <2>1, Toggled DEF ToggleVisible
        <4> QED
          BY ONLY <4>1, Zenon
      <3> QED
        BY <1>5, <2>1, <3>1
    <2>3. studio' = t
      BY <1>15, <2>1, <2>2 DEF ToggleVisible
    <2> QED
      BY <1>4, <1>15, <2>3 DEF ToggleVisible
  <1>16. ASSUME NEW i \in DOMAIN BlockKinds, StartDrag(i)
         PROVE  StudioFormed' /\ SavesInOrder
    <2>1. drag' \in Drags
      BY <1>16 DEF StartDrag, Drags
    <2>2. StudioTypes'
      BY <1>1, <1>16, <2>1, StudioMoved DEF StudioTypes, TemplateServer, StartDrag, Editor
    <2> QED
      BY <1>1, <1>3, <1>16, <2>2 DEF StartDrag
  <1>17. ASSUME NEW j \in DOMAIN BlockKinds, MoveDrag(j)
         PROVE  StudioFormed' /\ SavesInOrder
    <2>1. drag \in Drags
      BY <1>1, <1>17 DEF StudioTypes, MoveDrag
    <2>2. drag' \in Drags
      BY <1>17, <2>1 DEF MoveDrag, Drags
    <2>3. StudioTypes'
      BY <1>1, <1>17, <2>2, StudioMoved DEF StudioTypes, TemplateServer, MoveDrag
    <2> QED
      BY <1>1, <1>3, <1>17, <2>3 DEF MoveDrag
  <1>18. ASSUME NEW from \in DOMAIN BlockKinds, NEW to \in DOMAIN BlockKinds, studio \in Templates
         PROVE  [studio EXCEPT !.blocks = Reorder(@, from, to)] \in Templates
    <2>1. studio.blocks \in Layouts
      BY <1>18 DEF Templates
    <2>2. PICK b \in Layouts : b = Reorder(studio.blocks, from, to)
      <3>1. Reorder(studio.blocks, from, to) \in Layouts
        BY <2>1, Reordered
      <3> QED
        BY ONLY <3>1, Zenon
    <2>3. [studio EXCEPT !.blocks = b] \in Templates
      BY <1>5, <1>18
    <2> QED
      BY <2>2, <2>3
  <1>19. CASE EndDrag
    <2>1. studio \in Templates /\ drag.from \in DOMAIN BlockKinds /\ drag.over \in DOMAIN BlockKinds
      BY <1>1, <1>19 DEF StudioTypes, EndDrag, Drags
    <2>2. studio' \in Templates
      BY <1>18, <1>19, <2>1 DEF EndDrag
    <2>3. StudioTypes'
      BY <1>1, <1>19, <2>2, StudioMoved DEF StudioTypes, TemplateServer, EndDrag
    <2> QED
      BY <1>1, <1>3, <1>19, <2>3 DEF EndDrag
  <1>20. ASSUME NEW i \in DOMAIN BlockKinds, NEW target, Nudge(i, target)
         PROVE  StudioFormed' /\ SavesInOrder
    <2>1. studio \in Templates /\ DOMAIN studio.blocks = DOMAIN BlockKinds
      <3>1. studio.blocks \in Layouts
        BY <1>2, <1>20 DEF Nudge
      <3>2. studio.blocks \in Seq(BlockRecords) /\ Len(studio.blocks) = Len(BlockKinds)
        BY <3>1 DEF Layouts, RequiredShownIn, Whole
      <3> QED
        BY <1>2, <1>20, <3>2, StudioConstants DEF Nudge
    <2>2. target \in DOMAIN BlockKinds
      BY <1>20, <2>1 DEF Nudge
    <2>3. studio' \in Templates
      BY <1>18, <1>20, <2>1, <2>2 DEF Nudge
    <2> QED
      BY <1>4, <1>20, <2>3 DEF Nudge
  <1>21. CASE OnSave
    <2>1. PICK op \in {"create", "update"} : Request(op) /\ (op # "create" => editingId # 0)
      BY <1>21 DEF OnSave
    <2>2. StudioFormed'
      BY <1>21, <2>1, Pressed DEF OnSave
    <2> QED
      BY <1>21, <2>2, SavesKept DEF OnSave
  <1>22. CASE OnPublish
    <2>1. StudioFormed'
      BY <1>22, Pressed DEF OnPublish
    <2> QED
      BY <1>22, <2>1, SavesKept DEF OnPublish
  <1>23. ASSUME NEW q \in requests, Apply(q)
         PROVE  StudioFormed' /\ SavesInOrder
    BY <1>23, Applied
  <1>24. ASSUME NEW q \in requests, Answered(q)
         PROVE  StudioFormed' /\ SavesInOrder
    <2>1. q.op # "create" \/ q.id \in DOMAIN stored
      BY <1>1, <1>24 DEF OneSave, Answered
    <2>2. editingId' \in 0..Len(stored)
      <3>1. DOMAIN stored = 1..Len(stored)
        BY <1>1 DEF ServerTypes
      <3> QED
        BY <1>1, <1>24, <2>1, <3>1 DEF Answered
    <2>3. requests' \subseteq requests
      BY <1>24 DEF Answered
    <2>4. StudioTypes'
      BY <1>1, <1>24 DEF StudioTypes, Answered
    <2>5. ServerTypes'
      BY <1>1, <1>24, <2>2, <2>3 DEF ServerTypes, Answered
    <2>6. OneSave'
      BY <1>1, <1>24, <2>3 DEF OneSave, Answered
    <2> QED
      BY <1>24, <2>4, <2>5, <2>6, SavesKept DEF StudioFormed, Answered
  <1>25. ASSUME NEW q \in requests, Unanswered(q)
         PROVE  StudioFormed' /\ SavesInOrder
    <2>1. requests' \subseteq requests
      BY <1>25 DEF Unanswered
    <2>2. studioFaults' \in 0..MaxStudioFaults
      BY <1>1, <1>25, StudioConstants DEF StudioTypes, Unanswered
    <2>3. StudioTypes'
      BY <1>1, <1>25, <2>2 DEF StudioTypes, Unanswered
    <2>4. ServerTypes'
      BY <1>1, <1>25, <2>1 DEF ServerTypes, Unanswered
    <2>5. OneSave'
      BY <1>1, <1>25, <2>1 DEF OneSave, Unanswered
    <2> QED
      BY <1>25, <2>3, <2>4, <2>5, SavesKept DEF StudioFormed, Unanswered
  <1>26. CASE UNCHANGED studioVars
    <2>1. StudioTypes' /\ ServerTypes' /\ OneSave'
      BY <1>1, <1>26 DEF StudioTypes, ServerTypes, OneSave, studioVars
    <2> QED
      BY <1>26, <2>1, SavesKept DEF StudioFormed, studioVars
  <1>27. CASE Arrange
    BY <1>15, <1>16, <1>17, <1>20, <1>27 DEF Arrange
  <1> QED
    BY <1>6, <1>8, <1>9, <1>10, <1>11, <1>12, <1>13, <1>14, <1>19, <1>21, <1>22, <1>23, <1>24, <1>25,
       <1>26, <1>27 DEF StudioNext

\* What the workspace stands for is what it writes.
LEMMA OwnKept == StudioInv /\ [StudioNext]_studioVars => OwnRows'
  <1> SUFFICES ASSUME StudioInv, [StudioNext]_studioVars, ~abandoned' PROVE OwnRows'
    BY DEF OwnRows, OwnRow
  <1>1. ~abandoned
    BY DEF StudioNext, ChooseDocKind, NewTemplate, OpenTemplate, PickPreset, Customise, BackToGallery,
           Exit, EditLook, Arrange, ToggleVisible, StartDrag, MoveDrag, Nudge, EndDrag, OnSave,
           OnPublish, Apply, Answered, Unanswered, studioVars
  <1>2. /\ studio # NoTemplate /\ editingId # 0 => studio.of = stored[editingId].of
        /\ \A q \in requests : q.op # "create" \/ q.applied => q.draft.of = stored[q.id].of
        /\ \A id \in DOMAIN rows : rows[id].of = stored[id].of
        /\ \A q \in requests : q.op = "create" =>
             studio # NoTemplate /\ editingId = 0 /\ studio.of = q.draft.of
    BY <1>1 DEF StudioInv, OwnRows, OwnRow
  <1>3. /\ stored \in Seq(StoredRows) /\ Len(stored) \in Nat /\ DOMAIN stored = 1..Len(stored)
        /\ rows \in Seq(StoredRows) /\ DOMAIN rows \subseteq DOMAIN stored
        /\ editingId \in 0..Len(stored)
        /\ studio \in Templates \cup {NoTemplate} /\ NoTemplate \notin Templates
        /\ requests \subseteq Saves /\ \A q, p \in requests : q = p
        /\ \A q \in requests : q.op # "create" \/ q.applied => q.id \in DOMAIN stored
    BY NoneOpen DEF StudioInv, StudioFormed, StudioTypes, ServerTypes, OneSave
  \* the same composition stays on the screen
  <1>4. ASSUME UNCHANGED <<stored, rows, requests, editingId>>, studio # NoTemplate,
               studio' # NoTemplate, studio'.of = studio.of
        PROVE  OwnRows'
    BY <1>2, <1>4 DEF OwnRows, OwnRow
  <1>5. ASSUME UNCHANGED <<stored, rows, requests, editingId, studio>> PROVE OwnRows'
    BY <1>2, <1>5 DEF OwnRows, OwnRow
  <1>6. CASE NewTemplate
    <2>1. editingId' = 0 /\ UNCHANGED <<stored, rows, requests>> /\ studio = NoTemplate
      BY <1>6 DEF NewTemplate, TemplateServer
    <2> QED
      BY <1>2, <2>1 DEF OwnRows, OwnRow
  <1>7. ASSUME NEW id \in DOMAIN rows, OpenTemplate(id) PROVE OwnRows'
    <2>1. /\ editingId' = id /\ studio'.of = rows[id].of /\ studio = NoTemplate
          /\ UNCHANGED <<stored, rows, requests>>
      BY <1>7 DEF OpenTemplate, TemplateServer, ToStudio
    <2> QED
      BY <1>2, <2>1 DEF OwnRows, OwnRow
  <1>8. ASSUME NEW shows \in Presets, PickPreset(shows) PROVE OwnRows'
    <2>1. studio # NoTemplate /\ UNCHANGED <<stored, rows, requests, editingId>>
      BY <1>8 DEF PickPreset, TemplateServer
    <2>2. studio'.of = studio.of /\ "of" \in DOMAIN studio' /\ DOMAIN studio' # {"name"}
      BY <1>8 DEF PickPreset, TemplateFromPreset
    <2>3. studio' # NoTemplate
      BY <2>2 DEF NoTemplate
    <2> QED
      BY <1>4, <2>1, <2>2, <2>3
  <1>9. CASE Exit
    <2>1. /\ studio' = NoTemplate /\ UNCHANGED <<stored, rows, requests>>
          /\ \A q \in requests : q.op # "create"
      BY <1>9 DEF Exit, TemplateServer
    <2> QED
      BY <1>2, <2>1 DEF OwnRows, OwnRow
  \* a composition that is edited
  <1>10. ASSUME studio \in Templates, DOMAIN studio' = DOMAIN studio, studio'.of = studio.of,
                UNCHANGED <<stored, rows, requests, editingId>>
         PROVE  OwnRows'
    <2>1. "of" \in DOMAIN studio
      BY <1>10 DEF Templates
    <2>2. studio' # NoTemplate
      BY <1>10, <2>1 DEF NoTemplate
    <2> QED
      BY <1>3, <1>4, <1>10, <2>2
  <1>11. CASE EditLook
    <2>1. studio \in Templates /\ UNCHANGED <<stored, rows, requests, editingId>>
      BY <1>3, <1>11 DEF EditLook, Editor, TemplateServer
    <2>2. DOMAIN studio' = DOMAIN studio /\ studio'.of = studio.of
      BY <1>11, <2>1 DEF EditLook, Templates
    <2> QED
      BY <1>10, <2>1, <2>2
  <1>12. ASSUME NEW blocks, studio \in Templates, studio' = [studio EXCEPT !.blocks = blocks],
                UNCHANGED <<stored, rows, requests, editingId>>
         PROVE  OwnRows'
    <2>1. DOMAIN studio' = DOMAIN studio /\ studio'.of = studio.of
      BY <1>12 DEF Templates
    <2> QED
      BY <1>10, <1>12, <2>1
  <1>13. ASSUME NEW i \in DOMAIN BlockKinds, ToggleVisible(i) PROVE OwnRows'
    <2>1. studio \in Templates /\ UNCHANGED <<stored, rows, requests, editingId>>
      BY <1>3, <1>13 DEF ToggleVisible, Editor, TemplateServer
    <2>2. studio' = [studio EXCEPT !.blocks = [studio.blocks EXCEPT ![i].visible = ~@]]
      BY <1>13 DEF ToggleVisible
    <2> QED
      BY <1>12, <2>1, <2>2
  <1>14. ASSUME NEW i, NEW target, Nudge(i, target) PROVE OwnRows'
    <2>1. studio \in Templates /\ UNCHANGED <<stored, rows, requests, editingId>>
      BY <1>3, <1>14 DEF Nudge, Editor, TemplateServer
    <2>2. studio' = [studio EXCEPT !.blocks = Reorder(studio.blocks, i, target)]
      BY <1>14 DEF Nudge
    <2> QED
      BY <1>12, <2>1, <2>2
  <1>15. CASE EndDrag
    <2>1. studio \in Templates /\ UNCHANGED <<stored, rows, requests, editingId>>
      BY <1>3, <1>15 DEF EndDrag, TemplateServer, StudioInv, StudioFormed, StudioTypes
    <2>2. \/ UNCHANGED studio
          \/ studio' = [studio EXCEPT !.blocks = Reorder(studio.blocks, drag.from, drag.over)]
      BY <1>15 DEF EndDrag
    <2> QED
      BY <1>5, <1>12, <2>1, <2>2
  \* a request is of the row of its composition, or makes it one
  <1>16. ASSUME NEW op, Editor, requests = {}, Request(op), op # "create" => editingId # 0,
                op = "create" => editingId = 0, UNCHANGED <<stored, rows, studio, editingId>>
         PROVE  OwnRows'
    <2>1. PICK q : requests' = {q} /\ q.op = op /\ q.id = editingId /\ ~q.applied
                   /\ q.draft.of = studio.of
      <3>0. FromStudio(studio).of = studio.of
        BY DEF FromStudio
      <3>1. PICK d : d = FromStudio(studio)
        OBVIOUS
      <3>2. PICK q : q = [op |-> op, id |-> editingId, doc |-> docKind, draft |-> d,
                          applied |-> FALSE, press |-> studioMoves + 1]
        OBVIOUS
      <3>3. requests' = {q}
        BY <1>16, <3>1, <3>2 DEF Request
      <3>4. q.op = op /\ q.id = editingId /\ ~q.applied /\ q.draft = d
        BY <3>2
      <3> QED
        BY <3>0, <3>1, <3>3, <3>4
    <2> QED
      BY <1>2, <1>16, <2>1 DEF OwnRows, OwnRow, Editor
  <1>17. CASE OnSave
    <2>1. PICK op : Request(op) /\ op = (IF editingId # 0 THEN "update" ELSE "create")
      BY <1>17 DEF OnSave
    <2> QED
      BY <1>16, <1>17, <2>1 DEF OnSave
  <1>18. CASE OnPublish
    BY <1>16, <1>18 DEF OnPublish
  \* the row that is written is the composition's
  <1>19. ASSUME NEW q \in requests, Apply(q) PROVE OwnRows'
    <2>1. requests = {q} /\ ~q.applied /\ UNCHANGED <<rows, studio, editingId>>
          /\ q.op \in {"create", "update", "publish"} /\ q \in Saves
      BY <1>3, <1>19 DEF Apply, Saves
    <2>2. \A d : Written(q, d).of = q.draft.of
      BY DEF Written
    <2>3. /\ DOMAIN stored \subseteq DOMAIN stored' /\ \A id \in DOMAIN stored : stored'[id].of = stored[id].of
          /\ q.op = "create" => stored'[Len(stored) + 1].of = q.draft.of
      <3>1. CASE q.op = "create"
        <4>1. PICK w : w = Written(q, q.doc) /\ w.of = q.draft.of
          BY <2>2
        <4>2. stored' = Append(stored, w)
          BY <1>19, <3>1, <4>1 DEF Apply
        <4>3. /\ \A id \in DOMAIN stored : stored'[id] = stored[id] /\ id \in DOMAIN stored'
              /\ stored'[Len(stored) + 1] = w
          BY <1>3, <4>2
        <4> QED
          BY <4>1, <4>3
      <3>2. CASE q.op = "update"
        <4>1. q.id \in DOMAIN stored /\ q.draft.of = stored[q.id].of
          BY <1>2, <1>3, <1>19, <3>2
        <4>2. PICK w : w = Written(q, stored[q.id].doc) /\ w.of = q.draft.of
          BY <2>2
        <4>3. stored' = [stored EXCEPT ![q.id] = w]
          BY <1>19, <3>2, <4>2 DEF Apply
        <4>4. \A id \in DOMAIN stored : stored'[id] = (IF id = q.id THEN w ELSE stored[id]) /\ id \in DOMAIN stored'
          BY <1>3, <4>1, <4>3
        <4> QED
          BY <3>2, <4>1, <4>2, <4>4
      <3>3. CASE q.op = "publish"
        BY <1>19, <3>3 DEF Apply
      <3> QED
        BY <2>1, <3>1, <3>2, <3>3
    <2>4. PICK n : n = (IF q.op = "create" THEN Len(stored) + 1 ELSE q.id)
      OBVIOUS
    <2>5. PICK p : p = [q EXCEPT !.applied = TRUE, !.id = n]
      OBVIOUS
    <2>6. p.op = q.op /\ p.id = n /\ p.draft = q.draft
      BY <2>1, <2>5 DEF Saves
    <2>7. requests' = {p}
      BY <1>19, <2>1, <2>4, <2>5 DEF Apply
    <2>8. p.draft.of = stored'[p.id].of
      <3>1. CASE q.op = "create"
        BY <2>3, <2>4, <2>6, <3>1
      <3>2. CASE q.op # "create"
        <4>1. q.id \in DOMAIN stored /\ q.draft.of = stored[q.id].of
          BY <1>2, <1>3, <1>19, <3>2
        <4> QED
          BY <2>3, <2>4, <2>6, <3>2, <4>1
      <3> QED
        BY <3>1, <3>2
    <2>9. studio # NoTemplate /\ editingId # 0 => studio.of = stored'[editingId].of
      BY <1>2, <1>3, <2>3
    <2>10. \A id \in DOMAIN rows : rows[id].of = stored'[id].of
      BY <1>2, <1>3, <2>3
    <2> QED
      BY <1>2, <1>19, <2>1, <2>6, <2>7, <2>8, <2>9, <2>10 DEF OwnRows, OwnRow
  <1>20. ASSUME NEW q \in requests, Answered(q) PROVE OwnRows'
    <2>1. /\ requests = {q} /\ q.applied /\ rows' = stored /\ UNCHANGED <<stored, studio>>
          /\ requests' = {} /\ editingId' = IF q.op = "create" THEN q.id ELSE editingId
      BY <1>3, <1>20 DEF Answered
    <2> QED
      BY <1>2, <1>20, <2>1 DEF OwnRows, OwnRow
  <1>21. ASSUME NEW q \in requests, Unanswered(q) PROVE OwnRows'
    <2>1. requests' \subseteq requests /\ UNCHANGED <<stored, rows, studio, editingId>>
      BY <1>21 DEF Unanswered
    <2> QED
      BY <1>2, <2>1 DEF OwnRows, OwnRow
  \* the rest leaves the composition, its row and its request alone
  <1>22. CASE Customise \/ BackToGallery \/ (\E d \in DocKinds : ChooseDocKind(d)) \/ UNCHANGED studioVars
    BY <1>5, <1>22 DEF Customise, BackToGallery, ChooseDocKind, TemplateServer, studioVars
  <1>23. ASSUME NEW i \in DOMAIN BlockKinds, StartDrag(i) \/ MoveDrag(i) PROVE OwnRows'
    BY <1>5, <1>23 DEF StartDrag, MoveDrag, TemplateServer
  <1>24. CASE Arrange
    BY <1>13, <1>14, <1>23, <1>24 DEF Arrange
  <1> QED
    BY <1>6, <1>7, <1>8, <1>9, <1>11, <1>15, <1>17, <1>18, <1>19, <1>20, <1>21, <1>22, <1>24 DEF StudioNext

LEMMA StudioHolds == StudioInv => StudioTypeOK /\ RequiredShown /\ OwnRow
  BY FormedHolds DEF StudioInv, OwnRows

LEMMA StudioBase == StudioInit => StudioInv
  <1> SUFFICES ASSUME StudioInit PROVE OwnRows
    BY FormedBase DEF StudioInv
  <1>1. studio = NoTemplate /\ requests = {} /\ rows = stored
    BY DEF StudioInit
  <1> QED
    BY <1>1 DEF OwnRows, OwnRow

LEMMA StudioStep == StudioInv /\ [StudioNext]_studioVars => StudioInv' /\ SavesInOrder
  BY FormedStep, OwnKept DEF StudioInv

-----------------------------------------------------------------------------
(* The first run. *)

OrgRecords ==
    [person : BOOLEAN, firm : BOOLEAN, company : {"none", "invalid", "valid"},
     several : BOOLEAN, accepted : [Texts -> {"no", "by placeholder", "by person"}],
     seeds : SUBSET Seeds, completed : BOOLEAN]

FirstRequests ==
    [act : {"name", "rename", "complete"}]
        \cup [act : {"company"}, arg : {"valid", "invalid"}, form : Nat]
        \cup [act : {"update"}, arg : {"valid", "invalid"}]
        \cup [act : {"accept"}, arg : Texts] \cup [act : {"seed"}, arg : Seeds]

Switches ==
    /\ boot \in {"connecting", "ready", "in", "error"}
    /\ page \in {"wizard", "home", "profile"} /\ wizardStep \in Range(StepKeys)
    /\ detours \in 0..MaxDetours
    /\ reading \in BOOLEAN /\ readError \in BOOLEAN /\ unnoticed \in BOOLEAN
    /\ companies \in {"unread", "none", "some"} /\ listing \in BOOLEAN

SendsOnce ==
    /\ sending \subseteq FirstRequests /\ orphans \subseteq FirstRequests
    /\ \A r, s \in sending :
         r.act = s.act => r = s \/ r.act = "seed" \/ (r.act = "company" /\ r.form # s.form)

\* What the window has read is the server's facts, or is about to be read again.
ReadsFollow ==
    /\ onboarding = Unread => reading \/ readError \/ boot # "in"
    /\ boot = "in" /\ ~reading /\ ~readError /\ ~unnoticed => onboarding = StatusOf(org)
    /\ companies = "some" => org.company # "none"

MovesInv == Switches /\ org \in OrgRecords /\ SendsOnce /\ ReadsFollow
FirstInv == MovesInv /\ formNo \in Nat

LEMMA FirstHolds == FirstInv => FirstTypeOK /\ WizardCurrent
  <1> SUFFICES ASSUME FirstInv PROVE FirstTypeOK /\ WizardCurrent
    OBVIOUS
  <1>1. WizardCurrent
    BY DEF FirstInv, MovesInv, ReadsFollow, WizardCurrent
  <1>2. org.accepted \in [Texts -> {"no", "by placeholder", "by person"}]
        /\ org.company \in {"none", "invalid", "valid"}
    BY DEF FirstInv, MovesInv, OrgRecords
  <1>3. \A r \in FirstRequests : r.act \in Acts
    BY DEF FirstRequests, Acts
  <1> QED
    BY <1>1, <1>2, <1>3 DEF FirstInv, MovesInv, FirstTypeOK, Switches, SendsOnce, ReadsFollow

LEMMA WizardSteps ==
  /\ Range(StepKeys) = {"language", "profile", "company", "legal", "seed", "done"}
  /\ \A s \in Range(StepKeys) : s # "done" => StepKeys[StepNumber(s) + 1] \in Range(StepKeys)
  <1>1. DOMAIN StepKeys = 1..6
    BY DEF StepKeys
  <1>2. /\ StepKeys[1] = "language" /\ StepKeys[2] = "profile" /\ StepKeys[3] = "company"
        /\ StepKeys[4] = "legal" /\ StepKeys[5] = "seed" /\ StepKeys[6] = "done"
    BY DEF StepKeys
  <1>3. Range(StepKeys) = {"language", "profile", "company", "legal", "seed", "done"}
    BY <1>1, <1>2 DEF Range
  <1>4. /\ StepNumber("language") = 1 /\ StepNumber("profile") = 2 /\ StepNumber("company") = 3
        /\ StepNumber("legal") = 4 /\ StepNumber("seed") = 5
    BY <1>1, <1>2 DEF StepNumber
  <1> QED
    BY <1>2, <1>3, <1>4

\* A status that was read is never the mark of an unread one.
LEMMA StatusRead == \A o : StatusOf(o) # Unread
  <1> SUFFICES ASSUME NEW o, StatusOf(o) = Unread PROVE FALSE
    OBVIOUS
  <1>1. "profile" \in DOMAIN StatusOf(o)
    BY DEF StatusOf
  <1>2. DOMAIN Unread = {"completed"}
    BY DEF Unread
  <1> QED
    BY <1>1, <1>2

\* The service leaves the organization's facts well formed, and takes no company
\* away.
LEMMA OutcomeTypes ==
  ASSUME NEW o \in OrgRecords, NEW r \in FirstRequests, NEW p \in Outcomes(o, r)
  PROVE  p \in OrgRecords /\ (o.company # "none" => p.company # "none")
  <1>1. /\ o.accepted \in [Texts -> {"no", "by placeholder", "by person"}]
        /\ o.seeds \in SUBSET Seeds
    BY DEF OrgRecords
  <1>2. CASE r \in [act : {"name", "rename", "complete"}]
    <2>1. r.act \in {"name", "rename", "complete"}
      BY <1>2
    <2>2. p \in {[o EXCEPT !.person = TRUE], [o EXCEPT !.firm = TRUE], o,
                 [o EXCEPT !.completed = TRUE]}
      BY <2>1 DEF Outcomes
    <2> QED
      BY <2>2 DEF OrgRecords
  <1>3. CASE r \in [act : {"company"}, arg : {"valid", "invalid"}, form : Nat]
    <2>1. r.act = "company" /\ r.arg \in {"valid", "invalid"}
      BY <1>3
    <2>2. PICK c \in {o.company, r.arg}, b \in BOOLEAN :
             p = [o EXCEPT !.company = c, !.several = b] /\ (o.company # "none" => c # "none")
      <3>1. CASE o.company = "none"
        <4>1. p = [o EXCEPT !.company = r.arg]
          BY <2>1, <3>1 DEF Outcomes
        <4>2. p = [o EXCEPT !.company = r.arg, !.several = o.several] /\ o.several \in BOOLEAN
          BY <4>1 DEF OrgRecords
        <4> QED
          BY <3>1, <4>2
      <3>2. CASE o.company # "none"
        <4>1. p \in SecondCompany(o, r.arg)
          BY <2>1, <3>2 DEF Outcomes
        <4>2. p = [o EXCEPT !.company = o.company, !.several = TRUE]
              \/ p = [o EXCEPT !.company = r.arg, !.several = TRUE]
          BY <4>1 DEF SecondCompany, OrgRecords
        <4> QED
          BY <2>1, <4>2
      <3> QED
        BY <3>1, <3>2
    <2> QED
      BY <2>1, <2>2 DEF OrgRecords
  <1>6. CASE r \in [act : {"update"}, arg : {"valid", "invalid"}]
    <2>1. r.act = "update" /\ r.arg \in {"valid", "invalid"}
      BY <1>6
    <2>2. p = [o EXCEPT !.company = r.arg] \/ p = o
      BY <2>1 DEF Outcomes
    <2> QED
      BY <2>1, <2>2 DEF OrgRecords
  <1>4. CASE r \in [act : {"accept"}, arg : Texts]
    <2>1. r.act = "accept" /\ r.arg \in Texts
      BY <1>4
    <2>2. p = Accept(o, r.arg)
      BY <2>1 DEF Outcomes
    <2>3. CASE o.accepted[r.arg] # "no"
      BY <2>2, <2>3 DEF Accept
    <2>4. CASE o.accepted[r.arg] = "no"
      <3>1. PICK v \in {"by placeholder", "by person"} :
              p = [o EXCEPT !.accepted = [o.accepted EXCEPT ![r.arg] = v]]
        BY <2>2, <2>4 DEF Accept
      <3>2. [o.accepted EXCEPT ![r.arg] = v] \in [Texts -> {"no", "by placeholder", "by person"}]
        BY <1>1, <2>1
      <3> QED
        BY <3>1, <3>2 DEF OrgRecords
    <2> QED
      BY <2>3, <2>4
  <1>5. CASE r \in [act : {"seed"}, arg : Seeds]
    <2>1. r.act = "seed" /\ r.arg \in Seeds
      BY <1>5
    <2>2. p = [o EXCEPT !.seeds = o.seeds \cup {r.arg}]
      BY <2>1 DEF Outcomes
    <2>3. o.seeds \cup {r.arg} \in SUBSET Seeds
      BY <1>1, <2>1
    <2> QED
      BY <2>2, <2>3 DEF OrgRecords
  <1> QED
    BY <1>2, <1>3, <1>4, <1>5, <1>6 DEF FirstRequests

LEMMA FirstBase == FirstInit => FirstInv
  <1> SUFFICES ASSUME FirstInit PROVE FirstInv
    OBVIOUS
  <1>1. org \in OrgRecords
    <2>1. [k \in Texts |-> "no"] \in [Texts -> {"no", "by placeholder", "by person"}]
      OBVIOUS
    <2> QED
      BY <2>1 DEF FirstInit, OrgRecords
  <1>2. detours \in 0..MaxDetours
    <2>1. detours = 0 /\ MaxDetours \in Nat
      BY FirstRunAssumption DEF FirstInit
    <2> QED
      BY ONLY <2>1
  <1>3. Switches
    BY <1>2, WizardSteps DEF FirstInit, Switches
  <1>4. SendsOnce /\ ReadsFollow
    BY DEF FirstInit, SendsOnce, ReadsFollow
  <1> QED
    BY <1>1, <1>3, <1>4 DEF FirstInv, MovesInv, FirstInit

\* Sending a request of an act that is not under way.
LEMMA Sends ==
  ASSUME FirstInv, NEW more \in SUBSET FirstRequests,
         \A r \in more, s \in sending :
           r.act # s.act \/ r.act = "seed" \/ (r.act = "company" /\ r.form # s.form),
         \A r, s \in more : r.act = s.act => r = s,
         sending' = sending \cup more, UNCHANGED orphans
  PROVE  SendsOnce'
  BY DEF FirstInv, MovesInv, SendsOnce

LEMMA FirstStep == FirstInv /\ [FirstNext]_firstVars => FirstInv'
  <1> SUFFICES ASSUME FirstInv, [FirstNext]_firstVars PROVE FirstInv'
    OBVIOUS
  <1>0. formNo' \in Nat
    BY DEF FirstInv, FirstNext, FormComes, firstVars
  <1> SUFFICES MovesInv'
    BY <1>0 DEF FirstInv
  <1>1. MaxDetours \in Nat /\ Switches /\ org \in OrgRecords /\ SendsOnce /\ ReadsFollow
    BY FirstRunAssumption DEF FirstInv, MovesInv
  <1>2. Detour => detours' \in 0..MaxDetours
    BY <1>1 DEF Switches, Detour
  <1>3. ASSUME UNCHANGED <<org, sending, orphans>>
        PROVE  org' \in OrgRecords /\ SendsOnce'
    BY <1>1, <1>3 DEF SendsOnce
  <1>4. ASSUME UNCHANGED <<boot, org, onboarding, readError, reading, companies, unnoticed>>
        PROVE  ReadsFollow'
    BY <1>1, <1>4 DEF ReadsFollow, StatusOf, ProfileComplete, CanComplete
  <1>5. CASE Connected
    <2>1. Switches'
      BY <1>1, <1>5 DEF Switches, Connected, EnterApp, Screen, Reads, List
    <2>2. ReadsFollow'
      BY <1>1, <1>5 DEF Switches, ReadsFollow, Connected, EnterApp, Screen, Reads, List
    <2> QED
      BY <1>3, <1>5, <2>1, <2>2 DEF MovesInv, Connected
  <1>6. CASE ConnectFails
    <2>1. Switches'
      BY <1>1, <1>2, <1>6 DEF Switches, ConnectFails, Screen, Reads, Late
    <2>2. ReadsFollow'
      BY <1>1, <1>6 DEF ReadsFollow, ConnectFails, Reads
    <2> QED
      BY <1>3, <1>6, <2>1, <2>2 DEF MovesInv, ConnectFails, Late
  <1>7. CASE RetryConnect
    <2>1. Switches'
      BY <1>1, <1>7 DEF Switches, RetryConnect, Screen, Reads, Late
    <2>2. ReadsFollow'
      BY <1>1, <1>7 DEF ReadsFollow, RetryConnect, Reads
    <2> QED
      BY <1>3, <1>7, <2>1, <2>2 DEF MovesInv, RetryConnect, Late
  <1>8. CASE OpenApp
    <2>1. Switches' /\ ReadsFollow'
      BY <1>1, <1>8 DEF Switches, ReadsFollow, OpenApp, EnterApp, Screen, List
    <2> QED
      BY <1>3, <1>8, <2>1 DEF MovesInv, OpenApp
  <1>9. CASE ChangeAutoOpen
    <2>1. Switches'
      BY <1>1, <1>9 DEF Switches, ChangeAutoOpen, Screen, Reads, Late
    <2> QED
      BY <1>3, <1>4, <1>9, <2>1 DEF MovesInv, ChangeAutoOpen, Reads, Late
  <1>10. CASE DesktopSignOut
    <2>1. Switches'
      BY <1>1, <1>2, <1>10, WizardSteps DEF Switches, DesktopSignOut
    <2>2. ReadsFollow'
      BY <1>10 DEF ReadsFollow, DesktopSignOut
    <2>3. SendsOnce'
      BY <1>1, <1>10 DEF SendsOnce, DesktopSignOut
    <2> QED
      BY <1>1, <1>10, <2>1, <2>2, <2>3 DEF MovesInv, DesktopSignOut
  \* wherever the gate leads, it is a page and a step
  <1>11. ASSUME NEW p \in {"wizard", "home", "profile"}, NEW known, NEW lost, Navigate(p, known, lost)
         PROVE  page' \in {"wizard", "home", "profile"} /\ wizardStep' \in Range(StepKeys)
    BY <1>1, <1>11, WizardSteps DEF Navigate, Switches
  <1>12. CASE OnboardingRead
    <2>1. page' \in {"wizard", "home", "profile"} /\ wizardStep' \in Range(StepKeys)
      BY <1>1, <1>11, <1>12 DEF OnboardingRead, Switches
    <2>2. Switches'
      BY <1>1, <1>12, <2>1 DEF Switches, OnboardingRead, ShellMounts, Window
    <2>3. StatusOf(org)' = StatusOf(org) /\ onboarding' = StatusOf(org)
      BY <1>12 DEF OnboardingRead, StatusOf, ProfileComplete, CanComplete
    <2>4. ReadsFollow'
      BY <1>1, <1>12, <2>3, StatusRead DEF ReadsFollow, Unread, OnboardingRead, ShellMounts
    <2> QED
      BY <1>3, <1>12, <2>2, <2>4 DEF MovesInv, OnboardingRead
  <1>13. CASE OnboardingReadFails
    <2>1. Switches' /\ ReadsFollow'
      BY <1>1, <1>2, <1>13 DEF Switches, ReadsFollow, OnboardingReadFails, ShellMounts, Window,
                                 Screen, Late
    <2> QED
      BY <1>3, <1>13, <2>1 DEF MovesInv, OnboardingReadFails, Late
  <1>14. CASE ReadAgain
    <2>1. Switches' /\ ReadsFollow'
      BY <1>1, <1>14 DEF Switches, ReadsFollow, ReadAgain, Window, Screen, List, Late
    <2> QED
      BY <1>3, <1>14, <2>1 DEF MovesInv, ReadAgain, Late
  \* the shell's list
  <1>30. CASE CompanyListRead \/ CompanyListFails \/ ReadCompanyList
    <2>1. Switches' /\ ReadsFollow'
      <3>1. CASE CompanyListRead
        BY <1>1, <3>1 DEF Switches, ReadsFollow, CompanyListRead, Window, Screen, Late, StatusOf,
                          ProfileComplete, CanComplete
      <3>2. CASE CompanyListFails
        BY <1>1, <1>2, <3>2 DEF Switches, ReadsFollow, CompanyListFails, Window, Screen, Late, StatusOf,
                          ProfileComplete, CanComplete
      <3>3. CASE ReadCompanyList
        BY <1>1, <3>3 DEF Switches, ReadsFollow, ReadCompanyList, Window, Screen, Late, StatusOf,
                          ProfileComplete, CanComplete
      <3> QED
        BY <1>30, <3>1, <3>2, <3>3
    <2> QED
      BY <1>3, <1>30, <2>1 DEF MovesInv, CompanyListRead, CompanyListFails, ReadCompanyList, Late
  \* steps that only move on the screen
  <1>15. ASSUME UNCHANGED <<Window, org, Reads, sending, Late>>, Detour \/ UNCHANGED detours,
                page' \in {"wizard", "home", "profile"}, wizardStep' \in Range(StepKeys)
         PROVE  MovesInv'
    <2>1. Switches'
      BY <1>1, <1>2, <1>15 DEF Switches, Window, Reads, Late
    <2> QED
      BY <1>3, <1>4, <1>15, <2>1 DEF MovesInv, Window, Reads, Late
  <1>16. ASSUME NEW s \in Range(StepKeys), GoNext(s) \/ GoBack(s)
         PROVE  MovesInv'
    <2>1. page' \in {"wizard", "home", "profile"}
      BY <1>1, <1>16 DEF GoNext, GoBack, Switches
    <2>2. wizardStep' \in Range(StepKeys)
      BY <1>16, WizardSteps DEF GoNext, GoBack
    <2> QED
      BY <1>15, <1>16, <2>1, <2>2 DEF GoNext, GoBack
  <1>17. CASE EditCompany \/ LeaveWizard
    <2>1. page' \in {"wizard", "home", "profile"} /\ wizardStep' \in Range(StepKeys)
      BY <1>11, <1>17 DEF EditCompany, LeaveWizard
    <2> QED
      BY <1>15, <1>17, <2>1 DEF EditCompany, LeaveWizard
  \* steps that only send
  <1>18. ASSUME SendsOnce', UNCHANGED <<Window, Screen, org, Reads, Late>>, Detour \/ UNCHANGED detours
         PROVE  MovesInv'
    <2>1. Switches'
      BY <1>1, <1>2, <1>18 DEF Switches, Window, Screen, Reads, Late
    <2> QED
      BY <1>1, <1>4, <1>18, <2>1 DEF MovesInv, Window, Reads, Late
  <1>19. CASE SubmitProfile
    <2>0. {[act |-> "name"], [act |-> "rename"]} \in SUBSET FirstRequests
      BY DEF FirstRequests
    <2>1. PICK more \in SUBSET FirstRequests : more = {[act |-> "name"], [act |-> "rename"]}
      BY ONLY <2>0, Zenon
    <2>2. sending' = sending \cup more /\ UNCHANGED orphans
      BY <1>19, <2>1 DEF SubmitProfile, Send, Late
    <2>3. \A r \in more, s \in sending : r.act # s.act \/ r.act = "seed"
      BY <1>19, <2>1 DEF SubmitProfile, Idle
    <2>4. \A r, s \in more : r.act = s.act => r = s
      BY <2>1
    <2>5. SendsOnce'
      BY <2>2, <2>3, <2>4, Sends
    <2> QED
      BY <1>18, <1>19, <2>5 DEF SubmitProfile, Send
  <1>20. ASSUME NEW v \in {"valid", "invalid"}, UpdateCompany(v)
         PROVE  MovesInv'
    <2>0. {[act |-> "update", arg |-> v]} \in SUBSET FirstRequests
      BY DEF FirstRequests
    <2>1. PICK more \in SUBSET FirstRequests : more = {[act |-> "update", arg |-> v]}
      BY ONLY <2>0, Zenon
    <2>2. sending' = sending \cup more /\ UNCHANGED orphans
      BY <1>20, <2>1 DEF UpdateCompany, Send, Late
    <2>3. \A r \in more, s \in sending : r.act # s.act \/ r.act = "seed"
      BY <1>20, <2>1 DEF UpdateCompany, Idle
    <2>4. \A r, s \in more : r.act = s.act => r = s
      BY <2>1
    <2>5. SendsOnce'
      BY <2>2, <2>3, <2>4, Sends
    <2> QED
      BY <1>18, <1>20, <2>5 DEF UpdateCompany, Send
  \* a form that is up sends no second request while its first is under way
  <1>31. ASSUME NEW v \in {"valid", "invalid"}, CreateCompany(v)
         PROVE  MovesInv'
    <2>0. {[act |-> "company", arg |-> v, form |-> formNo]} \in SUBSET FirstRequests
      BY DEF FirstRequests, FirstInv
    <2>1. PICK more \in SUBSET FirstRequests :
             more = {[act |-> "company", arg |-> v, form |-> formNo]}
      BY ONLY <2>0, Zenon
    <2>2. sending' = sending \cup more /\ UNCHANGED orphans
      BY <1>31, <2>1 DEF CreateCompany, Late
    <2>3. \A r \in more, s \in sending : r.act # s.act \/ (r.act = "company" /\ r.form # s.form)
      BY <1>31, <2>1 DEF CreateCompany
    <2>4. \A r, s \in more : r.act = s.act => r = s
      BY <2>1
    <2>5. SendsOnce'
      BY <2>2, <2>3, <2>4, Sends
    <2> QED
      BY <1>18, <1>31, <2>5 DEF CreateCompany
  <1>21. ASSUME NEW k \in Texts, AcceptText(k)
         PROVE  MovesInv'
    <2>0. {[act |-> "accept", arg |-> k]} \in SUBSET FirstRequests
      BY DEF FirstRequests
    <2>1. PICK more \in SUBSET FirstRequests : more = {[act |-> "accept", arg |-> k]}
      BY ONLY <2>0, Zenon
    <2>2. sending' = sending \cup more /\ UNCHANGED orphans
      BY <1>21, <2>1 DEF AcceptText, Send, Late
    <2>3. \A r \in more, s \in sending : r.act # s.act \/ r.act = "seed"
      BY <1>21, <2>1 DEF AcceptText, Idle
    <2>4. \A r, s \in more : r.act = s.act => r = s
      BY <2>1
    <2>5. SendsOnce'
      BY <2>2, <2>3, <2>4, Sends
    <2> QED
      BY <1>18, <1>21, <2>5 DEF AcceptText, Send
  <1>22. ASSUME NEW kind \in Seeds, AddSeed(kind)
         PROVE  MovesInv'
    <2>0. {[act |-> "seed", arg |-> kind]} \in SUBSET FirstRequests
      BY DEF FirstRequests
    <2>1. PICK more \in SUBSET FirstRequests : more = {[act |-> "seed", arg |-> kind]}
      BY ONLY <2>0, Zenon
    <2>2. sending' = sending \cup more /\ UNCHANGED orphans
      BY <1>22, <2>1 DEF AddSeed, Late
    <2>3. /\ \A r \in more, s \in sending : r.act # s.act \/ r.act = "seed"
          /\ \A r, s \in more : r.act = s.act => r = s
      BY <2>1
    <2>4. SendsOnce'
      BY <2>2, <2>3, Sends
    <2> QED
      BY <1>18, <1>22, <2>4 DEF AddSeed
  <1>23. CASE FinishSetup
    <2>0. {[act |-> "complete"]} \in SUBSET FirstRequests
      BY DEF FirstRequests
    <2>1. PICK more \in SUBSET FirstRequests : more = {[act |-> "complete"]}
      BY ONLY <2>0, Zenon
    <2>2. sending' = sending \cup more /\ UNCHANGED orphans
      BY <1>23, <2>1 DEF FinishSetup, Send, Late
    <2>3. \A r \in more, s \in sending : r.act # s.act \/ r.act = "seed"
      BY <1>23, <2>1 DEF FinishSetup, Idle
    <2>4. \A r, s \in more : r.act = s.act => r = s
      BY <2>1
    <2>5. SendsOnce'
      BY <2>2, <2>3, <2>4, Sends
    <2> QED
      BY <1>18, <1>23, <2>5 DEF FinishSetup, Send
  \* an answer takes its request away; what it changed is read again or missed
  <1>24. ASSUME NEW r \in sending, NEW reread \in BOOLEAN, NEW relist \in BOOLEAN,
                ActAnswered(r, reread, relist),
                unnoticed' \in BOOLEAN, unnoticed' \/ reread, Detour \/ UNCHANGED detours
         PROVE  MovesInv'
    <2>1. org' \in OrgRecords /\ (org.company # "none" => org'.company # "none")
      <3>1. PICK o \in Outcomes(org, r) : org' = o
        BY <1>24 DEF ActAnswered
      <3>2. r \in FirstRequests
        BY <1>1 DEF SendsOnce
      <3>3. \A p \in Outcomes(org, r) :
              p \in OrgRecords /\ (org.company # "none" => p.company # "none")
        BY <1>1, <3>2, OutcomeTypes
      <3> QED
        BY <3>1, <3>3
    <2>2. SendsOnce'
      BY <1>1, <1>24 DEF SendsOnce, ActAnswered
    <2>3. reading' \in BOOLEAN /\ (reading' <=> reading \/ reread) /\ listing' \in BOOLEAN
      BY <1>1, <1>24 DEF ActAnswered, Switches
    <2>4. Switches'
      BY <1>1, <1>2, <1>24, <2>3 DEF Switches, ActAnswered, Window, Screen
    <2>5. ReadsFollow'
      BY <1>1, <1>24, <2>1, <2>3 DEF ReadsFollow, ActAnswered, Window
    <2> QED
      BY <2>1, <2>2, <2>4, <2>5 DEF MovesInv
  <1>25. ASSUME NEW r \in sending, ActServed(r)
         PROVE  MovesInv'
    <2>1. Invalidates(r.act) \in BOOLEAN /\ Relists(r.act) \in BOOLEAN
      BY DEF Invalidates, Relists
    <2>2. unnoticed' \in BOOLEAN /\ (unnoticed' \/ Invalidates(r.act))
      BY <1>1, <1>25, <2>1 DEF ActServed, Switches
    <2>3. ActAnswered(r, Invalidates(r.act), Relists(r.act)) /\ UNCHANGED detours
      BY <1>25 DEF ActServed
    <2> QED
      BY <1>24, <2>1, <2>2, <2>3
  <1>26. ASSUME NEW r \in sending, ActLost(r)
         PROVE  MovesInv'
    <2>1. Detour /\ ActAnswered(r, FALSE, FALSE) /\ unnoticed' \in BOOLEAN /\ unnoticed'
      BY <1>26 DEF ActLost
    <2> QED
      BY <1>24, <2>1
  <1>27. ASSUME NEW r \in sending, ActFails(r)
         PROVE  MovesInv'
    <2>1. SendsOnce'
      BY <1>1, <1>27 DEF SendsOnce, ActFails, Late
    <2> QED
      BY <1>18, <1>27, <2>1 DEF ActFails
  <1>28. ASSUME NEW r \in orphans, OrphanEnds(r)
         PROVE  MovesInv'
    <2>1. org' \in OrgRecords /\ (org.company # "none" => org'.company # "none")
      <3>1. r \in FirstRequests
        BY <1>1 DEF SendsOnce
      <3>2. \A p \in Outcomes(org, r) :
              p \in OrgRecords /\ (org.company # "none" => p.company # "none")
        BY <1>1, <3>1, OutcomeTypes
      <3> QED
        BY <1>1, <1>28, <3>2 DEF OrphanEnds
    <2>2. SendsOnce'
      BY <1>1, <1>28 DEF SendsOnce, OrphanEnds
    <2>3. unnoticed' \in BOOLEAN /\ (unnoticed' <=> boot = "in" \/ unnoticed)
      BY <1>1, <1>28 DEF OrphanEnds, Switches
    <2>4. Switches'
      BY <1>1, <1>28, <2>3 DEF Switches, OrphanEnds, Window, Screen, Reads
    <2>5. ReadsFollow'
      BY <1>1, <1>28, <2>1, <2>3 DEF ReadsFollow, OrphanEnds, Window, Reads
    <2> QED
      BY <2>1, <2>2, <2>4, <2>5 DEF MovesInv
  <1>29. CASE UNCHANGED firstVars
    <2>1. Switches'
      BY <1>1, <1>29 DEF Switches, firstVars, firstMoves
    <2> QED
      BY <1>3, <1>4, <1>29, <2>1 DEF MovesInv, firstVars, firstMoves
  <1>32. CASE FirstMove
    BY <1>5, <1>6, <1>7, <1>8, <1>9, <1>10, <1>12, <1>13, <1>14, <1>16, <1>17, <1>19, <1>20, <1>21,
       <1>22, <1>23, <1>25, <1>26, <1>27, <1>28, <1>30, <1>31, <1>32 DEF FirstMove, WizardActs
  <1> QED
    BY <1>29, <1>32 DEF FirstNext

-----------------------------------------------------------------------------
(* The product catalog screen. *)

\* Every value the screen or the server keeps, with the product it is kept for.
HeldStored == {<<i, catalog[i].val>> : i \in DOMAIN catalog}
HeldListed == {<<r.id, r.val>> : r \in UNION {lists[f] : f \in DOMAIN lists}}
HeldEdited == IF selectedId = 0 THEN {} ELSE {<<selectedId, editDraft.val>>}
HeldSaving == IF updating = NoUpdate THEN {} ELSE {<<updating.id, updating.draft.val>>}
Held == HeldStored \cup HeldListed \cup HeldEdited \cup HeldSaving

\* The form that is being created from, on the screen and under way.
Forms == {d \in {createDraft} \cup Range(productsSent) : d # Blank}

ListRow == [id : Ids, val : [for : Ids \cup {0}, n : 0 .. MaxTexts], active : BOOLEAN]

StoreTypes ==
  /\ catalog \in Seq(Drafts) /\ Stock <= Len(catalog)
  /\ texts \in 0 .. MaxTexts /\ listFaults \in 0 .. MaxListFaults /\ listLost \in BOOLEAN
  /\ Len(catalog) + (IF Forms = {} THEN 0 ELSE 1) <= Stock + texts + listFaults

ViewTypes ==
  /\ DOMAIN lists \subseteq Filters
  /\ \A f \in DOMAIN lists : lists[f] \subseteq ListRow /\ IsFiniteSet(lists[f])
  /\ filter \in Filters /\ descending \in BOOLEAN /\ listPage \in Nat \ {0}

DrawerTypes ==
  /\ selectedId \in DOMAIN catalog \cup {0} /\ editDraft \in Drafts
  /\ drawerEditing \in BOOLEAN /\ savedBanner \in BOOLEAN
  /\ updating = NoUpdate \/ (updating \in [id : Ids, draft : Drafts] /\ updating.id \in DOMAIN catalog)

CreateTypes ==
  /\ createOpen \in BOOLEAN /\ createDraft \in Drafts
  /\ productsSent \in Seq(Drafts) /\ Len(productsSent) <= 1
  /\ Blank \notin Range(productsSent)

ListTypes == StoreTypes /\ ViewTypes /\ DrawerTypes /\ CreateTypes

\* What is kept for a product is of that product; a value made in the create
\* dialog is of one product and of no form, unless an answer was lost.
Kept ==
  /\ \A h \in Held : /\ h[1] \in DOMAIN catalog /\ h[2].n <= texts
                     /\ h[2].for = h[1] \/ (h[2].for = 0 /\ h[1] > Stock)
  /\ \A d \in Forms : d.val.for = 0 /\ d.val.n <= texts /\ d.val.n > 0
  /\ ~listLost => /\ \A g, h \in Held : g[2] = h[2] => g[1] = h[1]
                  /\ \A h \in Held : \A d \in Forms : h[2] # d.val

ListInv == ListTypes /\ Kept

LEMMA ListHolds == ListInv => ListTypeOK /\ EditsOwnProduct /\ CreatedOnce
  <1> SUFFICES ASSUME ListInv PROVE ListTypeOK /\ EditsOwnProduct /\ CreatedOnce
    OBVIOUS
  <1>1. \A i \in DOMAIN catalog : <<i, catalog[i].val>> \in Held
    BY DEF Held, HeldStored
  <1>2. \A f \in DOMAIN lists : \A r \in lists[f] : <<r.id, r.val>> \in Held
    BY DEF Held, HeldListed
  <1>3. EditsOwnProduct
    BY <1>1 DEF ListInv, Kept, EditsOwnProduct
  <1>4. CreatedOnce
    BY <1>1 DEF ListInv, Kept, CreatedOnce
  <1>5. \A f \in DOMAIN lists : {r.id : r \in lists[f]} \subseteq DOMAIN catalog
    BY <1>2 DEF ListInv, Kept
  <1>6. Range(productsSent) \subseteq Drafts
    BY DEF ListInv, ListTypes, StoreTypes, ViewTypes, DrawerTypes, CreateTypes, Range
  <1>7. {descending, drawerEditing, savedBanner, createOpen, listLost} \subseteq BOOLEAN
    BY DEF ListInv, ListTypes, StoreTypes, ViewTypes, DrawerTypes, CreateTypes
  <1>8. updating = NoUpdate \/ updating.id \in DOMAIN catalog
    BY DEF ListInv, ListTypes, StoreTypes, ViewTypes, DrawerTypes, CreateTypes
  <1>9. {editDraft, createDraft} \subseteq Drafts
    BY DEF ListInv, ListTypes, StoreTypes, ViewTypes, DrawerTypes, CreateTypes
  <1>10. Len(productsSent) <= 1 /\ catalog \in Seq(Drafts) /\ DOMAIN lists \subseteq Filters
         /\ filter \in Filters /\ listPage \in Nat \ {0} /\ selectedId \in DOMAIN catalog \cup {0}
    BY DEF ListInv, ListTypes, StoreTypes, ViewTypes, DrawerTypes, CreateTypes
  <1> QED
    BY <1>3, <1>4, <1>5, <1>6, <1>7, <1>8, <1>9, <1>10 DEF ListTypeOK

LEMMA ListBase == ListInit => ListInv
  <1> SUFFICES ASSUME ListInit PROVE ListInv
    OBVIOUS
  <1>1. /\ Stock \in Nat \ {0} /\ PageSize \in Nat \ {0} /\ MaxTexts \in Nat
        /\ MaxListMoves \in Nat /\ MaxListFaults \in Nat
    BY ListAssumption
  <1>2. Blank \in Drafts
    BY <1>1 DEF Blank, Drafts, Typed
  <1>3. \A i \in 1..Stock : [val |-> Typed(i, 0), active |-> (i = 1 \/ i < Stock)] \in Drafts
    BY <1>1 DEF Drafts, Typed, Ids
  <1>4. catalog = [i \in 1 .. Stock |-> [val |-> Typed(i, 0), active |-> (i = 1 \/ i < Stock)]]
    BY DEF ListInit
  <1>5. catalog \in [1..Stock -> Drafts]
    BY <1>3, <1>4
  <1>6. catalog \in Seq(Drafts) /\ Len(catalog) = Stock /\ DOMAIN catalog = 1..Stock
    BY <1>1, <1>5
  <1>7. \A i \in 1..Stock : catalog[i].val = Typed(i, 0)
    BY <1>4
  <1>8. productsSent = <<>> /\ createDraft = Blank /\ Forms = {}
    BY DEF ListInit, Forms, Range
  <1>9. lists = <<>> /\ DOMAIN lists = {}
    BY DEF ListInit
  <1>10. texts = 0 /\ listFaults = 0 /\ texts \in 0..MaxTexts /\ listFaults \in 0..MaxListFaults
    <2>1. texts = 0 /\ listFaults = 0
      BY DEF ListInit
    <2> QED
      BY <1>1, <2>1
  <1>11. Held = {<<i, Typed(i, 0)>> : i \in 1..Stock}
    BY <1>6, <1>7, <1>9 DEF Held, HeldStored, HeldListed, HeldEdited, HeldSaving, ListInit
  <1>12. Kept
    <2>1. \A h \in Held : h[1] \in 1..Stock /\ h[2].for = h[1] /\ h[2].n = 0
      BY <1>11 DEF Typed
    <2> QED
      BY <1>6, <1>8, <1>10, <2>1 DEF Kept
  <1>13. Len(catalog) + (IF Forms = {} THEN 0 ELSE 1) <= Stock + texts + listFaults
    BY <1>1, <1>6, <1>8, <1>10
  <1>14. productsSent \in Seq(Drafts) /\ Len(productsSent) <= 1 /\ Blank \notin Range(productsSent)
    BY <1>8 DEF Range
  <1>15. /\ filter \in Filters /\ listPage \in Nat \ {0} /\ selectedId = 0
         /\ editDraft = Blank /\ updating = NoUpdate
    BY DEF ListInit
  <1>16. /\ descending \in BOOLEAN /\ drawerEditing \in BOOLEAN /\ savedBanner \in BOOLEAN
         /\ createOpen \in BOOLEAN /\ listLost \in BOOLEAN
    BY DEF ListInit
  <1>17. Stock <= Len(catalog)
    BY <1>1, <1>6
  <1>18. ListTypes
    BY <1>2, <1>6, <1>8, <1>9, <1>10, <1>13, <1>14, <1>15, <1>16, <1>17 DEF ListTypes, StoreTypes, ViewTypes, DrawerTypes, CreateTypes
  <1> QED
    BY <1>12, <1>18 DEF ListInv

LEMMA DraftNumbers == \A d \in Drafts : d.val.n \in Nat
  <1>1. MaxTexts \in Nat
    BY ListAssumption
  <1> QED
    BY <1>1 DEF Drafts

LEMMA KeptMoves ==
  ASSUME ListInv, NEW New, NEW Drawn, Held' \subseteq Held \cup New,
         Forms' \subseteq Forms \cup Drawn, DOMAIN catalog \subseteq DOMAIN catalog',
         texts' \in Nat, texts <= texts', ~listLost' => ~listLost,
         \A h \in New : /\ h[1] \in DOMAIN catalog' /\ h[2].n \in Nat /\ h[2].n <= texts'
                        /\ h[2].for = h[1] \/ (h[2].for = 0 /\ h[1] > Stock),
         \A d \in Drawn : d.val.for = 0 /\ d.val.n <= texts' /\ d.val.n > 0,
         ~listLost' => /\ \A h \in New : \A g \in Held \cup New : g[2] = h[2] => g[1] = h[1]
                       /\ \A h \in New : \A d \in Forms' : h[2] # d.val
                       /\ \A d \in Drawn : \A h \in Held : h[2] # d.val
  PROVE  Kept'
  <1>1. texts \in Nat /\ createDraft \in Drafts /\ productsSent \in Seq(Drafts)
    BY ListAssumption DEF ListInv, ListTypes, StoreTypes, ViewTypes, DrawerTypes, CreateTypes
  <1>2. \A d \in Forms : d.val.n \in Nat
    <2>1. \A d \in Range(productsSent) : d \in Drafts
      BY <1>1 DEF Range
    <2> QED
      BY <1>1, <2>1, DraftNumbers DEF Forms
  <1>3. \A h \in Held : h[2].n \in Nat
    <2>1. \A i \in DOMAIN catalog : catalog[i] \in Drafts /\ catalog[i].val.n \in Nat
      <3>1. \A i \in DOMAIN catalog : catalog[i] \in Drafts
        BY DEF ListInv, ListTypes, StoreTypes, ViewTypes, DrawerTypes, CreateTypes
      <3> QED
        BY <3>1, DraftNumbers
    <2>2. \A h \in HeldStored : h[2].n \in Nat
      BY <2>1 DEF HeldStored
    <2>3. \A f \in DOMAIN lists : \A r \in lists[f] : r.val.n \in Nat
      BY ListAssumption DEF ListInv, ListTypes, StoreTypes, ViewTypes, DrawerTypes, CreateTypes, ListRow
    <2>4. \A h \in HeldListed : h[2].n \in Nat
      BY <2>3 DEF HeldListed
    <2>5. editDraft.val.n \in Nat
      BY ListAssumption DEF ListInv, ListTypes, StoreTypes, ViewTypes, DrawerTypes, CreateTypes, Drafts
    <2>6. updating # NoUpdate => updating.draft.val.n \in Nat
      BY ListAssumption DEF ListInv, ListTypes, StoreTypes, ViewTypes, DrawerTypes, CreateTypes, Drafts
    <2> QED
      BY <2>2, <2>4, <2>5, <2>6 DEF Held, HeldEdited, HeldSaving
  <1>4. \A h \in Held' : /\ h[1] \in DOMAIN catalog' /\ h[2].n <= texts'
                         /\ h[2].for = h[1] \/ (h[2].for = 0 /\ h[1] > Stock)
    BY <1>1, <1>3 DEF ListInv, Kept
  <1>5. \A d \in Forms' : d.val.for = 0 /\ d.val.n <= texts' /\ d.val.n > 0
    BY <1>1, <1>2 DEF ListInv, Kept
  <1>6. ASSUME ~listLost', NEW g \in Held', NEW h \in Held', g[2] = h[2]
        PROVE  g[1] = h[1]
    BY <1>6 DEF ListInv, Kept
  <1>7. ASSUME ~listLost', NEW h \in Held', NEW d \in Forms'
        PROVE  h[2] # d.val
    BY <1>7 DEF ListInv, Kept
  <1> QED
    BY <1>4, <1>5, <1>6, <1>7 DEF Kept

\* A step that keeps no new value and begins no new form
LEMMA KeptOn ==
  ASSUME ListInv, Held' \subseteq Held, Forms' \subseteq Forms,
         DOMAIN catalog \subseteq DOMAIN catalog', UNCHANGED texts, ~listLost' => ~listLost
  PROVE  Kept'
  <1>1. texts \in Nat
    BY ListAssumption DEF ListInv, ListTypes, StoreTypes, ViewTypes, DrawerTypes, CreateTypes
  <1>2. \A h \in Held' : /\ h[1] \in DOMAIN catalog' /\ h[2].n <= texts'
                         /\ h[2].for = h[1] \/ (h[2].for = 0 /\ h[1] > Stock)
    BY DEF ListInv, Kept
  <1>3. \A d \in Forms' : d.val.for = 0 /\ d.val.n <= texts' /\ d.val.n > 0
    BY DEF ListInv, Kept
  <1>4. ~listLost' => /\ \A g, h \in Held' : g[2] = h[2] => g[1] = h[1]
                      /\ \A h \in Held' : \A d \in Forms' : h[2] # d.val
    BY DEF ListInv, Kept
  <1> QED
    BY <1>2, <1>3, <1>4 DEF Kept

\* What can be read of the invariant in every step
LEMMA ListFacts ==
  ASSUME ListInv
  PROVE  /\ Stock \in Nat \ {0} /\ PageSize \in Nat \ {0} /\ MaxTexts \in Nat /\ MaxListFaults \in Nat
         /\ Len(catalog) \in Nat /\ DOMAIN catalog = 1..Len(catalog)
         /\ \A i \in DOMAIN catalog : i \in Ids /\ i # 0 /\ catalog[i] \in Drafts
         /\ Blank \in Drafts
         /\ texts \in Nat /\ listFaults \in Nat
  <1>1. /\ Stock \in Nat \ {0} /\ PageSize \in Nat \ {0} /\ MaxTexts \in Nat /\ MaxListFaults \in Nat
    BY ListAssumption
  <1>2. /\ catalog \in Seq(Drafts) /\ texts \in 0..MaxTexts /\ listFaults \in 0..MaxListFaults
        /\ Len(catalog) + (IF Forms = {} THEN 0 ELSE 1) <= Stock + texts + listFaults
    BY DEF ListInv, ListTypes, StoreTypes, ViewTypes, DrawerTypes, CreateTypes
  <1>3. Len(catalog) \in Nat /\ DOMAIN catalog = 1..Len(catalog) /\ \A i \in DOMAIN catalog : catalog[i] \in Drafts
    BY <1>2
  <1>4. Len(catalog) <= Stock + MaxTexts + MaxListFaults
    BY <1>1, <1>2, <1>3
  <1>5. \A i \in DOMAIN catalog : i \in Ids /\ i # 0
    BY <1>1, <1>3, <1>4 DEF Ids
  <1>6. Blank \in Drafts
    BY <1>1 DEF Blank, Drafts, Typed
  <1> QED
    BY <1>1, <1>2, <1>3, <1>5, <1>6

\* The rows a read brings are of the catalogue, finitely many of them.
LEMMA RowsRead ==
  ASSUME ListInv, NEW f
  PROVE  /\ Rows(f) \subseteq ListRow /\ IsFiniteSet(Rows(f))
         /\ \A r \in Rows(f) : r.id \in DOMAIN catalog /\ r.val = catalog[r.id].val
  <1> DEFINE P == {j \in DOMAIN catalog : f = "any" \/ catalog[j].active = (f = "active")}
  <1>1. Rows(f) = {Row(i) : i \in P}
    BY DEF Rows
  <1>2. \A i \in P : i \in DOMAIN catalog /\ i \in Ids /\ catalog[i] \in Drafts
    BY ListFacts
  <1>3. IsFiniteSet(1..Len(catalog)) /\ P \subseteq 1..Len(catalog)
    BY ListFacts, FS_Interval
  <1>4. IsFiniteSet(P)
    BY <1>3, FS_Subset
  <1> HIDE DEF P
  <1>5. IsFiniteSet({Row(i) : i \in P})
    <2> DEFINE T == {Row(i) : i \in P}
               g == [i \in P |-> Row(i)]
    <2>1. g \in Surjection(P, T)
      BY DEF Surjection
    <2> HIDE DEF g, T
    <2>2. IsFiniteSet(T)
      BY <1>4, <2>1, FS_Surjection
    <2> QED
      BY <2>2 DEF T
  <1>6. \A i \in P : Row(i) \in ListRow /\ Row(i).id = i /\ Row(i).val = catalog[i].val
    BY <1>2 DEF Row, ListRow, Drafts
  <1> QED
    BY <1>1, <1>2, <1>5, <1>6

\* A step that leaves a part of the screen alone
LEMMA PartsKept ==
  ASSUME ListInv, DOMAIN catalog \subseteq DOMAIN catalog'
  PROVE  /\ UNCHANGED viewVars => ViewTypes' /\ HeldListed' = HeldListed
         /\ UNCHANGED drawerVars => DrawerTypes' /\ HeldEdited' = HeldEdited /\ HeldSaving' = HeldSaving
         /\ UNCHANGED createVars => CreateTypes' /\ Forms' = Forms
         /\ UNCHANGED <<catalog, texts, faultVars>> /\ Forms' = Forms => StoreTypes' /\ HeldStored' = HeldStored
  <1>1. ListTypes
    BY DEF ListInv
  <1>2. ASSUME UNCHANGED viewVars
        PROVE  ViewTypes' /\ HeldListed' = HeldListed
    BY <1>1, <1>2 DEF viewVars, ListTypes, ViewTypes, HeldListed
  <1>3. ASSUME UNCHANGED drawerVars
        PROVE  DrawerTypes' /\ HeldEdited' = HeldEdited /\ HeldSaving' = HeldSaving
    BY <1>1, <1>3 DEF drawerVars, ListTypes, DrawerTypes, HeldEdited, HeldSaving
  <1>4. ASSUME UNCHANGED createVars
        PROVE  CreateTypes' /\ Forms' = Forms
    BY <1>1, <1>4 DEF createVars, ListTypes, CreateTypes, Forms
  <1>5. ASSUME UNCHANGED <<catalog, texts, faultVars>>, Forms' = Forms
        PROVE  StoreTypes' /\ HeldStored' = HeldStored
    BY <1>1, <1>5 DEF faultVars, ListTypes, StoreTypes, HeldStored
  <1> QED
    BY <1>2, <1>3, <1>4, <1>5

\* The rows in the list are held values of their products.
LEMMA FetchedRows ==
  ASSUME ListInv, NEW r \in Fetched
  PROVE  /\ <<r.id, r.val>> \in Held /\ r \in ListRow /\ r.id \in DOMAIN catalog
         /\ [val |-> r.val, active |-> r.active] \in Drafts
  <1>1. filter \in DOMAIN lists /\ r \in lists[filter]
    BY DEF Fetched, Loaded
  <1>2. r \in ListRow
    BY <1>1 DEF ListInv, ListTypes, ViewTypes
  <1>3. <<r.id, r.val>> \in Held
    BY <1>1 DEF Held, HeldListed
  <1>4. r.id \in DOMAIN catalog
    BY <1>3 DEF ListInv, Kept
  <1>5. [val |-> r.val, active |-> r.active] \in Drafts
    BY <1>2 DEF ListRow, Drafts
  <1> QED
    BY <1>2, <1>3, <1>4, <1>5

\* The steps of the list and of what is open over it: they store nothing.
LEMMA ViewSteps ==
  ASSUME ListInv,
         \/ ReadList \/ SetSort \/ CloseDrawer \/ SetEditing \/ DismissSavedBanner \/ SetCreateOpen
         \/ \E f \in Filters : SetFilter(f)
         \/ \E p \in PageEntries \cup Previous : TurnPage(p)
         \/ \E r \in Visible(listPage) : OpenRecord(r)
         \/ UNCHANGED listVars
  PROVE  ListInv'
  <1>1. ListTypes
    BY DEF ListInv
  <1>2. \A i \in DOMAIN catalog : i # 0
    BY ListFacts
  <1>3. ASSUME UNCHANGED <<catalog, texts, faultVars>>, Forms' = Forms,
               ViewTypes', DrawerTypes', CreateTypes',
               HeldListed' \subseteq Held, HeldEdited' \subseteq Held, HeldSaving' \subseteq Held
        PROVE  ListInv'
    <2>1. StoreTypes' /\ HeldStored' = HeldStored /\ DOMAIN catalog \subseteq DOMAIN catalog'
      BY <1>3, PartsKept
    <2>2. Held' \subseteq Held
      BY <1>3, <2>1 DEF Held
    <2>3. Kept'
      BY <1>3, <2>1, <2>2, KeptOn DEF faultVars
    <2> QED
      BY <1>3, <2>1, <2>3 DEF ListInv, ListTypes
  <1>4. HeldListed \subseteq Held /\ HeldEdited \subseteq Held /\ HeldSaving \subseteq Held /\ HeldStored \subseteq Held
    BY DEF Held
  <1>5. CASE ReadList
    <2>1. PICK found : found = Rows(filter)
      OBVIOUS
    <2>2. /\ found \subseteq ListRow /\ IsFiniteSet(found)
          /\ \A r \in found : r.id \in DOMAIN catalog /\ r.val = catalog[r.id].val
      BY <2>1, RowsRead
    <2>3. /\ lists' = [f \in DOMAIN lists \cup {filter} |-> IF f = filter THEN found ELSE lists[f]]
          /\ UNCHANGED <<catalog, filter, descending, listPage, drawerVars, createVars, texts, faultVars>>
      BY <1>5, <2>1 DEF ReadList
    <2>4. DOMAIN lists' = DOMAIN lists \cup {filter}
          /\ \A f \in DOMAIN lists' : lists'[f] = found \/ (f \in DOMAIN lists /\ lists'[f] = lists[f])
      BY <2>3
    <2>5. ViewTypes'
      BY <1>1, <2>2, <2>3, <2>4 DEF ListTypes, ViewTypes
    <2>6. HeldListed' \subseteq Held
      <3> SUFFICES ASSUME NEW f \in DOMAIN lists', NEW r \in lists'[f]
                   PROVE  <<r.id, r.val>> \in Held
        BY DEF HeldListed
      <3>1. CASE lists'[f] = found
        <4>1. <<r.id, r.val>> \in HeldStored
          BY <2>2, <3>1 DEF HeldStored
        <4> QED
          BY <1>4, <4>1
      <3>2. CASE f \in DOMAIN lists /\ lists'[f] = lists[f]
        <4>1. <<r.id, r.val>> \in HeldListed
          BY <3>2 DEF HeldListed
        <4> QED
          BY <1>4, <4>1
      <3> QED
        BY <2>4, <3>1, <3>2
    <2> QED
      BY <1>3, <1>4, <2>3, <2>5, <2>6, PartsKept
  <1>6. ASSUME UNCHANGED <<catalog, lists, drawerVars, createVars, texts, faultVars>>,
               filter' \in Filters, descending' \in BOOLEAN, listPage' \in Nat \ {0}
        PROVE  ListInv'
    <2>1. ViewTypes' /\ HeldListed' = HeldListed
      BY <1>1, <1>6 DEF ListTypes, ViewTypes, HeldListed
    <2> QED
      BY <1>3, <1>4, <1>6, <2>1, PartsKept
  <1>7. ASSUME NEW f \in Filters, SetFilter(f)
        PROVE  ListInv'
    BY <1>1, <1>6, <1>7 DEF SetFilter, ListTypes, ViewTypes
  <1>8. CASE SetSort
    BY <1>1, <1>6, <1>8 DEF SetSort, ListTypes, ViewTypes
  <1>9. ASSUME NEW p \in PageEntries \cup Previous, TurnPage(p)
        PROVE  ListInv'
    <2>1. IsFiniteSet(Fetched)
      BY <1>1, FS_EmptySet DEF Fetched, Loaded, ListTypes, ViewTypes
    <2>2. Cardinality(Fetched) \in Nat
      BY <2>1, FS_CardinalityType
    <2>3. PageCount \in Int
      BY <2>2, ListFacts DEF PageCount
    <2>4. listPage \in Nat \ {0}
      BY <1>1 DEF ListTypes, ViewTypes
    <2>5. p \in Nat \ {0}
      BY <2>3, <2>4 DEF PageEntries, Previous
    <2> QED
      BY <1>1, <1>6, <1>9, <2>5 DEF TurnPage, ListTypes, ViewTypes
  <1>10. ASSUME NEW r \in Visible(listPage), OpenRecord(r)
         PROVE  ListInv'
    <2>1. r \in Fetched
      BY DEF Visible
    <2>2. /\ <<r.id, r.val>> \in Held /\ r.id \in DOMAIN catalog
          /\ [val |-> r.val, active |-> r.active] \in Drafts
      BY <2>1, FetchedRows
    <2>3. /\ selectedId' = r.id /\ editDraft' = [val |-> r.val, active |-> r.active]
          /\ drawerEditing' = FALSE /\ savedBanner' = FALSE
          /\ UNCHANGED <<catalog, viewVars, updating, createVars, texts, faultVars>>
      BY <1>10 DEF OpenRecord
    <2>4. DrawerTypes'
      BY <1>1, <2>2, <2>3 DEF ListTypes, DrawerTypes
    <2>5. HeldEdited' \subseteq Held /\ HeldSaving' = HeldSaving
      BY <2>2, <2>3 DEF HeldEdited, HeldSaving
    <2> QED
      BY <1>3, <1>4, <2>3, <2>4, <2>5, PartsKept
  <1>11. CASE CloseDrawer
    <2>1. DrawerTypes' /\ HeldEdited' = {} /\ HeldSaving' = HeldSaving
      BY <1>1, <1>11 DEF CloseDrawer, ListTypes, DrawerTypes, HeldEdited, HeldSaving
    <2> QED
      BY <1>3, <1>4, <1>11, <2>1, PartsKept DEF CloseDrawer
  <1>12. CASE SetEditing
    <2>1. DrawerTypes' /\ HeldEdited' = HeldEdited /\ HeldSaving' = HeldSaving
      BY <1>1, <1>12 DEF SetEditing, ListTypes, DrawerTypes, HeldEdited, HeldSaving
    <2> QED
      BY <1>3, <1>4, <1>12, <2>1, PartsKept DEF SetEditing
  <1>13. CASE DismissSavedBanner
    <2>1. DrawerTypes' /\ HeldEdited' = HeldEdited /\ HeldSaving' = HeldSaving
      BY <1>1, <1>13 DEF DismissSavedBanner, ListTypes, DrawerTypes, HeldEdited, HeldSaving
    <2> QED
      BY <1>3, <1>4, <1>13, <2>1, PartsKept DEF DismissSavedBanner
  <1>14. CASE SetCreateOpen
    <2>1. CreateTypes' /\ Forms' = Forms
      BY <1>1, <1>14 DEF SetCreateOpen, ListTypes, CreateTypes, Forms
    <2> QED
      BY <1>3, <1>4, <1>14, <2>1, PartsKept DEF SetCreateOpen
  <1>15. CASE UNCHANGED listVars
    BY <1>3, <1>4, <1>15, PartsKept DEF listVars
  <1> QED
    BY <1>5, <1>7, <1>8, <1>9, <1>10, <1>11, <1>12, <1>13, <1>14, <1>15

\* A catalogue with one product's values replaced
LEMMA StoredAt ==
  ASSUME ListInv, NEW i \in DOMAIN catalog, NEW d \in Drafts,
         catalog' = [catalog EXCEPT ![i] = d]
  PROVE  /\ catalog' \in Seq(Drafts) /\ Len(catalog') = Len(catalog) /\ DOMAIN catalog' = DOMAIN catalog
         /\ HeldStored' \subseteq HeldStored \cup {<<i, d.val>>}
  <1>1. catalog \in Seq(Drafts) /\ Len(catalog) \in Nat /\ DOMAIN catalog = 1..Len(catalog)
    BY DEF ListInv, ListTypes, StoreTypes
  <1>2. catalog' \in Seq(Drafts) /\ Len(catalog') = Len(catalog) /\ DOMAIN catalog' = DOMAIN catalog
    BY <1>1
  <1>3. \A j \in DOMAIN catalog : catalog'[j] = IF j = i THEN d ELSE catalog[j]
    BY <1>1
  <1>4. HeldStored' \subseteq HeldStored \cup {<<i, d.val>>}
    BY <1>2, <1>3 DEF HeldStored
  <1> QED
    BY <1>2, <1>4

\* A catalogue with one product more
LEMMA StoredNew ==
  ASSUME ListInv, NEW d \in Drafts, catalog' = Append(catalog, d)
  PROVE  /\ catalog' \in Seq(Drafts) /\ Len(catalog') = Len(catalog) + 1
         /\ DOMAIN catalog \subseteq DOMAIN catalog' /\ Len(catalog) + 1 \in DOMAIN catalog'
         /\ HeldStored' \subseteq HeldStored \cup {<<Len(catalog) + 1, d.val>>}
  <1>1. catalog \in Seq(Drafts) /\ Len(catalog) \in Nat /\ DOMAIN catalog = 1..Len(catalog)
    BY DEF ListInv, ListTypes, StoreTypes
  <1>2. /\ catalog' \in Seq(Drafts) /\ Len(catalog') = Len(catalog) + 1
        /\ DOMAIN catalog' = 1..(Len(catalog) + 1)
    BY <1>1
  <1>3. \A j \in DOMAIN catalog' : \/ j \in DOMAIN catalog /\ catalog'[j] = catalog[j]
                                   \/ j = Len(catalog) + 1 /\ catalog'[j] = d
    BY <1>1, <1>2
  <1>4. HeldStored' \subseteq HeldStored \cup {<<Len(catalog) + 1, d.val>>}
    BY <1>3 DEF HeldStored
  <1> QED
    BY <1>1, <1>2, <1>4

\* Forms are drafts, with nothing but numbers already typed.
LEMMA FormsTyped ==
  ASSUME ListInv
  PROVE  /\ Forms \subseteq Drafts
         /\ productsSent # <<>> => /\ Head(productsSent) \in Drafts /\ Tail(productsSent) = <<>>
                                   /\ productsSent = <<Head(productsSent)>>
  <1>1. createDraft \in Drafts /\ productsSent \in Seq(Drafts) /\ Len(productsSent) <= 1
    BY DEF ListInv, ListTypes, CreateTypes
  <1>2. Range(productsSent) \subseteq Drafts
    BY <1>1 DEF Range
  <1>3. Forms \subseteq Drafts
    BY <1>1, <1>2 DEF Forms
  <1>4. ASSUME productsSent # <<>>
        PROVE  /\ Head(productsSent) \in Drafts /\ Tail(productsSent) = <<>>
               /\ productsSent = <<Head(productsSent)>>
    <2>1. Len(productsSent) = 1
      BY <1>1, <1>4
    <2>2. productsSent[1] \in Drafts /\ Head(productsSent) = productsSent[1]
      <3>1. 1 \in DOMAIN productsSent
        BY <1>1, <2>1
      <3>2. productsSent[1] \in Drafts
        BY <1>1, <3>1
      <3> QED
        BY <3>2
    <2>3. Tail(productsSent) = <<>>
      <3>1. Tail(productsSent) \in Seq(Drafts) /\ Len(Tail(productsSent)) = Len(productsSent) - 1
        BY <1>1, <1>4, HeadTailProperties
      <3>2. Len(Tail(productsSent)) = 0
        BY <2>1, <3>1
      <3> QED
        BY <3>1, <3>2, EmptySeq
    <2>4. productsSent = <<Head(productsSent)>>
      BY <1>1, <2>1, <2>2
    <2> QED
      BY <2>2, <2>3, <2>4
  <1> QED
    BY <1>3, <1>4

\* An edit typed for product i: no form and no other product has its number.
LEMMA TypedFor ==
  ASSUME ListInv, NEW i \in DOMAIN catalog, texts < MaxTexts, texts' = texts + 1,
         Held' \subseteq Held \cup {<<i, Typed(i, texts + 1)>>}, Forms' = Forms,
         DOMAIN catalog \subseteq DOMAIN catalog', UNCHANGED listLost
  PROVE  Kept'
  <1>1. texts \in Nat
    BY ListFacts
  <1>2. PICK h : h = <<i, Typed(i, texts + 1)>>
    OBVIOUS
  <1>3. h[1] = i /\ h[2].for = i /\ h[2].n = texts + 1
    BY <1>2 DEF Typed
  <1>4. \A g \in Held : g[2].n <= texts
    BY DEF ListInv, Kept
  <1>5. \A d \in Forms : d.val.n <= texts
    BY DEF ListInv, Kept
  <1>6. \A g \in Held \cup {h} : g[2] = h[2] => g[1] = h[1]
    BY <1>1, <1>3, <1>4
  <1>7. \A d \in Forms' : h[2] # d.val
    BY <1>1, <1>3, <1>5
  <1>8. PICK New, Drawn : New = {h} /\ Drawn = {}
    OBVIOUS
  <1>9. Held' \subseteq Held \cup New /\ Forms' \subseteq Forms \cup Drawn /\ texts' \in Nat /\ texts <= texts'
    BY <1>1, <1>2, <1>8
  <1>10. \A x \in New : /\ x[1] \in DOMAIN catalog' /\ x[2].n \in Nat /\ x[2].n <= texts'
                        /\ x[2].for = x[1] \/ (x[2].for = 0 /\ x[1] > Stock)
    BY <1>1, <1>3, <1>8
  <1>11. \A d \in Drawn : /\ d.val.for = 0 /\ d.val.n <= texts' /\ d.val.n > 0
                          /\ \A x \in Held : x[2] # d.val
    BY <1>8
  <1>12. \A x \in New : /\ \A g \in Held \cup New : g[2] = x[2] => g[1] = x[1]
                        /\ \A d \in Forms' : x[2] # d.val
    BY <1>6, <1>7, <1>8
  <1> HIDE <1>2, <1>6, <1>7
  <1> QED
    BY <1>9, <1>10, <1>11, <1>12, KeptMoves

LEMMA ListStep == ListInv /\ [ListNext]_listVars => ListInv'
  <1> SUFFICES ASSUME ListInv, [ListNext]_listVars PROVE ListInv'
    OBVIOUS
  <1>1. ListTypes /\ StoreTypes /\ ViewTypes /\ DrawerTypes /\ CreateTypes /\ Kept
    BY DEF ListInv, ListTypes
  <1>2. /\ Stock \in Nat \ {0} /\ MaxTexts \in Nat /\ MaxListFaults \in Nat /\ Len(catalog) \in Nat
        /\ \A i \in DOMAIN catalog : i \in Ids /\ i # 0 /\ catalog[i] \in Drafts
        /\ Blank \in Drafts /\ texts \in Nat /\ listFaults \in Nat
    BY ListFacts
  <1>3. HeldListed \subseteq Held /\ HeldEdited \subseteq Held /\ HeldSaving \subseteq Held /\ HeldStored \subseteq Held
    BY DEF Held
  <1>4. ASSUME NEW i \in DOMAIN catalog, NEW active \in BOOLEAN, texts < MaxTexts
        PROVE  [val |-> Typed(i, texts + 1), active |-> active] \in Drafts
    BY <1>2, <1>4 DEF Drafts, Typed
  <1>5. Found # {} => selectedId \in DOMAIN catalog /\ selectedId # 0 /\ Selected.id = selectedId
    <2> SUFFICES ASSUME Found # {}
                 PROVE  selectedId \in DOMAIN catalog /\ selectedId # 0 /\ Selected.id = selectedId
      OBVIOUS
    <2>1. Selected \in Found
      BY DEF Selected
    <2>2. Selected \in Fetched /\ Selected.id = selectedId
      BY <2>1 DEF Found
    <2>3. Selected.id \in DOMAIN catalog
      BY <2>2, FetchedRows
    <2> QED
      BY <1>2, <2>2, <2>3
  <1>6. ASSUME NEW active \in BOOLEAN, TypeEdit(active)
        PROVE  ListInv'
    <2>1. /\ Found # {} /\ texts < MaxTexts /\ texts' = texts + 1
          /\ UNCHANGED <<catalog, viewVars, selectedId, drawerEditing, savedBanner,
                         updating, createVars, listMoves, faultVars>>
      BY <1>6 DEF TypeEdit
    <2>2. PICK i \in DOMAIN catalog : i = selectedId /\ i # 0
      BY <1>5, <2>1
    <2>3. editDraft' = [val |-> Typed(i, texts + 1), active |-> active]
      BY <1>6, <2>2 DEF TypeEdit
    <2>4. editDraft' \in Drafts /\ editDraft'.val = Typed(i, texts + 1)
      BY <1>4, <2>1, <2>3
    <2>5. DrawerTypes' /\ HeldSaving' = HeldSaving /\ HeldEdited' = {<<i, Typed(i, texts + 1)>>}
      BY <1>1, <2>1, <2>2, <2>4 DEF DrawerTypes, HeldSaving, HeldEdited
    <2>6. HeldStored' = HeldStored /\ HeldListed' = HeldListed /\ ViewTypes' /\ CreateTypes' /\ Forms' = Forms
      BY <2>1, PartsKept DEF HeldStored
    <2>7. StoreTypes'
      BY <1>1, <1>2, <2>1, <2>6 DEF StoreTypes, faultVars
    <2>8. Held' \subseteq Held \cup {<<i, Typed(i, texts + 1)>>}
      BY <2>5, <2>6 DEF Held
    <2>9. Kept'
      BY <2>1, <2>6, <2>8, TypedFor DEF faultVars
    <2> QED
      BY <2>5, <2>6, <2>7, <2>9 DEF ListInv, ListTypes
  <1>7. CASE SubmitEdit
    <2>1. /\ Found # {} /\ updating' = [id |-> Selected.id, draft |-> editDraft]
          /\ UNCHANGED <<catalog, viewVars, selectedId, drawerEditing, editDraft,
                         savedBanner, createVars, texts, faultVars>>
      BY <1>7 DEF SubmitEdit
    <2>2. updating' = [id |-> selectedId, draft |-> editDraft] /\ selectedId \in DOMAIN catalog /\ selectedId # 0
      BY <1>5, <2>1
    <2>3. updating' \in [id : Ids, draft : Drafts] /\ updating'.id \in DOMAIN catalog
      BY <1>1, <1>2, <2>2 DEF DrawerTypes
    <2>4. DrawerTypes'
      BY <1>1, <2>1, <2>3 DEF DrawerTypes
    <2>5. HeldSaving' \subseteq HeldEdited /\ HeldEdited' = HeldEdited
      BY <2>1, <2>2 DEF HeldSaving, HeldEdited
    <2>6. /\ HeldStored' = HeldStored /\ HeldListed' = HeldListed /\ ViewTypes' /\ CreateTypes'
          /\ Forms' = Forms /\ StoreTypes'
      BY <2>1, PartsKept
    <2>7. Held' \subseteq Held
      BY <2>5, <2>6 DEF Held
    <2>8. Kept'
      BY <2>1, <2>6, <2>7, KeptOn DEF faultVars
    <2> QED
      BY <2>4, <2>6, <2>8 DEF ListInv, ListTypes
  \* an answer to an update: the draft is in the catalogue, or nothing changed
  <1>8. ASSUME updating # NoUpdate, updating' = NoUpdate,
               catalog' = Write(catalog, updating) \/ catalog' = catalog,
               UNCHANGED <<viewVars, selectedId, editDraft, createVars, texts>>,
               drawerEditing' \in BOOLEAN, savedBanner' \in BOOLEAN, listLost' \in BOOLEAN,
               listFaults' \in 0..MaxListFaults, listFaults <= listFaults', ~listLost' => ~listLost
        PROVE  ListInv'
    <2>1. PICK u \in DOMAIN catalog, d \in Drafts : u = updating.id /\ d = updating.draft
      BY <1>1, <1>8 DEF DrawerTypes
    <2>2. HeldSaving = {<<u, d.val>>} /\ HeldSaving' = {} /\ HeldEdited' = HeldEdited
      BY <1>8, <2>1 DEF HeldSaving, HeldEdited
    <2>3. /\ catalog' \in Seq(Drafts) /\ Len(catalog') = Len(catalog) /\ DOMAIN catalog' = DOMAIN catalog
          /\ HeldStored' \subseteq HeldStored \cup {<<u, d.val>>}
      <3>1. CASE catalog' = Write(catalog, updating)
        <4>1. catalog' = [catalog EXCEPT ![u] = d]
          BY <2>1, <3>1 DEF Write
        <4> QED
          BY <4>1, StoredAt
      <3>2. CASE catalog' = catalog
        BY <1>1, <3>2 DEF StoreTypes, HeldStored
      <3> QED
        BY <1>8, <3>1, <3>2
    <2>4. HeldListed' = HeldListed /\ ViewTypes' /\ CreateTypes' /\ Forms' = Forms
      BY <1>8, <2>3, PartsKept
    <2>5. Held' \subseteq Held
      BY <2>2, <2>3, <2>4 DEF Held
    <2>6. Kept'
      BY <1>8, <2>3, <2>4, <2>5, KeptOn
    <2>7. DrawerTypes'
      BY <1>1, <1>8, <2>3 DEF DrawerTypes
    <2>8. StoreTypes'
      BY <1>1, <1>2, <1>8, <2>3, <2>4 DEF StoreTypes
    <2> QED
      BY <2>4, <2>6, <2>7, <2>8 DEF ListInv, ListTypes
  <1>9. CASE UpdateServed
    <2>1. listLost' \in BOOLEAN /\ listFaults' \in 0..MaxListFaults /\ listFaults <= listFaults' /\ listLost' = listLost
      BY <1>1, <1>2, <1>9 DEF UpdateServed, faultVars, StoreTypes
    <2> QED
      BY <1>8, <1>9, <2>1 DEF UpdateServed
  <1>10. ASSUME NEW lost \in BOOLEAN, Faulted(lost)
         PROVE  /\ listLost' \in BOOLEAN /\ listFaults' \in 0..MaxListFaults /\ listFaults' = listFaults + 1
                /\ listFaults <= listFaults' /\ (~listLost' => ~listLost) /\ (lost => listLost')
    BY <1>1, <1>2, <1>10 DEF Faulted, StoreTypes
  <1>11. ASSUME NEW lost \in BOOLEAN, UpdateFails(lost)
         PROVE  ListInv'
    <2>1. drawerEditing' \in BOOLEAN /\ savedBanner' \in BOOLEAN
      BY <1>1, <1>11 DEF UpdateFails, DrawerTypes
    <2>2. Faulted(lost) /\ (catalog' = Write(catalog, updating) \/ catalog' = catalog)
      BY <1>11 DEF UpdateFails
    <2>3. /\ listLost' \in BOOLEAN /\ listFaults' \in 0..MaxListFaults
          /\ listFaults <= listFaults' /\ (~listLost' => ~listLost)
      BY <1>10, <2>2
    <2> QED
      BY <1>8, <1>11, <2>1, <2>2, <2>3 DEF UpdateFails
  <1>12. CASE TypeCreate
    <2>1. /\ texts < MaxTexts /\ texts' = texts + 1
          /\ createDraft' = [createDraft EXCEPT !.val = Typed(0, texts + 1)]
          /\ UNCHANGED <<catalog, viewVars, drawerVars, createOpen, productsSent, faultVars>>
      BY <1>12 DEF TypeCreate
    <2>2. createDraft' \in Drafts /\ createDraft'.val = Typed(0, texts + 1)
      BY <1>1, <1>2, <2>1 DEF CreateTypes, Drafts, Typed
    <2>3. CreateTypes'
      BY <1>1, <2>1, <2>2 DEF CreateTypes
    <2>4. PICK d : d = createDraft'
      OBVIOUS
    <2>5. d.val.for = 0 /\ d.val.n = texts + 1
      BY <2>2, <2>4 DEF Typed
    <2>6. Forms' \subseteq Forms \cup {d}
      BY <2>1, <2>4 DEF Forms
    <2>7. d # Blank
      BY <1>2, <2>5 DEF Blank, Typed
    <2>8. Forms' # {}
      BY <2>4, <2>7 DEF Forms
    <2>9. StoreTypes'
      BY <1>1, <1>2, <2>1, <2>8 DEF StoreTypes, faultVars
    <2>10. /\ ViewTypes' /\ DrawerTypes' /\ HeldListed' = HeldListed /\ HeldEdited' = HeldEdited
           /\ HeldSaving' = HeldSaving /\ HeldStored' = HeldStored
      BY <2>1, PartsKept DEF HeldStored
    <2>11. Held' \subseteq Held \cup {}
      BY <2>10 DEF Held
    <2>12. \A h \in Held : h[2] # d.val
      BY <1>1, <1>2, <2>5 DEF Kept
    <2>13. PICK New, Drawn : New = {} /\ Drawn = {d}
      OBVIOUS
    <2>14. Kept'
      <3>1. /\ Held' \subseteq Held \cup New /\ Forms' \subseteq Forms \cup Drawn
            /\ texts' \in Nat /\ texts <= texts' /\ UNCHANGED <<catalog, listLost>>
        BY <1>2, <2>1, <2>6, <2>11, <2>13 DEF faultVars
      <3>2. \A x \in New : /\ x[1] \in DOMAIN catalog' /\ x[2].n \in Nat /\ x[2].n <= texts'
                           /\ x[2].for = x[1] \/ (x[2].for = 0 /\ x[1] > Stock)
        BY <2>13
      <3>3. \A e \in Drawn : /\ e.val.for = 0 /\ e.val.n <= texts' /\ e.val.n > 0
                             /\ \A x \in Held : x[2] # e.val
        BY <1>2, <2>1, <2>5, <2>12, <2>13
      <3>4. \A x \in New : /\ \A g \in Held \cup New : g[2] = x[2] => g[1] = x[1]
                           /\ \A e \in Forms' : x[2] # e.val
        BY <2>13
      <3> QED
        BY ONLY ListInv, <3>1, <3>2, <3>3, <3>4, KeptMoves
    <2> QED
      BY <2>3, <2>9, <2>10, <2>14 DEF ListInv, ListTypes
  <1>13. CASE SubmitCreate
    <2>1. /\ createDraft # Blank /\ productsSent = <<>> /\ productsSent' = Append(productsSent, createDraft)
          /\ UNCHANGED <<catalog, viewVars, drawerVars, createOpen, createDraft, texts, faultVars>>
      BY <1>13 DEF SubmitCreate
    <2>2. productsSent' = <<createDraft>> /\ Range(productsSent) = {}
      BY <2>1 DEF Range
    <2>3. Range(productsSent') = {createDraft}
      BY <2>2 DEF Range
    <2>4. CreateTypes'
      <3>1. productsSent' \in Seq(Drafts) /\ Len(productsSent') <= 1
        BY <1>1, <2>2 DEF CreateTypes
      <3>2. Range(productsSent)' = {createDraft}
        BY <2>3 DEF Range
      <3> QED
        BY <1>1, <2>1, <3>1, <3>2 DEF CreateTypes
    <2>5. Forms' = Forms
      BY <2>1, <2>2, <2>3 DEF Forms
    <2>6. /\ ViewTypes' /\ DrawerTypes' /\ HeldListed' = HeldListed /\ HeldEdited' = HeldEdited
          /\ HeldSaving' = HeldSaving /\ HeldStored' = HeldStored /\ StoreTypes'
      BY <2>1, <2>5, PartsKept
    <2>7. Held' \subseteq Held
      BY <2>6 DEF Held
    <2>8. Kept'
      BY <2>1, <2>5, <2>7, KeptOn DEF faultVars
    <2> QED
      BY <2>4, <2>6, <2>8 DEF ListInv, ListTypes
  <1>14. productsSent # <<>> => Head(productsSent) \in Drafts /\ Tail(productsSent) = <<>>
                               /\ productsSent = <<Head(productsSent)>> /\ Range(productsSent) = {Head(productsSent)}
    BY FormsTyped DEF Range
  <1>15. ASSUME productsSent # <<>>, UNCHANGED <<viewVars, drawerVars, texts>>,
                productsSent' = Tail(productsSent), createOpen' \in BOOLEAN,
                \/ catalog' = catalog /\ UNCHANGED createDraft
                \/ /\ catalog' = Append(catalog, Head(productsSent))
                   /\ (createDraft' = Blank /\ listFaults' = listFaults) \/ (listLost' /\ listFaults' = listFaults + 1 /\ UNCHANGED createDraft),
                listLost' \in BOOLEAN, listFaults' \in 0..MaxListFaults,
                listFaults <= listFaults', ~listLost' => ~listLost
         PROVE  ListInv'
    <2>1. PICK d \in Drafts : d = Head(productsSent) /\ productsSent = <<d>> /\ Range(productsSent) = {d}
      BY <1>14, <1>15
    <2>2. productsSent' = <<>> /\ Range(productsSent') = {}
      BY <1>14, <1>15 DEF Range
    <2>3. CreateTypes'
      BY <1>1, <1>2, <1>15, <2>2 DEF CreateTypes
    <2>4. Forms' \subseteq Forms /\ (createDraft' = Blank => Forms' = {})
      BY <1>15, <2>2 DEF Forms
    <2>5. DOMAIN catalog \subseteq DOMAIN catalog' /\ catalog' \in Seq(Drafts)
      BY <1>1, <1>15, <2>1, StoredNew DEF StoreTypes
    <2>6. /\ ViewTypes' /\ DrawerTypes' /\ HeldListed' = HeldListed /\ HeldEdited' = HeldEdited
          /\ HeldSaving' = HeldSaving
      BY <1>15, <2>5, PartsKept
    <2>7. CASE catalog' = catalog
      <3>1. HeldStored' = HeldStored
        BY <2>7 DEF HeldStored
      <3>2. Held' \subseteq Held
        BY <2>6, <3>1 DEF Held
      <3>3. Kept'
        BY <1>15, <2>4, <2>5, <3>2, KeptOn
      <3>4. StoreTypes'
        BY <1>1, <1>2, <1>15, <2>4, <2>7 DEF StoreTypes
      <3> QED
        BY <2>3, <2>6, <3>3, <3>4 DEF ListInv, ListTypes
    <2>8. CASE /\ catalog' = Append(catalog, d)
               /\ (createDraft' = Blank /\ listFaults' = listFaults) \/ (listLost' /\ listFaults' = listFaults + 1 /\ UNCHANGED createDraft)
      <3>1. /\ Len(catalog') = Len(catalog) + 1 /\ Len(catalog) + 1 \in DOMAIN catalog'
            /\ HeldStored' \subseteq HeldStored \cup {<<Len(catalog) + 1, d.val>>}
        BY <2>8, StoredNew
      <3>2. PICK h : h = <<Len(catalog) + 1, d.val>>
        OBVIOUS
      <3>3. Held' \subseteq Held \cup {h}
        BY <2>6, <3>1, <3>2 DEF Held
      <3>4. d \in Forms
        BY <1>1, <2>1 DEF Forms, CreateTypes
      <3>5. d.val.for = 0 /\ d.val.n \in Nat /\ d.val.n <= texts /\ (~listLost => \A g \in Held : g[2] # d.val)
        BY <1>1, <3>4, DraftNumbers DEF Kept
      <3>6. h[1] = Len(catalog) + 1 /\ h[2] = d.val
        BY <3>2
      <3>7. PICK New, Drawn : New = {h} /\ Drawn = {}
        OBVIOUS
      <3>8. Kept'
        <4>1. /\ Held' \subseteq Held \cup New /\ Forms' \subseteq Forms \cup Drawn
              /\ texts' \in Nat /\ texts <= texts' /\ (~listLost' => ~listLost)
          BY <1>2, <1>15, <2>4, <3>3, <3>7
        <4>2. \A x \in New : /\ x[1] \in DOMAIN catalog' /\ x[2].n \in Nat /\ x[2].n <= texts'
                             /\ x[2].for = x[1] \/ (x[2].for = 0 /\ x[1] > Stock)
          BY <1>1, <1>2, <1>15, <3>1, <3>5, <3>6, <3>7 DEF StoreTypes
        <4>3. \A e \in Drawn : /\ e.val.for = 0 /\ e.val.n <= texts' /\ e.val.n > 0
                               /\ \A x \in Held : x[2] # e.val
          BY <3>7
        <4>4. ~listLost' => Forms' = {}
          BY <2>4, <2>8
        <4>5. ~listLost' => \A x \in New : /\ \A g \in Held \cup New : g[2] = x[2] => g[1] = x[1]
                                           /\ \A e \in Forms' : x[2] # e.val
          BY <3>5, <3>6, <3>7, <4>1, <4>4
        <4> QED
          BY ONLY ListInv, <2>5, <4>1, <4>2, <4>3, <4>5, KeptMoves
      <3>9. StoreTypes'
        <4>1. Forms # {}
          BY <3>4
        <4> QED
          BY <1>1, <1>2, <1>15, <2>4, <2>5, <2>8, <3>1, <4>1 DEF StoreTypes
      <3> QED
        BY <2>3, <2>6, <3>8, <3>9 DEF ListInv, ListTypes
    <2> QED
      BY <1>15, <2>1, <2>7, <2>8
  <1>16. CASE CreateServed
    <2>1. /\ listLost' \in BOOLEAN /\ listFaults' \in 0..MaxListFaults /\ listFaults <= listFaults'
          /\ listLost' = listLost /\ listFaults' = listFaults
      BY <1>1, <1>2, <1>16 DEF CreateServed, faultVars, StoreTypes
    <2>2. createOpen' \in BOOLEAN
      BY <1>16 DEF CreateServed
    <2> QED
      BY <1>15, <1>16, <2>1, <2>2 DEF CreateServed
  <1>17. ASSUME NEW lost \in BOOLEAN, CreateFails(lost)
         PROVE  ListInv'
    <2>1. /\ productsSent # <<>> /\ Faulted(lost) /\ productsSent' = Tail(productsSent)
          /\ catalog' = (IF lost THEN Append(catalog, Head(productsSent)) ELSE catalog)
          /\ UNCHANGED <<viewVars, drawerVars, createOpen, createDraft, texts>>
      BY <1>17 DEF CreateFails
    <2>2. createOpen' \in BOOLEAN
      BY <1>1, <2>1 DEF CreateTypes
    <2> QED
      BY <1>10, <1>15, <2>1, <2>2
  <1>18. ASSUME NEW i \in DOMAIN catalog, NEW active \in BOOLEAN, OthersEdit(i, active)
         PROVE  ListInv'
    <2>1. /\ texts < MaxTexts /\ texts' = texts + 1
          /\ catalog' = [catalog EXCEPT ![i] = [val |-> Typed(i, texts + 1), active |-> active]]
          /\ UNCHANGED <<viewVars, drawerVars, createVars, faultVars>>
      BY <1>18 DEF OthersEdit
    <2>2. PICK d \in Drafts : d = [val |-> Typed(i, texts + 1), active |-> active] /\ d.val = Typed(i, texts + 1)
      BY <1>4, <2>1
    <2>3. /\ catalog' \in Seq(Drafts) /\ Len(catalog') = Len(catalog) /\ DOMAIN catalog' = DOMAIN catalog
          /\ HeldStored' \subseteq HeldStored \cup {<<i, Typed(i, texts + 1)>>}
      BY <2>1, <2>2, StoredAt
    <2>4. /\ ViewTypes' /\ DrawerTypes' /\ CreateTypes' /\ Forms' = Forms /\ HeldListed' = HeldListed
          /\ HeldEdited' = HeldEdited /\ HeldSaving' = HeldSaving
      BY <2>1, <2>3, PartsKept
    <2>5. StoreTypes'
      BY <1>1, <1>2, <2>1, <2>3, <2>4 DEF StoreTypes, faultVars
    <2>6. Held' \subseteq Held \cup {<<i, Typed(i, texts + 1)>>}
      BY <2>3, <2>4 DEF Held
    <2>7. Kept'
      BY <2>1, <2>3, <2>4, <2>6, TypedFor DEF faultVars
    <2> QED
      BY <2>4, <2>5, <2>7 DEF ListInv, ListTypes
  <1>19. CASE \/ ReadList \/ SetSort \/ CloseDrawer \/ SetEditing \/ DismissSavedBanner \/ SetCreateOpen
              \/ \E f \in Filters : SetFilter(f)
              \/ \E p \in PageEntries \cup Previous : TurnPage(p)
              \/ \E r \in Visible(listPage) : OpenRecord(r)
              \/ UNCHANGED listVars
    BY <1>19, ViewSteps
  <1> QED
    BY <1>6, <1>7, <1>9, <1>11, <1>12, <1>13, <1>16, <1>17, <1>18, <1>19 DEF ListNext

-----------------------------------------------------------------------------
(* The company settings screen. *)

Values == [n : 0 .. MaxEdits, raw : BOOLEAN]
Cleaned == [n : 0 .. MaxEdits, raw : {FALSE}]

FormsTypedIn ==
  \A w \in Windows :
    /\ DOMAIN edits[w] \subseteq Fields
    /\ \A f \in DOMAIN edits[w] : edits[w][f] \in Values /\ <<f, Clean(edits[w][f])>> \in drafted[w]

BodiesTyped ==
  \A w \in Windows :
    /\ DOMAIN patch[w] \subseteq Fields
    /\ patch[w] # Nothing => DOMAIN patch[w] # {}
    /\ \A f \in DOMAIN patch[w] : patch[w][f] \in Cleaned /\ <<f, patch[w][f]>> \in drafted[w]
    /\ existing[w] # Nothing => patch[w] # Nothing /\ existing[w] \in CompanyRecord

\* A query that was neither invalidated nor left behind is about the row.
ReadsCurrent ==
  \A w \in Windows :
    /\ "companies" \notin due[w] \cup outdated[w] => base[w] = company
    /\ "company-validation" \notin due[w] \cup outdated[w] => checked[w] = company

\* With one PATCH at a time, what its handler read is still the row.
ReadStillHolds ==
  SerialPatches =>
    /\ \A w \in Windows : existing[w] # Nothing => existing[w] = company
    /\ \A v, w \in Windows : existing[v] # Nothing /\ existing[w] # Nothing => v = w

SettingsInv ==
  /\ company \in CompanyRecord
  /\ base \in [Windows -> CompanyRecord] /\ checked \in [Windows -> CompanyRecord]
  /\ due \in [Windows -> SUBSET Queries] /\ outdated \in [Windows -> SUBSET Queries]
  /\ savedShown \in [Windows -> BOOLEAN] /\ edited \in 0 .. MaxEdits
  /\ DOMAIN edits = Windows /\ DOMAIN patch = Windows /\ DOMAIN existing = Windows
  /\ DOMAIN drafted = Windows
  /\ FormsTypedIn /\ BodiesTyped /\ ReadsCurrent /\ ReadStillHolds

LEMMA SettingsHolds == SettingsInv => SettingsTypeOK /\ VerdictsHonest
  <1> SUFFICES ASSUME SettingsInv PROVE SettingsTypeOK /\ VerdictsHonest
    OBVIOUS
  <1>1. SettingsTypeOK
    <2>1. {due, outdated} \subseteq [Windows -> SUBSET Queries]
      BY DEF SettingsInv
    <2>2. ASSUME NEW w \in Windows
          PROVE  /\ DOMAIN edits[w] \cup DOMAIN patch[w] \subseteq Fields
                 /\ \A f \in DOMAIN patch[w] : ~patch[w][f].raw
                 /\ existing[w] # Nothing => IsPending(w) /\ existing[w] \in CompanyRecord
      BY DEF SettingsInv, FormsTypedIn, BodiesTyped, Cleaned, IsPending
    <2> QED
      BY <2>1, <2>2 DEF SettingsInv, SettingsTypeOK
  <1>2. ASSUME NEW w \in Windows, NEW f \in Fields, ShowsVerdict(w, f), due[w] \cup outdated[w] = {}
        PROVE  checked[w][f] = Shown(w, f)
    <2>1. base[w] = company /\ checked[w] = company
      BY <1>2 DEF SettingsInv, ReadsCurrent
    <2> QED
      BY <1>2, <2>1 DEF ShowsVerdict, IsDirty, Shown
  <1> QED
    BY <1>1, <1>2 DEF VerdictsHonest

LEMMA SettingsBase == SettingsInit => SettingsInv
  <1> SUFFICES ASSUME SettingsInit PROVE SettingsInv
    OBVIOUS
  <1>1. MaxEdits \in Nat
    BY SettingsAssumption
  <1>2. Text(0) \in [n : 0 .. MaxEdits, raw : {FALSE}]
    BY <1>1 DEF Text
  <1>3. company \in CompanyRecord
    BY <1>2 DEF SettingsInit, CompanyRecord
  <1>4. base \in [Windows -> CompanyRecord] /\ checked \in [Windows -> CompanyRecord]
        /\ \A w \in Windows : base[w] = company /\ checked[w] = company
    BY <1>3 DEF SettingsInit
  <1>5. due \in [Windows -> SUBSET Queries] /\ outdated \in [Windows -> SUBSET Queries]
    BY DEF SettingsInit
  <1>6. savedShown \in [Windows -> BOOLEAN]
    BY DEF SettingsInit
  <1>7. edited \in 0 .. MaxEdits
    <2>1. edited = 0
      BY DEF SettingsInit
    <2> QED
      BY <1>1, <2>1
  <1>8. /\ DOMAIN edits = Windows /\ DOMAIN patch = Windows /\ DOMAIN existing = Windows /\ DOMAIN drafted = Windows
        /\ \A w \in Windows : edits[w] = Nothing /\ patch[w] = Nothing /\ existing[w] = Nothing
    BY DEF SettingsInit
  <1>9. DOMAIN Nothing = {}
    BY DEF Nothing
  <1>10. FormsTypedIn /\ BodiesTyped
    BY <1>8, <1>9 DEF FormsTypedIn, BodiesTyped
  <1>11. ReadsCurrent
    BY <1>4 DEF ReadsCurrent
  <1>12. ReadStillHolds
    BY <1>8 DEF ReadStillHolds
  <1> QED
    BY <1>3, <1>4, <1>5, <1>6, <1>7, <1>8, <1>10, <1>11, <1>12 DEF SettingsInv

LEMMA CleanTypes == \A v \in Values : Clean(v) \in Cleaned
  BY DEF Values, Clean, Cleaned

\* The row after a PATCH is written: the body over what its handler read
LEMMA RowMerged ==
  ASSUME SettingsInv, NEW w \in Windows, PatchMerged(w), PatchWrite(w)
  PROVE  /\ company' \in CompanyRecord
         /\ \A f \in Fields : company'[f] = IF f \in DOMAIN patch[w] THEN patch[w][f] ELSE existing[w][f]
  <1>1. existing[w] \in CompanyRecord /\ DOMAIN existing[w] = Fields /\ \A f \in Fields : existing[w][f] \in Cleaned
    BY DEF SettingsInv, BodiesTyped, PatchMerged, CompanyRecord, Cleaned
  <1>2. DOMAIN patch[w] \subseteq Fields /\ \A f \in DOMAIN patch[w] : patch[w][f] \in Cleaned
    BY DEF SettingsInv, BodiesTyped
  <1>3. company' = [f \in Fields |-> IF f \in DOMAIN patch[w] THEN patch[w][f] ELSE existing[w][f]]
    BY <1>1, <1>2 DEF PatchWrite, Over
  <1> QED
    BY <1>1, <1>2, <1>3 DEF CompanyRecord, Cleaned

\* "PATCH means patch"
LEMMA PatchesOnly ==
  ASSUME SettingsInv, SerialPatches, NEW w \in Windows, PatchMerged(w), PatchWrite(w)
  PROVE  OthersEditsSurvive
  <1>1. existing[w] = company
    BY DEF SettingsInv, ReadStillHolds, PatchMerged
  <1>2. \A f \in Fields : company'[f] # company[f] => f \in DOMAIN patch[w] /\ company'[f] = patch[w][f]
    BY <1>1, RowMerged
  <1>3. IsPending(w) /\ patch'[w] = Nothing
    BY DEF PatchMerged, PatchWrite, SettingsInv
  <1>4. \A f \in DOMAIN patch[w] : <<f, patch[w][f]>> \in drafted[w]
    BY DEF SettingsInv, BodiesTyped
  <1> QED
    BY <1>2, <1>3, <1>4 DEF OthersEditsSurvive

\* A PATCH is written and every window but those reading again is told.
LEMMA RowWritten ==
  ASSUME SettingsInv, NEW w \in Windows, PatchMerged(w), PatchWrite(w),
         UNCHANGED <<base, checked, edited>>, savedShown' \in [Windows -> BOOLEAN],
         due' \in [Windows -> SUBSET Queries], outdated' \in [Windows -> SUBSET Queries],
         \A v \in Windows : due'[v] \cup outdated'[v] = Queries,
         \/ EmptyEdits(w) \/ UNCHANGED <<edits, drafted>>
  PROVE  SettingsInv'
  <1>1. company' \in CompanyRecord
    BY RowMerged
  <1>2. /\ DOMAIN edits = Windows /\ DOMAIN patch = Windows /\ DOMAIN existing = Windows /\ DOMAIN drafted = Windows
    BY DEF SettingsInv
  <1>3. /\ patch' = [patch EXCEPT ![w] = Nothing] /\ existing' = [existing EXCEPT ![w] = Nothing]
    BY DEF PatchWrite
  <1>4. /\ DOMAIN patch' = Windows /\ DOMAIN existing' = Windows
        /\ patch'[w] = Nothing /\ existing'[w] = Nothing
        /\ \A v \in Windows : v # w => patch'[v] = patch[v] /\ existing'[v] = existing[v]
    BY <1>2, <1>3
  <1>5. /\ DOMAIN edits' = Windows /\ DOMAIN drafted' = Windows
        /\ \A v \in Windows : v # w => edits'[v] = edits[v] /\ drafted'[v] = drafted[v]
        /\ edits'[w] = Nothing \/ (edits'[w] = edits[w] /\ drafted'[w] = drafted[w])
    BY <1>2 DEF EmptyEdits
  <1>6. DOMAIN Nothing = {}
    BY DEF Nothing
  <1>7. FormsTypedIn'
    <2> SUFFICES ASSUME NEW v \in Windows
                 PROVE  /\ DOMAIN edits'[v] \subseteq Fields
                        /\ \A f \in DOMAIN edits'[v] : edits'[v][f] \in Values
                                                      /\ <<f, Clean(edits'[v][f])>> \in drafted'[v]
      BY DEF FormsTypedIn
    <2>1. CASE edits'[v] = Nothing
      BY <1>6, <2>1
    <2>2. CASE edits'[v] = edits[v] /\ drafted'[v] = drafted[v]
      BY <2>2 DEF SettingsInv, FormsTypedIn
    <2> QED
      BY <1>5, <2>1, <2>2
  <1>8. BodiesTyped'
    <2> SUFFICES ASSUME NEW v \in Windows
                 PROVE  /\ DOMAIN patch'[v] \subseteq Fields
                        /\ patch'[v] # Nothing => DOMAIN patch'[v] # {}
                        /\ \A f \in DOMAIN patch'[v] : patch'[v][f] \in Cleaned /\ <<f, patch'[v][f]>> \in drafted'[v]
                        /\ existing'[v] # Nothing => patch'[v] # Nothing /\ existing'[v] \in CompanyRecord
      BY DEF BodiesTyped
    <2>1. CASE v = w
      BY <1>4, <1>6, <2>1
    <2>2. CASE v # w
      BY <1>4, <1>5, <2>2 DEF SettingsInv, BodiesTyped
    <2> QED
      BY <2>1, <2>2
  <1>9. ReadsCurrent'
    BY DEF ReadsCurrent, Queries
  <1>10. ReadStillHolds'
    <2> SUFFICES ASSUME SerialPatches
                 PROVE  \A v \in Windows : existing'[v] = Nothing
      BY DEF ReadStillHolds
    <2>1. \A v \in Windows : v # w => existing[v] = Nothing
      BY DEF SettingsInv, ReadStillHolds, PatchMerged
    <2> QED
      BY <1>4, <2>1
  <1> QED
    BY <1>1, <1>4, <1>5, <1>7, <1>8, <1>9, <1>10 DEF SettingsInv

LEMMA SettingsStep == SettingsInv /\ [SettingsNext]_settingsVars => SettingsInv'
  <1> SUFFICES ASSUME SettingsInv, [SettingsNext]_settingsVars PROVE SettingsInv'
    OBVIOUS
  <1>1. /\ DOMAIN edits = Windows /\ DOMAIN patch = Windows /\ DOMAIN existing = Windows /\ DOMAIN drafted = Windows
        /\ FormsTypedIn /\ BodiesTyped /\ ReadsCurrent /\ ReadStillHolds /\ company \in CompanyRecord
        /\ savedShown \in [Windows -> BOOLEAN] /\ edited \in 0 .. MaxEdits
        /\ due \in [Windows -> SUBSET Queries] /\ outdated \in [Windows -> SUBSET Queries]
        /\ base \in [Windows -> CompanyRecord] /\ checked \in [Windows -> CompanyRecord]
    BY DEF SettingsInv
  <1>2. MaxEdits \in Nat
    BY SettingsAssumption
  <1>3. DOMAIN Nothing = {}
    BY DEF Nothing
  <1>4. ASSUME UNCHANGED <<company, readVars, outdated>>
        PROVE  ReadsCurrent' /\ UNCHANGED <<base, checked, due>>
    BY <1>1, <1>4 DEF readVars, ReadsCurrent
  <1>5. ASSUME NEW w \in Windows, NEW f \in Fields, SetField(w, f)
        PROVE  SettingsInv'
    <2>1. PICK v : v = [n |-> edited + 1, raw |-> TRUE]
      OBVIOUS
    <2>2. /\ edited < MaxEdits /\ edited' = edited + 1
          /\ edits' = [edits EXCEPT ![w] = Over([g \in {f} |-> v], edits[w])]
          /\ drafted' = [drafted EXCEPT ![w] = drafted[w] \cup {<<f, Clean(v)>>}]
          /\ savedShown' = [savedShown EXCEPT ![w] = FALSE]
          /\ UNCHANGED <<company, readVars, patch, existing, outdated, settingsFaults>>
      BY <1>5, <2>1 DEF SetField
    <2>3. v \in Values
      BY <1>1, <1>2, <2>1, <2>2 DEF Values
    <2>4. /\ DOMAIN edits' = Windows /\ DOMAIN drafted' = Windows
          /\ \A u \in Windows : u # w => edits'[u] = edits[u] /\ drafted'[u] = drafted[u]
          /\ drafted'[w] = drafted[w] \cup {<<f, Clean(v)>>}
          /\ edits'[w] = Over([g \in {f} |-> v], edits[w])
      BY <1>1, <2>2
    <2>5. /\ DOMAIN edits'[w] = DOMAIN edits[w] \cup {f}
          /\ \A g \in DOMAIN edits'[w] : edits'[w][g] = IF g = f THEN v ELSE edits[w][g]
      BY <2>4 DEF Over
    <2>6. FormsTypedIn'
      BY <1>1, <2>3, <2>4, <2>5 DEF FormsTypedIn
    <2>7. \A u \in Windows : drafted[u] \subseteq drafted'[u]
      BY <2>4
    <2>8. BodiesTyped'
      BY <1>1, <2>2, <2>7 DEF BodiesTyped
    <2>9. ReadStillHolds'
      BY <1>1, <2>2 DEF ReadStillHolds
    <2>10. savedShown' \in [Windows -> BOOLEAN]
      BY <1>1, <2>2
    <2>11. edited' \in 0 .. MaxEdits
      BY <1>1, <1>2, <2>2
    <2> QED
      BY <1>1, <1>4, <2>2, <2>4, <2>6, <2>8, <2>9, <2>10, <2>11 DEF SettingsInv
  <1>6. ASSUME NEW w \in Windows, DismissSaved(w)
        PROVE  SettingsInv'
    <2>1. savedShown' = [savedShown EXCEPT ![w] = FALSE]
          /\ UNCHANGED <<company, readVars, edits, drafted, edited, patch, existing, outdated>>
      BY <1>6 DEF DismissSaved
    <2>2. savedShown' \in [Windows -> BOOLEAN]
      BY <1>1, <2>1
    <2>3. FormsTypedIn' /\ BodiesTyped' /\ ReadStillHolds'
      BY <1>1, <2>1 DEF FormsTypedIn, BodiesTyped, ReadStillHolds
    <2> QED
      BY <1>1, <1>4, <2>1, <2>2, <2>3 DEF SettingsInv
  <1>7. ASSUME NEW w \in Windows, Discard(w)
        PROVE  SettingsInv'
    <2>1. /\ patch[w] = Nothing /\ EmptyEdits(w)
          /\ UNCHANGED <<company, readVars, edited, savedShown, patch, existing, outdated>>
      BY <1>7 DEF Discard, IsPending
    <2>2. /\ DOMAIN edits' = Windows /\ DOMAIN drafted' = Windows /\ edits'[w] = Nothing
          /\ \A v \in Windows : v # w => edits'[v] = edits[v] /\ drafted'[v] = drafted[v]
      BY <1>1, <2>1 DEF EmptyEdits
    <2>3. FormsTypedIn'
      BY <1>1, <1>3, <2>2 DEF FormsTypedIn
    <2>4. BodiesTyped'
      <3> SUFFICES ASSUME NEW v \in Windows
                   PROVE  \A f \in DOMAIN patch[v] : <<f, patch[v][f]>> \in drafted'[v]
        BY <1>1, <2>1 DEF BodiesTyped
      <3>1. CASE v = w
        BY <1>3, <2>1, <3>1
      <3>2. CASE v # w
        BY <1>1, <2>2, <3>2 DEF BodiesTyped
      <3> QED
        BY <3>1, <3>2
    <2>5. ReadStillHolds'
      BY <1>1, <2>1 DEF ReadStillHolds
    <2> QED
      BY <1>1, <1>4, <2>1, <2>2, <2>3, <2>4, <2>5 DEF SettingsInv
  <1>8. ASSUME NEW w \in Windows, HandleSubmit(w)
        PROVE  SettingsInv'
    <2>1. PICK D : D = Dirty(w) /\ D # {} /\ patch[w] = Nothing
      BY <1>8 DEF HandleSubmit, IsPending
    <2>2. /\ patch' = [patch EXCEPT ![w] = [f \in D |-> Clean(edits[w][f])]]
          /\ UNCHANGED <<company, readVars, formVars, existing, outdated>>
      BY <1>8, <2>1 DEF HandleSubmit
    <2>3. D \subseteq Fields /\ D \subseteq DOMAIN edits[w]
      BY <2>1 DEF Dirty, IsDirty
    <2>4. /\ DOMAIN patch' = Windows /\ patch'[w] = [f \in D |-> Clean(edits[w][f])]
          /\ \A v \in Windows : v # w => patch'[v] = patch[v]
      BY <1>1, <2>2
    <2>5. DOMAIN patch'[w] = D /\ \A f \in D : patch'[w][f] = Clean(edits[w][f])
      BY <2>4
    <2>6. \A f \in D : Clean(edits[w][f]) \in Cleaned /\ <<f, Clean(edits[w][f])>> \in drafted[w]
      BY <1>1, <2>3, CleanTypes DEF FormsTypedIn
    <2>7. UNCHANGED <<edits, drafted, edited, savedShown>>
      BY <2>2 DEF formVars
    <2>8. BodiesTyped'
      <3> SUFFICES ASSUME NEW v \in Windows
                   PROVE  /\ DOMAIN patch'[v] \subseteq Fields
                          /\ patch'[v] # Nothing => DOMAIN patch'[v] # {}
                          /\ \A f \in DOMAIN patch'[v] : patch'[v][f] \in Cleaned /\ <<f, patch'[v][f]>> \in drafted[v]
                          /\ existing[v] # Nothing => patch'[v] # Nothing /\ existing[v] \in CompanyRecord
        BY <2>2, <2>7 DEF BodiesTyped
      <3>1. CASE v = w
        <4>1. existing[w] = Nothing
          BY <1>1, <2>1 DEF BodiesTyped
        <4> QED
          BY <2>1, <2>3, <2>5, <2>6, <3>1, <4>1
      <3>2. CASE v # w
        BY <1>1, <2>4, <3>2 DEF BodiesTyped
      <3> QED
        BY <3>1, <3>2
    <2>9. FormsTypedIn' /\ ReadStillHolds'
      BY <1>1, <2>2, <2>7 DEF FormsTypedIn, ReadStillHolds
    <2> QED
      BY <1>1, <1>4, <2>2, <2>4, <2>7, <2>8, <2>9 DEF SettingsInv
  <1>9. ASSUME NEW w \in Windows, NEW q \in Queries, Read(w, q)
        PROVE  SettingsInv'
    <2>1. UNCHANGED <<company, edits, drafted, edited, savedShown, patch, existing>>
      BY <1>9 DEF Read, formVars
    <2>2. FormsTypedIn' /\ BodiesTyped' /\ ReadStillHolds'
      BY <1>1, <2>1 DEF FormsTypedIn, BodiesTyped, ReadStillHolds
    <2>3. /\ due' = [due EXCEPT ![w] = due[w] \ {q}] /\ outdated' = [outdated EXCEPT ![w] = outdated[w] \ {q}]
          /\ base' = (IF q = "companies" THEN [base EXCEPT ![w] = company] ELSE base)
          /\ checked' = (IF q = "companies" THEN checked ELSE [checked EXCEPT ![w] = company])
      BY <1>9 DEF Read
    <2>4. due' \in [Windows -> SUBSET Queries] /\ outdated' \in [Windows -> SUBSET Queries]
      BY <1>1, <2>3
    <2>5. base' \in [Windows -> CompanyRecord] /\ checked' \in [Windows -> CompanyRecord]
      BY <1>1, <2>3
    <2>6. ReadsCurrent'
      <3> SUFFICES ASSUME NEW v \in Windows
                   PROVE  /\ "companies" \notin due'[v] \cup outdated'[v] => base'[v] = company
                          /\ "company-validation" \notin due'[v] \cup outdated'[v] => checked'[v] = company
        BY <2>1 DEF ReadsCurrent
      <3>1. CASE v # w
        BY <1>1, <2>3, <3>1 DEF ReadsCurrent
      <3>2. CASE v = w /\ q = "companies"
        BY <1>1, <2>3, <3>2 DEF ReadsCurrent
      <3>3. CASE v = w /\ q = "company-validation"
        BY <1>1, <2>3, <3>3 DEF ReadsCurrent
      <3> QED
        BY <3>1, <3>2, <3>3 DEF Queries
    <2> QED
      BY <1>1, <2>1, <2>2, <2>4, <2>5, <2>6 DEF SettingsInv
  <1>10. ASSUME NEW w \in Windows, PatchRead(w)
         PROVE  SettingsInv'
    <2>1. /\ patch[w] # Nothing /\ existing' = [existing EXCEPT ![w] = company]
          /\ SerialPatches => \A v \in Windows : existing[v] = Nothing
          /\ UNCHANGED <<company, readVars, formVars, patch, outdated>>
      BY <1>10 DEF PatchRead, IsPending
    <2>2. DOMAIN existing' = Windows /\ existing'[w] = company
          /\ \A v \in Windows : v # w => existing'[v] = existing[v]
      BY <1>1, <2>1
    <2>3. UNCHANGED <<edits, drafted, edited, savedShown>>
      BY <2>1 DEF formVars
    <2>4. FormsTypedIn' /\ BodiesTyped'
      BY <1>1, <2>1, <2>2, <2>3 DEF FormsTypedIn, BodiesTyped
    <2>5. ReadStillHolds'
      BY <2>1, <2>2 DEF ReadStillHolds
    <2> QED
      BY <1>1, <1>4, <2>1, <2>2, <2>3, <2>4, <2>5 DEF SettingsInv
  <1>11. ASSUME NEW w \in Windows, PatchServed(w)
         PROVE  SettingsInv'
    <2>1. /\ PatchMerged(w) /\ PatchWrite(w) /\ EmptyEdits(w) /\ UNCHANGED <<base, checked, edited>>
          /\ savedShown' = [savedShown EXCEPT ![w] = TRUE]
          /\ due' = [due EXCEPT ![w] = Queries]
          /\ outdated' = [v \in Windows |-> IF v \in Windows \ {w} THEN Queries ELSE outdated[v]]
      BY <1>11 DEF PatchServed, Behind
    <2>2. savedShown' \in [Windows -> BOOLEAN]
      BY <1>1, <2>1
    <2>3. due' \in [Windows -> SUBSET Queries] /\ outdated' \in [Windows -> SUBSET Queries]
      BY <1>1, <2>1
    <2>4. \A v \in Windows : due'[v] \cup outdated'[v] = Queries
      BY <1>1, <2>1
    <2> QED
      BY <2>1, <2>2, <2>3, <2>4, RowWritten
  <1>12. ASSUME NEW w \in Windows, PatchLost(w)
         PROVE  SettingsInv'
    <2>1. /\ PatchMerged(w) /\ PatchWrite(w) /\ UNCHANGED <<base, checked, due, edited, edits, drafted, savedShown>>
          /\ outdated' = [v \in Windows |-> IF v \in Windows THEN Queries ELSE outdated[v]]
      BY <1>12 DEF PatchLost, Behind, readVars, formVars
    <2>2. due' \in [Windows -> SUBSET Queries] /\ outdated' \in [Windows -> SUBSET Queries]
      BY <1>1, <2>1
    <2>3. \A v \in Windows : due'[v] \cup outdated'[v] = Queries
      BY <1>1, <2>1
    <2> QED
      BY <1>1, <2>1, <2>2, <2>3, RowWritten
  <1>13. ASSUME NEW w \in Windows, PatchRefused(w)
         PROVE  SettingsInv'
    <2>1. /\ existing[w] = Nothing /\ patch' = [patch EXCEPT ![w] = Nothing]
          /\ UNCHANGED <<company, readVars, formVars, existing, outdated>>
      BY <1>13 DEF PatchRefused
    <2>2. DOMAIN patch' = Windows /\ patch'[w] = Nothing /\ \A v \in Windows : v # w => patch'[v] = patch[v]
      BY <1>1, <2>1
    <2>3. UNCHANGED <<edits, drafted, edited, savedShown>>
      BY <2>1 DEF formVars
    <2>4. FormsTypedIn' /\ ReadStillHolds'
      BY <1>1, <2>1, <2>3 DEF FormsTypedIn, ReadStillHolds
    <2>5. BodiesTyped'
      BY <1>1, <1>3, <2>1, <2>2, <2>3 DEF BodiesTyped
    <2> QED
      BY <1>1, <1>4, <2>1, <2>2, <2>3, <2>4, <2>5 DEF SettingsInv
  <1>14. CASE UNCHANGED settingsVars
    <2>1. UNCHANGED <<company, readVars, formVars, patch, existing, outdated>>
      BY <1>14 DEF settingsVars
    <2>2. FormsTypedIn' /\ BodiesTyped' /\ ReadStillHolds'
      BY <1>1, <2>1 DEF formVars, FormsTypedIn, BodiesTyped, ReadStillHolds
    <2> QED
      BY <1>1, <1>4, <2>1, <2>2 DEF SettingsInv, formVars
  <1> QED
    BY <1>5, <1>6, <1>7, <1>8, <1>9, <1>10, <1>11, <1>12, <1>13, <1>14 DEF SettingsNext

LEMMA SettingsMoves ==
  ASSUME SettingsInv, SerialPatches, [SettingsNext]_settingsVars
  PROVE  OthersEditsSurvive
  <1>1. CASE UNCHANGED company
    BY <1>1 DEF OthersEditsSurvive
  <1>2. \/ UNCHANGED company
        \/ \E w \in Windows : PatchMerged(w) /\ PatchWrite(w)
    BY DEF SettingsNext, SetField, Discard, DismissSaved, HandleSubmit, Read, PatchRead, PatchServed,
           PatchLost, PatchRefused, settingsVars
  <1> QED
    BY <1>1, <1>2, PatchesOnly

-----------------------------------------------------------------------------
(* The shell: the tree that every build prunes, what it mounts of it, where an *)
(* address ends, and the doors.  The tree is a table, but not one the provers  *)
(* can evaluate, so its nodes are described by what they are made of.          *)

\* A node, field by field.
NodeOf(p, backend, surface, primary, nav, into, children) ==
  [path |-> p, status |-> backend, surface |-> surface, primary |-> primary,
   nav |-> nav, mergedInto |-> into, children |-> children]

IsNode(n) == n = NodeOf(n.path, n.status, n.surface, n.primary, n.nav, n.mergedInto, n.children)

IsLeaf(n) == IsNode(n) /\ n.children = {} /\ n.surface = "both"

\* What an update of one field leaves of a node.
LEMMA NodeUpdates ==
  ASSUME NEW n, IsNode(n), NEW x
  PROVE  /\ [n EXCEPT !.nav = x] = NodeOf(n.path, n.status, n.surface, n.primary, x, n.mergedInto, n.children)
         /\ [n EXCEPT !.mergedInto = x] = NodeOf(n.path, n.status, n.surface, n.primary, n.nav, x, n.children)
         /\ [n EXCEPT !.children = x] = NodeOf(n.path, n.status, n.surface, n.primary, n.nav, n.mergedInto, x)
         /\ [n EXCEPT !.primary = x] = NodeOf(n.path, n.status, n.surface, x, n.nav, n.mergedInto, n.children)
         /\ [n EXCEPT !.surface = x] = NodeOf(n.path, n.status, x, n.primary, n.nav, n.mergedInto, n.children)
  <1>1. ASSUME NEW p, NEW st, NEW su, NEW pr, NEW na, NEW me, NEW ch, NEW m, m = NodeOf(p, st, su, pr, na, me, ch)
        PROVE  /\ [m EXCEPT !.nav = x] = NodeOf(p, st, su, pr, x, me, ch)
               /\ [m EXCEPT !.mergedInto = x] = NodeOf(p, st, su, pr, na, x, ch)
               /\ [m EXCEPT !.children = x] = NodeOf(p, st, su, pr, na, me, x)
               /\ [m EXCEPT !.primary = x] = NodeOf(p, st, su, x, na, me, ch)
               /\ [m EXCEPT !.surface = x] = NodeOf(p, st, x, pr, na, me, ch)
    BY <1>1 DEF NodeOf
  <1>2. PICK p, st, su, pr, na, me, ch : /\ p = n.path /\ st = n.status /\ su = n.surface /\ pr = n.primary
                                         /\ na = n.nav /\ me = n.mergedInto /\ ch = n.children
    OBVIOUS
  <1>3. n = NodeOf(p, st, su, pr, na, me, ch)
    BY <1>2 DEF IsNode
  <1>4. /\ [n EXCEPT !.nav = x] = NodeOf(p, st, su, pr, x, me, ch)
        /\ [n EXCEPT !.mergedInto = x] = NodeOf(p, st, su, pr, na, x, ch)
        /\ [n EXCEPT !.children = x] = NodeOf(p, st, su, pr, na, me, x)
        /\ [n EXCEPT !.primary = x] = NodeOf(p, st, su, x, na, me, ch)
        /\ [n EXCEPT !.surface = x] = NodeOf(p, st, x, pr, na, me, ch)
    BY ONLY <1>3 DEF NodeOf
  <1> QED
    BY ONLY <1>2, <1>4

\* A node is what its fields say.
LEMMA NodeFields ==
  ASSUME NEW p, NEW st, NEW su, NEW pr, NEW na, NEW me, NEW ch, NEW n, n = NodeOf(p, st, su, pr, na, me, ch)
  PROVE  /\ IsNode(n)
         /\ n.path = p /\ n.status = st /\ n.surface = su /\ n.primary = pr /\ n.nav = na
         /\ n.mergedInto = me /\ n.children = ch
  <1>1. /\ n.path = p /\ n.status = st /\ n.surface = su /\ n.primary = pr /\ n.nav = na
        /\ n.mergedInto = me /\ n.children = ch
    BY DEF NodeOf
  <1> QED
    BY <1>1 DEF IsNode

\* A new node.
LEMMA NewNode ==
  ASSUME NEW p, NEW st
  PROVE  /\ IsLeaf(Node(p, st)) /\ Node(p, st).path = p /\ Node(p, st).status = st
         /\ Node(p, st).mergedInto = NoPath
  <1>1. PICK f, t : f = FALSE /\ t = TRUE
    OBVIOUS
  <1>2. Node(p, st) = NodeOf(p, st, "both", f, t, NoPath, {})
    BY <1>1 DEF Node, NodeOf
  <1> QED
    BY <1>2, NodeFields DEF IsLeaf

\* N is a set of leaves, one at each place of P, that land where they are (into is
\* NoPath) or in a common place.
LeavesAt(N, P, into) ==
  /\ \A n \in N : IsLeaf(n) /\ n.path \in P /\ n.mergedInto = into
  /\ \A p \in P : \E n \in N : n.path = p

\* The sets of leaves the tree is written with.
LEMMA NewLeaves ==
  ASSUME NEW P
  PROVE  LeavesAt(Wired(P), P, NoPath) /\ LeavesAt(Partial(P), P, NoPath) /\ LeavesAt(Unbuilt(P), P, NoPath)
  BY NewNode DEF LeavesAt, Wired, Partial, Unbuilt

\* Out of the navigation or merged elsewhere, they are leaves at the same places.
LEMMA LeavesOff ==
  ASSUME NEW N, NEW P, NEW into, LeavesAt(N, P, into)
  PROVE  LeavesAt(OffNav(N), P, into)
  <1>1. PICK f : f = FALSE
    OBVIOUS
  <1> DEFINE off(n) == [n EXCEPT !.nav = f]
  <1>2. OffNav(N) = {off(n) : n \in N}
    BY <1>1, Zenon DEF OffNav
  <1>3. ASSUME NEW n \in N
        PROVE  IsLeaf(off(n)) /\ off(n).path = n.path /\ off(n).mergedInto = n.mergedInto
    <2>1. IsNode(n) /\ n.children = {} /\ n.surface = "both"
      BY DEF LeavesAt, IsLeaf
    <2>2. PICK m : m = [n EXCEPT !.nav = f]
      OBVIOUS
    <2>3. m = NodeOf(n.path, n.status, n.surface, n.primary, f, n.mergedInto, n.children)
      BY ONLY <2>1, <2>2, NodeUpdates
    <2>4. IsNode(m) /\ m.path = n.path /\ m.surface = n.surface /\ m.mergedInto = n.mergedInto /\ m.children = n.children
      BY ONLY <2>3, NodeFields
    <2> QED
      BY ONLY <2>1, <2>2, <2>4 DEF IsLeaf
  <1> HIDE DEF off
  <1> QED
    BY <1>2, <1>3 DEF LeavesAt

\* A merged leaf lands where it was merged.
LEMMA LeavesMerged ==
  ASSUME NEW N, NEW P, NEW old, NEW into, LeavesAt(N, P, old)
  PROVE  LeavesAt(Merged(N, into), P, into)
  <1>1. PICK M : M = OffNav(N)
    OBVIOUS
  <1>2. LeavesAt(M, P, old)
    BY ONLY <1>1, LeavesOff, LeavesAt(N, P, old)
  <1> DEFINE landed(n) == [n EXCEPT !.mergedInto = into]
  <1>3. Merged(N, into) = {landed(n) : n \in M}
    BY <1>1, Zenon DEF Merged
  <1>4. ASSUME NEW n \in M
        PROVE  IsLeaf(landed(n)) /\ landed(n).path = n.path /\ landed(n).mergedInto = into
    <2>1. IsNode(n) /\ n.children = {} /\ n.surface = "both"
      BY <1>2 DEF LeavesAt, IsLeaf
    <2>2. PICK m : m = [n EXCEPT !.mergedInto = into]
      OBVIOUS
    <2>3. m = NodeOf(n.path, n.status, n.surface, n.primary, n.nav, into, n.children)
      BY ONLY <2>1, <2>2, NodeUpdates
    <2>4. IsNode(m) /\ m.path = n.path /\ m.surface = n.surface /\ m.mergedInto = into /\ m.children = n.children
      BY ONLY <2>3, NodeFields
    <2> QED
      BY ONLY <2>1, <2>2, <2>4 DEF IsLeaf
  <1> HIDE DEF landed
  <1> QED
    BY <1>2, <1>3, <1>4 DEF LeavesAt

\* Leaves of two sets.
LEMMA LeavesTogether ==
  ASSUME NEW M, NEW N, NEW P, NEW Q, NEW into, LeavesAt(M, P, into), LeavesAt(N, Q, into)
  PROVE  LeavesAt(M \cup N, P \cup Q, into)
  BY DEF LeavesAt

\* A node with the children C that does not redirect.
HeadAt(s, p, surface, C) ==
  IsNode(s) /\ s.path = p /\ s.surface = surface /\ s.mergedInto = NoPath /\ s.children = C

\* What Section, Primary and the two updates of the tree make.
LEMMA NewSection ==
  ASSUME NEW p, NEW C, NEW s
  PROVE  /\ s = Section(p, C) => HeadAt(s, p, "both", C)
         /\ s = Primary(Section(p, C)) => HeadAt(s, p, "both", C)
         /\ s = [Section(p, C) EXCEPT !.surface = "desktop"] => HeadAt(s, p, "desktop", C)
         /\ s = [Node(p, "wired") EXCEPT !.children = C] => HeadAt(s, p, "both", C)
  <1>1. PICK t : t = TRUE
    OBVIOUS
  <1>2. ASSUME NEW st, NEW r, r = [Node(p, st) EXCEPT !.children = C] PROVE HeadAt(r, p, "both", C)
    <2>1. PICK n : n = Node(p, st)
      OBVIOUS
    <2>2. IsNode(n) /\ n.path = p /\ n.surface = "both" /\ n.mergedInto = NoPath
      BY <2>1, NewNode DEF IsLeaf
    <2>3. r = [n EXCEPT !.children = C]
      BY ONLY <1>2, <2>1
    <2>4. r = NodeOf(n.path, n.status, n.surface, n.primary, n.nav, n.mergedInto, C)
      BY ONLY <2>2, <2>3, NodeUpdates
    <2> QED
      BY ONLY <2>2, <2>4, NodeFields DEF HeadAt
  <1>3. PICK r : r = Section(p, C)
    OBVIOUS
  <1>4. HeadAt(r, p, "both", C)
    BY ONLY <1>2, <1>3 DEF Section
  <1>5. ASSUME s = [r EXCEPT !.primary = t] PROVE HeadAt(s, p, "both", C)
    <2>1. s = NodeOf(r.path, r.status, r.surface, t, r.nav, r.mergedInto, r.children)
      BY ONLY <1>4, <1>5, NodeUpdates DEF HeadAt
    <2> QED
      BY ONLY <1>4, <2>1, NodeFields DEF HeadAt
  <1>6. ASSUME s = [r EXCEPT !.surface = "desktop"] PROVE HeadAt(s, p, "desktop", C)
    <2>1. s = NodeOf(r.path, r.status, "desktop", r.primary, r.nav, r.mergedInto, r.children)
      BY ONLY <1>4, <1>6, NodeUpdates DEF HeadAt
    <2> QED
      BY ONLY <1>4, <2>1, NodeFields DEF HeadAt
  <1>7. Primary(Section(p, C)) = [r EXCEPT !.primary = t]
    BY ONLY <1>1, <1>3, Zenon DEF Primary
  <1> QED
    BY ONLY <1>2, <1>3, <1>4, <1>5, <1>6, <1>7, Zenon

\* The list of invoices with its filters, as Sales has it.
InvoiceList == [Node("sales/invoices", "wired") EXCEPT !.children = InvoiceFilters]
StatusFilters ==
  {"sales/invoices/draft", "sales/invoices/issued", "sales/invoices/paid",
   "sales/invoices/partially_paid", "sales/invoices/overdue", "sales/invoices/voided"}
OtherFilters == {"sales/invoices/sent", "sales/invoices/viewed"}

\* The list of invoices and its filters, of which the wired ones are places.
LEMMA TheInvoices ==
  /\ HeadAt(InvoiceList, "sales/invoices", "both", InvoiceFilters)
  /\ LeavesAt(InvoiceFilters, StatusFilters \cup OtherFilters, NoPath)
  /\ InvoicePlaces = {"sales/invoices"} \cup StatusFilters
  <1>1. HeadAt(InvoiceList, "sales/invoices", "both", InvoiceFilters)
    <2>1. PICK n, C : n = InvoiceList /\ C = InvoiceFilters
      OBVIOUS
    <2>2. n = [Node("sales/invoices", "wired") EXCEPT !.children = C]
      BY <2>1 DEF InvoiceList
    <2> QED
      BY ONLY <2>1, <2>2, NewSection
  <1>2. InvoiceFilters = Wired(StatusFilters) \cup Unbuilt(OtherFilters)
    BY Zenon DEF InvoiceFilters, StatusFilters, OtherFilters
  <1>3. LeavesAt(InvoiceFilters, StatusFilters \cup OtherFilters, NoPath)
    BY ONLY <1>2, NewLeaves, LeavesTogether
  <1>4. {n.path : n \in {f \in InvoiceFilters : f.status = "wired"}} = StatusFilters
    <2>1. \A p \in StatusFilters : Node(p, "wired") \in Wired(StatusFilters)
      BY DEF Wired
    <2>2. \A f \in Wired(StatusFilters) : f.path \in StatusFilters /\ f.status = "wired"
      BY NewNode DEF Wired
    <2>3. \A f \in Unbuilt(OtherFilters) : f.status # "wired"
      BY NewNode DEF Unbuilt
    <2>4. {f \in InvoiceFilters : f.status = "wired"} = Wired(StatusFilters)
      BY ONLY <1>2, <2>2, <2>3
    <2>5. \A p \in StatusFilters : Node(p, "wired").path = p
      BY NewNode
    <2> QED
      BY ONLY <2>1, <2>2, <2>4, <2>5
  <1> QED
    BY <1>1, <1>3, <1>4 DEF InvoicePlaces

\* The pages that were merged, and the places of the sections.
CompanyPages ==
  {"company/profile", "company/legal", "company/vat", "company/numbering", "company/bank",
   "company/defaults", "company/payment-terms", "company/branding", "company/documents"}

ContactPages == {"customers/contacts", "customers/history", "customers/documents"}

SectionPaths == {"", "company"} \cup SectionPlaces

\* A leaf that is not at the place of a section, and that lands at a place that
\* does not redirect; one of the first release lands at a screen that is built.
Fits(n) ==
  /\ IsLeaf(n) /\ n.path \notin SectionPaths /\ n.path # Builder
  /\ \/ n.mergedInto = NoPath /\ (n.path \in MVP_SURFACE => n.path \in Built)
     \/ n.mergedInto \in {"customers/clients", "company"} /\ n.path \in CompanyPages \cup ContactPages

\* What is built: every section, and the first release but for the merged pages.
LEMMA BuiltPlaces ==
  /\ SectionPaths \subseteq Built
  /\ {"", "company", Builder, "customers/clients"} \subseteq Built
  /\ (MVP_SURFACE \ CompanyPages) \subseteq Built
  BY TheInvoices DEF Built, SectionPaths, StatusFilters, MVP_SURFACE, CompanyPages

\* Places and a landing that suit leaves of the tree.
Apart(P, into) ==
  /\ \A q \in P : q \notin SectionPaths /\ q # Builder
  /\ \/ into = NoPath /\ P \cap CompanyPages = {}
     \/ into \in {"customers/clients", "company"} /\ P \subseteq CompanyPages \cup ContactPages

\* Leaves fit if their places and their landing do.
LEMMA LeavesFit ==
  ASSUME NEW N, NEW P, NEW into, LeavesAt(N, P, into), Apart(P, into)
  PROVE  \A n \in N : Fits(n)
  BY BuiltPlaces DEF LeavesAt, Fits, Apart

\* A section in the tree.
GoodSection(s) ==
  /\ IsNode(s) /\ s.path \in SectionPaths /\ s.mergedInto = NoPath
  /\ s.surface \in {"both", "desktop"}
  /\ \A n \in s.children : Fits(n)

\* A section of both frontends has a leaf at p.
HasLeaf(s, p) == s.surface = "both" /\ \E n \in s.children : IsLeaf(n) /\ n.path = p

\* So does a section that has only such leaves.
LEMMA SectionFits ==
  ASSUME NEW s, NEW p \in SectionPaths, NEW surface \in {"both", "desktop"}, NEW C, NEW P, NEW into,
         HeadAt(s, p, surface, C), LeavesAt(C, P, into), Apart(P, into)
  PROVE  GoodSection(s)
  <1>1. \A n \in C : Fits(n)
    BY LeavesFit
  <1> QED
    BY <1>1 DEF HeadAt, GoodSection

\* The sections, one by one, with the pages that every build or every complete build
\* has to mount.
LEMMA TheDashboard ==
  /\ GoodSection(Dashboard) /\ Dashboard.path = "" /\ Dashboard.surface = "both"
  /\ \E n \in Dashboard.children : IsLeaf(n) /\ n.path = NoPath /\ n.status = "wired"
  <1>1. PICK C : C = Wired({NoPath})
    OBVIOUS
  <1>2. Dashboard = Primary(Section("", C))
    BY <1>1, Zenon DEF Dashboard
  <1>3. LeavesAt(C, {NoPath}, NoPath)
    BY <1>1, NewLeaves
  <1>4. HeadAt(Dashboard, "", "both", C)
    BY ONLY <1>2, NewSection, Zenon
  <1>5. \A n \in C : n.status = "wired"
    BY <1>1, NewNode DEF Wired
  <1>6. Apart({NoPath}, NoPath) /\ "" \in SectionPaths
    BY DEF Apart, NoPath, Builder, SectionPaths, SectionPlaces, CompanyPages
  <1>7. GoodSection(Dashboard)
    BY <1>3, <1>4, <1>6, SectionFits
  <1> QED
    BY <1>3, <1>4, <1>5, <1>7 DEF HeadAt, LeavesAt

LEMMA TheCatalog == GoodSection(Catalog) /\ HasLeaf(Catalog, "catalog/products")
  <1> DEFINE P == {"catalog/products", "catalog/templates", "catalog/archived"}
             Q == {"catalog/services", "catalog/categories", "catalog/pricing", "catalog/vat"}
  <1>1. Apart(P \cup Q, NoPath) /\ "catalog/products" \in P \cup Q
    BY DEF NoPath, Apart, SectionPaths, SectionPlaces, CompanyPages, ContactPages, Builder
  <1>2. PICK C : C = Wired(P) \cup Partial(Q)
    OBVIOUS
  <1>3. Catalog = Primary(Section("catalog", C))
    BY <1>2, Zenon DEF Catalog
  <1> HIDE DEF P, Q
  <1>4. LeavesAt(C, P \cup Q, NoPath)
    BY ONLY <1>2, NewLeaves, LeavesTogether
  <1>5. HeadAt(Catalog, "catalog", "both", C) /\ "catalog" \in SectionPaths
    BY ONLY <1>3, NewSection DEF SectionPaths, SectionPlaces
  <1> QED
    BY ONLY <1>1, <1>4, <1>5, SectionFits DEF HasLeaf, LeavesAt, HeadAt

LEMMA TheReports == GoodSection(Reports)
  <1> DEFINE P == {"reports/revenue", "reports/invoices", "reports/payments", "reports/outstanding",
                   "reports/overdue"}
             Q == {"reports/vat", "reports/export"}
             R == {"reports/clients", "reports/products"}
  <1>1. Apart(P \cup Q \cup R, NoPath)
    BY DEF NoPath, Apart, SectionPaths, SectionPlaces, CompanyPages, ContactPages, Builder
  <1>2. PICK C : C = Wired(P) \cup Partial(Q) \cup Unbuilt(R)
    OBVIOUS
  <1>3. Reports = Primary(Section("reports", C))
    BY <1>2, Zenon DEF Reports
  <1> HIDE DEF P, Q, R
  <1>4. LeavesAt(C, P \cup Q \cup R, NoPath)
    BY ONLY <1>2, NewLeaves, LeavesTogether
  <1>5. HeadAt(Reports, "reports", "both", C) /\ "reports" \in SectionPaths
    BY ONLY <1>3, NewSection DEF SectionPaths, SectionPlaces
  <1> QED
    BY ONLY <1>1, <1>4, <1>5, SectionFits

LEMMA TheCompany == GoodSection(Company) /\ HasLeaf(Company, "company/profile") /\ Company.path = "company"
  <1> DEFINE P == {"company/profile", "company/legal", "company/vat", "company/numbering"}
             Q == {"company/bank", "company/defaults"}
             R == {"company/payment-terms", "company/branding", "company/documents"}
  <1>1. Apart(P \cup Q \cup R, "company") /\ "company/profile" \in P \cup Q \cup R
    BY DEF NoPath, Apart, SectionPaths, SectionPlaces, CompanyPages, ContactPages, Builder
  <1>2. PICK C : C = Merged(Wired(P) \cup Partial(Q) \cup Unbuilt(R), "company")
    OBVIOUS
  <1>3. Company = Section("company", C)
    BY <1>2, Zenon DEF Company
  <1> HIDE DEF P, Q, R
  <1>4. LeavesAt(C, P \cup Q \cup R, "company")
    BY ONLY <1>2, NewLeaves, LeavesTogether, LeavesMerged
  <1>5. HeadAt(Company, "company", "both", C) /\ "company" \in SectionPaths
    BY ONLY <1>3, NewSection DEF SectionPaths, SectionPlaces
  <1> QED
    BY ONLY <1>1, <1>4, <1>5, SectionFits DEF HasLeaf, LeavesAt, HeadAt

LEMMA TheBilling == GoodSection(Billing) /\ HasLeaf(Billing, "billing/plan")
  <1> DEFINE P == {"billing/plan", "billing/usage"}
             Q == {"billing/subscription", "billing/invoices", "billing/payment-method",
                   "billing/history", "billing/change-plan", "billing/cancel"}
  <1>1. Apart(P \cup Q, NoPath) /\ "billing/plan" \in P \cup Q
    BY DEF NoPath, Apart, SectionPaths, SectionPlaces, CompanyPages, ContactPages, Builder
  <1>2. PICK C : C = Wired(P) \cup Unbuilt(Q)
    OBVIOUS
  <1>3. Billing = Section("billing", C)
    BY <1>2, Zenon DEF Billing
  <1> HIDE DEF P, Q
  <1>4. LeavesAt(C, P \cup Q, NoPath)
    BY ONLY <1>2, NewLeaves, LeavesTogether
  <1>5. HeadAt(Billing, "billing", "both", C) /\ "billing" \in SectionPaths
    BY ONLY <1>3, NewSection DEF SectionPaths, SectionPlaces
  <1> QED
    BY ONLY <1>1, <1>4, <1>5, SectionFits DEF HasLeaf, LeavesAt, HeadAt

LEMMA TheDocuments == GoodSection(Documents)
  <1> DEFINE P == {"documents/all", "documents/folders", "documents/invoice-attachments",
                   "documents/client", "documents/company", "documents/archived", "documents/trash"}
  <1>1. Apart(P, NoPath)
    BY DEF NoPath, Apart, SectionPaths, SectionPlaces, CompanyPages, ContactPages, Builder
  <1>2. PICK C : C = Unbuilt(P)
    OBVIOUS
  <1>3. Documents = Section("documents", C)
    BY <1>2, Zenon DEF Documents
  <1> HIDE DEF P
  <1>4. LeavesAt(C, P, NoPath)
    BY ONLY <1>2, NewLeaves
  <1>5. HeadAt(Documents, "documents", "both", C) /\ "documents" \in SectionPaths
    BY ONLY <1>3, NewSection DEF SectionPaths, SectionPlaces
  <1> QED
    BY ONLY <1>1, <1>4, <1>5, SectionFits

LEMMA TheExplore == GoodSection(Explore)
  <1> DEFINE P == {"explore/filters", "explore/activity"}
             Q == {"explore/search", "explore/saved", "explore/documents"}
  <1>1. Apart(P \cup Q, NoPath)
    BY DEF NoPath, Apart, SectionPaths, SectionPlaces, CompanyPages, ContactPages, Builder
  <1>2. PICK C : C = Partial(P) \cup Unbuilt(Q)
    OBVIOUS
  <1>3. Explore = Section("explore", C)
    BY <1>2, Zenon DEF Explore
  <1> HIDE DEF P, Q
  <1>4. LeavesAt(C, P \cup Q, NoPath)
    BY ONLY <1>2, NewLeaves, LeavesTogether
  <1>5. HeadAt(Explore, "explore", "both", C) /\ "explore" \in SectionPaths
    BY ONLY <1>3, NewSection DEF SectionPaths, SectionPlaces
  <1> QED
    BY ONLY <1>1, <1>4, <1>5, SectionFits

LEMMA TheActivity == GoodSection(Activity) /\ HasLeaf(Activity, "activity/audit")
  <1> DEFINE P == {"activity/audit", "activity/user", "activity/security"}
             Q == {"activity/notifications", "activity/system"}
  <1>1. Apart(P \cup Q, NoPath) /\ "activity/audit" \in P \cup Q
    BY DEF NoPath, Apart, SectionPaths, SectionPlaces, CompanyPages, ContactPages, Builder
  <1>2. PICK C : C = Wired(P) \cup Unbuilt(Q)
    OBVIOUS
  <1>3. Activity = Section("activity", C)
    BY <1>2, Zenon DEF Activity
  <1> HIDE DEF P, Q
  <1>4. LeavesAt(C, P \cup Q, NoPath)
    BY ONLY <1>2, NewLeaves, LeavesTogether
  <1>5. HeadAt(Activity, "activity", "both", C) /\ "activity" \in SectionPaths
    BY ONLY <1>3, NewSection DEF SectionPaths, SectionPlaces
  <1> QED
    BY ONLY <1>1, <1>4, <1>5, SectionFits DEF HasLeaf, LeavesAt, HeadAt

LEMMA TheSettings ==
  /\ GoodSection(Settings)
  /\ HasLeaf(Settings, "settings/backup")
  /\ HasLeaf(Settings, "settings/import")
  /\ \A n \in Settings.children : n.path # NoPath
  <1> DEFINE P == {"settings/backup", "settings/appearance"}
             Q == {"settings/account", "settings/security", "settings/integrations",
                   "settings/privacy", "settings/cookies", "settings/import", "settings/export",
                   "settings/localization"}
             R == {"settings/team", "settings/notifications", "settings/email", "settings/api",
                   "settings/advanced"}
  <1>1. /\ Apart(P \cup Q \cup R, NoPath) /\ NoPath \notin P \cup Q \cup R
        /\ {"settings/backup", "settings/import"} \subseteq P \cup Q \cup R
    BY DEF NoPath, Apart, SectionPaths, SectionPlaces, CompanyPages, ContactPages, Builder
  <1>2. PICK C : C = Wired(P) \cup Partial(Q) \cup Unbuilt(R)
    OBVIOUS
  <1>3. Settings = Section("settings", C)
    BY <1>2, Zenon DEF Settings
  <1> HIDE DEF P, Q, R
  <1>4. LeavesAt(C, P \cup Q \cup R, NoPath)
    BY ONLY <1>2, NewLeaves, LeavesTogether
  <1>5. HeadAt(Settings, "settings", "both", C) /\ "settings" \in SectionPaths
    BY ONLY <1>3, NewSection DEF SectionPaths, SectionPlaces
  <1> QED
    BY ONLY <1>1, <1>4, <1>5, SectionFits DEF HasLeaf, LeavesAt, HeadAt

LEMMA TheHelp == GoodSection(Help)
  <1> DEFINE P == {"help/status"}
             Q == {"help/center", "help/getting-started", "help/tutorials", "help/faq",
                   "help/contact", "help/whats-new"}
  <1>1. Apart(P \cup Q, NoPath)
    BY DEF NoPath, Apart, SectionPaths, SectionPlaces, CompanyPages, ContactPages, Builder
  <1>2. PICK C : C = Partial(P) \cup Unbuilt(Q)
    OBVIOUS
  <1>3. Help = Section("help", C)
    BY <1>2, Zenon DEF Help
  <1> HIDE DEF P, Q
  <1>4. LeavesAt(C, P \cup Q, NoPath)
    BY ONLY <1>2, NewLeaves, LeavesTogether
  <1>5. HeadAt(Help, "help", "both", C) /\ "help" \in SectionPaths
    BY ONLY <1>3, NewSection DEF SectionPaths, SectionPlaces
  <1> QED
    BY ONLY <1>1, <1>4, <1>5, SectionFits

LEMMA TheLegalPages == GoodSection(LegalPages)
  <1> DEFINE P == {"legal/terms", "legal/privacy", "legal/cookies", "legal/dpa",
                   "legal/subprocessors", "legal/ai-transparency", "legal/sla", "legal/notices"}
             Q == {"legal/contracts"}
  <1>1. Apart(P \cup Q, NoPath)
    BY DEF NoPath, Apart, SectionPaths, SectionPlaces, CompanyPages, ContactPages, Builder
  <1>2. PICK C : C = Partial(P) \cup Unbuilt(Q)
    OBVIOUS
  <1>3. LegalPages = Section("legal", C)
    BY <1>2, Zenon DEF LegalPages
  <1> HIDE DEF P, Q
  <1>4. LeavesAt(C, P \cup Q, NoPath)
    BY ONLY <1>2, NewLeaves, LeavesTogether
  <1>5. HeadAt(LegalPages, "legal", "both", C) /\ "legal" \in SectionPaths
    BY ONLY <1>3, NewSection DEF SectionPaths, SectionPlaces
  <1> QED
    BY ONLY <1>1, <1>4, <1>5, SectionFits

LEMMA TheOnboarding == GoodSection(Onboarding)
  <1> DEFINE P == {"onboarding/wizard"}
  <1>1. Apart(P, NoPath)
    BY DEF NoPath, Apart, SectionPaths, SectionPlaces, CompanyPages, ContactPages, Builder
  <1>2. PICK C : C = OffNav(Wired(P))
    OBVIOUS
  <1>3. Onboarding = Section("onboarding", C)
    BY <1>2, Zenon DEF Onboarding
  <1> HIDE DEF P
  <1>4. LeavesAt(C, P, NoPath)
    BY ONLY <1>2, NewLeaves, LeavesOff
  <1>5. HeadAt(Onboarding, "onboarding", "both", C) /\ "onboarding" \in SectionPaths
    BY ONLY <1>3, NewSection DEF SectionPaths, SectionPlaces
  <1> QED
    BY ONLY <1>1, <1>4, <1>5, SectionFits

LEMMA TheDesktop == GoodSection(Desktop)
  <1> DEFINE P == {"desktop/connection", "desktop/backup", "desktop/printing"}
             Q == {"desktop/offline", "desktop/updates"}
  <1>1. Apart(P \cup Q, NoPath)
    BY DEF NoPath, Apart, SectionPaths, SectionPlaces, CompanyPages, ContactPages, Builder
  <1>2. PICK C : C = Partial(P) \cup Unbuilt(Q)
    OBVIOUS
  <1>3. Desktop = [Section("desktop", C) EXCEPT !.surface = "desktop"]
    BY <1>2, Zenon DEF Desktop
  <1> HIDE DEF P, Q
  <1>4. LeavesAt(C, P \cup Q, NoPath)
    BY ONLY <1>2, NewLeaves, LeavesTogether
  <1>5. HeadAt(Desktop, "desktop", "desktop", C) /\ "desktop" \in SectionPaths
    BY ONLY <1>3, NewSection DEF SectionPaths, SectionPlaces
  <1> QED
    BY ONLY <1>1, <1>4, <1>5, SectionFits

LEMMA TheCustomers ==
  GoodSection(Customers) /\ HasLeaf(Customers, "customers/clients") /\ HasLeaf(Customers, ClientDetail)
  <1> DEFINE P == {"customers/clients"}  Q == {ClientDetail}
             R == {"customers/groups"}   S == {"customers/activity"}
  <1>1. PICK A, M : /\ A = Wired(P) \cup OffNav(Partial(Q)) \cup Unbuilt(R) \cup OffNav(Wired(S))
                    /\ M = Merged(Unbuilt(ContactPages), "customers/clients")
    OBVIOUS
  <1>2. PICK C : C = A \cup M
    OBVIOUS
  <1>3. Customers = Primary(Section("customers", C))
    <2>1. C = Wired(P) \cup OffNav(Partial(Q)) \cup Merged(Unbuilt(ContactPages), "customers/clients")
                \cup Unbuilt(R) \cup OffNav(Wired(S))
      <3> HIDE DEF P, Q, R, S
      <3> QED
        BY ONLY <1>1, <1>2
    <2> QED
      BY <2>1, Zenon DEF Customers, ContactPages
  <1>4. HeadAt(Customers, "customers", "both", C) /\ "customers" \in SectionPaths
    BY ONLY <1>3, NewSection DEF SectionPaths, SectionPlaces
  <1>5. Apart(P \cup Q \cup R \cup S, NoPath) /\ "customers/clients" \in P /\ ClientDetail \in Q
    BY DEF Apart, SectionPaths, SectionPlaces, CompanyPages, Builder, ClientDetail
  <1>6. Apart(ContactPages, "customers/clients")
    BY DEF Apart, SectionPaths, SectionPlaces, ContactPages, Builder
  <1> HIDE DEF P, Q, R, S
  <1>7. LeavesAt(A, P \cup Q \cup R \cup S, NoPath)
    BY ONLY <1>1, NewLeaves, LeavesOff, LeavesTogether
  <1>8. LeavesAt(M, ContactPages, "customers/clients")
    BY ONLY <1>1, NewLeaves, LeavesMerged
  <1>9. \A n \in C : Fits(n)
    BY ONLY <1>2, <1>5, <1>6, <1>7, <1>8, LeavesFit
  <1>10. GoodSection(Customers)
    BY ONLY <1>4, <1>9 DEF GoodSection, HeadAt
  <1> QED
    BY ONLY <1>2, <1>4, <1>5, <1>7, <1>10 DEF HasLeaf, LeavesAt, HeadAt

\* The filters fit, and every status has one.
LEMMA TheFilters ==
  /\ \A n \in InvoiceFilters : Fits(n)
  /\ \A p \in StatusFilters : \E n \in InvoiceFilters : n.path = p
  <1>1. Apart(StatusFilters \cup OtherFilters, NoPath)
    BY DEF Apart, SectionPaths, SectionPlaces, CompanyPages, StatusFilters, OtherFilters, Builder
  <1> QED
    BY <1>1, TheInvoices, LeavesFit DEF LeavesAt

LEMMA TheSales ==
  /\ HeadAt(Sales, "sales", "both", Sales.children) /\ "sales" \in SectionPaths
  /\ InvoiceList \in Sales.children /\ \A n \in Sales.children : Fits(n) \/ n = InvoiceList
  /\ HasLeaf(Sales, InvoiceDetail)
  <1> DEFINE P == {InvoiceDetail}  Q == {"sales/credit-notes"}
             R == {"sales/recurring", "sales/quotes", "sales/proforma", "sales/reminders"}
  <1>1. PICK L : L = OffNav(Partial(P)) \cup Wired(Q) \cup Unbuilt(R)
    OBVIOUS
  <1>2. PICK C : C = {InvoiceList} \cup L
    OBVIOUS
  <1>3. Sales = Primary(Section("sales", C))
    <2>1. C = {InvoiceList} \cup OffNav(Partial(P)) \cup Wired(Q) \cup Unbuilt(R)
      <3> HIDE DEF P, Q, R
      <3> QED
        BY ONLY <1>1, <1>2
    <2> QED
      BY <2>1, Zenon DEF Sales, InvoiceList
  <1>4. HeadAt(Sales, "sales", "both", C) /\ "sales" \in SectionPaths
    BY ONLY <1>3, NewSection DEF SectionPaths, SectionPlaces
  <1>5. Apart(P \cup Q \cup R, NoPath) /\ InvoiceDetail \in P
    BY DEF Apart, SectionPaths, SectionPlaces, CompanyPages, InvoiceDetail, Builder
  <1> HIDE DEF P, Q, R
  <1>6. LeavesAt(L, P \cup Q \cup R, NoPath)
    BY ONLY <1>1, NewLeaves, LeavesOff, LeavesTogether
  <1>7. \A n \in L : Fits(n)
    BY ONLY <1>5, <1>6, LeavesFit
  <1> QED
    BY ONLY <1>2, <1>4, <1>5, <1>6, <1>7 DEF HasLeaf, LeavesAt, HeadAt

\* The sections of the tree.
LEMMA TreeSections ==
  ASSUME NEW s \in IA
  PROVE  /\ IsNode(s) /\ s.path \in SectionPaths /\ s.mergedInto = NoPath
         /\ s.surface \in {"both", "desktop"}
         /\ \A n \in s.children : Fits(n) \/ (n = InvoiceList /\ s = Sales)
  <1>1. CASE s = Sales
    BY <1>1, TheSales DEF HeadAt
  <1>2. CASE s # Sales
    <2>1. GoodSection(s)
      BY <1>2, TheDashboard, TheCustomers, TheCatalog, TheReports, TheCompany, TheBilling, TheDocuments,
         TheExplore, TheActivity, TheSettings, TheHelp, TheLegalPages, TheOnboarding, TheDesktop DEF IA
    <2> QED
      BY <2>1 DEF GoodSection
  <1> QED
    BY <1>1, <1>2

-----------------------------------------------------------------------------
(* What a build keeps of the tree. *)

\* A section and the list of invoices, as iaFor() leaves them.
Cut(s, b) == [s EXCEPT !.children = Prune(@, b)]
ListFor(b) == [InvoiceList EXCEPT !.children = Leaves(@, b)]

\* s is a section of build b.
InBuild(s, b) ==
  s \in IA /\ OnSurface(s, b.surface) /\ (b.exposure = "all" \/ Prune(s.children, b) # {})

\* A cut section is the section with fewer children.
LEMMA CutFields ==
  ASSUME NEW b, NEW s \in IA
  PROVE  /\ IsNode(Cut(s, b)) /\ Cut(s, b).path = s.path /\ Cut(s, b).mergedInto = NoPath
         /\ Cut(s, b).children = Prune(s.children, b) /\ Cut(s, b).surface = s.surface
  <1>1. PICK x, C : x = Prune(s.children, b) /\ C = Cut(s, b)
    OBVIOUS
  <1>2. C = [s EXCEPT !.children = x]
    BY <1>1 DEF Cut
  <1>3. IsNode(s) /\ s.mergedInto = NoPath
    BY TreeSections
  <1>4. C = NodeOf(s.path, s.status, s.surface, s.primary, s.nav, s.mergedInto, x)
    BY ONLY <1>2, <1>3, NodeUpdates
  <1> QED
    BY ONLY <1>1, <1>3, <1>4, NodeFields

\* So is the list of invoices.
LEMMA ListFields ==
  ASSUME NEW b
  PROVE  HeadAt(ListFor(b), "sales/invoices", "both", Leaves(InvoiceFilters, b))
  <1>1. PICK x, n, m : x = Leaves(InvoiceFilters, b) /\ n = InvoiceList /\ m = ListFor(b)
    OBVIOUS
  <1>2. HeadAt(n, "sales/invoices", "both", InvoiceFilters)
    BY <1>1, TheInvoices
  <1>3. m = [n EXCEPT !.children = x]
    BY <1>1, <1>2 DEF ListFor, HeadAt
  <1>4. m = NodeOf(n.path, n.status, n.surface, n.primary, n.nav, n.mergedInto, x)
    BY ONLY <1>2, <1>3, NodeUpdates DEF HeadAt
  <1> QED
    BY ONLY <1>1, <1>2, <1>4, NodeFields DEF HeadAt

\* iaFor(), with the two levels of prune() written out.
LEMMA SectionsOf ==
  ASSUME NEW b \in Builds
  PROVE  IaFor[b] = {Cut(s, b) : s \in {t \in IA : InBuild(t, b)}}
  <1>1. IaFor[b] = {s \in {Cut(t, b) : t \in {r \in IA : OnSurface(r, b.surface)}} :
                      b.exposure = "all" \/ s.children # {}}
    BY Zenon DEF IaFor, Cut
  <1> QED
    BY <1>1, CutFields DEF InBuild

\* Of leaves, prune() keeps the exposed ones.
LEMMA LeavesOf ==
  ASSUME NEW b, NEW N, \A n \in N : Fits(n)
  PROVE  Leaves(N, b) = {n \in N : IsExposed(n, b.exposure)}
  BY DEF Leaves, Fits, IsLeaf, OnSurface

\* Every build keeps the filters of the statuses.
LEMMA FiltersKept ==
  ASSUME NEW b \in Builds
  PROVE  \A p \in StatusFilters : \E n \in Leaves(InvoiceFilters, b) : n.path = p
  <1>1. ASSUME NEW n, n.path \in StatusFilters PROVE IsExposed(n, b.exposure)
    BY <1>1 DEF StatusFilters, IsExposed, MVP_SURFACE, Builds, NoPath
  <1> QED
    BY <1>1, TheFilters, LeavesOf

\* Of a section prune() keeps the exposed leaves, and the list of invoices.
LEMMA ChildrenOf ==
  ASSUME NEW b \in Builds, NEW s \in IA
  PROVE  Prune(s.children, b) =
           {n \in s.children : IsLeaf(n) /\ IsExposed(n, b.exposure)}
             \cup (IF s = Sales THEN {ListFor(b)} ELSE {})
  <1> DEFINE N == s.children
             branches == {[n EXCEPT !.children = Leaves(@, b)] :
                            n \in {m \in N : m.children # {} /\ OnSurface(m, b.surface)}}
  <1>1. \A n \in N : Fits(n) \/ (n = InvoiceList /\ s = Sales)
    BY TreeSections
  <1>2. s = Sales => InvoiceList \in N
    BY TheSales
  <1>3. InvoiceFilters # {} /\ InvoiceList.children = InvoiceFilters /\ InvoiceList.surface = "both"
    BY TheInvoices, TheFilters DEF HeadAt, StatusFilters
  <1>4. Leaves(N, b) = {n \in N : IsLeaf(n) /\ IsExposed(n, b.exposure)}
    BY <1>1, <1>3 DEF Leaves, Fits, IsLeaf, OnSurface
  <1>5. {m \in N : m.children # {} /\ OnSurface(m, b.surface)} = IF s = Sales THEN {InvoiceList} ELSE {}
    BY <1>1, <1>2, <1>3 DEF Fits, IsLeaf, OnSurface
  <1>6. branches = IF s = Sales THEN {ListFor(b)} ELSE {}
    BY <1>5 DEF ListFor
  <1>7. ListFor(b).children # {}
    BY ListFields, FiltersKept DEF HeadAt, StatusFilters
  <1>8. Prune(N, b) = Leaves(N, b) \cup {n \in branches : b.exposure = "all" \/ n.children # {}}
    BY Zenon DEF Prune
  <1> HIDE DEF branches, N
  <1> QED
    BY <1>4, <1>6, <1>7, <1>8 DEF N

\* The nodes that are routable in a build: its sections, the leaves it exposes, and
\* the list of invoices.
LEMMA NodesOf ==
  ASSUME NEW b \in Builds, NEW n \in FlattenIa(IaFor[b])
  PROVE  \/ \E s \in IA : InBuild(s, b) /\ n = Cut(s, b)
         \/ Fits(n) /\ IsExposed(n, b.exposure)
         \/ n = ListFor(b)
  <1> DEFINE below(ns) == UNION {m.children : m \in ns}
             Leafy(m) == Fits(m) /\ IsExposed(m, b.exposure)
  <1>1. FlattenIa(IaFor[b]) = IaFor[b] \cup below(IaFor[b]) \cup below(below(IaFor[b]))
    BY Zenon DEF FlattenIa
  <1>2. \A m \in IaFor[b] : \E s \in IA : InBuild(s, b) /\ m = Cut(s, b)
    BY SectionsOf
  <1>3. \A m \in below(IaFor[b]) : Leafy(m) \/ m = ListFor(b)
    <2> SUFFICES ASSUME NEW s \in IA, NEW m \in Cut(s, b).children
                 PROVE  Leafy(m) \/ m = ListFor(b)
      BY <1>2
    <2>1. m \in Prune(s.children, b)
      BY CutFields
    <2>2. InvoiceFilters # {} /\ InvoiceList.children = InvoiceFilters
      BY TheInvoices, TheFilters DEF HeadAt, StatusFilters
    <2> QED
      BY <2>1, <2>2, ChildrenOf, TreeSections DEF IsLeaf
  <1>4. \A m \in below(below(IaFor[b])) : Leafy(m)
    <2>1. \A m : Leafy(m) => m.children = {}
      BY DEF Fits, IsLeaf
    <2>2. \A m \in ListFor(b).children : Leafy(m)
      BY ListFields, TheFilters, LeavesOf DEF HeadAt
    <2> QED
      BY <1>3, <2>1, <2>2
  <1> QED
    BY <1>1, <1>2, <1>3, <1>4

\* What a build mounts: a leaf that it exposes, with its section and, if it is a
\* filter of the invoices, their list.
LEMMA LeafMounted ==
  ASSUME NEW b \in Builds, NEW s \in IA, OnSurface(s, b.surface),
         NEW n \in s.children, IsLeaf(n), IsExposed(n, b.exposure)
  PROVE  /\ InBuild(s, b) /\ n \in Prune(s.children, b)
         /\ n.path # NoPath => n.path \in Routes[b]
  <1>1. n \in Prune(s.children, b) /\ InBuild(s, b)
    BY ChildrenOf DEF InBuild
  <1>2. Cut(s, b) \in IaFor[b] /\ n \in Cut(s, b).children
    BY <1>1, SectionsOf, CutFields
  <1>3. n \in FlattenIa(IaFor[b])
    BY <1>2 DEF FlattenIa
  <1> QED
    BY <1>1, <1>3 DEF Routes, RoutableNodes

\* A kept section is mounted.
LEMMA SectionMounted ==
  ASSUME NEW b \in Builds, NEW s \in IA, InBuild(s, b)
  PROVE  Cut(s, b) \in IaFor[b] /\ s.path \in Routes[b]
  <1>1. Cut(s, b) \in IaFor[b] /\ Cut(s, b).path = s.path
    BY SectionsOf, CutFields
  <1>2. Cut(s, b) \in FlattenIa(IaFor[b])
    BY <1>1 DEF FlattenIa
  <1>3. s.path # NoPath
    BY TreeSections DEF SectionPaths, SectionPlaces, NoPath
  <1> QED
    BY <1>1, <1>2, <1>3 DEF Routes, RoutableNodes

\* The list of invoices and its filters are mounted in every build.
LEMMA InvoicesMounted ==
  ASSUME NEW b \in Builds
  PROVE  InvoicePlaces \subseteq Routes[b] /\ InBuild(Sales, b)
         /\ \A n \in InvoiceFilters : IsExposed(n, b.exposure) => n.path \in Routes[b]
  <1>1. ListFor(b) \in Prune(Sales.children, b) /\ Sales \in IA /\ Sales.surface = "both"
    BY ChildrenOf, TheSales DEF HeadAt, IA
  <1>2. InBuild(Sales, b)
    BY <1>1 DEF InBuild, OnSurface
  <1>3. Cut(Sales, b) \in IaFor[b] /\ ListFor(b) \in Cut(Sales, b).children
    BY <1>1, <1>2, SectionsOf, CutFields
  <1>4. ListFor(b) \in FlattenIa(IaFor[b]) /\ ListFor(b).children \subseteq FlattenIa(IaFor[b])
    BY <1>3 DEF FlattenIa
  <1>5. "sales/invoices" \in Routes[b]
    BY <1>4, ListFields DEF HeadAt, Routes, RoutableNodes, NoPath
  <1>6. \A n \in ListFor(b).children : n.path # NoPath => n.path \in Routes[b]
    BY <1>4 DEF Routes, RoutableNodes
  <1>7. ListFor(b).children = {n \in InvoiceFilters : IsExposed(n, b.exposure)}
    BY ListFields, TheFilters, LeavesOf DEF HeadAt
  <1>8. \A n \in InvoiceFilters : n.path # NoPath
    BY TheInvoices DEF LeavesAt, StatusFilters, OtherFilters, NoPath
  <1>9. StatusFilters \subseteq Routes[b]
    BY <1>6, <1>7, <1>8, FiltersKept, TheFilters, LeavesOf
  <1> QED
    BY <1>2, <1>5, <1>6, <1>7, <1>8, <1>9, TheInvoices

-----------------------------------------------------------------------------
(* Where every build has a screen, and where an address ends. *)

\* What every build mounts.
LEMMA AlwaysMounted ==
  ASSUME NEW b \in Builds
  PROVE  {"", "company", Builder, "customers/clients", ClientDetail, InvoiceDetail, "catalog/products",
          "settings/backup", "company/profile", "billing/plan"} \cup InvoicePlaces \subseteq Routes[b]
  <1>1. ASSUME NEW s \in IA, NEW p \in MVP_SURFACE, HasLeaf(s, p)
        PROVE  InBuild(s, b) /\ p \in Routes[b]
    <2>1. PICK n \in s.children : IsLeaf(n) /\ n.path = p
      BY <1>1 DEF HasLeaf
    <2>2. IsExposed(n, b.exposure) /\ p # NoPath
      BY <2>1 DEF IsExposed, Builds, MVP_SURFACE, NoPath, InvoiceDetail, ClientDetail
    <2> QED
      BY <1>1, <2>1, <2>2, LeafMounted DEF HasLeaf, OnSurface
  <1>2. {Dashboard, Customers, Catalog, Settings, Company, Billing, Sales} \subseteq IA
    BY DEF IA
  <1>3. {"customers/clients", ClientDetail, InvoiceDetail, "catalog/products", "settings/backup",
         "company/profile", "billing/plan"} \subseteq MVP_SURFACE
    BY DEF MVP_SURFACE
  <1>4. {"customers/clients", ClientDetail, InvoiceDetail, "catalog/products", "settings/backup",
         "company/profile", "billing/plan"} \subseteq Routes[b]
    BY <1>1, <1>2, <1>3, TheCustomers, TheSales, TheCatalog, TheSettings, TheCompany, TheBilling
  <1>5. "company" \in Routes[b]
    <2>1. InBuild(Company, b)
      BY <1>1, <1>2, <1>3, TheCompany
    <2>2. Company.path = "company"
      BY TheCompany
    <2> QED
      BY ONLY b \in Builds, <1>2, <2>1, <2>2, SectionMounted
  <1>6. "" \in Routes[b]
    <2>1. PICK n \in Dashboard.children : IsLeaf(n) /\ n.path = NoPath /\ n.status = "wired"
      BY TheDashboard
    <2>2. IsExposed(n, b.exposure)
      BY <2>1 DEF IsExposed
    <2>3. InBuild(Dashboard, b)
      BY <1>2, <2>1, <2>2, LeafMounted, TheDashboard DEF OnSurface
    <2> QED
      BY <1>2, <2>3, SectionMounted, TheDashboard
  <1> QED
    BY <1>4, <1>5, <1>6, InvoicesMounted DEF Routes

\* What the builds with everything mount besides.
LEMMA AllMounted ==
  ASSUME NEW b \in Builds, b.exposure = "all"
  PROVE  {"activity/audit", "settings/import"} \subseteq Routes[b]
  <1>1. ASSUME NEW s \in IA, NEW p, HasLeaf(s, p), p # NoPath PROVE p \in Routes[b]
    BY <1>1, LeafMounted DEF HasLeaf, OnSurface, IsExposed
  <1> QED
    BY <1>1, TheActivity, TheSettings DEF IA, NoPath

\* The place of every route is a section, the list of invoices, the builder, or a
\* leaf that the build exposes; which leaves it exposes, their paths tell.
LEMMA RoutesOf ==
  ASSUME NEW b \in Builds, NEW p \in Routes[b]
  PROVE  /\ p # NoPath
         /\ \/ p = Builder \/ p = "sales/invoices" \/ p \in SectionPaths
            \/ \E n \in RoutableNodes(b) : n.path = p /\ Fits(n) /\ IsExposed(n, b.exposure)
         /\ p # Builder /\ p \notin SectionPaths => \A d : d.path = p => IsExposed(d, b.exposure)
  <1>1. CASE p = Builder
    BY <1>1 DEF Builder, NoPath
  <1>2. ASSUME NEW n \in RoutableNodes(b), n.path = p
        PROVE  p # NoPath /\ \/ p = "sales/invoices" \/ p \in SectionPaths
                             \/ Fits(n) /\ IsExposed(n, b.exposure)
    BY <1>2, NodesOf, CutFields, TreeSections, ListFields DEF RoutableNodes, HeadAt
  <1>3. ASSUME p \in MVP_SURFACE PROVE \A d : d.path = p => IsExposed(d, b.exposure)
    BY <1>3 DEF IsExposed, Builds, MVP_SURFACE, NoPath, InvoiceDetail, ClientDetail
  <1>4. ASSUME NEW n \in RoutableNodes(b), n.path = p, IsExposed(n, b.exposure)
        PROVE  \A d : d.path = p => IsExposed(d, b.exposure)
    BY <1>2, <1>4 DEF IsExposed, Builds
  <1>5. "sales/invoices" \in MVP_SURFACE
    BY DEF MVP_SURFACE
  <1>6. p = Builder \/ \E n \in RoutableNodes(b) : n.path = p
    BY DEF Routes
  <1> QED
    BY <1>1, <1>2, <1>3, <1>4, <1>5, <1>6

\* What redirects, and where to.
LEMMA MergesTo ==
  ASSUME NEW b \in Builds, NEW p, NEW q \in MergedInto(b, p)
  PROVE  q \in {"customers/clients", "company"} /\ p \in CompanyPages \cup ContactPages
  <1>1. PICK n \in RoutableNodes(b) : n.path = p /\ n.mergedInto = q /\ q # NoPath
    BY DEF MergedInto
  <1> QED
    BY <1>1, NodesOf, CutFields, ListFields DEF RoutableNodes, HeadAt, Fits

\* A route ends where nothing redirects, in a handed-over build at a screen that is
\* built.
LEMMA LandsThere ==
  ASSUME NEW b \in Builds, NEW p \in Routes[b]
  PROVE  /\ Landing[b][p] \in Routes[b] /\ Landing[b][Landing[b][p]] = Landing[b][p]
         /\ p \notin CompanyPages \cup ContactPages => Landing[b][p] = p
         /\ b.exposure # "all" => Landing[b][p] \in Built
  <1>1. Landing[b][p] = IF MergedInto(b, p) = {} THEN p ELSE CHOOSE q \in MergedInto(b, p) : TRUE
    BY DEF Landing
  <1>2. \A r \in {"customers/clients", "company"} : r \in Routes[b] /\ MergedInto(b, r) = {} /\ r \in Built
    BY AlwaysMounted, MergesTo, BuiltPlaces DEF CompanyPages, ContactPages
  <1>3. \A r \in Routes[b] : MergedInto(b, r) = {} => Landing[b][r] = r
    BY DEF Landing
  <1>4. CASE MergedInto(b, p) # {}
    <2>1. Landing[b][p] \in MergedInto(b, p)
      BY <1>1, <1>4
    <2> QED
      BY <1>2, <1>3, <1>4, <2>1, MergesTo
  <1>5. CASE MergedInto(b, p) = {}
    <2>1. Landing[b][p] = p
      BY <1>3, <1>5
    <2>2. ASSUME b.exposure # "all", NEW n \in RoutableNodes(b), n.path = p, Fits(n), IsExposed(n, b.exposure)
          PROVE  p \in Built
      <3>1. n.mergedInto = NoPath
        BY <1>5, <2>2 DEF MergedInto
      <3>2. n.path \in MVP_SURFACE
        BY <2>2, RoutesOf DEF IsExposed, Builds
      <3> QED
        BY <2>2, <3>1, <3>2 DEF Fits, NoPath
    <2>3. b.exposure # "all" => p \in Built
      BY <2>2, RoutesOf, BuiltPlaces, TheInvoices DEF Built
    <2> QED
      BY <2>1, <2>3
  <1> QED
    BY <1>4, <1>5

\* So does every address.
LEMMA AddressesLand ==
  ASSUME NEW b \in Builds, NEW path
  PROVE  Land(b, path) \in Routes[b] /\ Landing[b][Land(b, path)] = Land(b, path)
  <1>1. \A p \in {"", Builder, "sales/invoices", "customers/clients", "catalog/products", "settings/import"} :
          p \notin CompanyPages \cup ContactPages
    BY DEF CompanyPages, ContactPages, Builder
  <1>2. "" \in Routes[b] /\ Landing[b][""] = ""
    BY <1>1, AlwaysMounted, LandsThere
  <1>3. CASE path \in Routes[b]
    <2>1. Land(b, path) = Landing[b][path]
      BY <1>3 DEF Land
    <2> QED
      BY ONLY b \in Builds, <1>3, <2>1, LandsThere
  <1>4. CASE path \notin Routes[b] /\ b.surface = "saas" /\ path \in DOMAIN Legacy
    <2>1. Legacy[path] \in {Builder, "sales/invoices", "customers/clients", "catalog/products", "settings/import"}
      BY <1>4 DEF Legacy
    <2>2. b.exposure = "all"
      BY <1>4 DEF Builds
    <2>3. Legacy[path] \in Routes[b]
      BY <2>1, <2>2, AlwaysMounted, AllMounted, TheInvoices
    <2>4. PICK r : r = Legacy[path]
      OBVIOUS
    <2>5. r \in Routes[b] /\ r \notin CompanyPages \cup ContactPages
      BY ONLY <1>1, <2>1, <2>3, <2>4
    <2>6. Landing[b][r] = r
      BY ONLY b \in Builds, <2>5, LandsThere
    <2>7. Land(b, path) = r
      BY <1>4, <2>4 DEF Land
    <2> QED
      BY ONLY <2>5, <2>6, <2>7
  <1>5. CASE path \notin Routes[b] /\ ~(b.surface = "saas" /\ path \in DOMAIN Legacy)
    BY <1>2, <1>5 DEF Land
  <1> QED
    BY <1>3, <1>4, <1>5

-----------------------------------------------------------------------------
(* What the shell and the screens offer. *)

\* The sections of a build and their children are mounted, so what the navigation
\* and the palette take from them is.
LEMMA TreeMounted ==
  ASSUME NEW b \in Builds, NEW t \in IaFor[b]
  PROVE  /\ t.path \in Routes[b]
         /\ \A n \in t.children : n.path # NoPath => n.path \in Routes[b]
  <1>1. PICK s \in IA : InBuild(s, b) /\ t = Cut(s, b)
    BY SectionsOf
  <1>2. t.path \in Routes[b]
    BY <1>1, SectionMounted, CutFields
  <1>3. t.children \subseteq FlattenIa(IaFor[b])
    BY DEF FlattenIa
  <1> QED
    BY <1>2, <1>3 DEF Routes, RoutableNodes

\* A breadcrumb is the section or the list that the place is below, and one that
\* is mounted keeps them in the build.
LEMMA BreadcrumbsMounted ==
  ASSUME NEW b \in Builds, NEW p \in Routes[b]
  PROVE  Breadcrumbs(p) \subseteq Routes[b]
  <1> SUFFICES ASSUME NEW n \in Ancestors(p) PROVE n.path \in Routes[b]
    BY DEF Breadcrumbs
  <1> DEFINE web == {s \in IA : OnSurface(s, "saas")}
             below(ns) == UNION {m.children : m \in ns}
  <1>1. \A N : FlattenIa(N) = N \cup below(N) \cup below(below(N))
    BY Zenon DEF FlattenIa
  <1>2. n \in FlattenIa(web) /\ \E d \in FlattenIa(n.children) : d.path = p
    BY DEF Ancestors
  <1>3. HeadAt(InvoiceList, "sales/invoices", "both", InvoiceFilters) /\ \A d \in InvoiceFilters : Fits(d)
    BY TheInvoices, TheFilters
  <1>4. \A d : Fits(d) => d.children = {}
    BY DEF Fits, IsLeaf
  <1>5. CASE n = InvoiceList
    BY <1>3, <1>5, InvoicesMounted DEF HeadAt, InvoicePlaces
  <1>6. CASE n.children = {}
    BY <1>1, <1>2, <1>6
  <1>7. CASE n \in web
    <2>1. n.surface = "both" /\ (n = Sales \/ \A d \in n.children : Fits(d))
      BY <1>7, TreeSections DEF OnSurface
    <2>2. CASE n = Sales
      BY <1>7, <2>2, InvoicesMounted, SectionMounted
    <2>3. CASE \A d \in n.children : Fits(d)
      <3>1. PICK d \in n.children : d.path = p /\ Fits(d)
        BY <1>1, <1>2, <1>4, <2>3
      <3>2. IsLeaf(d) /\ IsExposed(d, b.exposure)
        BY <3>1, RoutesOf DEF Fits
      <3> QED
        BY <1>7, <2>1, <3>2, LeafMounted, SectionMounted DEF OnSurface
    <2> QED
      BY <2>1, <2>2, <2>3
  <1>8. \A m \in below(web) : Fits(m) \/ m = InvoiceList
    BY TreeSections
  <1>9. \A m \in below(below(web)) : Fits(m)
    BY <1>3, <1>4, <1>8 DEF HeadAt
  <1> QED
    BY <1>1, <1>2, <1>4, <1>5, <1>6, <1>7, <1>8, <1>9

\* The settings rail asks the exposure, and nothing else keeps a settings page out.
LEMMA RailMounted ==
  ASSUME NEW b \in Builds, NEW p
  PROVE  Rail(b, p) \subseteq Routes[b]
  <1>1. Settings \in IA /\ Settings.surface = "both"
    BY TheSettings DEF HasLeaf, IA
  <1>2. \A m \in Settings.children : IsLeaf(m) /\ m.path # NoPath
    BY TheSettings DEF GoodSection, Fits
  <1>3. \A m \in Settings.children : IsExposed(m, b.exposure) => m.path \in Routes[b]
    BY <1>1, <1>2, LeafMounted DEF OnSurface
  <1> QED
    BY <1>3 DEF Rail

\* The doors of the screens, of the shell, and of both with the palette.
LEMMA ScreenDoorsMounted ==
  ASSUME NEW b \in Builds, NEW p \in Routes[b]
  PROVE  ScreenDoors(b, p) \subseteq Routes[b]
  <1>1. DashboardDoors(b) \subseteq Routes[b]
    <2>1. "activity/audit" \notin MVP_SURFACE /\ Node("activity/audit", "wired").path = "activity/audit"
      BY NewNode DEF MVP_SURFACE, InvoiceDetail, ClientDetail
    <2>2. IsExposed(Node("activity/audit", "wired"), b.exposure) => b.exposure = "all"
      BY <2>1 DEF IsExposed, Builds, NoPath
    <2> QED
      BY <2>2, AlwaysMounted, AllMounted DEF DashboardDoors
  <1>2. SectionDoors(b, p) \subseteq Routes[b]
    BY TreeMounted DEF SectionDoors
  <1>3. InvoicesDoors \subseteq Routes[b]
    BY AlwaysMounted DEF InvoicesDoors
  <1>4. BuiltDoors(p) \subseteq Routes[b]
    <2>1. {"sales/invoices", "customers/clients", InvoiceDetail, Builder, ClientDetail, "billing/plan",
           "settings/backup", "", "company/profile"} \subseteq Routes[b]
      BY AlwaysMounted, TheInvoices
    <2> QED
      BY <2>1 DEF BuiltDoors, InvoiceDetail, ClientDetail, Builder
  <1> QED
    BY <1>1, <1>2, <1>3, <1>4, BreadcrumbsMounted, RailMounted DEF ScreenDoors

\* The navigation, the account menu and the palette.
LEMMA ShellDoorsMounted ==
  ASSUME NEW b \in Builds
  PROVE  ShellDoors(b) \subseteq Routes[b] /\ Commands(b) \subseteq Routes[b]
  <1>1. {"", Builder, "company/profile", "billing/plan"} \subseteq Routes[b]
    BY AlwaysMounted
  <1>2. Links(b) \subseteq Routes[b]
    BY <1>1, TreeMounted DEF Links, IsNavDestination
  <1>3. AccountItems(b) \subseteq Routes[b]
    BY <1>1, TreeMounted DEF AccountItems
  <1>4. Commands(b) \subseteq Routes[b]
    <2>1. \A n \in IaFor[b] \cup UNION {s.children : s \in IaFor[b]} : n.path # NoPath => n.path \in Routes[b]
      BY TreeMounted
    <2> QED
      BY <1>1, <2>1 DEF Commands
  <1> QED
    BY <1>1, <1>2, <1>3, <1>4 DEF ShellDoors

\* All doors.
LEMMA DoorsMounted ==
  ASSUME NEW b \in Builds, NEW p \in Routes[b], NEW kinds
  PROVE  Doors[b][p] \cup PaletteDoors[b] \cup RecordCommands(b, kinds) \subseteq Routes[b]
  <1>1. Doors[b][p] = ShellDoors(b) \cup ScreenDoors(b, p) /\ PaletteDoors[b] = Commands(b)
    BY DEF Doors, PaletteDoors
  <1>2. RecordCommands(b, kinds) \subseteq Routes[b]
    BY DEF RecordCommands
  <1> QED
    BY <1>1, <1>2, ScreenDoorsMounted, ShellDoorsMounted

-----------------------------------------------------------------------------
(* The shell. *)

\* The shell is well formed, its place is mounted and does not redirect: by itself
\* an inductive invariant, and with the tables above it leaves no dead doors.
LEMMA ShellHolds == ShellTypeOK => NoDeadDoors
  <1> SUFFICES ASSUME ShellTypeOK PROVE NoDeadDoors
    OBVIOUS
  <1>1. build \in Builds /\ location \in Routes[build]
    BY DEF ShellTypeOK
  <1>2. Doors[build][location] \cup PaletteDoors[build] \cup RecordCommands(build, hits) \subseteq Routes[build]
    BY <1>1, DoorsMounted
  <1> QED
    BY <1>1, <1>2, LandsThere DEF NoDeadDoors

\* The first of a list of companies is a company.
LEMMA NamesTyped == \A l \in ByName : l # <<>> => Head(l) \in Companies
  <1> SUFFICES ASSUME NEW l \in ByName, l # <<>> PROVE Head(l) \in Companies
    OBVIOUS
  <1>1. PICK n \in 0 .. Cardinality(Companies) : l \in [1 .. n -> Companies]
    BY DEF ByName
  <1> QED
    BY <1>1

\* Home is mounted and does not redirect.
LEMMA HomeLands == \A b \in Builds : "" \in Routes[b] /\ Landing[b][""] = ""
  BY AlwaysMounted, LandsThere DEF CompanyPages, ContactPages

\* An organization may have no company yet.
LEMMA NoCompanies == <<>> \in ByName
  <1>1. <<>> \in [1 .. 0 -> Companies] /\ \A i, j \in 1 .. 0 : FALSE
    OBVIOUS
  <1>2. 0 \in 0 .. Cardinality(Companies)
    BY ShellAssumption, FS_CardinalityType
  <1> QED
    BY <1>1, <1>2 DEF ByName

\* The shell starts at home.
LEMMA ShellBase == ShellInit => ShellTypeOK
  <1>1. 0 \in 0 .. MaxShellMoves /\ 0 \in 0 .. MaxShellFaults
    BY ShellAssumption
  <1> QED
    BY <1>1, NoCompanies, HomeLands DEF ShellInit, ShellTypeOK

\* Every move of the shell ends at a place that is mounted and does not redirect.
LEMMA ShellStep == ShellTypeOK /\ [ShellNext]_shellVars => ShellTypeOK'
  <1> SUFFICES ASSUME ShellTypeOK, [ShellNext]_shellVars PROVE ShellTypeOK'
    OBVIOUS
  <1>0. /\ MaxShellMoves \in Nat /\ shellMoves \in 0 .. MaxShellMoves
        /\ MaxShellFaults \in Nat /\ loadFaults \in 0 .. MaxShellFaults
    BY ShellAssumption DEF ShellTypeOK
  <1>1. ASSUME Moves PROVE shellMoves' \in 0 .. MaxShellMoves
    BY ONLY <1>0, <1>1 DEF Moves
  <1> USE DEF ShellTypeOK, companyVars, paletteVars, tourVars
  <1>2. ASSUME NEW path, Goto(path)
        PROVE  /\ location' \in Routes[build] /\ Landing[build][location'] = location'
               /\ tourOpen' \in BOOLEAN /\ build' = build /\ UNCHANGED <<companyVars, tour>>
    BY <1>2, AddressesLand DEF Goto, TourFor
  <1>3. ASSUME NEW path, OpenUrl(path) PROVE ShellTypeOK'
    <2>1. tourOpen' \in BOOLEAN
      BY <1>3, Zenon DEF OpenUrl
    <2> QED
      BY <1>1, <1>3, <2>1, NoCompanies, AddressesLand DEF OpenUrl
  <1>4. ASSUME NEW text \in {"", "letter", "term"}, TypeQuery(text) PROVE ShellTypeOK'
    BY <1>1, <1>4 DEF TypeQuery
  <1>5. ASSUME NEW kinds \in SUBSET HitKinds, SearchServed(kinds) PROVE ShellTypeOK'
    BY <1>5 DEF SearchServed
  <1>6. ASSUME NEW c \in Companies, SwitchCompany(c) PROVE ShellTypeOK'
    BY <1>1, <1>6 DEF SwitchCompany
  <1>7. CASE Go
    BY <1>1, <1>2, <1>7 DEF Go
  <1>8. CASE RunCommand
    BY <1>1, <1>2, <1>8 DEF RunCommand
  <1>9. CASE TogglePalette
    BY <1>1, <1>9 DEF TogglePalette
  <1>10. CASE Debounced
    BY <1>10 DEF Debounced
  <1>11. CASE CompaniesRead
    BY <1>11, NamesTyped DEF CompaniesRead
  <1>12. CASE CompaniesFail
    <2>1. loadFaults' \in 0 .. MaxShellFaults
      <3>1. loadFaults < MaxShellFaults /\ loadFaults' = loadFaults + 1
        BY <1>12 DEF CompaniesFail
      <3> QED
        BY ONLY <1>0, <3>1
    <2> QED
      BY <1>12, <2>1 DEF CompaniesFail
  <1>13. CASE CompanyWritten
    BY <1>1, <1>13 DEF CompanyWritten
  <1>14. CASE RequestTour
    BY <1>1, <1>14 DEF RequestTour
  <1>15. CASE StartTour
    BY <1>1, <1>15, HomeLands DEF StartTour
  <1>16. CASE CloseTour
    BY <1>1, <1>16 DEF CloseTour
  <1>17. CASE UNCHANGED shellVars
    BY <1>17 DEF shellVars
  <1> QED
    BY <1>3, <1>4, <1>5, <1>6, <1>7, <1>8, <1>9, <1>10, <1>11, <1>12, <1>13, <1>14, <1>15, <1>16, <1>17
       DEF ShellNext

-----------------------------------------------------------------------------
(* All screens under one shell. *)

ScreensInv ==
  /\ BuilderInv /\ WsInv /\ ActInv /\ StudioInv /\ FirstInv /\ ListInv /\ SettingsInv
  /\ ShellTypeOK /\ mounted \in Screens

LEMMA ScreensBase == Init => ScreensInv
  BY BuilderBase, WsBase, ActBase, StudioBase, FirstBase, ListBase, SettingsBase,
     ShellBase
     DEF Init, ScreensInv

\* A step of the shell is a step of the screen it has mounted; the others stutter.
LEMMA OneScreenMoves ==
  [Next]_screenVars =>
    /\ [BuilderNext]_builderVars /\ [WsNext]_wsVars /\ [ActNext]_actVars /\ [StudioNext]_studioVars
    /\ [FirstNext]_firstVars /\ [ListNext]_listVars /\ [SettingsNext]_settingsVars
    /\ [ShellNext]_shellVars /\ UNCHANGED mounted
  <1>1. CASE Next
    BY <1>1 DEF Next
  <1>2. CASE UNCHANGED screenVars
    BY <1>2 DEF screenVars
  <1> QED
    BY <1>1, <1>2

LEMMA ScreensStep == ScreensInv /\ [Next]_screenVars => ScreensInv'
  BY OneScreenMoves, BuilderStep, WsStep, ActStep, StudioStep, FirstStep, ListStep, SettingsStep,
     ShellStep
     DEF ScreensInv

LEMMA ScreensSafe == Spec => []ScreensInv
  BY ScreensBase, ScreensStep, PTL DEF Spec

\* The state of every screen stays well formed, for any number of lines, items,
\* products, invoices, texts and windows.  The workspace's drawer is open only over
\* an item that is there; of the builder's overlay and the product list's editor
\* only a line number and a product of the catalogue are claimed.  An action's hook
\* has one latest mutation, a read follows every mount of the gate, the shell
\* counts on a company only when there is one, and the router is never at an
\* address that is not mounted or that redirects.
THEOREM ScreensTyped == Spec => []ScreensTypeOK
  <1>1. ScreensInv => ScreensTypeOK
    BY BuilderHolds, WsHolds, ActOutcome, StudioHolds, FirstHolds, ListHolds, SettingsHolds
       DEF ScreensInv, ScreensTypeOK
  <1> QED
    BY <1>1, ScreensSafe, PTL

\* No door leads nowhere, in any of the three builds, whatever the search finds: what
\* the navigation, the menus, the palette, the breadcrumbs, the settings rail and the
\* screens offer is mounted, and in a handed-over build it ends at a built screen.
THEOREM DoorsLeadSomewhere == Spec => []NoDeadDoors
  <1>1. ScreensInv => NoDeadDoors
    BY ShellHolds DEF ScreensInv
  <1> QED
    BY <1>1, ScreensSafe, PTL

\* Pressing twice stores once, whatever is pressed and however late its answer:
\* a draft of the builder, a payment or a credit note of one form, a product of
\* one dialog, unless an answer was lost in between.
THEOREM EveryPressOnce == Spec => []PressedOnce
  <1>1. ScreensInv => PressedOnce
    BY BuilderHolds, ActOutcome, ListHolds DEF ScreensInv, PressedOnce
  <1> QED
    BY <1>1, ScreensSafe, PTL

\* The drawer, the action's outcome, the wizard's facts, the product's editor and
\* the verdict beside a field are those of the record shown, for any number of
\* lines, invoices, texts, products and windows.  Of the template studio: unless a
\* workspace was left while a create was under way, a save and a publication are
\* of the row that the composition was made as or opened from, for any number of
\* templates; and the required blocks are shown in any case.
THEOREM ScreensTrue == Spec => []TrueToItsRecord
  <1>1. ScreensInv => TrueToItsRecord
    BY WsHolds, ActOutcome, StudioHolds, FirstHolds, ListHolds, SettingsHolds
       DEF ScreensInv, TrueToItsRecord
  <1> QED
    BY <1>1, ScreensSafe, PTL

\* The amounts on the screens are right, whatever the lines and the answers'
\* order: the builder's totals are the server's for the lines on the screen, a
\* line whose rate the user did not choose has the customer's, and the workspace's
\* sums add up to what it asks the user to confirm.  So do the rows it prints when
\* every printed quantity and price is a number; a comma makes a row NaN, and the
\* theorem then says nothing of the rows.
THEOREM MoneyRight == Spec => []MoneyShown
  <1>1. WsInv => TotalsAddUp
    BY TotalsAdd DEF WsInv
  <1>2. ScreensInv => MoneyShown
    BY <1>1, BuilderHolds DEF ScreensInv, MoneyShown
  <1> QED
    BY <1>2, ScreensSafe, PTL

\* No save of a template is undone by an older one; and when the server handles
\* one PATCH of the company at a time, none undoes the fields of another window.
THEOREM SavesStand == SerialPatches => (Spec => NoSaveUndone)
  <1> SUFFICES ASSUME SerialPatches PROVE Spec => NoSaveUndone
    OBVIOUS
  <1>1. ScreensInv /\ [Next]_screenVars => SavesInOrder /\ OthersEditsSurvive
    BY OneScreenMoves, StudioStep, SettingsMoves DEF ScreensInv
  <1>2. ScreensInv /\ [Next]_screenVars
          => [SavesInOrder /\ OthersEditsSurvive]_<<studioVars, settingsVars>>
    BY <1>1
  <1> QED
    BY <1>2, ScreensSafe, PTL DEF Spec, NoSaveUndone
=============================================================================
