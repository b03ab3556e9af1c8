----------------------------- MODULE InvoiceMoney -----------------------------
(***************************************************************************)
(* The money of one document, as core/rules/currency_math.py computes what *)
(* is stored, listed and reported, and as core/einvoicing/ubl_builder.py   *)
(* computes it again for the e-invoice.  The code runs at full precision   *)
(* and rounds each figure it returns by itself, half to even; so does this *)
(* module, with amounts in hundredths of a cent and one common denominator *)
(* for what the document discount leaves of them.                          *)
(*                                                                         *)
(* The document is composed line by line; its figures are operators.       *)
(***************************************************************************)
EXTENDS Integers, Sequences, FiniteSets, FiniteSetsExt, Functions

CONSTANTS
    Lines,      \* lines a document may get: gross (quantity times price, in
                \* hundredths of a cent), off (line discount, percent), category, rate
    Discounts,  \* document discounts: type "none", "percentage" or "fixed", and value
    MaxLines    \* bound: lines of a document

ASSUME MoneyAssumption ==
    /\ MaxLines \in Nat
    /\ \A l \in Lines : /\ l.gross \in Nat /\ l.off \in 0..100 /\ l.rate \in Nat
                        /\ (l.gross * l.off) % 100 = 0
    /\ \A d \in Discounts : d.value \in Nat /\ (d.type = "percentage" => d.value <= 100)

VARIABLES lines, discount
moneyVars == <<lines, discount>>

NoDiscount == [type |-> "none", value |-> 0]

MoneyInit == lines = <<>> /\ discount = NoDiscount

AddLine(l) ==
    /\ Len(lines) < MaxLines
    /\ lines' = Append(lines, l)
    /\ UNCHANGED discount

SetDiscount(d) == discount' = d /\ UNCHANGED lines

MoneyNext ==
    \/ \E l \in Lines : AddLine(l)
    \/ \E d \in Discounts \cup {NoDiscount} : SetDiscount(d)

MoneySpec == MoneyInit /\ [][MoneyNext]_moneyVars

-----------------------------------------------------------------------------
Magnitude(n) == IF n < 0 THEN -n ELSE n

\* quantize(): n/d cents, half to even
Quantize(n, d) ==
    LET q == n \div d
        r == 2 * (n % d)
    IN IF r > d \/ (r = d /\ q % 2 = 1) THEN q + 1 ELSE q

Indices == DOMAIN lines
Over(amount, I) == SumFunctionOnSet(amount, I)

Gross == [i \in Indices |-> lines[i].gross]
LineDiscount == [i \in Indices |-> (lines[i].gross * lines[i].off) \div 100]
NetPre == [i \in Indices |-> Gross[i] - LineDiscount[i]]
TotalPre == Over(NetPre, Indices)

(***************************************************************************)
(* The document discount: what is left of each line is NetPre times        *)
(* Kept / Of.  A fixed discount is capped at the total, and is spread in   *)
(* proportion to the lines; a percentage takes the same part of each.      *)
(***************************************************************************)
Of == CASE discount.type = "percentage" -> 100
        [] discount.type = "fixed" /\ TotalPre > 0 -> TotalPre
        [] OTHER -> 1
Kept == CASE discount.type = "percentage" -> 100 - discount.value
          [] discount.type = "fixed" /\ TotalPre > 0 ->
                TotalPre - Min({100 * discount.value, TotalPre})
          [] OTHER -> 1

\* _allocate(): full precision, times Of
Net == [i \in Indices |-> NetPre[i] * Kept]
Vat == [i \in Indices |-> Net[i] * lines[i].rate]           \* times Of, times 100
DiscountShare == [i \in Indices |-> NetPre[i] * (Of - Kept)]   \* what the line absorbs

-----------------------------------------------------------------------------
(* invoice_totals() *)

subtotal_ht == Quantize(Over(Gross, Indices), 100)
total_discount == Quantize(Over(LineDiscount, Indices) * Of + Over(DiscountShare, Indices), 100 * Of)
net_ht == Quantize(Over(Net, Indices), 100 * Of)

total_vat == Quantize(Over(Vat, Indices), 10000 * Of)
total_ttc == Quantize(100 * Over(Net, Indices) + Over(Vat, Indices), 10000 * Of)
vat_breakdown(rate) ==
    Quantize(Over(Vat, {i \in Indices : lines[i].rate = rate}), 10000 * Of)

(* vat_buckets() *)

Keys == {<<lines[i].category, lines[i].rate>> : i \in Indices}
Under(key) == {i \in Indices : <<lines[i].category, lines[i].rate>> = key}

\* Faulty variant of TaxableBase: before the document discount.
TaxableBaseGross(key) == Quantize(Over(NetPre, Under(key)), 100)

TaxableBase(key) == Quantize(Over(Net, Under(key)), 100 * Of)
VatAmount(key) == Quantize(Over(Vat, Under(key)), 10000 * Of)

-----------------------------------------------------------------------------
(* build_invoice_ubl(): one AllowanceCharge per key *)

AllowanceTotal == Quantize(Over(DiscountShare, Indices), 100 * Of)
Rounded(key) == Quantize(Over(DiscountShare, Under(key)), 100 * Of)

Residual == AllowanceTotal - Over([k \in Keys |-> Rounded(k)], Keys)

\* The biggest part, the first of them, absorbs what rounding left.
First(key) == Min(Under(key))
Biggest ==
    CHOOSE key \in Keys : \A k \in Keys :
        \/ Rounded(key) > Rounded(k)
        \/ Rounded(key) = Rounded(k) /\ First(key) <= First(k)

Part(key) == IF key = Biggest THEN Rounded(key) + Residual ELSE Rounded(key)

\* A part that is not positive is not emitted.
Allowance(key) == Max({Part(key), 0})

-----------------------------------------------------------------------------
\* "Only the returned values are quantized": net, VAT and total of a document
\* are rounded apart, and still agree to a cent, as do subtotal, discount and
\* net.
HeadlineAgrees ==
    /\ Magnitude(net_ht + total_vat - total_ttc) <= 1
    /\ Magnitude(subtotal_ht - total_discount - net_ht) <= 1

\* "So the two can never disagree about a line's taxable base": the buckets of
\* a VAT report give the invoice's VAT at every rate, its net and its VAT to
\* half a cent a bucket, and the VAT of a rate of one category exactly.  (Two
\* categories may have one rate: nothing ties them together.)
BucketsMatchTotals ==
    /\ \A rate \in {k[2] : k \in Keys} :
          LET buckets == {k \in Keys : k[2] = rate}
              off == Magnitude(Over([k \in buckets |-> VatAmount(k)], buckets) - vat_breakdown(rate))
          IN /\ 2 * off <= Cardinality(buckets) + 1
             /\ Cardinality(buckets) = 1 => off = 0
    /\ 2 * Magnitude(Over([k \in Keys |-> TaxableBase(k)], Keys) - net_ht) <= Cardinality(Keys) + 1
    /\ 2 * Magnitude(Over([k \in Keys |-> VatAmount(k)], Keys) - total_vat) <= Cardinality(Keys) + 1

\* "The parts sum exactly to the quantized document allowance": what the
\* e-invoice takes off its VAT categories is the discount of the document.
AllowancePartsExact == Over([k \in Keys |-> Allowance(k)], Keys) = AllowanceTotal

\* "The per-category taxable amounts already net out their share": lines less
\* allowance is the taxable amount of the category, to a cent and half a cent
\* more for every category, since one of them absorbs what rounding left.
TaxableNetsOut ==
    \A key \in Keys :
        2 * Magnitude(Quantize(Over(NetPre, Under(key)), 100) - Allowance(key) - TaxableBase(key))
            <= Cardinality(Keys) + 2
=============================================================================
