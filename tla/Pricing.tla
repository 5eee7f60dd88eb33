------------------------------- MODULE Pricing -------------------------------
(* The arithmetic of a bill, in minor units: rounding, discounts, taxes, the  *)
(* lines of an order and their totals.  Rates are whole percentages; numbers  *)
(* are exact here where the code divides in floating point, and stay far from *)
(* the limits that assertValidMoney guards.                                   *)
EXTENDS Integers, FiniteSets, Functions

(* roundHalfUp(n / d).                                                        *)
HalfUp(n, d) == (2 * n + d) \div (2 * d)

-----------------------------------------------------------------------------
(* calculateTax, of one state: the tax of a net amount, added to it or found  *)
(* inside it.  No amount or no rate is no special case.                       *)
TaxOf(net, rate, inclusive) ==
  IF inclusive THEN net - HalfUp(net * 100, 100 + rate) ELSE HalfUp(net * rate, 100)

(* The central part of a tax; the state takes the rest of it.                 *)
Cgst(tax) == HalfUp(tax, 2)

Sgst(tax) == tax - Cgst(tax)

-----------------------------------------------------------------------------
(* calculateDiscount.  A specification is of kind "none", "percentage" or     *)
(* "fixed", and has a value.                                                  *)
AmountOf(spec, subtotal) ==
  CASE spec.kind = "percentage" -> HalfUp(subtotal * spec.value, 100)
    [] spec.kind = "fixed"      -> spec.value
    [] OTHER                    -> 0

(* It may not exceed what it is taken from.                                   *)
Allowed(spec, subtotal) == AmountOf(spec, subtotal) <= subtotal

(* allocateDiscountProportionally: each line gets its share, rounded down,    *)
(* and the units that are left go to the largest remainders, then the largest *)
(* lines, then the first ones (lines are numbered).                           *)
FloorShare(sub, discount, i) == (sub[i] * discount) \div SumFunction(sub)

Remainder(sub, discount, i) == (sub[i] * discount) % SumFunction(sub)

GoesFirst(sub, discount, i, j) ==
  LET ri == Remainder(sub, discount, i)
      rj == Remainder(sub, discount, j)
  IN  \/ ri > rj
      \/ ri = rj /\ (sub[i] > sub[j] \/ (sub[i] = sub[j] /\ i < j))

FloorShares(sub, discount) ==          \* a bug: what is left is given to nobody
  [i \in DOMAIN sub |-> IF discount = 0 THEN 0 ELSE FloorShare(sub, discount, i)]

Shares(sub, discount) ==
  IF discount = 0 THEN [i \in DOMAIN sub |-> 0]
  ELSE LET floors   == [i \in DOMAIN sub |-> FloorShare(sub, discount, i)]
           left     == discount - SumFunction(floors)
           place(i) == Cardinality({j \in DOMAIN sub : GoesFirst(sub, discount, j, i)})
       IN  [i \in DOMAIN sub |-> floors[i] + IF place(i) < left THEN 1 ELSE 0]

(* The check behind it: every share is an amount, and no larger than its line. *)
SharesFit(sub, discount) ==
  \A i \in DOMAIN sub : Shares(sub, discount)[i] \in 0..sub[i]

-----------------------------------------------------------------------------
(* calculateOrderItemLine: quantity times price, less the discount, and tax.  *)
PricedLine(item, qty, price, discount) ==
  LET sub == qty * price
      net == sub - discount
      tax == TaxOf(net, item.rate, item.inclusive)
  IN  [qty |-> qty, price |-> price, disc |-> discount, sub |-> sub, tax |-> tax,
       total |-> IF item.inclusive THEN net ELSE net + tax]

(* What is left of a line nothing is left of; it keeps its price.             *)
EmptyLine(price) ==
  [qty |-> 0, price |-> price, disc |-> 0, sub |-> 0, tax |-> 0, total |-> 0]

(* calculateOrderTotals: the sums over the lines, each rounded on its own.    *)
Totals(lines) ==
  LET sum(f(_)) == SumFunction([i \in DOMAIN lines |-> f(lines[i])])
  IN  [sub |-> sum(LAMBDA l : l.sub), disc |-> sum(LAMBDA l : l.disc),
       taxable |-> sum(LAMBDA l : l.total - l.tax),
       cgst |-> sum(LAMBDA l : Cgst(l.tax)), sgst |-> sum(LAMBDA l : Sgst(l.tax)),
       tax |-> sum(LAMBDA l : l.tax), grand |-> sum(LAMBDA l : l.total)]
=============================================================================
