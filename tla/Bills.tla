-------------------------------- MODULE Bills --------------------------------
(* The bill of a table in money: the lines of its order, priced when items    *)
(* are ordered and again when some are cancelled, with the discounts that     *)
(* come with a submission, and its payments.  Each operation is one step      *)
(* (DineIn takes the handlers apart, and counts items where this module       *)
(* prices them).  Lines have one item each: the POS adds to the line an item  *)
(* has.                                                                       *)
EXTENDS Settlement, Pricing

CONSTANTS
  Items,        \* numbers of the items on the menu, the order of lines
  ItemRate,     \* ... the tax rate of each
  TaxInside,    \* ... those whose price includes it
  Prices,       \* prices an item may have on the menu
  Discounts,    \* discounts a submission may carry, the absent one included
  MaxQty        \* bound on the quantity of an item in a submission

ASSUME MenuIsPriced ==
  /\ Items \subseteq Nat /\ IsFiniteSet(Items) /\ TaxInside \subseteq Items
  /\ ItemRate \in [Items -> 0..100]
  /\ Prices \subseteq Nat /\ MaxQty \in Nat

ASSUME DiscountsAreSpecs ==
  Discounts \subseteq [kind : {"none"}, value : {0}]
                 \union [kind : {"percentage"}, value : 0..100]
                 \union [kind : {"fixed"}, value : Nat]

VARIABLES
  menu,         \* restaurants/R/items: the price of each item
  lines,        \* the items array of each order, by item
  sums          \* the totals each order keeps beside it

billVars == <<menu, lines, sums>>

Line == [qty : Nat, price : Nat, disc : Nat, sub : Nat, tax : Nat, total : Nat]

LinesOK == \A o \in Orders : DOMAIN lines[o] \subseteq Items
                             /\ \A i \in DOMAIN lines[o] : lines[o][i] \in Line

NoLines == [i \in {} |-> EmptyLine(0)]

BillsInit ==
  /\ SettleInit
  /\ menu \in [Items -> Prices]
  /\ lines = [o \in Orders |-> NoLines]
  /\ sums = [o \in Orders |-> Totals(NoLines)]

TaxedAs(i) == [rate |-> ItemRate[i], inclusive |-> i \in TaxInside]

-----------------------------------------------------------------------------
(* A cart asks for some items, each at the price it has on the menu, or, when *)
(* it is on the bill already, at the price it has there.                      *)
Carts == UNION {[want -> 1..MaxQty] : want \in SUBSET Items \ {{}}}

OnMenu(cart) == [i \in DOMAIN cart |-> [qty |-> cart[i], price |-> menu[i]]]

MergedOver(old, cart) ==               \* a bug: the quantity there is replaced
  [i \in DOMAIN old \union DOMAIN cart |->
     [qty |-> IF i \in DOMAIN cart THEN cart[i] ELSE old[i].qty,
      price |-> IF i \in DOMAIN old THEN old[i].price ELSE menu[i]]]

Merged(old, cart) ==
  [i \in DOMAIN old \union DOMAIN cart |->
     IF i \in DOMAIN old
     THEN [qty |-> old[i].qty + (IF i \in DOMAIN cart THEN cart[i] ELSE 0),
           price |-> old[i].price]
     ELSE [qty |-> cart[i], price |-> menu[i]]]

Subtotals(want) == [i \in DOMAIN want |-> want[i].qty * want[i].price]

(* What calculateOrderTotals throws for: a line without quantity, a discount  *)
(* larger than the bill, or a share of it larger than a line.                 *)
CanPrice(want, spec) ==
  LET sub == Subtotals(want) IN
  /\ \A i \in DOMAIN want : want[i].qty > 0
  /\ Allowed(spec, SumFunction(sub))
  /\ SharesFit(sub, AmountOf(spec, SumFunction(sub)))

(* The lines of a bill with one discount over all of them.                    *)
PricedLines(want, spec) ==
  LET sub    == Subtotals(want)
      shares == Shares(sub, AmountOf(spec, SumFunction(sub)))
  IN  [i \in DOMAIN want |-> PricedLine(TaxedAs(i), want[i].qty, want[i].price, shares[i])]

(* submitServerPosOrder without a bill it could add to.                       *)
PlaceBill(o, cart, spec, st) ==
  /\ CanPrice(OnMenu(cart), spec)
  /\ \E new \in {PricedLines(OnMenu(cart), spec)} :
     /\ Totals(new).grand <= MaxTotal
     /\ PlaceOrder(o, Totals(new).grand, st)
     /\ lines' = [lines EXCEPT ![o] = new]
     /\ sums' = [sums EXCEPT ![o] = Totals(new)]
  /\ UNCHANGED menu

(* ... and with one.  The cart is priced alone first.  The lines merged with  *)
(* it lose the discount they had: the order has no field that keeps it.  The  *)
(* discount that comes with the cart is taken off the whole bill.             *)
ExtendBill(o, cart, spec) ==
  /\ Placed(o) /\ order[o].status \notin TerminalOrder
  /\ spec.kind # "none" => LaterDiscounts
  /\ CanPrice(OnMenu(cart), spec)
  /\ CanPrice(Merged(lines[o], cart), spec)
  /\ \E new \in {PricedLines(Merged(lines[o], cart), spec)} :
     /\ Totals(new).grand <= MaxTotal
     /\ order' = [order EXCEPT ![o] = Extended(@, Totals(new).grand)]
     /\ lines' = [lines EXCEPT ![o] = new]
     /\ sums' = [sums EXCEPT ![o] = Totals(new)]
  /\ UNCHANGED <<payment, payKey, writtenOff, menu>>

-----------------------------------------------------------------------------
(* partiallyCancelKOTItemsWithAdmin, partiallyCancelOrderItems: a line loses  *)
(* some of its quantity and the discount that goes with it.                   *)
KeptNone(l, left) == 0                 \* a bug: the discount is forgotten

KeptDiscount(l, left) == HalfUp(l.disc * left, l.qty)

CutLine(i, l, n) ==
  LET left == l.qty - n IN
  IF left = 0 THEN EmptyLine(l.price)
  ELSE PricedLine(TaxedAs(i), left, l.price, KeptDiscount(l, left))

CutLines(old, cut) ==
  [i \in DOMAIN old |-> IF i \in DOMAIN cut THEN CutLine(i, old[i], cut[i]) ELSE old[i]]

(* The totals come from the lines that are left, priced once more.            *)
RepricedAlone(all) ==                  \* a bug: the discounts of the lines are forgotten
  [i \in {j \in DOMAIN all : all[j].qty > 0} |->
     PricedLine(TaxedAs(i), all[i].qty, all[i].price, 0)]

PricedAgain(all) ==
  [i \in {j \in DOMAIN all : all[j].qty > 0} |->
     PricedLine(TaxedAs(i), all[i].qty, all[i].price, all[i].disc)]

Cuts(o) == {cut \in Carts : /\ DOMAIN cut \subseteq DOMAIN lines[o]
                            /\ \A i \in DOMAIN cut : cut[i] <= lines[o][i].qty}

CancelItems(o, cut) ==
  /\ Placed(o) /\ order[o].status \notin TerminalOrder
  /\ \E left \in {CutLines(lines[o], cut)} : \E new \in {Totals(PricedAgain(left))} :
     /\ CoversPaid(order[o], new.grand)
     /\ order' = [order EXCEPT ![o] =
                    Repriced(@, new.grand, IF DOMAIN PricedAgain(left) = {}
                                           THEN "cancelled" ELSE @.status)]
     /\ lines' = [lines EXCEPT ![o] = left]
     /\ sums' = [sums EXCEPT ![o] = new]
  /\ UNCHANGED <<payment, payKey, writtenOff, menu>>

-----------------------------------------------------------------------------
(* The menu is edited; bills keep the prices they have.                       *)
EditPrice(i, p) ==
  /\ menu[i] # p
  /\ menu' = [menu EXCEPT ![i] = p]
  /\ UNCHANGED <<settleVars, lines, sums>>

(* The operations of Settlement on the order and its payments.  What is paid  *)
(* at once is all that is due, or one unit of it.                             *)
PayBill ==
  \/ \E o \in Orders, st \in PaymentStatus \ {"refunded"},
        k \in PayKeys \union {NoPayKey}, p \in Payments :
       \E a \in {1, order[o].due} \ {0} : RecordPayment(o, a, st, k, p)
  \/ \E p \in Payments, st \in PaymentStatus : UpdatePaymentStatus(p, st)
  \/ \E p \in Payments : RefundPayment(p)

EndBill == \E o \in Orders : CancelOrderWrite(o) \/ CompleteOrderWrite(o)

BillsNext ==
  \/ \E o \in Orders, cart \in Carts, spec \in Discounts :
       PlaceBill(o, cart, spec, "sentToKitchen") \/ ExtendBill(o, cart, spec)
  \/ \E o \in Orders : \E cut \in Cuts(o) : CancelItems(o, cut)
  \/ \E i \in Items, p \in Prices : EditPrice(i, p)
  \/ (PayBill \/ EndBill) /\ UNCHANGED billVars

BillsSpec == BillsInit /\ [][BillsNext]_<<settleVars, billVars>>

-----------------------------------------------------------------------------
(* A bill adds up: what it says in total is the sum of its lines, of what was *)
(* ordered less the discounts, and the tax that is not inside the prices      *)
(* ("Order grand total reconciliation", orderCalculationService); also after  *)
(* submissions and cancellations that each rounded some of its lines.         *)
BillAddsUp ==
  \A o \in Orders :
     LET s     == sums[o]
         of(f) == SumFunction(f)
         onTop == of([i \in DOMAIN lines[o] |->
                        IF i \in TaxInside THEN 0 ELSE lines[o][i].tax])
     IN  /\ s.grand = of([i \in DOMAIN lines[o] |-> lines[o][i].total])
         /\ s.grand = s.sub - s.disc + onTop
         /\ s.taxable + s.cgst + s.sgst = s.grand
         /\ Placed(o) => s.grand = order[o].grand

(* "Sum of line discounts === totalDiscountMinor. Each line discount <= line  *)
(* subtotal. Deterministic, no lost or extra paise" (discountService), and no *)
(* line gets a whole unit more or less than its share: for the lines of every *)
(* bill there is, and every discount of it.                                   *)
AllocationExact ==
  \A o \in Orders :
     LET sub   == [i \in DOMAIN lines[o] |-> lines[o][i].sub]
         total == SumFunction(sub)
     IN  \A d \in 1..total :
           \E share \in {Shares(sub, d)} :
           /\ SumFunction(share) = d
           /\ \A i \in DOMAIN sub :
                /\ share[i] <= sub[i]
                /\ share[i] * total < sub[i] * d + total
                /\ sub[i] * d < share[i] * total + total

(* Cancelling items never makes a bill, or a line of it, dearer, though the   *)
(* discount a line keeps and its tax are rounded anew.                        *)
CancellingNeverRaises ==
  [][\A o \in Orders : \A i \in DOMAIN lines[o] :
       lines'[o][i].qty < lines[o][i].qty =>
         lines'[o][i].total <= lines[o][i].total /\ sums'[o].grand <= sums[o].grand
    ]_<<settleVars, billVars>>

(* The priced bill keeps the ledger: each of its steps is one of Settlement,  *)
(* where a submission makes the total no smaller, a cancellation no larger.   *)
PricedBillsKeepLedger == SettleInit /\ [][UNCHANGED settleVars \/ SettleNext]_settleVars

(* "existingSessionOrder.orderDiscount": adding to a bill leaves its earlier  *)
(* discount in place.  It does not: nothing stores it.                        *)
EarlierDiscountKept ==
  [][\A o \in Orders : \A i \in DOMAIN lines[o] :
       lines'[o][i].qty >= lines[o][i].qty => lines'[o][i].disc >= lines[o][i].disc
    ]_<<settleVars, billVars>>

(* An open bill takes further items.  It does not, once all of a line was     *)
(* cancelled: the line stays, and cannot be priced.                           *)
OpenBillExtends ==
  \A o \in Orders : Placed(o) /\ order[o].status \notin TerminalOrder =>
     \A i \in Items : CanPrice(Merged(lines[o], [j \in {i} |-> 1]), [kind |-> "none", value |-> 0])
=============================================================================
