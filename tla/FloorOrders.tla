---------------------------- MODULE FloorOrders ----------------------------
(***************************************************************************)
(* The orders of the floor (floor-orders.service.ts): taken at a table or  *)
(* for a customer's open tab, sent to the kitchen with their stock         *)
(* reserved, prepared, cancelled, or charged through the sale of           *)
(* Inventory.tla; and the accounts of the tables, with their payments.     *)
(* Only the reservation and the sale run in transactions: each operation   *)
(* reads its order, decides, and writes it by id.                          *)
(* chargedInvoiceId references invoices(id): the sentinel -1 with which    *)
(* closeTableAccount and chargeCustomerOpenTab claim orders has no invoice *)
(* to refer to, so the claim of any order is an error of the database.     *)
(* An order has one product, at the price of one cent.                     *)
(***************************************************************************)
EXTENDS Inventory

CONSTANTS
  Orders, Accounts, Tables,
  Modes,        \* how an order may be taken: INMEDIATO or CUENTA_ABIERTA, or a table of Tables
  Amounts       \* amounts a payment of a table may have

ASSUME FloorAssumption ==
  /\ Modes \subseteq {"INMEDIATO", "CUENTA_ABIERTA"} \cup Tables
  /\ Amounts \subseteq Nat \ {0}
  /\ None \notin Orders \cup Accounts \cup Tables

VARIABLES
  order,      \* floor_orders
  account,    \* floor_table_accounts: the table and the openKey
  paid        \* sum of the floor_table_payments of each account

floorVars == <<order, account, paid>>
vars == <<inventoryVars, req, floorVars>>

Active == {"SENT", "IN_PREP", "READY"}
Statuses == Active \cup {"none", "DRAFT", "CHARGED", "CANCELLED"}

Steps == {"idle", "saleCommit", "void", "outflow", "adjust", "account", "insert", "sendRead",
          "reserve", "reserveWrite", "status", "cancel", "chargeSale", "chargeMark", "pay",
          "claim", "claimOrders", "unclaim", "claimTab"}

OrderRow == [status : Statuses, product : Products \cup {None}, qty : Nat,
             account : Accounts \cup {None}, open : BOOLEAN, charged : Invoices \cup {None}]

NoOrder == [status |-> "none", product |-> None, qty |-> 0, account |-> None, open |-> FALSE,
            charged |-> None]

\* key: openKey, "open" for <table>:OPEN and "closing" for <account>:CLOSING.
AccountRow == [table : Tables \cup {None}, key : {"none", "open", "closing"}]

NoAccount == [table |-> None, key |-> "none"]

Init ==
  /\ InitInventory
  /\ req = [r \in Requests |-> Idle]
  /\ order = [o \in Orders |-> NoOrder]
  /\ account = [a \in Accounts |-> NoAccount]
  /\ paid = [a \in Accounts |-> 0]

TypeOK ==
  /\ stock \in [Products -> Int]
  /\ reserved \in [Products -> Int]
  /\ invoice \in [Invoices -> InvoiceRow]
  /\ consumed \in [Products -> Nat]
  /\ received \in [Products -> Nat]
  /\ order \in [Orders -> OrderRow]
  /\ account \in [Accounts -> AccountRow]
  /\ paid \in [Accounts -> Nat]
  /\ \A r \in Requests : req[r].pc \in Steps

Exists(o) == order[o].status # "none"

OrdersOf(a) == {o \in Orders : order[o].account = a}

Total(orders) == MapThenSumSet(LAMBDA o : order[o].qty, orders)

-----------------------------------------------------------------------------
(* create *)

\* Accounts with status OPEN of a table: no account is ever closed.
OpenAccounts(t) == {a \in Accounts : account[a].table = t}

\* sendNow: create goes on to send its order.
Created(r, o, now) ==
  IF now THEN Become(r, [Idle EXCEPT !.pc = "sendRead", !.subject = o]) ELSE Finish(r)

\* An order without a table; a customer's tab stays open.
TakeOrder(r, o, mode, p, qty, now) ==
  /\ Arrives(r, "take")
  /\ ~Exists(o)
  /\ mode \notin Tables
  /\ order' = [order EXCEPT ![o] = [NoOrder EXCEPT !.status = "DRAFT", !.product = p,
                                    !.qty = qty, !.open = mode = "CUENTA_ABIERTA"]]
  /\ Created(r, o, now)
  /\ UNCHANGED <<inventoryVars, account, paid>>

\* An order at a table looks for the table's open account.
BeginTable(r, t, p, qty) ==
  /\ Arrives(r, "take")
  /\ LET q == [Idle EXCEPT !.product = p, !.qty = qty] IN
     IF OpenAccounts(t) = {}
     THEN Become(r, [q EXCEPT !.pc = "account", !.subject = t])
     ELSE \E a \in OpenAccounts(t) : Become(r, [q EXCEPT !.pc = "insert", !.subject = a])
  /\ UNCHANGED <<inventoryVars, floorVars>>

\* openKey is unique: one account holds <table>:OPEN.
KeyFree(t) == \A a \in Accounts : ~(account[a].table = t /\ account[a].key = "open")

\* There was none: one is opened, unless another order has opened it meanwhile.
OpenAccount(r) ==
  LET t == req[r].subject IN
  /\ At(r, "account")
  /\ \/ /\ KeyFree(t)
        /\ \E a \in Accounts :
             /\ account[a].key = "none"
             /\ account' = [account EXCEPT ![a] = [table |-> t, key |-> "open"]]
             /\ Become(r, [req[r] EXCEPT !.pc = "insert", !.subject = a])
     \/ ~KeyFree(t) /\ Finish(r) /\ UNCHANGED account
  /\ UNCHANGED <<inventoryVars, order, paid>>

InsertOrder(r, o, now) ==
  /\ At(r, "insert")
  /\ ~Exists(o)
  /\ order' = [order EXCEPT ![o] = [NoOrder EXCEPT !.status = "DRAFT", !.product = req[r].product,
                                    !.qty = req[r].qty, !.account = req[r].subject, !.open = TRUE]]
  /\ Created(r, o, now)
  /\ UNCHANGED <<inventoryVars, account, paid>>

-----------------------------------------------------------------------------
(* send, updateStatus, cancel *)

\* Mutant of Sendable: what is in the kitchen can be sent again.
SendableAgain(o) == order[o].status \in Active \cup {"DRAFT"}

Sendable(o) == order[o].status = "DRAFT"

AvailableStock(p) == Max({0, stock[p] - reserved[p]})

Fits(o) == AvailableStock(order[o].product) >= order[o].qty

BeginSend(r, o) ==
  /\ Arrives(r, "send")
  /\ Sendable(o) /\ Fits(o)
  /\ Become(r, [Idle EXCEPT !.pc = "reserve", !.subject = o])
  /\ UNCHANGED <<inventoryVars, floorVars>>

SendCreated(r) ==
  LET o == req[r].subject IN
  /\ At(r, "sendRead")
  /\ IF Sendable(o) /\ Fits(o) THEN Goto(r, "reserve") ELSE Finish(r)
  /\ UNCHANGED <<inventoryVars, floorVars>>

\* The transaction looks at the stock again, and never at the status; it locks nothing.
Reserve(r) ==
  /\ At(r, "reserve")
  /\ IF Fits(req[r].subject) THEN Goto(r, "reserveWrite") ELSE Finish(r)
  /\ UNCHANGED <<inventoryVars, floorVars>>

\* Its writes: the increment is unconditional.
ReserveWrite(r) ==
  LET o == req[r].subject IN
  /\ At(r, "reserveWrite")
  /\ reserved' = [reserved EXCEPT ![order[o].product] = @ + order[o].qty]
  /\ order' = [order EXCEPT ![o].status = "SENT"]
  /\ Finish(r)
  /\ UNCHANGED <<stock, invoice, consumed, received, account, paid>>

\* Statuses from which the kitchen may move an order to another.
From(status) == IF status = "IN_PREP" THEN {"SENT", "IN_PREP"} ELSE Active

BeginStatus(r, o, status) ==
  /\ Arrives(r, "status")
  /\ order[o].status \in From(status)
  /\ Become(r, [Idle EXCEPT !.pc = "status", !.subject = o, !.was = status])
  /\ UNCHANGED <<inventoryVars, floorVars>>

WriteStatus(r) ==
  /\ At(r, "status")
  /\ order' = [order EXCEPT ![req[r].subject].status = req[r].was]
  /\ Finish(r)
  /\ UNCHANGED <<inventoryVars, account, paid>>

BeginCancel(r, o) ==
  /\ Arrives(r, "cancel")
  /\ order[o].status \in Active \cup {"DRAFT"}
  /\ Become(r, [Idle EXCEPT !.pc = "cancel", !.subject = o, !.was = order[o].status])
  /\ UNCHANGED <<inventoryVars, floorVars>>

\* Mutant of HeldStock: an order in the kitchen gives nothing back.
HeldUntilPrep(status) == status = "SENT"

\* Does an order with this status have its units reserved?
HeldStock(status) == status \in Active

\* The release follows the status that was read, and reservedStock is kept above zero.
Cancel(r) ==
  LET o == req[r].subject
      p == order[o].product IN
  /\ At(r, "cancel")
  /\ reserved' = IF HeldStock(req[r].was)
                 THEN [reserved EXCEPT ![p] = Max({0, @ - order[o].qty})]
                 ELSE reserved
  /\ order' = [order EXCEPT ![o].status = "CANCELLED"]
  /\ Finish(r)
  /\ UNCHANGED <<stock, invoice, consumed, received, account, paid>>

-----------------------------------------------------------------------------
(* charge *)

Chargeable(o) == order[o].status \in Active /\ order[o].charged = None /\ ~order[o].open

\* The order, and the stock of its sale, are read; its own reservation counts as available.
BeginCharge(r, o) ==
  LET p == order[o].product
      qty == order[o].qty IN
  /\ Arrives(r, "charge")
  /\ Chargeable(o)
  /\ LinesCovered(p, "plain", qty, qty)
  /\ Become(r, [Idle EXCEPT !.pc = "chargeSale", !.subject = o, !.product = p, !.qty = qty,
                            !.lines = 1, !.released = qty])
  /\ UNCHANGED <<inventoryVars, floorVars>>

\* sold: the invoice of the charge, kept in the request until the order is marked.
ChargeSale(r, i) ==
  /\ At(r, "chargeSale")
  /\ SellAs(req[r], i)
  /\ Become(r, [req[r] EXCEPT !.pc = "chargeMark", !.sold = i])
  /\ UNCHANGED floorVars

\* Mutant of ChargeMark: the invoice is not written in the order.
MarkOnly(r) ==
  /\ At(r, "chargeMark")
  /\ order' = [order EXCEPT ![req[r].subject].status = "CHARGED"]
  /\ Finish(r)
  /\ UNCHANGED <<inventoryVars, account, paid>>

ChargeMark(r) ==
  /\ At(r, "chargeMark")
  /\ order' = [order EXCEPT ![req[r].subject] =
       [@ EXCEPT !.status = "CHARGED", !.charged = req[r].sold]]
  /\ Finish(r)
  /\ UNCHANGED <<inventoryVars, account, paid>>

-----------------------------------------------------------------------------
(* recordTablePayment, closeTableAccount, chargeCustomerOpenTab *)

\* 0.01, in cents
Tolerance == 1

\* All orders of the account count, those cancelled too.
Balance(a) == Total(OrdersOf(a)) - paid[a]

BeginPayment(r, a, amount) ==
  /\ Arrives(r, "pay")
  /\ account[a].key # "none"
  /\ amount <= Balance(a) + Tolerance
  /\ Become(r, [Idle EXCEPT !.pc = "pay", !.subject = a, !.qty = amount])
  /\ UNCHANGED <<inventoryVars, floorVars>>

Pay(r) ==
  /\ At(r, "pay")
  /\ paid' = [paid EXCEPT ![req[r].subject] = @ + req[r].qty]
  /\ Finish(r)
  /\ UNCHANGED <<inventoryVars, order, account>>

Closable(a) == {o \in OrdersOf(a) : order[o].status \in Active /\ order[o].charged = None}

\* The payments of the request complete the saved ones to the total of the active orders.
BeginClose(r, a) ==
  /\ Arrives(r, "close")
  /\ Closable(a) # {}
  /\ paid[a] <= Total(Closable(a)) + Tolerance
  /\ Become(r, [Idle EXCEPT !.pc = "claim", !.subject = a])
  /\ UNCHANGED <<inventoryVars, floorVars>>

ClaimAccount(r) ==
  LET a == req[r].subject IN
  /\ At(r, "claim")
  /\ \/ /\ account[a].key = "open"
        /\ account' = [account EXCEPT ![a].key = "closing"]
        /\ Goto(r, "claimOrders")
     \/ account[a].key # "open" /\ Finish(r) /\ UNCHANGED account
  /\ UNCHANGED <<inventoryVars, order, paid>>

\* Orders still as they were read refuse the sentinel; otherwise their count is short.
ClaimOrders(r) ==
  /\ At(r, "claimOrders")
  /\ Goto(r, "unclaim")
  /\ UNCHANGED <<inventoryVars, floorVars>>

\* Mutant of Unclaimed: the catch frees the orders only.
StillClaimed(a) == account

\* The key is unique: it stays aside when an order has opened another account meanwhile.
Unclaimed(a) ==
  [account EXCEPT ![a].key = IF @ = "closing" /\ KeyFree(account[a].table) THEN "open" ELSE @]

\* The catch: no order has the sentinel; the account gets its key back.
Unclaim(r) ==
  /\ At(r, "unclaim")
  /\ account' = Unclaimed(req[r].subject)
  /\ Finish(r)
  /\ UNCHANGED <<inventoryVars, order, paid>>

InTab(o) == order[o].open /\ order[o].status \in Active /\ order[o].charged = None

BeginTab(r) ==
  /\ Arrives(r, "tab")
  /\ \E o \in Orders : InTab(o)
  /\ Become(r, [Idle EXCEPT !.pc = "claimTab"])
  /\ UNCHANGED <<inventoryVars, floorVars>>

\* The claim of the tab is refused by the database, or finds fewer orders than were read.
ClaimTab(r) ==
  /\ At(r, "claimTab")
  /\ Finish(r)
  /\ UNCHANGED <<inventoryVars, floorVars>>

-----------------------------------------------------------------------------
\* The process dies between two statements, or one of them throws, where the instance lets
\* requests fail: what was committed stays, and nothing is caught.
Fail(r) ==
  /\ "failure" \in Operations
  /\ ~At(r, "idle")
  /\ Finish(r)
  /\ UNCHANGED <<inventoryVars, floorVars>>

FloorNext(r) ==
  \/ \E o \in Orders, mode \in Modes, p \in Products, qty \in Quantities :
       \E now \in BOOLEAN : TakeOrder(r, o, mode, p, qty, now)
  \/ \E t \in Tables \cap Modes, p \in Products, qty \in Quantities : BeginTable(r, t, p, qty)
  \/ OpenAccount(r)
  \/ \E o \in Orders : \/ \E now \in BOOLEAN : InsertOrder(r, o, now)
                       \/ BeginSend(r, o) \/ BeginCancel(r, o) \/ BeginCharge(r, o)
  \/ \E o \in Orders, status \in {"IN_PREP", "READY"} : BeginStatus(r, o, status)
  \/ SendCreated(r) \/ Reserve(r) \/ ReserveWrite(r) \/ WriteStatus(r) \/ Cancel(r) \/ ChargeMark(r)
  \/ \E i \in Invoices : ChargeSale(r, i)
  \/ \E a \in Accounts : BeginClose(r, a) \/ \E amount \in Amounts : BeginPayment(r, a, amount)
  \/ Pay(r) \/ ClaimAccount(r) \/ ClaimOrders(r) \/ Unclaim(r) \/ BeginTab(r) \/ ClaimTab(r)
  \/ Fail(r)

Next == \E r \in Requests : FloorNext(r) \/ (InventoryNext(r) /\ UNCHANGED floorVars)

Spec == Init /\ [][Next]_vars

-----------------------------------------------------------------------------
(* Properties of any interleaving. *)

\* The stock of a product is what it was at the start, plus what was received, minus what was
\* consumed and what its standing invoices took: reservations, charges, sales, imports,
\* consumption and voids lose and create no unit, until the void of a variant or of an imported
\* bundle, which does.  Adjustments write a level read before, so they keep this only when
\* nothing runs between their two statements.
StockConserved ==
  \A p \in Products : ~VoidedUnevenly(p) =>
    stock[p] = Opening + received[p] - consumed[p] - SoldUnits(p)

\* A charged order points to an invoice of its product and quantity, and to no other order's:
\* charge marks the order after the sale committed, whatever else wrote its status meanwhile.
ChargedHasItsInvoice ==
  /\ \A o \in Orders : order[o].status = "CHARGED" => order[o].charged # None
  /\ \A o \in Orders : order[o].charged # None =>
       LET i == order[o].charged IN
       i \in Placed /\ invoice[i].product = order[o].product /\ invoice[i].qty = order[o].qty
  /\ \A o, q \in Orders : order[o].charged = order[q].charged /\ o # q => order[o].charged = None

-----------------------------------------------------------------------------
(* Properties of requests that do not overlap. *)

Quiet == \A r \in Requests : At(r, "idle")

\* A table has one open account and, once nobody is closing it, the account holds its key:
\* the lookup by status, the unique openKey and the catch of closeTableAccount.
AccountsSound ==
  Quiet => \A a \in Accounts :
    /\ account[a].key # "closing"
    /\ \A b \in Accounts \ {a} : account[a].table = account[b].table => account[a].table = None

\* reservedStock is what the orders in the kitchen hold: send reserves it, cancel and the
\* sale of charge release it, whole.
ReservationsMatch ==
  Quiet => \A p \in Products :
    reserved[p] = Total({o \in Orders : order[o].product = p /\ order[o].status \in Active})

\* The counter never sells what an order has reserved.  Four things do take reserved units:
\* consumption and corrections of the stock, the sales of an import, which look at no
\* reservation, and a sale that lists its product twice.  A reservation is never short by more
\* than what the first three took, nor short at all where none of the four happened.
ReservedCovered ==
  \A p \in Products :
    ~SoldInTwoLines(p) => reserved[p] <= Max({0, stock[p] + consumed[p] + ImportedUnits(p)})

-----------------------------------------------------------------------------
(* The operations as single steps of the orders. *)

\* The sale of the order has committed, and the order is not marked yet.
Marking(o) == {r \in Requests : At(r, "chargeMark") /\ req[r].subject = o}

\* An order counts as charged from its sale on.
Slip(o) ==
  [status |-> IF Marking(o) = {} THEN order[o].status ELSE "CHARGED",
   product |-> order[o].product, qty |-> order[o].qty,
   bill |-> IF Marking(o) = {} THEN order[o].charged
            ELSE req[CHOOSE r \in Marking(o) : TRUE].sold]

Service == INSTANCE OrderLife
           WITH Orders <- Orders, Products <- Products, Quantities <- Quantities,
                Invoices <- Invoices, Opening <- Opening, None <- None,
                slip <- [o \in Orders |-> Slip(o)], held <- reserved, shelf <- stock

\* The statements of an operation amount to one step of the order, its reservation and the
\* stock: it holds its units in the kitchen only, and is billed once or cancelled, for good.
ServiceKept == Service!Spec

=============================================================================
