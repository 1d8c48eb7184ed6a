------------------------- MODULE CreditSales_proofs -------------------------
(***************************************************************************)
(* The credit accounts: types, the ceiling of a balance and the order of   *)
(* charge and collection task for any number of customers, invoices and    *)
(* concurrent requests that may fail anywhere; and, for one request at a   *)
(* time, that every account is a CreditAccount.                            *)
(***************************************************************************)
EXTENDS CreditSales, TLAPS

\* The steps at which a request names a customer, an invoice, the amount of a sale.
CustomerSteps == {"saleCheck", "saleOpen", "insert", "charge", "chargeWrite", "chargeRow",
                  "task", "void", "reverse", "reverseWrite", "reverseRow", "payWrite",
                  "payRow", "limitWrite"}
InvoiceSteps == {"charge", "chargeWrite", "chargeRow", "task", "void", "reverse",
                 "reverseWrite", "reverseRow", "close", "closeSum", "closeInvoice",
                 "closeTask", "adjustWrite", "markWrite"}
SaleSteps == {"saleCheck", "saleOpen", "insert", "charge", "chargeWrite", "chargeRow"}

\* Some limit that was granted covers n.
Capped(n) == \E limit \in Limits \cup {DefaultLimit} : n <= limit

\* What the locals of a request satisfy at its step.
Good(q) ==
  /\ q.pc \in CustomerSteps => q.customer \in Customers
  /\ q.pc \in InvoiceSteps => q.invoice \in Invoices
  /\ q.pc \in SaleSteps => q.amount > 0
  /\ q.pc = "limitWrite" => q.amount \in Limits
  /\ q.pc = "payWrite" => q.amount <= q.seen
  /\ q.pc = "chargeWrite" => Capped(q.seen + q.amount)
  /\ q.pc \in {"payWrite", "reverseWrite"} => Capped(q.seen)

\* The tables.
SharedType ==
  /\ credit \in [Customers -> Account]
  /\ invoice \in [Invoices -> Invoice]
  /\ charged \in [Invoices -> Nat]
  /\ abonado \in [Invoices -> Nat]
  /\ reversed \in [Invoices -> Nat]
  /\ ledger \in [Customers -> Int]
  /\ task \in [Invoices -> {"none", "PENDING", "DONE"}]

AccountsCapped == \A c \in Customers : Capped(credit[c].balance) /\ Capped(credit[c].limit)

InvoicesNamed == \A i \in Placed : invoice[i].customer \in Customers

Shared == SharedType /\ AccountsCapped /\ InvoicesNamed /\ TaskHasCharge

\* The invoice of a request is in the table; one about to create its task has recorded
\* the charge.
Linked(q) ==
  /\ q.pc = "task" => charged[q.invoice] > 0
  /\ q.pc \in InvoiceSteps => q.invoice \in Placed

\* No charge is taken back and no invoice leaves the table.
Grown == Placed \subseteq Placed' /\ \A i \in Invoices : charged'[i] >= charged[i]

Requesting == \A r \in Requests : req[r] \in Request /\ Good(req[r]) /\ Linked(req[r])

Inv == Shared /\ req \in [Requests -> Request] /\ Requesting

LEMMA IdleGood == Idle \in Request /\ Good(Idle) /\ Linked(Idle) /\ Idle.pc = "idle"
BY DEF Idle, Request, Steps, Good, Linked, CustomerSteps, InvoiceSteps, SaleSteps

LEMMA DefaultCaps == Capped(0) /\ Capped(DefaultLimit)
BY CreditAssumption DEF Capped

LEMMA InitInv == Init => Inv
<1> SUFFICES ASSUME Init PROVE Inv
  OBVIOUS
<1>1. SharedType
  BY CreditAssumption DEF Init, SharedType, Account, Invoice, NoInvoice
<1>2. AccountsCapped
  BY DefaultCaps DEF Init, AccountsCapped
<1>3. InvoicesNamed /\ TaskHasCharge
  BY DEF Init, InvoicesNamed, TaskHasCharge, Placed, NoInvoice
<1>4. req \in [Requests -> Request] /\ Requesting
  BY IdleGood DEF Init, Requesting
<1> QED
  BY <1>1, <1>2, <1>3, <1>4 DEF Inv, Shared

\* A step of one request keeps the invariant when what it leaves in its locals and in the
\* tables is right, and no charge is taken back.
LEMMA StepKeeps ==
  ASSUME Inv, NEW r \in Requests, NEW q \in Request, Become(r, q), Good(q),
         q.pc = "task" => charged'[q.invoice] > 0,
         q.pc \in InvoiceSteps => q.invoice \in Placed', Shared', Grown
  PROVE  Inv'
<1>1. req' \in [Requests -> Request]
  BY DEF Inv, Become
<1>2. \A s \in Requests : req'[s] \in Request /\ Good(req'[s])
  BY DEF Inv, Become, Requesting
<1>3. ASSUME NEW s \in Requests PROVE Linked(req[s])'
  <2>1. CASE s = r
    <3>1. req'[s] = q
      BY <2>1 DEF Inv, Become
    <3> QED
      BY <3>1 DEF Linked
  <2>2. CASE s # r
    <3>1. req'[s] = req[s] /\ Good(req[s]) /\ Linked(req[s])
      BY <2>2 DEF Inv, Become, Requesting
    <3>2. req[s].pc = "task" => req[s].invoice \in Invoices
      BY <3>1 DEF Good, InvoiceSteps
    <3>3. charged \in [Invoices -> Nat] /\ charged' \in [Invoices -> Nat]
      BY DEF Inv, Shared, SharedType
    <3> QED
      BY <3>1, <3>2, <3>3 DEF Linked, Grown
  <2> QED
    BY <2>1, <2>2
<1> QED
  BY <1>1, <1>2, <1>3 DEF Inv, Requesting

\* A request that only reads leaves the tables as they are.
LEMMA ReadKeeps ==
  ASSUME Inv, NEW r \in Requests, NEW q \in Request, Become(r, q), Good(q), Linked(q),
         UNCHANGED <<credit, invoice, rows, task>>
  PROVE  Inv'
<1>1. Shared' /\ charged' = charged /\ Placed' = Placed
  BY DEF Inv, rows, Shared, SharedType, AccountsCapped, InvoicesNamed, TaskHasCharge, Placed,
         Linked
<1>2. Grown
  BY <1>1 DEF Inv, Shared, SharedType, Grown
<1> QED
  BY <1>1, <1>2, StepKeeps DEF Linked

\* So does one that finishes.
LEMMA FinishKeeps ==
  ASSUME Inv, NEW r \in Requests, Finish(r), Shared',
         Grown
  PROVE  Inv'
BY IdleGood, StepKeeps DEF Finish, InvoiceSteps

LEMMA FinishReading ==
  ASSUME Inv, NEW r \in Requests, Finish(r), UNCHANGED <<credit, invoice, rows, task>>
  PROVE  Inv'
BY IdleGood, ReadKeeps DEF Finish

\* The tables when only the accounts change.
LEMMA AccountSet ==
  ASSUME Inv, NEW c \in Customers, NEW a \in Account,
         Capped(a.balance), Capped(a.limit),
         credit' = [credit EXCEPT ![c] = a], UNCHANGED <<invoice, rows, task>>
  PROVE  Shared' /\ Grown
<1>1. SharedType' /\ Grown
  BY DEF Inv, Shared, SharedType, Placed, Grown, rows
<1>2. AccountsCapped'
  <2> SUFFICES ASSUME NEW d \in Customers
               PROVE  Capped(credit'[d].balance) /\ Capped(credit'[d].limit)
    BY DEF AccountsCapped, Capped
  <2>1. credit'[d] = IF d = c THEN a ELSE credit[d]
    BY DEF Inv, Shared, SharedType
  <2> QED
    BY <2>1 DEF Inv, Shared, AccountsCapped
<1>3. InvoicesNamed' /\ TaskHasCharge'
  BY DEF Inv, Shared, InvoicesNamed, TaskHasCharge, Placed, rows
<1> QED
  BY <1>1, <1>2, <1>3 DEF Shared

LEMMA BalanceSet ==
  ASSUME Inv, NEW c \in Customers, NEW n \in Nat, Capped(n), Balance(c, n),
         UNCHANGED <<invoice, rows, task>>
  PROVE  Shared' /\ Grown
<1> DEFINE a == [credit[c] EXCEPT !.balance = n]
<1>1. credit[c] \in Account /\ Capped(credit[c].limit)
  BY DEF Inv, Shared, SharedType, AccountsCapped
<1>2. a \in Account /\ a.balance = n /\ a.limit = credit[c].limit
  BY <1>1 DEF Account
<1>3. credit' = [credit EXCEPT ![c] = a]
  BY DEF Balance
<1> HIDE DEF a
<1> QED
  BY <1>1, <1>2, <1>3, AccountSet

\* The tables when one invoice changes and keeps its customer.
LEMMA InvoiceSet ==
  ASSUME Inv, NEW i \in Invoices, NEW v \in Invoice,
         v.status # "none", v.customer \in Customers,
         invoice' = [invoice EXCEPT ![i] = v], UNCHANGED <<credit, rows, task>>
  PROVE  Shared' /\ Grown
<1>1. SharedType'
  BY DEF Inv, Shared, SharedType, rows
<1>2. AccountsCapped' /\ TaskHasCharge'
  BY DEF Inv, Shared, AccountsCapped, TaskHasCharge, rows
<1>3. InvoicesNamed'
  BY DEF Inv, Shared, SharedType, InvoicesNamed, Placed
<1>4. Grown
  BY DEF Inv, Shared, SharedType, Placed, Grown, rows
<1> QED
  BY <1>1, <1>2, <1>3, <1>4 DEF Shared

LEMMA LocalOK ==
  ASSUME Inv, NEW r \in Requests
  PROVE  req[r] \in Request /\ Good(req[r]) /\ Linked(req[r])
BY DEF Inv, Requesting

\* The locals after Goto.
LEMMA Moved ==
  ASSUME Inv, NEW r \in Requests, NEW step \in Steps, NEW q,
         q = [req[r] EXCEPT !.pc = step]
  PROVE  /\ q \in Request /\ q.pc = step
         /\ q.customer = req[r].customer /\ q.invoice = req[r].invoice
         /\ q.amount = req[r].amount /\ q.seen = req[r].seen
BY LocalOK DEF Request

LEMMA CustomerOf ==
  ASSUME Inv, NEW r \in Requests, req[r].pc \in CustomerSteps
  PROVE  req[r].customer \in Customers /\ credit[req[r].customer] \in Account
BY LocalOK DEF Good, Inv, Shared, SharedType

LEMMA InvoiceOf ==
  ASSUME Inv, NEW r \in Requests, req[r].pc \in InvoiceSteps
  PROVE  req[r].invoice \in Invoices /\ invoice[req[r].invoice] \in Invoice
BY LocalOK DEF Good, Inv, Shared, SharedType

\* Goto at a step that only reads.
LEMMA GotoReading ==
  ASSUME Inv, NEW r \in Requests, NEW step \in Steps, Goto(r, step),
         Good([req[r] EXCEPT !.pc = step]), step # "task",
         step \in InvoiceSteps => req[r].pc \in InvoiceSteps,
         UNCHANGED <<credit, invoice, rows, task>>
  PROVE  Inv'
<1> DEFINE q == [req[r] EXCEPT !.pc = step]
<1>1. q \in Request /\ q.pc = step /\ q.invoice = req[r].invoice
  BY Moved
<1>2. Become(r, q) /\ Good(q) /\ Linked(q)
  BY <1>1, LocalOK DEF Goto, Linked
<1> HIDE DEF q
<1> QED
  BY <1>1, <1>2, ReadKeeps

-----------------------------------------------------------------------------
(* The beginnings. *)

LEMMA BeginSaleKeeps ==
  ASSUME Inv, NEW r \in Requests, NEW c \in Customers, NEW total \in Totals, NEW m \in Methods,
         BeginSale(r, c, total, m)
  PROVE  Inv'
<1> DEFINE q == [Idle EXCEPT !.pc = "saleCheck", !.customer = c, !.amount = total, !.method = m]
<1>1. q \in Request
  BY CreditAssumption DEF Idle, Request, Steps
<1>2. Good(q) /\ Linked(q)
  BY CreditAssumption DEF Idle, Good, Linked, CustomerSteps, InvoiceSteps, SaleSteps
<1>3. Become(r, q) /\ UNCHANGED <<credit, invoice, rows, task>>
  BY DEF BeginSale
<1> HIDE DEF q
<1> QED
  BY <1>1, <1>2, <1>3, ReadKeeps

LEMMA BeginVoidKeeps ==
  ASSUME Inv, NEW r \in Requests, NEW i \in Invoices, BeginVoid(r, i)
  PROVE  Inv'
<1> DEFINE q == [Idle EXCEPT !.pc = "void", !.invoice = i, !.customer = invoice[i].customer,
                             !.amount = invoice[i].total, !.reverses = IsCreditSale(i)]
<1>1. invoice[i] \in Invoice /\ invoice[i].customer \in Customers /\ i \in Placed
  BY DEF BeginVoid, Voidable, Inv, Shared, SharedType, InvoicesNamed, Placed
<1>2. q \in Request
  BY <1>1 DEF Idle, Request, Steps, Invoice, IsCreditSale
<1>3. Good(q) /\ Linked(q)
  BY <1>1 DEF Idle, Good, Linked, CustomerSteps, InvoiceSteps, SaleSteps
<1>4. Become(r, q) /\ UNCHANGED <<credit, invoice, rows, task>>
  BY DEF BeginVoid
<1> HIDE DEF q
<1> QED
  BY <1>2, <1>3, <1>4, ReadKeeps

LEMMA BeginPaymentKeeps ==
  ASSUME Inv, NEW r \in Requests, NEW c \in Customers, NEW i \in Invoices \cup {None},
         NEW amount \in 1 .. credit[c].balance, BeginPayment(r, c, amount, i)
  PROVE  Inv'
<1> DEFINE q == [Idle EXCEPT !.pc = "payWrite", !.customer = c, !.invoice = i,
                             !.amount = amount, !.seen = credit[c].balance]
<1>1. credit[c] \in Account /\ Capped(credit[c].balance)
  BY DEF Inv, Shared, SharedType, AccountsCapped
<1>2. credit[c].balance \in Nat /\ amount \in Nat /\ amount <= credit[c].balance
  BY <1>1 DEF Account
<1>3. q \in Request
  BY <1>2 DEF Idle, Request, Steps
<1>4. Good(q) /\ Linked(q)
  BY <1>1, <1>2 DEF Idle, Good, Linked, CustomerSteps, InvoiceSteps, SaleSteps
<1>5. Become(r, q) /\ UNCHANGED <<credit, invoice, rows, task>>
  BY DEF BeginPayment
<1> HIDE DEF q
<1> QED
  BY <1>3, <1>4, <1>5, ReadKeeps

LEMMA BeginLimitKeeps ==
  ASSUME Inv, NEW r \in Requests, NEW c \in Customers, NEW limit \in Limits,
         BeginLimit(r, c, limit)
  PROVE  Inv'
<1> DEFINE q == [Idle EXCEPT !.pc = "limitWrite", !.customer = c, !.amount = limit]
<1>1. q \in Request
  BY CreditAssumption DEF Idle, Request, Steps
<1>2. Good(q) /\ Linked(q)
  BY DEF Idle, Good, Linked, CustomerSteps, InvoiceSteps, SaleSteps
<1>3. Become(r, q) /\ UNCHANGED <<credit, invoice, rows, task>>
  BY DEF BeginLimit
<1> HIDE DEF q
<1> QED
  BY <1>1, <1>2, <1>3, ReadKeeps

LEMMA BeginAdjustKeeps ==
  ASSUME Inv, NEW r \in Requests, NEW i \in Invoices, NEW total \in 0 .. invoice[i].total,
         BeginAdjust(r, i, total)
  PROVE  Inv'
<1> DEFINE q == [Idle EXCEPT !.pc = "adjustWrite", !.invoice = i, !.amount = total]
<1>1. total \in Nat
  BY DEF Inv, Shared, SharedType, Invoice
<1>2. q \in Request
  BY <1>1 DEF Idle, Request, Steps
<1>3. Good(q) /\ Linked(q)
  BY DEF BeginAdjust, Idle, Good, Linked, CustomerSteps, InvoiceSteps, SaleSteps
<1>4. Become(r, q) /\ UNCHANGED <<credit, invoice, rows, task>>
  BY DEF BeginAdjust
<1> HIDE DEF q
<1> QED
  BY <1>2, <1>3, <1>4, ReadKeeps

LEMMA BeginMarkKeeps ==
  ASSUME Inv, NEW r \in Requests, NEW i \in Invoices, BeginMark(r, i)
  PROVE  Inv'
<1> DEFINE q == [Idle EXCEPT !.pc = "markWrite", !.invoice = i]
<1>1. q \in Request
  BY DEF Idle, Request, Steps
<1>2. Good(q) /\ Linked(q)
  BY DEF BeginMark, Idle, Good, Linked, CustomerSteps, InvoiceSteps, SaleSteps
<1>3. Become(r, q) /\ UNCHANGED <<credit, invoice, rows, task>>
  BY DEF BeginMark
<1> HIDE DEF q
<1> QED
  BY <1>1, <1>2, <1>3, ReadKeeps

LEMMA BeginKeeps == ASSUME Inv, NEW r \in Requests, Begin(r) PROVE Inv'
BY BeginSaleKeeps, BeginVoidKeeps, BeginPaymentKeeps, BeginLimitKeeps, BeginAdjustKeeps,
   BeginMarkKeeps DEF Begin

-----------------------------------------------------------------------------
(* The sale. *)

LEMMA SaleCheckKeeps == ASSUME Inv, NEW r \in Requests, SaleCheck(r) PROVE Inv'
<1>1. req[r] \in Request /\ Good(req[r]) /\ req[r].pc = "saleCheck"
  BY LocalOK DEF SaleCheck, At
<1>2. \A step \in {"saleOpen", "insert"} : Good([req[r] EXCEPT !.pc = step])
  BY <1>1 DEF Good, Request, CustomerSteps, InvoiceSteps, SaleSteps
<1>3. UNCHANGED <<credit, invoice, rows, task>>
  BY DEF SaleCheck
<1>4. Finish(r) \/ \E step \in {"saleOpen", "insert"} : Goto(r, step)
  BY DEF SaleCheck
<1>5. CASE Finish(r)
  BY <1>3, <1>5, FinishReading
<1>6. CASE \E step \in {"saleOpen", "insert"} : Goto(r, step)
  BY <1>2, <1>3, <1>6, GotoReading DEF Steps, InvoiceSteps
<1> QED
  BY <1>4, <1>5, <1>6

LEMMA OpenedOK ==
  ASSUME Inv, NEW c \in Customers
  PROVE  Opened(c) \in Account /\ Capped(Opened(c).balance) /\ Capped(Opened(c).limit)
<1>1. credit[c] \in Account /\ Capped(credit[c].balance) /\ Capped(credit[c].limit)
  BY DEF Inv, Shared, SharedType, AccountsCapped
<1> QED
  BY <1>1, DefaultCaps, CreditAssumption DEF Opened, Account

LEMMA SaleOpenKeeps == ASSUME Inv, NEW r \in Requests, SaleOpen(r) PROVE Inv'
<1> DEFINE c == req[r].customer
<1> DEFINE q == [req[r] EXCEPT !.pc = "insert"]
<1>1. req[r] \in Request /\ Good(req[r]) /\ req[r].pc = "saleOpen" /\ c \in Customers
  BY LocalOK, CustomerOf DEF SaleOpen, At, CustomerSteps
<1>2. credit' = [credit EXCEPT ![c] = Opened(c)] /\ UNCHANGED <<invoice, rows, task>>
  BY DEF SaleOpen
<1>3. Shared' /\ Grown
  BY <1>1, <1>2, OpenedOK, AccountSet
<1>4. q \in Request /\ Good(q) /\ q.pc \notin InvoiceSteps /\ q.pc # "task"
  BY <1>1 DEF Good, Request, Steps, CustomerSteps, InvoiceSteps, SaleSteps
<1>5. Finish(r) \/ Become(r, q)
  BY DEF SaleOpen, Goto
<1> HIDE DEF q, c
<1> QED
  BY <1>3, <1>4, <1>5, StepKeeps, FinishKeeps

LEMMA InsertInvoiceKeeps == ASSUME Inv, NEW r \in Requests, InsertInvoice(r) PROVE Inv'
<1>1. PICK i \in Invoices \ Placed :
        /\ invoice' = [invoice EXCEPT ![i] =
             [NoInvoice EXCEPT !.status = "PAID", !.payment = "pending_credit",
                 !.customer = req[r].customer, !.method = req[r].method,
                 !.total = req[r].amount]]
        /\ Become(r, [req[r] EXCEPT !.pc = "charge", !.invoice = i])
  BY DEF InsertInvoice
<1> DEFINE v == [NoInvoice EXCEPT !.status = "PAID", !.payment = "pending_credit",
                    !.customer = req[r].customer, !.method = req[r].method,
                    !.total = req[r].amount]
<1> DEFINE q == [req[r] EXCEPT !.pc = "charge", !.invoice = i]
<1>2. req[r] \in Request /\ Good(req[r]) /\ req[r].pc = "insert" /\ req[r].customer \in Customers
  BY LocalOK, CustomerOf DEF InsertInvoice, At, CustomerSteps
<1>3. v \in Invoice /\ v.customer \in Customers
  BY <1>2 DEF NoInvoice, Invoice, Request
<1>4. q \in Request /\ Good(q) /\ q.pc # "task"
  BY <1>2 DEF Good, Request, Steps, CustomerSteps, InvoiceSteps, SaleSteps
<1>5. invoice' = [invoice EXCEPT ![i] = v] /\ UNCHANGED <<credit, rows, task>> /\ Become(r, q)
  BY <1>1 DEF InsertInvoice
<1>6. v.status = "PAID"
  BY DEF NoInvoice
<1>7. i \in Placed'
  BY <1>5, <1>6 DEF Inv, Shared, SharedType, Placed
<1>8. q.invoice = i
  BY <1>2 DEF Request
<1> HIDE DEF v, q
<1>9. Shared' /\ Grown
  BY <1>3, <1>5, <1>6, InvoiceSet
<1> QED
  BY <1>4, <1>5, <1>7, <1>8, <1>9, StepKeeps

LEMMA ChargeReadKeeps == ASSUME Inv, NEW r \in Requests, ChargeRead(r) PROVE Inv'
<1> DEFINE c == req[r].customer
<1> DEFINE q == [req[r] EXCEPT !.pc = "chargeWrite", !.seen = credit[c].balance]
<1>1. req[r] \in Request /\ Good(req[r]) /\ Linked(req[r]) /\ req[r].pc = "charge"
  BY LocalOK DEF ChargeRead, At
<1>2. c \in Customers /\ credit[c] \in Account /\ Capped(credit[c].limit)
  BY <1>1, CustomerOf DEF CustomerSteps, Inv, Shared, AccountsCapped
<1>3. UNCHANGED <<credit, invoice, rows, task>>
  BY DEF ChargeRead
<1>4. CASE Finish(r)
  BY <1>3, <1>4, FinishReading
<1>5. CASE Become(r, q) /\ ~(Available(c) < req[r].amount)
  <2>1. credit[c].balance + req[r].amount <= credit[c].limit
    BY <1>1, <1>2, <1>5 DEF Available, Account, Request
  <2>2. credit[c].balance + req[r].amount \in Nat /\ credit[c].limit \in Nat
    BY <1>1, <1>2 DEF Account, Request
  <2>3. Capped(credit[c].balance + req[r].amount)
    <3>1. PICK limit \in Limits \cup {DefaultLimit} : credit[c].limit <= limit
      BY <1>2 DEF Capped
    <3>2. limit \in Nat
      BY CreditAssumption
    <3> QED
      BY <2>1, <2>2, <3>1, <3>2 DEF Capped
  <2>4. q \in Request /\ q.pc = "chargeWrite" /\ q.seen + q.amount = credit[c].balance + req[r].amount
    BY <1>1, <1>2 DEF Request, Steps, Account
  <2>5. Good(q) /\ Linked(q)
    BY <1>1, <2>3, <2>4 DEF Good, Linked, Request, CustomerSteps, InvoiceSteps, SaleSteps
  <2> HIDE DEF q
  <2> QED
    BY <1>3, <1>5, <2>4, <2>5, ReadKeeps
<1> QED
  BY <1>4, <1>5 DEF ChargeRead

LEMMA ChargeWriteKeeps == ASSUME Inv, NEW r \in Requests, ChargeWrite(r) PROVE Inv'
<1> DEFINE q == [req[r] EXCEPT !.pc = "chargeRow"]
<1>1. req[r] \in Request /\ Good(req[r]) /\ Linked(req[r]) /\ req[r].pc = "chargeWrite" /\ req[r].customer \in Customers
  BY LocalOK, CustomerOf DEF ChargeWrite, At, CustomerSteps
<1>2. req[r].seen + req[r].amount \in Nat /\ Capped(req[r].seen + req[r].amount)
  BY <1>1 DEF Linked, Good, Request
<1>3. Shared' /\ Grown
  BY <1>1, <1>2, BalanceSet DEF ChargeWrite
<1>4. q \in Request /\ Good(q) /\ q.pc # "task" /\ q.invoice \in Placed
  BY <1>1 DEF Linked, Good, Request, Steps, CustomerSteps, InvoiceSteps, SaleSteps
<1>5. Become(r, q)
  BY DEF ChargeWrite, Goto
<1> HIDE DEF q
<1> QED
  BY <1>3, <1>4, <1>5, StepKeeps DEF Grown

\* The sum of the invoice's charges grows by a positive amount.
LEMMA ChargeRowKeeps == ASSUME Inv, NEW r \in Requests, ChargeRow(r) PROVE Inv'
<1> DEFINE q == [req[r] EXCEPT !.pc = "task"]
<1> DEFINE i == req[r].invoice
<1> DEFINE c == req[r].customer
<1>1. req[r] \in Request /\ Good(req[r]) /\ Linked(req[r]) /\ req[r].pc = "chargeRow" /\ c \in Customers
      /\ i \in Invoices
  BY LocalOK, CustomerOf, InvoiceOf DEF ChargeRow, At, CustomerSteps, InvoiceSteps
<1>2. req[r].amount \in Nat /\ req[r].amount > 0
  BY <1>1 DEF Good, Request, SaleSteps
<1>3. charged' = [charged EXCEPT ![i] = @ + req[r].amount]
  BY DEF ChargeRow, WithCharge
<1>4. /\ ledger' = [ledger EXCEPT ![c] = @ + req[r].amount]
      /\ UNCHANGED <<credit, invoice, abonado, reversed, task>>
  BY DEF ChargeRow
<1>5. SharedType
  BY DEF Inv, Shared
<1>6. charged'[i] = charged[i] + req[r].amount /\ \A j \in Invoices \ {i} : charged'[j] = charged[j]
  BY <1>1, <1>3, <1>5 DEF SharedType
<1>7. Grown
  BY <1>2, <1>4, <1>5, <1>6 DEF SharedType, Grown, Placed
<1>8. SharedType'
  BY <1>1, <1>2, <1>3, <1>4, <1>5 DEF SharedType
<1>9. Shared'
  <2>1. AccountsCapped' /\ InvoicesNamed'
    BY <1>4 DEF Inv, Shared, AccountsCapped, InvoicesNamed, Placed
  <2>2. TaskHasCharge'
    <3> SUFFICES ASSUME NEW j \in Invoices, task[j] # "none" PROVE charged'[j] > 0
      BY <1>4 DEF TaskHasCharge
    <3>1. charged[j] > 0
      BY DEF Inv, Shared, TaskHasCharge
    <3> QED
      BY <3>1, <1>5, <1>7, <1>8 DEF SharedType, Grown
  <2> QED
    BY <1>8, <2>1, <2>2 DEF Shared
<1>10. charged'[i] > 0
  BY <1>1, <1>2, <1>5, <1>6 DEF SharedType
<1>11. q \in Request /\ Good(q) /\ q.invoice = i /\ i \in Placed
  BY <1>1 DEF Linked, Good, Request, Steps, CustomerSteps, InvoiceSteps, SaleSteps
<1>12. Become(r, q)
  BY DEF ChargeRow, Goto
<1> HIDE DEF q, i, c
<1> QED
  BY <1>7, <1>9, <1>10, <1>11, <1>12, StepKeeps DEF Grown

LEMMA CreateTaskKeeps == ASSUME Inv, NEW r \in Requests, CreateTask(r) PROVE Inv'
<1> DEFINE i == req[r].invoice
<1>1. i \in Invoices /\ charged[i] > 0
  BY LocalOK, InvoiceOf DEF CreateTask, At, InvoiceSteps, Linked
<1>2. /\ task' = [task EXCEPT ![i] = "PENDING"] \/ task' = task
      /\ UNCHANGED <<credit, invoice, rows>>
  BY DEF CreateTask
<1>3. Shared'
  BY <1>1, <1>2 DEF Inv, Shared, SharedType, AccountsCapped, InvoicesNamed, TaskHasCharge,
                    Placed, rows
<1>4. Grown
  BY <1>2 DEF Inv, Shared, SharedType, Grown, Placed, rows
<1> QED
  BY <1>3, <1>4, FinishKeeps DEF CreateTask

-----------------------------------------------------------------------------
(* The void and its reversal. *)

LEMMA VoidCommitKeeps == ASSUME Inv, NEW r \in Requests, VoidCommit(r) PROVE Inv'
<1> DEFINE i == req[r].invoice
<1> DEFINE v == [invoice[i] EXCEPT !.status = "CANCELLED", !.deleted = TRUE]
<1> DEFINE q == [req[r] EXCEPT !.pc = "reverse"]
<1>1. /\ req[r] \in Request /\ Good(req[r]) /\ Linked(req[r]) /\ req[r].pc = "void" /\ req[r].customer \in Customers
      /\ i \in Invoices /\ invoice[i] \in Invoice
  BY LocalOK, CustomerOf, InvoiceOf DEF VoidCommit, At, CustomerSteps, InvoiceSteps
<1>2. invoice' = [invoice EXCEPT ![i] = v] /\ UNCHANGED <<credit, rows, task>>
  BY <1>1 DEF VoidCommit, Inv, Shared, SharedType
<1>3. v \in Invoice /\ v.customer = invoice[i].customer /\ v.status = "CANCELLED"
  BY <1>1 DEF Invoice
<1>4. Finish(r) \/ Become(r, q)
  BY DEF VoidCommit, Goto
<1>5. q \in Request /\ Good(q) /\ q.pc # "task" /\ q.invoice \in Placed
  BY <1>1 DEF Linked, Good, Request, Steps, CustomerSteps, InvoiceSteps, SaleSteps
<1>6. v.customer \in Customers
  BY <1>1, <1>3 DEF Inv, Shared, InvoicesNamed, Linked, InvoiceSteps
<1> HIDE DEF i, v, q
<1>7. Shared' /\ Grown
  BY <1>1, <1>2, <1>3, <1>6, InvoiceSet
<1> QED
  BY <1>4, <1>5, <1>7, StepKeeps, FinishKeeps DEF Grown

LEMMA ReverseReadKeeps == ASSUME Inv, NEW r \in Requests, ReverseRead(r) PROVE Inv'
<1> DEFINE c == req[r].customer
<1> DEFINE q == [req[r] EXCEPT !.pc = "reverseWrite", !.seen = credit[c].balance]
<1>1. req[r] \in Request /\ Good(req[r]) /\ Linked(req[r]) /\ req[r].pc = "reverse"
  BY LocalOK DEF ReverseRead, At
<1>2. c \in Customers /\ credit[c] \in Account /\ Capped(credit[c].balance)
  BY <1>1, CustomerOf DEF CustomerSteps, Inv, Shared, AccountsCapped
<1>3. q \in Request /\ Good(q) /\ Linked(q)
  BY <1>1, <1>2 DEF Good, Linked, Request, Account, Steps, CustomerSteps, InvoiceSteps, SaleSteps
<1>4. Become(r, q) /\ UNCHANGED <<credit, invoice, rows, task>>
  BY DEF ReverseRead
<1> HIDE DEF q
<1> QED
  BY <1>3, <1>4, ReadKeeps

\* A balance lowered stays under its cap.
LEMMA CappedBelow == ASSUME NEW m \in Nat, NEW n \in Nat, n <= m, Capped(m) PROVE Capped(n)
<1>1. PICK limit \in Limits \cup {DefaultLimit} : m <= limit
  BY DEF Capped
<1>2. limit \in Nat
  BY CreditAssumption
<1> QED
  BY <1>1, <1>2 DEF Capped

LEMMA ReverseWriteKeeps == ASSUME Inv, NEW r \in Requests, ReverseWrite(r) PROVE Inv'
<1> DEFINE n == Reduced(req[r].seen, req[r].amount)
<1> DEFINE q == [req[r] EXCEPT !.pc = "reverseRow"]
<1>1. req[r] \in Request /\ Good(req[r]) /\ Linked(req[r]) /\ req[r].pc = "reverseWrite" /\ req[r].customer \in Customers
  BY LocalOK, CustomerOf DEF ReverseWrite, At, CustomerSteps
<1>2. req[r].seen \in Nat /\ req[r].amount \in Nat /\ Capped(req[r].seen)
  BY <1>1 DEF Linked, Good, Request
<1>3. n \in Nat /\ n <= req[r].seen
  BY <1>2 DEF Reduced
<1>4. Balance(req[r].customer, n) /\ UNCHANGED <<invoice, rows, task>> /\ Become(r, q)
  BY DEF ReverseWrite, Goto
<1>5. q \in Request /\ Good(q) /\ q.pc # "task" /\ q.invoice \in Placed
  BY <1>1 DEF Linked, Good, Request, Steps, CustomerSteps, InvoiceSteps, SaleSteps
<1> HIDE DEF n, q
<1>6. Shared' /\ Grown
  BY <1>1, <1>2, <1>3, <1>4, CappedBelow, BalanceSet
<1> QED
  BY <1>4, <1>5, <1>6, StepKeeps DEF Grown

\* The tables when rows that are no charge are added.
LEMMA RowsAdded ==
  ASSUME Inv, abonado' \in [Invoices -> Nat], reversed' \in [Invoices -> Nat],
         ledger' \in [Customers -> Int], UNCHANGED <<credit, invoice, charged, task>>
  PROVE  Shared' /\ Grown
BY DEF Inv, Shared, SharedType, AccountsCapped, InvoicesNamed, TaskHasCharge, Placed, Grown

LEMMA ReverseRowKeeps == ASSUME Inv, NEW r \in Requests, ReverseRow(r) PROVE Inv'
<1>1. req[r].amount \in Nat /\ req[r].customer \in Customers /\ req[r].invoice \in Invoices
  BY LocalOK, CustomerOf, InvoiceOf DEF ReverseRow, At, CustomerSteps, InvoiceSteps, Request
<1>2. SharedType
  BY DEF Inv, Shared
<1>3. abonado' \in [Invoices -> Nat]
  BY <1>1, <1>2 DEF ReverseRow, SharedType
<1>4. reversed' \in [Invoices -> Nat]
  BY <1>1, <1>2 DEF ReverseRow, SharedType
<1>5. ledger' \in [Customers -> Int]
  BY <1>1, <1>2 DEF ReverseRow, SharedType
<1>6. Finish(r) /\ UNCHANGED <<credit, invoice, charged, task>>
  BY DEF ReverseRow
<1> QED
  BY <1>3, <1>4, <1>5, <1>6, RowsAdded, FinishKeeps

-----------------------------------------------------------------------------
(* The payment and the closing of its task. *)

LEMMA PayWriteKeeps == ASSUME Inv, NEW r \in Requests, PayWrite(r) PROVE Inv'
<1> DEFINE n == req[r].seen - req[r].amount
<1> DEFINE q == [req[r] EXCEPT !.pc = "payRow"]
<1>1. req[r] \in Request /\ Good(req[r]) /\ req[r].pc = "payWrite" /\ req[r].customer \in Customers
  BY LocalOK, CustomerOf DEF PayWrite, At, CustomerSteps
<1>2. req[r].seen \in Nat /\ req[r].amount \in Nat /\ req[r].amount <= req[r].seen
      /\ Capped(req[r].seen)
  BY <1>1 DEF Good, Request
<1>3. n \in Nat /\ n <= req[r].seen
  BY <1>2
<1>4. Balance(req[r].customer, n) /\ UNCHANGED <<invoice, rows, task>> /\ Become(r, q)
  BY DEF PayWrite, Goto
<1>5. q \in Request /\ Good(q) /\ q.pc \notin InvoiceSteps /\ q.pc # "task"
  BY <1>1 DEF Good, Request, Steps, CustomerSteps, InvoiceSteps, SaleSteps
<1> HIDE DEF n, q
<1>6. Shared' /\ Grown
  BY <1>1, <1>2, <1>3, <1>4, CappedBelow, BalanceSet
<1> QED
  BY <1>4, <1>5, <1>6, StepKeeps

LEMMA PayRowKeeps == ASSUME Inv, NEW r \in Requests, PayRow(r) PROVE Inv'
<1> DEFINE i == req[r].invoice
<1> DEFINE c == req[r].customer
<1> DEFINE q == [req[r] EXCEPT !.pc = "close"]
<1>1. req[r] \in Request /\ Good(req[r]) /\ req[r].pc = "payRow" /\ c \in Customers
  BY LocalOK, CustomerOf DEF PayRow, At, CustomerSteps
<1>2. req[r].amount \in Nat /\ (i = None \/ i \in Invoices)
  BY <1>1 DEF Request
<1>3. UNCHANGED <<credit, invoice, charged, reversed, task>> /\ SharedType
  BY DEF PayRow, Inv, Shared
<1>4. CASE Finish(r) /\ UNCHANGED <<abonado, ledger>>
  BY <1>3, <1>4, FinishKeeps, RowsAdded DEF SharedType
<1>5. CASE /\ i = None \/ i \in Placed
           /\ ledger' = [ledger EXCEPT ![c] = @ - req[r].amount]
           /\ abonado' = IF i = None THEN abonado
                         ELSE [abonado EXCEPT ![i] = @ + req[r].amount]
           /\ IF i = None THEN Finish(r) ELSE Become(r, q)
  <2>1. abonado' \in [Invoices -> Nat] /\ ledger' \in [Customers -> Int]
        /\ reversed' \in [Invoices -> Nat]
    BY <1>1, <1>2, <1>3, <1>5 DEF SharedType
  <2>2. Shared' /\ Grown
    BY <1>3, <2>1, RowsAdded
  <2>3. i # None => q \in Request /\ Good(q) /\ q.pc # "task" /\ q.invoice = i
    BY <1>1, <1>2 DEF Good, Request, Steps, CustomerSteps, InvoiceSteps, SaleSteps
  <2> HIDE DEF q, i, c
  <2> QED
    BY <1>5, <2>2, <2>3, StepKeeps, FinishKeeps DEF Grown
<1> QED
  BY <1>4, <1>5 DEF PayRow, Goto

LEMMA CloseReadKeeps == ASSUME Inv, NEW r \in Requests, CloseRead(r) PROVE Inv'
<1> DEFINE i == req[r].invoice
<1> DEFINE q == [req[r] EXCEPT !.pc = "closeSum", !.seen = invoice[i].total]
<1>1. req[r] \in Request /\ Good(req[r]) /\ Linked(req[r]) /\ req[r].pc = "close" /\ i \in Invoices
      /\ invoice[i] \in Invoice
  BY LocalOK, InvoiceOf DEF CloseRead, At, InvoiceSteps
<1>2. q \in Request /\ Good(q) /\ Linked(q)
  BY <1>1 DEF Good, Linked, Request, Invoice, Steps, CustomerSteps, InvoiceSteps, SaleSteps
<1>3. Become(r, q) /\ UNCHANGED <<credit, invoice, rows, task>>
  BY DEF CloseRead
<1> HIDE DEF q
<1> QED
  BY <1>2, <1>3, ReadKeeps

LEMMA CloseSumKeeps == ASSUME Inv, NEW r \in Requests, CloseSum(r) PROVE Inv'
<1>1. req[r] \in Request /\ Good(req[r]) /\ req[r].pc = "closeSum"
  BY LocalOK DEF CloseSum, At
<1>2. Good([req[r] EXCEPT !.pc = "closeInvoice"])
  BY <1>1 DEF Good, Request, CustomerSteps, InvoiceSteps, SaleSteps
<1>3. UNCHANGED <<credit, invoice, rows, task>> /\ (Finish(r) \/ Goto(r, "closeInvoice"))
  BY DEF CloseSum
<1> QED
  BY <1>2, <1>3, FinishReading, <1>1, GotoReading DEF Steps, InvoiceSteps

\* An invoice changed in place keeps its customer.
LEMMA InvoiceEdited ==
  ASSUME Inv, NEW i \in Invoices, NEW v \in Invoice, v.customer = invoice[i].customer,
         v.status # "none", i \in Placed,
         invoice' = [invoice EXCEPT ![i] = v], UNCHANGED <<credit, rows, task>>
  PROVE  Shared' /\ Grown
<1>1. v.customer \in Customers
  BY DEF Inv, Shared, InvoicesNamed
<1> QED
  BY <1>1, InvoiceSet

LEMMA CloseInvoiceKeeps == ASSUME Inv, NEW r \in Requests, CloseInvoice(r) PROVE Inv'
<1> DEFINE i == req[r].invoice
<1> DEFINE v == [invoice[i] EXCEPT !.payment = "paid"]
<1> DEFINE q == [req[r] EXCEPT !.pc = "closeTask"]
<1>1. /\ req[r] \in Request /\ Good(req[r]) /\ Linked(req[r]) /\ req[r].pc = "closeInvoice"
      /\ i \in Invoices /\ invoice[i] \in Invoice
  BY LocalOK, InvoiceOf DEF CloseInvoice, At, InvoiceSteps
<1>2. invoice' = [invoice EXCEPT ![i] = v] /\ UNCHANGED <<credit, rows, task>> /\ Become(r, q)
  BY <1>1 DEF CloseInvoice, Goto, Inv, Shared, SharedType
<1>3. i \in Placed
  BY <1>1 DEF Linked, InvoiceSteps
<1>4. v \in Invoice /\ v.customer = invoice[i].customer /\ v.status # "none"
  BY <1>1, <1>3 DEF Invoice, Placed
<1>5. q \in Request /\ Good(q) /\ q.pc # "task" /\ q.invoice \in Placed
  BY <1>1, <1>3 DEF Good, Request, Steps, CustomerSteps, InvoiceSteps, SaleSteps
<1> HIDE DEF i, v, q
<1>6. Shared' /\ Grown
  BY <1>1, <1>2, <1>3, <1>4, InvoiceEdited
<1> QED
  BY <1>2, <1>5, <1>6, StepKeeps DEF Grown

\* The tables when the status of a task that exists changes.
LEMMA TaskSet ==
  ASSUME Inv, NEW i \in Invoices, NEW status \in {"none", "PENDING", "DONE"},
         task[i] = "none" => status = "none",
         task' = [task EXCEPT ![i] = status], UNCHANGED <<credit, invoice, rows>>
  PROVE  Shared' /\ Grown
<1>1. SharedType' /\ Grown
  BY DEF Inv, Shared, SharedType, Placed, Grown, rows
<1>2. AccountsCapped' /\ InvoicesNamed'
  BY DEF Inv, Shared, AccountsCapped, InvoicesNamed, Placed
<1>3. TaskHasCharge'
  BY DEF Inv, Shared, SharedType, TaskHasCharge, rows
<1> QED
  BY <1>1, <1>2, <1>3 DEF Shared

LEMMA CloseTaskKeeps == ASSUME Inv, NEW r \in Requests, CloseTask(r) PROVE Inv'
<1> DEFINE i == req[r].invoice
<1> DEFINE status == IF task[i] = "PENDING" THEN "DONE" ELSE task[i]
<1>1. i \in Invoices /\ task \in [Invoices -> {"none", "PENDING", "DONE"}]
  BY InvoiceOf DEF CloseTask, At, InvoiceSteps, Inv, Shared, SharedType
<1>2. /\ task' = [task EXCEPT ![i] = status]
      /\ Finish(r) /\ UNCHANGED <<credit, invoice, rows>>
  BY <1>1 DEF CloseTask
<1>3. status \in {"none", "PENDING", "DONE"} /\ (task[i] = "none" => status = "none")
  BY <1>1
<1> HIDE DEF i, status
<1> QED
  BY <1>1, <1>2, <1>3, TaskSet, FinishKeeps

-----------------------------------------------------------------------------
(* The limit, the adjustment, the mark and the people. *)

LEMMA LimitWriteKeeps == ASSUME Inv, NEW r \in Requests, LimitWrite(r) PROVE Inv'
<1> DEFINE c == req[r].customer
<1> DEFINE a == [credit[c] EXCEPT !.limit = req[r].amount]
<1>1. /\ req[r] \in Request /\ Good(req[r]) /\ req[r].pc = "limitWrite"
      /\ c \in Customers /\ credit[c] \in Account
  BY LocalOK, CustomerOf DEF LimitWrite, At, CustomerSteps
<1>2. req[r].amount \in Limits /\ req[r].amount \in Nat
  BY <1>1 DEF Good, Request
<1>3. a \in Account /\ a.limit = req[r].amount /\ a.balance = credit[c].balance
  BY <1>1, <1>2 DEF Account
<1>4. Capped(a.limit) /\ Capped(a.balance)
  BY <1>1, <1>2, <1>3 DEF Capped, Inv, Shared, AccountsCapped
<1>5. credit' = [credit EXCEPT ![c] = a] /\ UNCHANGED <<invoice, rows, task>> /\ Finish(r)
  BY <1>1 DEF LimitWrite, Inv, Shared, SharedType
<1> HIDE DEF c, a
<1> QED
  BY <1>1, <1>3, <1>4, <1>5, AccountSet, FinishKeeps

LEMMA AdjustWriteKeeps == ASSUME Inv, NEW r \in Requests, AdjustWrite(r) PROVE Inv'
<1> DEFINE i == req[r].invoice
<1> DEFINE v == [invoice[i] EXCEPT !.total = req[r].amount]
<1>1. /\ req[r] \in Request /\ Linked(req[r]) /\ req[r].pc = "adjustWrite"
      /\ i \in Invoices /\ invoice[i] \in Invoice
  BY LocalOK, InvoiceOf DEF AdjustWrite, At, InvoiceSteps
<1>2. invoice' = [invoice EXCEPT ![i] = v] /\ UNCHANGED <<credit, rows, task>> /\ Finish(r)
  BY <1>1 DEF AdjustWrite, Inv, Shared, SharedType
<1>3. i \in Placed
  BY <1>1 DEF Linked, InvoiceSteps
<1>4. v \in Invoice /\ v.customer = invoice[i].customer /\ v.status # "none"
  BY <1>1, <1>3 DEF Invoice, Placed, Request
<1> HIDE DEF i, v
<1> QED
  BY <1>1, <1>2, <1>3, <1>4, InvoiceEdited, FinishKeeps

LEMMA MarkWriteKeeps == ASSUME Inv, NEW r \in Requests, MarkWrite(r) PROVE Inv'
<1> DEFINE i == req[r].invoice
<1> DEFINE v == [invoice[i] EXCEPT !.marked = TRUE, !.status = "PAID"]
<1>1. /\ Linked(req[r]) /\ req[r].pc = "markWrite" /\ i \in Invoices /\ invoice[i] \in Invoice
  BY LocalOK, InvoiceOf DEF MarkWrite, At, InvoiceSteps
<1>2. invoice' = [invoice EXCEPT ![i] = v] /\ UNCHANGED <<credit, rows, task>> /\ Finish(r)
  BY <1>1 DEF MarkWrite, Inv, Shared, SharedType
<1>3. i \in Placed
  BY <1>1 DEF Linked, InvoiceSteps
<1>4. v \in Invoice /\ v.customer = invoice[i].customer /\ v.status # "none"
  BY <1>1 DEF Invoice
<1> HIDE DEF i, v
<1> QED
  BY <1>1, <1>2, <1>3, <1>4, InvoiceEdited, FinishKeeps

LEMMA PeopleKeep == ASSUME Inv, People PROVE Inv'
<1>1. PICK i \in Invoices, status \in {"PENDING", "DONE"} : SetTask(i, status)
  BY DEF People
<1>2. Shared' /\ Grown
  BY <1>1, TaskSet DEF SetTask
<1>3. req' = req
  BY <1>1 DEF SetTask
<1>4. ASSUME NEW r \in Requests PROVE Linked(req[r])'
  <2>1. Linked(req[r]) /\ Good(req[r])
    BY LocalOK
  <2>2. charged' = charged /\ Placed' = Placed
    BY <1>1 DEF SetTask, rows, Placed
  <2> QED
    BY <1>3, <2>1, <2>2 DEF Linked
<1>5. Requesting'
  BY <1>3, <1>4 DEF Inv, Requesting
<1> QED
  BY <1>2, <1>3, <1>5 DEF Inv

LEMMA ContinueKeeps == ASSUME Inv, NEW r \in Requests, Continue(r) PROVE Inv'
BY SaleCheckKeeps, SaleOpenKeeps, InsertInvoiceKeeps, ChargeReadKeeps, ChargeWriteKeeps,
   ChargeRowKeeps, CreateTaskKeeps, VoidCommitKeeps, ReverseReadKeeps, ReverseWriteKeeps,
   ReverseRowKeeps, PayWriteKeeps, PayRowKeeps, CloseReadKeeps, CloseSumKeeps,
   CloseInvoiceKeeps, CloseTaskKeeps, LimitWriteKeeps, AdjustWriteKeeps, MarkWriteKeeps
   DEF Continue

LEMMA StutterKeeps == ASSUME Inv, UNCHANGED vars PROVE Inv'
<1>1. Shared'
  BY DEF vars, rows, Inv, Shared, SharedType, AccountsCapped, InvoicesNamed, TaskHasCharge,
         Placed
<1>2. req' = req /\ charged' = charged /\ Placed' = Placed
  BY DEF vars, rows, Placed
<1>3. Requesting'
  BY <1>2 DEF Inv, Requesting, Linked
<1> QED
  BY <1>1, <1>2, <1>3 DEF Inv

LEMMA NextKeeps == ASSUME Inv, [Next]_vars PROVE Inv'
<1>1. CASE UNCHANGED vars
  BY <1>1, StutterKeeps
<1>2. CASE \E r \in Requests : Begin(r) \/ Continue(r)
  BY <1>2, BeginKeeps, ContinueKeeps
<1>3. CASE People
  BY <1>3, PeopleKeep
<1>4. CASE \E r \in Requests : Fail(r)
  BY <1>4, FinishReading DEF Fail
<1> QED
  BY <1>1, <1>2, <1>3, <1>4 DEF Next, ReliableNext

LEMMA InvHolds == Spec => []Inv
<1> QED
  BY InitInv, NextKeeps, PTL DEF Spec

\* Every row and every request keeps its type; above all no balance is ever negative,
\* however the reads and writes of the requests interleave and wherever they fail.
THEOREM TypeCorrect == Spec => []TypeOK
<1>1. Inv => TypeOK
  BY DEF Inv, Shared, SharedType, TypeOK
<1> QED
  BY <1>1, InvHolds, PTL

\* No balance ever exceeds every limit that was granted, although a charge is written from
\* a balance read earlier and the limit may be lowered in between.
THEOREM BalancesUnderCeiling == Spec => []BalanceUnderCeiling
<1>1. Inv => BalanceUnderCeiling
  BY DEF Inv, Shared, AccountsCapped, Capped, BalanceUnderCeiling
<1> QED
  BY <1>1, InvHolds, PTL

\* A collection task never exists without the charge of its invoice, wherever a sale stops.
THEOREM TasksHaveCharges == Spec => []TaskHasCharge
<1>1. Inv => TaskHasCharge
  BY DEF Inv, Shared
<1> QED
  BY <1>1, InvHolds, PTL

-----------------------------------------------------------------------------
(* One request at a time: every account is a CreditAccount. *)

AccountSteps == {"insert", "charge", "chargeWrite", "void", "reverse", "reverseWrite",
                 "payWrite", "limitWrite"}

\* What a request read is still so when it writes.
Snapshot(q) ==
  /\ q.pc \in AccountSteps => credit[q.customer].open
  /\ q.pc \in {"chargeWrite", "reverseWrite", "payWrite"} => q.seen = credit[q.customer].balance
  /\ q.pc = "chargeWrite" => q.seen + q.amount <= credit[q.customer].limit
  /\ q.pc = "limitWrite" => q.amount >= credit[q.customer].balance

InvoicesOpen == \A i \in Placed : credit[invoice[i].customer].open

Serial == InvoicesOpen /\ \A r \in Requests : Snapshot(req[r])

OneAtATime == \A r, s \in Requests : r = s

\* A step that leaves the accounts.
LEMMA SerialStep ==
  ASSUME OneAtATime, Inv, NEW r \in Requests, NEW q, Become(r, q), Snapshot(q),
         InvoicesOpen', UNCHANGED credit
  PROVE  Serial' /\ UNCHANGED credit
<1>1. \A s \in Requests : req'[s] = q
  BY DEF OneAtATime, Become, Inv
<1> QED
  BY <1>1 DEF Serial, Snapshot

LEMMA SerialFinish ==
  ASSUME OneAtATime, Inv, NEW r \in Requests, Finish(r), InvoicesOpen'
  PROVE  Serial'
<1>1. \A s \in Requests : req'[s] = Idle
  BY DEF OneAtATime, Finish, Become, Inv
<1> QED
  BY <1>1 DEF Serial, Snapshot, AccountSteps, Idle

LEMMA SerialRead ==
  ASSUME OneAtATime, Inv, Serial, NEW r \in Requests, NEW q, Become(r, q), Snapshot(q),
         UNCHANGED <<credit, invoice>>
  PROVE  Serial' /\ UNCHANGED credit
<1>1. InvoicesOpen'
  BY DEF Serial, InvoicesOpen, Placed
<1> QED
  BY <1>1, SerialStep

LEMMA SerialReadFinish ==
  ASSUME OneAtATime, Inv, Serial, NEW r \in Requests, Finish(r), UNCHANGED <<credit, invoice>>
  PROVE  Serial' /\ UNCHANGED credit
<1>1. InvoicesOpen'
  BY DEF Serial, InvoicesOpen, Placed
<1> QED
  BY <1>1, SerialFinish

\* Goto, when the new step needs nothing of the account that the old one did not have.
LEMMA SerialGoto ==
  ASSUME OneAtATime, Inv, Serial, NEW r \in Requests, NEW step \in Steps, Goto(r, step),
         step \notin {"chargeWrite", "reverseWrite", "payWrite", "limitWrite"},
         step \in AccountSteps => credit[req[r].customer].open,
         UNCHANGED <<credit, invoice>>
  PROVE  Serial' /\ UNCHANGED credit
<1> DEFINE q == [req[r] EXCEPT !.pc = step]
<1>1. q.pc = step /\ q.customer = req[r].customer
  BY Moved
<1>2. Become(r, q) /\ Snapshot(q)
  BY <1>1 DEF Goto, Snapshot
<1> HIDE DEF q
<1> QED
  BY <1>2, SerialRead

LEMMA SerialBegin ==
  ASSUME OneAtATime, Inv, Serial, NEW r \in Requests, Begin(r)
  PROVE  Serial' /\ UNCHANGED credit
<1>1. CASE \E c \in Customers, total \in Totals, m \in Methods : BeginSale(r, c, total, m)
  <2>1. PICK c \in Customers, total \in Totals, m \in Methods : BeginSale(r, c, total, m)
    BY <1>1
  <2> DEFINE q == [Idle EXCEPT !.pc = "saleCheck", !.customer = c, !.amount = total, !.method = m]
  <2>2. Become(r, q) /\ Snapshot(q) /\ UNCHANGED <<credit, invoice>>
    BY <2>1 DEF BeginSale, Snapshot, Idle, AccountSteps
  <2> HIDE DEF q
  <2> QED
    BY <2>2, SerialRead
<1>2. CASE \E i \in Invoices : BeginVoid(r, i)
  <2>1. PICK i \in Invoices : BeginVoid(r, i)
    BY <1>2
  <2> DEFINE q == [Idle EXCEPT !.pc = "void", !.invoice = i, !.customer = invoice[i].customer,
                               !.amount = invoice[i].total, !.reverses = IsCreditSale(i)]
  <2>2. credit[invoice[i].customer].open
    BY <2>1 DEF BeginVoid, Voidable, Placed, Serial, InvoicesOpen
  <2>3. Become(r, q) /\ Snapshot(q) /\ UNCHANGED <<credit, invoice>>
    BY <2>1, <2>2 DEF BeginVoid, Snapshot, Idle, AccountSteps
  <2> HIDE DEF q
  <2> QED
    BY <2>3, SerialRead
<1>3. CASE \E i \in Invoices : BeginMark(r, i)
  <2>1. PICK i \in Invoices : BeginMark(r, i)
    BY <1>3
  <2> DEFINE q == [Idle EXCEPT !.pc = "markWrite", !.invoice = i]
  <2>2. Become(r, q) /\ Snapshot(q) /\ UNCHANGED <<credit, invoice>>
    BY <2>1 DEF BeginMark, Snapshot, Idle, AccountSteps
  <2> HIDE DEF q
  <2> QED
    BY <2>2, SerialRead
<1>4. CASE \E c \in Customers, i \in Invoices \cup {None} :
             \E amount \in 1 .. credit[c].balance : BeginPayment(r, c, amount, i)
  <2>1. PICK c \in Customers, i \in Invoices \cup {None} :
          \E amount \in 1 .. credit[c].balance : BeginPayment(r, c, amount, i)
    BY <1>4
  <2>2. PICK amount \in 1 .. credit[c].balance : BeginPayment(r, c, amount, i)
    BY <2>1
  <2> DEFINE q == [Idle EXCEPT !.pc = "payWrite", !.customer = c, !.invoice = i,
                               !.amount = amount, !.seen = credit[c].balance]
  <2>3. Become(r, q) /\ Snapshot(q) /\ UNCHANGED <<credit, invoice>>
    BY <2>2 DEF BeginPayment, Snapshot, Idle, AccountSteps
  <2> HIDE DEF q
  <2> QED
    BY <2>3, SerialRead
<1>5. CASE \E c \in Customers, limit \in Limits : BeginLimit(r, c, limit)
  <2>1. PICK c \in Customers, limit \in Limits : BeginLimit(r, c, limit)
    BY <1>5
  <2> DEFINE q == [Idle EXCEPT !.pc = "limitWrite", !.customer = c, !.amount = limit]
  <2>2. Become(r, q) /\ Snapshot(q) /\ UNCHANGED <<credit, invoice>>
    BY <2>1 DEF BeginLimit, LimitCovers, Snapshot, Idle, AccountSteps
  <2> HIDE DEF q
  <2> QED
    BY <2>2, SerialRead
<1>6. CASE \E i \in Invoices : \E total \in 0 .. invoice[i].total : BeginAdjust(r, i, total)
  <2>1. PICK i \in Invoices : \E total \in 0 .. invoice[i].total : BeginAdjust(r, i, total)
    BY <1>6
  <2>2. PICK total \in 0 .. invoice[i].total : BeginAdjust(r, i, total)
    BY <2>1
  <2> DEFINE q == [Idle EXCEPT !.pc = "adjustWrite", !.invoice = i, !.amount = total]
  <2>3. Become(r, q) /\ Snapshot(q) /\ UNCHANGED <<credit, invoice>>
    BY <2>2 DEF BeginAdjust, Snapshot, Idle, AccountSteps
  <2> HIDE DEF q
  <2> QED
    BY <2>3, SerialRead
<1> QED
  BY <1>1, <1>2, <1>3, <1>4, <1>5, <1>6 DEF Begin

LEMMA OpenAccount ==
  ASSUME NEW a \in Account, a.open = TRUE, NEW n
  PROVE  /\ [a EXCEPT !.balance = n] = [open |-> TRUE, limit |-> a.limit, balance |-> n]
         /\ [a EXCEPT !.limit = n] = [open |-> TRUE, limit |-> n, balance |-> a.balance]
<1>1. [a EXCEPT !.balance = n] = [open |-> a.open, limit |-> a.limit, balance |-> n]
  BY DEF Account
<1>2. [a EXCEPT !.limit = n] = [open |-> a.open, limit |-> n, balance |-> a.balance]
  BY DEF Account
<1> QED
  BY <1>1, <1>2

\* A balance written on an open account, as CreditAccount writes it.
LEMMA BalanceAsSet ==
  ASSUME Inv, NEW c \in Customers, credit[c].open, NEW n, Balance(c, n)
  PROVE  Accounts!Set(c, credit[c].limit, n)
<1>1. credit[c] \in Account /\ credit[c].open = TRUE
  BY DEF Inv, Shared, SharedType, Account
<1>2. [credit[c] EXCEPT !.balance = n] = [open |-> TRUE, limit |-> credit[c].limit, balance |-> n]
  BY <1>1, OpenAccount
<1> QED
  BY <1>2 DEF Balance, Accounts!Set

LEMMA LimitAsSet ==
  ASSUME Inv, NEW c \in Customers, credit[c].open, NEW n,
         credit' = [credit EXCEPT ![c].limit = n]
  PROVE  Accounts!Set(c, n, credit[c].balance) /\ credit'[c].limit = n
<1>1. credit[c] \in Account /\ credit[c].open = TRUE /\ credit \in [Customers -> Account]
  BY DEF Inv, Shared, SharedType, Account
<1>2. [credit[c] EXCEPT !.limit = n] = [open |-> TRUE, limit |-> n, balance |-> credit[c].balance]
  BY <1>1, OpenAccount
<1>3. credit'[c] = [open |-> TRUE, limit |-> n, balance |-> credit[c].balance]
  BY <1>1, <1>2
<1> QED
  BY <1>2, <1>3 DEF Accounts!Set

\* An account that is set is open, and no other changes.
LEMMA SetOpens ==
  ASSUME Inv, Serial, NEW c \in Customers, NEW limit, NEW balance,
         Accounts!Set(c, limit, balance), UNCHANGED invoice
  PROVE  InvoicesOpen' /\ credit'[c].open
<1>1. \A d \in Customers : credit[d].open => credit'[d].open
  BY DEF Accounts!Set, Inv, Shared, SharedType
<1>2. credit'[c].open
  BY DEF Accounts!Set, Inv, Shared, SharedType
<1>3. \A i \in Placed : invoice[i].customer \in Customers
  BY DEF Inv, Shared, InvoicesNamed
<1> QED
  BY <1>1, <1>2, <1>3 DEF Serial, InvoicesOpen, Placed

\* A request that has written needs nothing more of the account than to be open.
LEMMA SerialWrote ==
  ASSUME OneAtATime, Inv, NEW r \in Requests, NEW step \in Steps, Goto(r, step),
         step \notin {"chargeWrite", "reverseWrite", "payWrite", "limitWrite"},
         step \in AccountSteps => credit'[req[r].customer].open, InvoicesOpen'
  PROVE  Serial'
<1> DEFINE q == [req[r] EXCEPT !.pc = step]
<1>1. q.pc = step /\ q.customer = req[r].customer
  BY Moved
<1>2. \A s \in Requests : req'[s] = q
  BY DEF OneAtATime, Goto, Become, Inv
<1> HIDE DEF q
<1> QED
  BY <1>1, <1>2 DEF Serial, Snapshot

LEMMA SerialSaleCheck ==
  ASSUME OneAtATime, Inv, Serial, NEW r \in Requests, SaleCheck(r)
  PROVE  Serial' /\ UNCHANGED credit
<1>1. UNCHANGED <<credit, invoice>>
  BY DEF SaleCheck
<1>2. \/ Finish(r) \/ Goto(r, "saleOpen")
      \/ Goto(r, "insert") /\ credit[req[r].customer].open
  BY DEF SaleCheck
<1> QED
  BY <1>1, <1>2, SerialReadFinish, SerialGoto DEF Steps, AccountSteps

LEMMA SerialSaleOpen ==
  ASSUME OneAtATime, Inv, Serial, NEW r \in Requests, SaleOpen(r)
  PROVE  Serial' /\ [Accounts!Next]_credit
<1> DEFINE c == req[r].customer
<1>1. c \in Customers /\ credit[c] \in Account
  BY CustomerOf DEF SaleOpen, At, CustomerSteps
<1>2. credit' = [credit EXCEPT ![c] = Opened(c)] /\ UNCHANGED invoice
  BY DEF SaleOpen
<1>3. CASE credit[c].open
  <2>1. UNCHANGED credit
    BY <1>2, <1>3 DEF Opened, Inv, Shared, SharedType
  <2>2. Finish(r)
    BY <1>3 DEF SaleOpen
  <2> QED
    BY <1>2, <2>1, <2>2, SerialReadFinish
<1>4. CASE ~credit[c].open
  <2>1. Accounts!Set(c, DefaultLimit, 0) /\ Accounts!Open(c)
    BY <1>2, <1>4 DEF Opened, Accounts!Set, Accounts!Open
  <2>2. InvoicesOpen' /\ credit'[c].open
    BY <1>1, <1>2, <2>1, SetOpens
  <2>3. Finish(r) \/ Goto(r, "insert")
    BY DEF SaleOpen
  <2>4. Serial'
    BY <2>2, <2>3, SerialFinish, SerialWrote DEF Steps
  <2> QED
    BY <1>1, <2>1, <2>4 DEF Accounts!Next
<1> QED
  BY <1>3, <1>4

LEMMA SerialInsert ==
  ASSUME OneAtATime, Inv, Serial, NEW r \in Requests, InsertInvoice(r)
  PROVE  Serial' /\ UNCHANGED credit
<1>1. PICK i \in Invoices \ Placed :
        /\ invoice' = [invoice EXCEPT ![i] =
             [NoInvoice EXCEPT !.status = "PAID", !.payment = "pending_credit",
                 !.customer = req[r].customer, !.method = req[r].method,
                 !.total = req[r].amount]]
        /\ Become(r, [req[r] EXCEPT !.pc = "charge", !.invoice = i])
  BY DEF InsertInvoice
<1> DEFINE q == [req[r] EXCEPT !.pc = "charge", !.invoice = i]
<1>2. req[r] \in Request /\ credit[req[r].customer].open /\ UNCHANGED credit
  BY LocalOK DEF InsertInvoice, At, Serial, Snapshot, AccountSteps
<1>3. invoice'[i].customer = req[r].customer
      /\ \A j \in Invoices \ {i} : invoice'[j] = invoice[j]
  BY <1>1 DEF NoInvoice, Inv, Shared, SharedType
<1>4. InvoicesOpen'
  BY <1>2, <1>3 DEF Serial, InvoicesOpen, Placed
<1>5. q.pc = "charge" /\ q.customer = req[r].customer
  BY <1>2 DEF Request
<1>6. Become(r, q) /\ Snapshot(q)
  BY <1>1, <1>2, <1>5 DEF Snapshot
<1> HIDE DEF q
<1> QED
  BY <1>2, <1>4, <1>6, SerialStep

LEMMA SerialChargeRead ==
  ASSUME OneAtATime, Inv, Serial, NEW r \in Requests, ChargeRead(r)
  PROVE  Serial' /\ UNCHANGED credit
<1> DEFINE c == req[r].customer
<1> DEFINE q == [req[r] EXCEPT !.pc = "chargeWrite", !.seen = credit[c].balance]
<1>1. /\ req[r] \in Request /\ c \in Customers /\ credit[c] \in Account
      /\ credit[c].open
  BY LocalOK, CustomerOf DEF ChargeRead, At, CustomerSteps, Serial, Snapshot, AccountSteps
<1>2. UNCHANGED <<credit, invoice>>
  BY DEF ChargeRead
<1>3. CASE Finish(r)
  BY <1>2, <1>3, SerialReadFinish
<1>4. CASE Become(r, q) /\ ~(Available(c) < req[r].amount)
  <2>1. credit[c].balance + req[r].amount <= credit[c].limit
    BY <1>1, <1>4 DEF Available, Account, Request
  <2>2. /\ q.pc = "chargeWrite" /\ q.seen = credit[c].balance
        /\ q.amount = req[r].amount /\ q.customer = c
    BY <1>1 DEF Request
  <2> HIDE DEF q
  <2>3. Snapshot(q)
    BY <1>1, <2>1, <2>2 DEF Snapshot
  <2> QED
    BY <1>2, <1>4, <2>3, SerialRead
<1> QED
  BY <1>3, <1>4 DEF ChargeRead

LEMMA SerialChargeWrite ==
  ASSUME OneAtATime, Inv, Serial, NEW r \in Requests, ChargeWrite(r)
  PROVE  Serial' /\ [Accounts!Next]_credit
<1> DEFINE c == req[r].customer
<1>1. /\ req[r] \in Request /\ c \in Customers /\ credit[c] \in Account
      /\ credit[c].open /\ req[r].seen = credit[c].balance
      /\ credit[c].balance + req[r].amount <= credit[c].limit
  BY LocalOK, CustomerOf DEF ChargeWrite, At, CustomerSteps, Serial, Snapshot, AccountSteps
<1>2. Balance(c, credit[c].balance + req[r].amount) /\ UNCHANGED invoice /\ Goto(r, "chargeRow")
  BY <1>1 DEF ChargeWrite
<1>3. Accounts!Set(c, credit[c].limit, credit[c].balance + req[r].amount)
  BY <1>1, <1>2, BalanceAsSet
<1>4. req[r].amount \in 0 .. credit[c].limit - credit[c].balance
  BY <1>1 DEF Account, Request
<1>5. Accounts!Charge(c)
  BY <1>1, <1>3, <1>4 DEF Accounts!Charge
<1>6. Serial'
  BY <1>1, <1>2, <1>3, SetOpens, SerialWrote DEF Steps, AccountSteps
<1> QED
  BY <1>1, <1>5, <1>6 DEF Accounts!Next

\* An invoice changed in place, with its customer, still has an open account.
LEMMA SerialEdited ==
  ASSUME Inv, Serial, NEW i \in Invoices, NEW v, v.customer = invoice[i].customer,
         i \in Placed, invoice' = [invoice EXCEPT ![i] = v], UNCHANGED credit
  PROVE  InvoicesOpen'
<1>1. \A j \in Invoices : invoice'[j].customer = invoice[j].customer
                         /\ (j # i => invoice'[j] = invoice[j])
  BY DEF Inv, Shared, SharedType
<1> QED
  BY <1>1 DEF Serial, InvoicesOpen, Placed

LEMMA SerialVoidCommit ==
  ASSUME OneAtATime, Inv, Serial, NEW r \in Requests, VoidCommit(r)
  PROVE  Serial' /\ UNCHANGED credit
<1> DEFINE i == req[r].invoice
<1> DEFINE v == [invoice[i] EXCEPT !.status = "CANCELLED", !.deleted = TRUE]
<1>1. /\ Linked(req[r]) /\ req[r].pc = "void" /\ i \in Invoices /\ invoice[i] \in Invoice
      /\ credit[req[r].customer].open
  BY LocalOK, InvoiceOf DEF VoidCommit, At, InvoiceSteps, Serial, Snapshot, AccountSteps
<1>2. invoice' = [invoice EXCEPT ![i] = v] /\ UNCHANGED credit
  BY <1>1 DEF VoidCommit, Inv, Shared, SharedType
<1>3. i \in Placed /\ v.customer = invoice[i].customer
  BY <1>1 DEF Linked, InvoiceSteps, Invoice
<1> HIDE DEF v
<1>4. InvoicesOpen'
  BY <1>1, <1>2, <1>3, SerialEdited
<1>5. Finish(r) \/ Goto(r, "reverse")
  BY DEF VoidCommit
<1> QED
  BY <1>1, <1>2, <1>4, <1>5, SerialFinish, SerialWrote DEF Steps

LEMMA SerialReverseRead ==
  ASSUME OneAtATime, Inv, Serial, NEW r \in Requests, ReverseRead(r)
  PROVE  Serial' /\ UNCHANGED credit
<1> DEFINE c == req[r].customer
<1> DEFINE q == [req[r] EXCEPT !.pc = "reverseWrite", !.seen = credit[c].balance]
<1>1. req[r] \in Request /\ credit[c].open
  BY LocalOK DEF ReverseRead, At, Serial, Snapshot, AccountSteps
<1>2. q.pc = "reverseWrite" /\ q.seen = credit[c].balance /\ q.customer = c
  BY <1>1 DEF Request
<1>3. Become(r, q) /\ UNCHANGED <<credit, invoice>>
  BY DEF ReverseRead
<1> HIDE DEF q
<1>4. Snapshot(q)
  BY <1>1, <1>2 DEF Snapshot
<1> QED
  BY <1>3, <1>4, SerialRead

\* A balance lowered from the one that is there is a step of CreditAccount.
LEMMA SerialLower ==
  ASSUME OneAtATime, Inv, Serial, NEW r \in Requests, NEW c \in Customers,
         NEW n \in 0 .. credit[c].balance, credit[c].open, Balance(c, n), UNCHANGED invoice,
         NEW step \in Steps \ AccountSteps, Goto(r, step)
  PROVE  Serial' /\ [Accounts!Next]_credit
<1>1. Accounts!Set(c, credit[c].limit, n)
  BY BalanceAsSet
<1>2. Accounts!Lower(c)
  BY <1>1 DEF Accounts!Lower
<1>3. Serial'
  BY <1>1, SetOpens, SerialWrote DEF AccountSteps
<1> QED
  BY <1>2, <1>3 DEF Accounts!Next

LEMMA SerialReverseWrite ==
  ASSUME OneAtATime, Inv, Serial, NEW r \in Requests, ReverseWrite(r)
  PROVE  Serial' /\ [Accounts!Next]_credit
<1> DEFINE c == req[r].customer
<1> DEFINE n == Reduced(req[r].seen, req[r].amount)
<1>1. /\ req[r] \in Request /\ c \in Customers /\ credit[c] \in Account
      /\ credit[c].open /\ req[r].seen = credit[c].balance
  BY LocalOK, CustomerOf DEF ReverseWrite, At, CustomerSteps, Serial, Snapshot, AccountSteps
<1>2. n \in 0 .. credit[c].balance
  BY <1>1 DEF Reduced, Account, Request
<1>3. Balance(c, n) /\ UNCHANGED invoice /\ Goto(r, "reverseRow")
  BY DEF ReverseWrite
<1> HIDE DEF n
<1> QED
  BY <1>1, <1>2, <1>3, SerialLower DEF Steps, AccountSteps

LEMMA SerialPayWrite ==
  ASSUME OneAtATime, Inv, Serial, NEW r \in Requests, PayWrite(r)
  PROVE  Serial' /\ [Accounts!Next]_credit
<1> DEFINE c == req[r].customer
<1> DEFINE n == req[r].seen - req[r].amount
<1>1. /\ req[r] \in Request /\ c \in Customers /\ credit[c] \in Account
      /\ credit[c].open /\ req[r].seen = credit[c].balance /\ req[r].amount <= req[r].seen
  BY LocalOK, CustomerOf DEF PayWrite, At, CustomerSteps, Serial, Snapshot, AccountSteps, Good
<1>2. n \in 0 .. credit[c].balance
  BY <1>1 DEF Account, Request
<1>3. Balance(c, n) /\ UNCHANGED invoice /\ Goto(r, "payRow")
  BY DEF PayWrite
<1> HIDE DEF n
<1> QED
  BY <1>1, <1>2, <1>3, SerialLower DEF Steps, AccountSteps

LEMMA SerialLimitWrite ==
  ASSUME OneAtATime, Inv, Serial, NEW r \in Requests, LimitWrite(r)
  PROVE  Serial' /\ [Accounts!Next]_credit
<1> DEFINE c == req[r].customer
<1>1. /\ req[r] \in Request /\ c \in Customers /\ credit[c].open
      /\ req[r].amount >= credit[c].balance
  BY LocalOK, CustomerOf DEF LimitWrite, At, CustomerSteps, Serial, Snapshot, AccountSteps
<1>2. credit' = [credit EXCEPT ![c].limit = req[r].amount] /\ UNCHANGED invoice /\ Finish(r)
  BY DEF LimitWrite
<1>3. Accounts!Set(c, req[r].amount, credit[c].balance) /\ credit'[c].limit = req[r].amount
  BY <1>1, <1>2, LimitAsSet
<1>4. Accounts!SetLimit(c)
  BY <1>1, <1>3 DEF Accounts!SetLimit, Request
<1>5. Serial'
  BY <1>1, <1>2, <1>3, SetOpens, SerialFinish
<1> QED
  BY <1>1, <1>4, <1>5 DEF Accounts!Next

\* The steps that touch neither the accounts nor the customer of an invoice.
LEMMA SerialRest ==
  ASSUME OneAtATime, Inv, Serial, NEW r \in Requests,
         \/ ChargeRow(r) \/ CreateTask(r) \/ ReverseRow(r) \/ PayRow(r) \/ CloseRead(r)
         \/ CloseSum(r) \/ CloseTask(r)
  PROVE  Serial' /\ UNCHANGED credit
<1>1. UNCHANGED <<credit, invoice>>
  BY DEF ChargeRow, CreateTask, ReverseRow, PayRow, CloseRead, CloseSum, CloseTask
<1>2. CASE Finish(r)
  BY <1>1, <1>2, SerialReadFinish
<1>3. CASE \E step \in {"task", "close", "closeInvoice"} : Goto(r, step)
  BY <1>1, <1>3, SerialGoto DEF Steps, AccountSteps
<1>4. CASE CloseRead(r)
  <2> DEFINE q == [req[r] EXCEPT !.pc = "closeSum", !.seen = invoice[req[r].invoice].total]
  <2>1. Become(r, q)
    BY <1>4 DEF CloseRead
  <2>2. q.pc = "closeSum"
    BY LocalOK DEF Request
  <2> HIDE DEF q
  <2>3. Snapshot(q)
    BY <2>2 DEF Snapshot, AccountSteps
  <2> QED
    BY <1>1, <2>1, <2>3, SerialRead
<1> QED
  BY <1>2, <1>3, <1>4 DEF ChargeRow, CreateTask, ReverseRow, PayRow, CloseSum, CloseTask

LEMMA SerialInvoiceWrite ==
  ASSUME OneAtATime, Inv, Serial, NEW r \in Requests,
         CloseInvoice(r) \/ AdjustWrite(r) \/ MarkWrite(r)
  PROVE  Serial' /\ UNCHANGED credit
<1> DEFINE i == req[r].invoice
<1>1. Linked(req[r]) /\ req[r].pc \in InvoiceSteps /\ i \in Invoices /\ invoice[i] \in Invoice
  BY LocalOK, InvoiceOf DEF CloseInvoice, AdjustWrite, MarkWrite, At, InvoiceSteps
<1>2. i \in Placed /\ UNCHANGED credit
  BY <1>1 DEF Linked, CloseInvoice, AdjustWrite, MarkWrite
<1>3. \/ invoice' = [invoice EXCEPT ![i] = [invoice[i] EXCEPT !.payment = "paid"]]
      \/ invoice' = [invoice EXCEPT ![i] = [invoice[i] EXCEPT !.total = req[r].amount]]
      \/ invoice' = [invoice EXCEPT ![i] = [invoice[i] EXCEPT !.marked = TRUE, !.status = "PAID"]]
  BY <1>1 DEF CloseInvoice, AdjustWrite, MarkWrite, Inv, Shared, SharedType
<1>4. /\ [invoice[i] EXCEPT !.payment = "paid"].customer = invoice[i].customer
      /\ [invoice[i] EXCEPT !.total = req[r].amount].customer = invoice[i].customer
      /\ [invoice[i] EXCEPT !.marked = TRUE, !.status = "PAID"].customer = invoice[i].customer
  BY <1>1 DEF Invoice
<1>5. InvoicesOpen'
  BY <1>1, <1>2, <1>3, <1>4, SerialEdited
<1>6. Finish(r) \/ Goto(r, "closeTask")
  BY DEF CloseInvoice, AdjustWrite, MarkWrite
<1> QED
  BY <1>2, <1>5, <1>6, SerialFinish, SerialWrote DEF Steps, AccountSteps

LEMMA SerialNext ==
  ASSUME OneAtATime, Inv, Serial, [Next]_vars
  PROVE  Serial' /\ [Accounts!Next]_credit
<1>1. CASE UNCHANGED <<credit, invoice, req>>
  BY <1>1 DEF Serial, Snapshot, InvoicesOpen, Placed
<1>2. CASE \E r \in Requests : Begin(r)
  BY <1>2, SerialBegin
<1>3. CASE \E r \in Requests : Fail(r)
  BY <1>3, SerialReadFinish DEF Fail
<1>4. CASE \E r \in Requests : Continue(r)
  BY <1>4, SerialSaleCheck, SerialSaleOpen, SerialInsert, SerialChargeRead, SerialChargeWrite,
     SerialVoidCommit, SerialReverseRead, SerialReverseWrite, SerialPayWrite,
     SerialLimitWrite, SerialRest, SerialInvoiceWrite DEF Continue
<1>5. People => UNCHANGED <<credit, invoice, req>>
  BY DEF People, SetTask
<1>6. UNCHANGED vars => UNCHANGED <<credit, invoice, req>>
  BY DEF vars
<1> QED
  BY <1>1, <1>2, <1>3, <1>4, <1>5, <1>6 DEF Next, ReliableNext

\* When requests are handled one at a time, the credit accounts are CreditAccounts, even
\* if requests fail between two statements: a charge finds its amount available, a payment
\* and a reversal lower the balance that is there, the limit is never set under it.
THEOREM AccountsRefine ==
  ASSUME OneAtATime
  PROVE  Spec => AccountsKept
<1>1. Init => Serial /\ Accounts!Init
  BY DEF Init, Serial, InvoicesOpen, Placed, NoInvoice, Snapshot, AccountSteps, Idle,
         Accounts!Init
<1>2. Inv /\ Serial /\ [Next]_vars => Serial' /\ [Accounts!Next]_credit
  BY SerialNext
<1> QED
  BY <1>1, <1>2, InvHolds, PTL DEF Spec, AccountsKept, Accounts!Spec

-----------------------------------------------------------------------------
(* The books of the credits when one request runs at a time and none fails: no balance falls *)
(* short of its ledger, every sale on credit has its charge, what is shown as paid was paid, *)
(* and a charge is reversed once; for any customers, invoices and limits.                    *)

\* The request has an invoice in the table, and its charge is still to come.
Charging(q, i) == q.pc \in {"charge", "chargeWrite", "chargeRow"} /\ q.invoice = i

\* What the request has written to the balance, and not yet to the ledger.
Unentered(q, c) ==
  IF q.customer # c THEN 0
  ELSE IF q.pc = "chargeRow" THEN q.amount
  ELSE IF q.pc \in {"payRow", "reverseRow"} THEN -q.amount
  ELSE 0

Covered(q) == \A c \in Customers :
  /\ credit[c].balance >= ledger[c] + Unentered(q, c)
  /\ ~credit[c].open => credit[c].balance = 0

\* A sale has its charge.
Charged(q) == \A i \in Placed :
  ~Charging(q, i) => charged[i] > 0 /\ charged[i] >= invoice[i].total

\* What is not voided has no reversal.
Reversed == \A i \in Invoices :
  /\ i \notin Placed \/ ~invoice[i].deleted => reversed[i] = 0
  /\ reversed[i] <= charged[i]

\* What the one request goes by.
Going(q) ==
  /\ q.pc \in {"insert", "charge"} =>
       q.amount <= credit[q.customer].limit - credit[q.customer].balance
  /\ q.pc \in {"charge", "chargeWrite", "chargeRow"} => q.amount = invoice[q.invoice].total
  /\ q.pc = "void" => ~invoice[q.invoice].deleted /\ q.amount = invoice[q.invoice].total
  /\ q.pc \in {"reverse", "reverseWrite", "reverseRow"} =>
       /\ invoice[q.invoice].deleted
       /\ reversed[q.invoice] = 0 /\ q.amount <= charged[q.invoice]
  /\ q.pc \in {"payWrite", "payRow"} => q.invoice \in Placed \cup {None}
  /\ q.pc = "closeSum" => q.seen = invoice[q.invoice].total
  /\ q.pc = "closeInvoice" => abonado[q.invoice] >= invoice[q.invoice].total
  /\ q.pc = "adjustWrite" => q.amount <= invoice[q.invoice].total

Books ==
  /\ Reversed /\ SettledMeansPaid
  /\ \A r \in Requests : Covered(req[r]) /\ Charged(req[r]) /\ Going(req[r])

\* A request without any of these steps asks nothing more than what holds between requests.
Busy == {"charge", "chargeWrite", "chargeRow", "payRow", "reverseRow"}

Balanced == \A c \in Customers :
  /\ credit[c].balance >= ledger[c]
  /\ ~credit[c].open => credit[c].balance = 0

AllCharged == \A i \in Placed : charged[i] > 0 /\ charged[i] >= invoice[i].total

OneRequest == \E r : Requests = {r}

\* Payments name an invoice of the table, or none.
KnownInvoices == ~UnknownInvoices

-----------------------------------------------------------------------------
LEMMA Single == OneRequest => OneAtATime /\ \A r \in Requests : Requests = {r}
BY DEF OneRequest, OneAtATime

\* A step leaves the one request with q.
LEMMA BooksStep ==
  ASSUME Inv, NEW r \in Requests, Requests = {r}, NEW q, Become(r, q),
         Reversed', SettledMeansPaid', Covered(q)', Charged(q)', Going(q)'
  PROVE  Books'
<1>1. \A s \in Requests : req'[s] = q
  BY DEF Become, Inv
<1>2. \A s \in Requests : Covered(req[s])'
  BY <1>1 DEF Covered, Unentered
<1>3. \A s \in Requests : Charged(req[s])'
  BY <1>1 DEF Charged, Charging
<1>4. \A s \in Requests : Going(req[s])'
  BY <1>1 DEF Going
<1> QED
  BY <1>2, <1>3, <1>4 DEF Books

\* So does a step that goes on without asking for more than what holds between requests.
LEMMA BooksFree ==
  ASSUME Inv, Inv', NEW r \in Requests, Requests = {r}, NEW q, Become(r, q), q.pc \notin Busy,
         Reversed', SettledMeansPaid', Balanced', AllCharged', Going(q)'
  PROVE  Books'
<1>1. \A c \in Customers : ledger'[c] \in Int /\ Unentered(q, c) = 0
  BY DEF Inv, Shared, SharedType, Unentered, Busy
<1>2. Covered(q)'
  BY <1>1 DEF Covered, Balanced, Unentered
<1>3. Charged(q)'
  BY DEF Charged, AllCharged
<1> QED
  BY <1>2, <1>3, BooksStep

LEMMA IdleGoes == Idle.pc = "idle" /\ Idle.pc \notin Busy /\ Going(Idle) /\ Going(Idle)'
BY DEF Idle, Busy, Going

\* What the one request knows.
LEMMA Known ==
  ASSUME Inv, Books, NEW r \in Requests
  PROVE  /\ req[r] \in Request /\ Good(req[r]) /\ Linked(req[r])
         /\ Covered(req[r]) /\ Charged(req[r]) /\ Going(req[r])
         /\ Reversed /\ SettledMeansPaid
         /\ req[r].pc \notin Busy => Balanced /\ AllCharged
<1>1. \A c \in Customers : ledger[c] \in Int /\ credit[c] \in Account
  BY DEF Inv, Shared, SharedType
<1>2. req[r].pc \notin Busy => \A c \in Customers : Unentered(req[r], c) = 0
  BY DEF Unentered, Busy
<1>3. req[r].pc \notin Busy => Balanced
  BY <1>1, <1>2 DEF Books, Covered, Balanced
<1>4. req[r].pc \notin Busy => AllCharged
  BY DEF Books, Charged, Charging, AllCharged, Busy
<1> QED
  BY <1>3, <1>4, LocalOK DEF Books

\* A step that reads.
LEMMA BooksRead ==
  ASSUME Inv, Inv', Books, NEW r \in Requests, Requests = {r}, NEW q, Become(r, q),
         q.pc \notin Busy, req[r].pc \notin Busy, Going(q),
         UNCHANGED <<credit, invoice, rows, task>>
  PROVE  Books'
<1>1. Reversed /\ SettledMeansPaid /\ Balanced /\ AllCharged
  BY Known
<1>2. Reversed' /\ SettledMeansPaid'
  BY <1>1 DEF Reversed, SettledMeansPaid, Placed, rows
<1>3. Balanced' /\ AllCharged'
  BY <1>1 DEF Balanced, AllCharged, Placed, rows
<1>4. Going(q)'
  BY DEF Going, Placed, rows
<1> QED
  BY <1>2, <1>3, <1>4, BooksFree

-----------------------------------------------------------------------------
LEMMA BooksBegin ==
  ASSUME Inv, Inv', Books, KnownInvoices, NEW r \in Requests, Requests = {r}, Begin(r)
  PROVE  Books'
<1>1. ASSUME NEW c \in Customers, NEW total \in Totals, NEW m \in Methods,
             BeginSale(r, c, total, m)
      PROVE  Books'
  <2> DEFINE q == [Idle EXCEPT !.pc = "saleCheck", !.customer = c, !.amount = total, !.method = m]
  <2>1. q.pc = "saleCheck"
    BY DEF Idle
  <2>2. Become(r, q) /\ At(r, "idle") /\ UNCHANGED <<credit, invoice, rows, task>>
    BY <1>1 DEF BeginSale, Arrives
  <2> HIDE DEF q
  <2> QED
    BY <2>1, <2>2, BooksRead DEF Going, Busy, At
<1>2. ASSUME NEW i \in Invoices, BeginVoid(r, i) PROVE Books'
  <2> DEFINE q == [Idle EXCEPT !.pc = "void", !.invoice = i, !.customer = invoice[i].customer,
                               !.amount = invoice[i].total, !.reverses = IsCreditSale(i)]
  <2>1. q.pc = "void" /\ q.invoice = i /\ q.amount = invoice[i].total /\ ~invoice[i].deleted
    BY <1>2 DEF Idle, BeginVoid, Voidable
  <2>2. Become(r, q) /\ At(r, "idle") /\ UNCHANGED <<credit, invoice, rows, task>>
    BY <1>2 DEF BeginVoid, Arrives
  <2> HIDE DEF q
  <2> QED
    BY <2>1, <2>2, BooksRead DEF Going, Busy, At
<1>3. ASSUME NEW i \in Invoices, BeginMark(r, i) PROVE Books'
  <2> DEFINE q == [Idle EXCEPT !.pc = "markWrite", !.invoice = i]
  <2>1. q.pc = "markWrite"
    BY DEF Idle
  <2>2. Become(r, q) /\ At(r, "idle") /\ UNCHANGED <<credit, invoice, rows, task>>
    BY <1>3 DEF BeginMark, Arrives
  <2> HIDE DEF q
  <2> QED
    BY <2>1, <2>2, BooksRead DEF Going, Busy, At
<1>4. ASSUME NEW c \in Customers, NEW i \in Invoices \cup {None},
             NEW amount \in 1 .. credit[c].balance, BeginPayment(r, c, amount, i)
      PROVE  Books'
  <2> DEFINE q == [Idle EXCEPT !.pc = "payWrite", !.customer = c, !.invoice = i,
                               !.amount = amount, !.seen = credit[c].balance]
  <2>1. q.pc = "payWrite" /\ q.invoice \in Placed \cup {None}
    BY <1>4 DEF Idle, BeginPayment, Payables, KnownInvoices
  <2>2. Become(r, q) /\ At(r, "idle") /\ UNCHANGED <<credit, invoice, rows, task>>
    BY <1>4 DEF BeginPayment, Arrives
  <2> HIDE DEF q
  <2> QED
    BY <2>1, <2>2, BooksRead DEF Going, Busy, At
<1>5. ASSUME NEW c \in Customers, NEW limit \in Limits, BeginLimit(r, c, limit) PROVE Books'
  <2> DEFINE q == [Idle EXCEPT !.pc = "limitWrite", !.customer = c, !.amount = limit]
  <2>1. q.pc = "limitWrite"
    BY DEF Idle
  <2>2. Become(r, q) /\ At(r, "idle") /\ UNCHANGED <<credit, invoice, rows, task>>
    BY <1>5 DEF BeginLimit, Arrives
  <2> HIDE DEF q
  <2> QED
    BY <2>1, <2>2, BooksRead DEF Going, Busy, At
<1>6. ASSUME NEW i \in Invoices, NEW total \in 0 .. invoice[i].total, BeginAdjust(r, i, total)
      PROVE  Books'
  <2> DEFINE q == [Idle EXCEPT !.pc = "adjustWrite", !.invoice = i, !.amount = total]
  <2>1. q.pc = "adjustWrite" /\ q.invoice = i /\ q.amount = total
    BY DEF Idle
  <2>2. total <= invoice[i].total
    OBVIOUS
  <2>3. Become(r, q) /\ At(r, "idle") /\ UNCHANGED <<credit, invoice, rows, task>>
    BY <1>6 DEF BeginAdjust, Arrives
  <2> HIDE DEF q
  <2> QED
    BY <2>1, <2>2, <2>3, BooksRead DEF Going, Busy, At
<1> QED
  BY <1>1, <1>2, <1>3, <1>4, <1>5, <1>6 DEF Begin

\* A request that ends, and leaves what holds between requests.
LEMMA BooksEnd ==
  ASSUME Inv, Inv', NEW r \in Requests, Requests = {r}, Finish(r),
         Reversed', SettledMeansPaid', Balanced', AllCharged'
  PROVE  Books'
BY BooksFree, IdleGoes DEF Finish

\* A step that reads and goes on, or ends.
LEMMA BooksGoto ==
  ASSUME Inv, Inv', Books, NEW r \in Requests, Requests = {r}, req[r].pc \notin Busy,
         UNCHANGED <<credit, invoice, rows, task>>,
         \/ Finish(r)
         \/ \E step \in Steps \ Busy :
              /\ Goto(r, step)
              /\ \A q : /\ q.pc = step /\ q.customer = req[r].customer
                        /\ q.invoice = req[r].invoice /\ q.amount = req[r].amount
                        /\ q.seen = req[r].seen
                        => Going(q)
  PROVE  Books'
<1>1. CASE Finish(r)
  BY <1>1, BooksRead, IdleGoes DEF Finish
<1>2. ASSUME NEW step \in Steps \ Busy, Goto(r, step),
             \A q : /\ q.pc = step /\ q.customer = req[r].customer
                    /\ q.invoice = req[r].invoice /\ q.amount = req[r].amount
                    /\ q.seen = req[r].seen
                    => Going(q)
      PROVE  Books'
  <2> DEFINE q == [req[r] EXCEPT !.pc = step]
  <2>1. /\ q.pc = step /\ q.customer = req[r].customer /\ q.invoice = req[r].invoice
        /\ q.amount = req[r].amount /\ q.seen = req[r].seen
    BY Moved
  <2>2. Become(r, q)
    BY <1>2 DEF Goto
  <2> HIDE DEF q
  <2>3. Going(q)
    BY <1>2, <2>1
  <2> QED
    BY <2>1, <2>2, <2>3, BooksRead
<1> QED
  BY <1>1, <1>2

LEMMA BooksSaleCheck ==
  ASSUME Inv, Inv', Books, NEW r \in Requests, Requests = {r}, SaleCheck(r)
  PROVE  Books'
<1> DEFINE c == req[r].customer
<1>1. At(r, "saleCheck") /\ c \in Customers /\ credit[c] \in Account /\ req[r].amount \in Nat
      /\ UNCHANGED <<credit, invoice, rows, task>>
  BY CustomerOf, LocalOK DEF SaleCheck, At, CustomerSteps, Request
<1>2. CASE Goto(r, "saleOpen")
  BY <1>1, <1>2, BooksGoto DEF Going, Steps, Busy, At
<1>3. CASE Finish(r)
  BY <1>1, <1>3, BooksGoto DEF Busy, At
<1>4. CASE Goto(r, "insert") /\ ~(Available(c) < req[r].amount)
  <2>1. req[r].amount <= credit[c].limit - credit[c].balance
    BY <1>1, <1>4 DEF Available, Account
  <2> QED
    BY <1>1, <1>4, <2>1, BooksGoto DEF Going, Steps, Busy, At
<1> QED
  BY <1>2, <1>3, <1>4 DEF SaleCheck

LEMMA BooksReads ==
  ASSUME Inv, Inv', Books, NEW r \in Requests, Requests = {r},
         ReverseRead(r) \/ CloseRead(r) \/ CloseSum(r)
  PROVE  Books'
<1>1. CASE ReverseRead(r)
  <2> DEFINE q == [req[r] EXCEPT !.pc = "reverseWrite", !.seen = credit[req[r].customer].balance]
  <2>1. At(r, "reverse") /\ Become(r, q) /\ UNCHANGED <<credit, invoice, rows, task>>
    BY <1>1 DEF ReverseRead
  <2>2. q.pc = "reverseWrite" /\ q.invoice = req[r].invoice /\ q.amount = req[r].amount
    BY LocalOK DEF Request
  <2> HIDE DEF q
  <2>3. Going(q)
    BY <2>1, <2>2, Known DEF Going, At
  <2> QED
    BY <2>1, <2>2, <2>3, BooksRead DEF Busy, At
<1>2. CASE CloseRead(r)
  <2> DEFINE q == [req[r] EXCEPT !.pc = "closeSum", !.seen = invoice[req[r].invoice].total]
  <2>1. At(r, "close") /\ Become(r, q) /\ UNCHANGED <<credit, invoice, rows, task>>
    BY <1>2 DEF CloseRead
  <2>2. q.pc = "closeSum" /\ q.invoice = req[r].invoice /\ q.seen = invoice[req[r].invoice].total
    BY LocalOK DEF Request
  <2> HIDE DEF q
  <2>3. Going(q)
    BY <2>1, <2>2 DEF Going
  <2> QED
    BY <2>1, <2>2, <2>3, BooksRead DEF Busy, At
<1>3. CASE CloseSum(r)
  <2>1. At(r, "closeSum") /\ UNCHANGED <<credit, invoice, rows, task>>
        /\ req[r].seen = invoice[req[r].invoice].total
    BY <1>3, Known DEF CloseSum, Going, At
  <2>2. CASE Finish(r)
    BY <2>1, <2>2, BooksGoto DEF Busy, At
  <2>3. CASE Settles(req[r].invoice, req[r].seen) /\ Goto(r, "closeInvoice")
    BY <2>1, <2>3, BooksGoto DEF Settles, Going, Steps, Busy, At
  <2> QED
    BY <1>3, <2>2, <2>3 DEF CloseSum
<1> QED
  BY <1>1, <1>2, <1>3

-----------------------------------------------------------------------------
(* The accounts. *)

\* A step that writes one account, and leaves the tables of the invoices.
LEMMA TablesLeft ==
  ASSUME Books, UNCHANGED <<invoice, rows, task>>
  PROVE  Reversed' /\ SettledMeansPaid' /\ (AllCharged => AllCharged')
BY DEF Books, Reversed, SettledMeansPaid, AllCharged, Placed, rows

LEMMA BooksSaleOpen ==
  ASSUME Inv, Inv', Books, NEW r \in Requests, Requests = {r}, SaleOpen(r)
  PROVE  Books'
<1> DEFINE c == req[r].customer
<1>1. At(r, "saleOpen") /\ c \in Customers /\ credit[c] \in Account /\ req[r].amount \in Nat
      /\ UNCHANGED <<invoice, rows, task>> /\ credit' = [credit EXCEPT ![c] = Opened(c)]
  BY CustomerOf, LocalOK DEF SaleOpen, At, CustomerSteps, Request
<1>2. Balanced /\ AllCharged
  BY <1>1, Known DEF At, Busy
<1>3. \A d \in Customers : credit'[d] = IF d = c THEN Opened(c) ELSE credit[d]
  BY <1>1 DEF Inv, Shared, SharedType
<1>4. /\ Opened(c).balance = credit[c].balance /\ Opened(c).open
      /\ ~credit[c].open => Opened(c).limit = DefaultLimit /\ Opened(c).balance = 0
  BY <1>1, <1>2 DEF Opened, Balanced
<1>5. Balanced'
  BY <1>1, <1>2, <1>3, <1>4 DEF Balanced, rows
<1>6. Reversed' /\ SettledMeansPaid' /\ AllCharged'
  BY <1>1, <1>2, TablesLeft
<1>7. CASE Finish(r)
  BY <1>5, <1>6, <1>7, BooksEnd
<1>8. CASE ~credit[c].open /\ ~(DefaultLimit < req[r].amount) /\ Goto(r, "insert")
  <2> PICK q : q = [req[r] EXCEPT !.pc = "insert"]
    OBVIOUS
  <2>1. q.pc = "insert" /\ q.customer = c /\ q.amount = req[r].amount /\ Become(r, q)
    BY <1>8, LocalOK DEF Request, Goto
  <2>2. q.amount <= credit'[c].limit - credit'[c].balance
    BY <1>1, <1>3, <1>4, <1>8, <2>1, CreditAssumption
  <2>3. Going(q)'
    BY <2>1, <2>2 DEF Going
  <2> QED
    BY <1>5, <1>6, <2>1, <2>3, BooksFree DEF Busy
<1> QED
  BY <1>7, <1>8 DEF SaleOpen

LEMMA BooksChargeRead ==
  ASSUME Inv, Inv', Books, NEW r \in Requests, Requests = {r}, ChargeRead(r)
  PROVE  Books'
<1> DEFINE c == req[r].customer
<1> PICK q : q = [req[r] EXCEPT !.pc = "chargeWrite", !.seen = credit[c].balance]
  OBVIOUS
<1>1. /\ req[r].pc = "charge" /\ c \in Customers /\ credit[c] \in Account /\ req[r].amount \in Nat
      /\ UNCHANGED <<credit, invoice, rows, task>>
  BY CustomerOf, LocalOK DEF ChargeRead, At, CustomerSteps, Request
<1>2. ~(Available(c) < req[r].amount)
  BY <1>1, Known DEF Going, Available, Account
<1>3. Become(r, q)
  BY <1>2 DEF ChargeRead
<1>4. /\ q.pc = "chargeWrite" /\ q.customer = c /\ q.invoice = req[r].invoice
      /\ q.amount = req[r].amount
  BY LocalOK DEF Request
<1>5. Covered(q)'
  BY <1>1, <1>4, Known DEF Covered, Unentered, rows
<1>6. Charged(q)'
  BY <1>1, <1>4, Known DEF Charged, Charging, Placed, rows
<1>7. Going(q)'
  BY <1>1, <1>4, Known DEF Going
<1> QED
  BY <1>1, <1>3, <1>5, <1>6, <1>7, BooksStep, TablesLeft

\* A balance is written, and the row of the ledger is still to come.
LEMMA BooksBalance ==
  ASSUME Inv, Inv', Serial, Books, NEW r \in Requests, Requests = {r},
         req[r].pc \in {"chargeWrite", "reverseWrite", "payWrite"}, NEW n,
         Balance(req[r].customer, n), UNCHANGED <<invoice, rows, task>>,
         NEW step \in {"chargeRow", "reverseRow", "payRow"}, Goto(r, step),
         step = "chargeRow" <=> req[r].pc = "chargeWrite",
         step = "reverseRow" <=> req[r].pc = "reverseWrite",
         IF step = "chargeRow" THEN n >= req[r].seen + req[r].amount
         ELSE n >= req[r].seen - req[r].amount
  PROVE  Books'
<1> DEFINE c == req[r].customer
<1> PICK q : q = [req[r] EXCEPT !.pc = step]
  OBVIOUS
<1>1. /\ c \in Customers /\ credit[c] \in Account /\ req[r].amount \in Nat /\ req[r].seen \in Nat
      /\ \A d \in Customers : ledger[d] \in Int
  BY CustomerOf, LocalOK DEF CustomerSteps, Request, Inv, Shared, SharedType
<1>2. credit[c].open /\ req[r].seen = credit[c].balance
  BY DEF Serial, Snapshot, AccountSteps
<1>3. /\ q.pc = step /\ q.customer = c /\ q.invoice = req[r].invoice /\ q.amount = req[r].amount
      /\ Become(r, q)
  BY Moved DEF Steps, Goto
<1>4. /\ credit'[c].balance = n /\ credit'[c].open
      /\ \A d \in Customers \ {c} : credit'[d] = credit[d]
  BY <1>1, <1>2 DEF Balance, Inv, Shared, SharedType, Account
<1>5. Covered(req[r]) /\ Charged(req[r]) /\ Going(req[r])
  BY Known
<1>6. credit[c].balance >= ledger[c] /\ n \in Nat
  <2>1. Unentered(req[r], c) = 0
    BY DEF Unentered
  <2>2. credit'[c] \in Account
    BY <1>1 DEF Inv, Shared, SharedType
  <2> QED
    BY <1>1, <1>4, <1>5, <2>1, <2>2 DEF Covered, Account
<1>7. Covered(q)'
  <2>1. ASSUME NEW d \in Customers, d # c
        PROVE  /\ credit'[d].balance >= ledger'[d] + Unentered(q, d)
               /\ ~credit'[d].open => credit'[d].balance = 0
    BY <1>3, <1>4, <1>5, <2>1 DEF Covered, Unentered, rows
  <2>2. ledger'[c] = ledger[c]
    BY DEF rows
  <2>3. credit'[c].balance >= ledger'[c] + Unentered(q, c)
    <3>1. CASE step = "chargeRow"
      <4>1. Unentered(q, c) = req[r].amount
        BY <1>3, <3>1 DEF Unentered
      <4> QED
        BY <1>1, <1>2, <1>4, <1>6, <2>2, <3>1, <4>1 DEF Account
    <3>2. CASE step # "chargeRow"
      <4>1. Unentered(q, c) = -req[r].amount
        BY <1>3, <3>2 DEF Unentered
      <4> QED
        BY <1>1, <1>2, <1>4, <1>6, <2>2, <3>2, <4>1 DEF Account
    <3> QED
      BY <3>1, <3>2
  <2> QED
    BY <1>4, <2>1, <2>3 DEF Covered, Unentered
<1>8. Charged(q)'
  BY <1>3, <1>5 DEF Charged, Charging, Placed, rows
<1>9. Going(q)'
  BY <1>3, <1>5 DEF Going, Placed, rows
<1> QED
  BY <1>3, <1>7, <1>8, <1>9, BooksStep, TablesLeft

LEMMA BooksWrites ==
  ASSUME Inv, Inv', Serial, Books, NEW r \in Requests, Requests = {r},
         ChargeWrite(r) \/ ReverseWrite(r) \/ PayWrite(r)
  PROVE  Books'
<1>1. req[r].amount \in Nat /\ req[r].seen \in Nat
  BY LocalOK DEF Request
<1>2. CASE ChargeWrite(r)
  BY <1>1, <1>2, BooksBalance DEF ChargeWrite, At
<1>3. CASE ReverseWrite(r)
  <2>1. /\ Reduced(req[r].seen, req[r].amount) >= req[r].seen - req[r].amount
    BY <1>1 DEF Reduced
  <2> QED
    BY <1>1, <1>3, <2>1, BooksBalance DEF ReverseWrite, At
<1>4. CASE PayWrite(r)
  BY <1>1, <1>4, BooksBalance DEF PayWrite, At
<1> QED
  BY <1>2, <1>3, <1>4

LEMMA BooksLimitWrite ==
  ASSUME Inv, Inv', Books, NEW r \in Requests, Requests = {r}, LimitWrite(r)
  PROVE  Books'
<1> DEFINE c == req[r].customer
<1>1. At(r, "limitWrite") /\ c \in Customers /\ UNCHANGED <<invoice, rows, task>> /\ Finish(r)
  BY CustomerOf DEF LimitWrite, At, CustomerSteps
<1>2. Balanced /\ AllCharged
  BY <1>1, Known DEF At, Busy
<1>3. \A d \in Customers : /\ credit'[d].balance = credit[d].balance
                          /\ credit'[d].open = credit[d].open
  BY <1>1 DEF LimitWrite, Inv, Shared, SharedType, Account
<1>4. Balanced'
  BY <1>1, <1>2, <1>3 DEF Balanced, rows
<1> QED
  BY <1>1, <1>2, <1>4, BooksEnd, TablesLeft

-----------------------------------------------------------------------------
(* The rows of the ledger. *)

LEMMA BooksChargeRow ==
  ASSUME Inv, Inv', Books, NEW r \in Requests, Requests = {r}, ChargeRow(r)
  PROVE  Books'
<1> DEFINE c == req[r].customer
           i == req[r].invoice
<1> PICK q : q = [req[r] EXCEPT !.pc = "task"]
  OBVIOUS
<1>1. /\ req[r].pc = "chargeRow" /\ c \in Customers /\ i \in Invoices /\ req[r].amount \in Nat
      /\ req[r].amount > 0 /\ SharedType
  BY CustomerOf, InvoiceOf, LocalOK
     DEF ChargeRow, At, CustomerSteps, InvoiceSteps, SaleSteps, Request, Good, Inv, Shared
<1>2. q.pc = "task" /\ q.customer = c /\ q.invoice = i /\ Become(r, q)
  BY Moved DEF Steps, Goto, ChargeRow
<1>3. /\ \A j \in Invoices : charged'[j] = IF j = i THEN charged[j] + req[r].amount ELSE charged[j]
      /\ \A d \in Customers : ledger'[d] = IF d = c THEN ledger[d] + req[r].amount ELSE ledger[d]
      /\ UNCHANGED <<credit, invoice, abonado, reversed, task>>
  BY <1>1 DEF ChargeRow, WithCharge, SharedType
<1>4. /\ Covered(req[r]) /\ Charged(req[r]) /\ Reversed /\ SettledMeansPaid
      /\ req[r].amount = invoice[i].total
  BY <1>1, Known DEF Going
<1>5. Covered(q)'
  <2> SUFFICES ASSUME NEW d \in Customers PROVE credit[d].balance >= ledger'[d]
    BY <1>2, <1>3, <1>4, <1>1 DEF Covered, Unentered, SharedType
  <2>1. credit[d].balance >= ledger[d] + Unentered(req[r], d)
    BY <1>4 DEF Covered
  <2>2. Unentered(req[r], d) = IF d = c THEN req[r].amount ELSE 0
    BY <1>1 DEF Unentered
  <2>3. ledger[d] \in Int
    BY <1>1 DEF SharedType
  <2> QED
    BY <1>1, <1>3, <2>1, <2>2, <2>3
<1>6. Charged(q)'
  <2> SUFFICES ASSUME NEW j \in Placed
               PROVE  charged'[j] > 0 /\ charged'[j] >= invoice[j].total
    BY <1>2, <1>3 DEF Charged, Placed
  <2>1. j \in Invoices /\ charged[j] \in Nat
    BY <1>1 DEF Placed, SharedType
  <2>2. CASE j = i
    BY <1>1, <1>3, <1>4, <2>1, <2>2
  <2>3. CASE j # i
    BY <1>3, <1>4, <2>1, <2>3 DEF Charged, Charging
  <2> QED
    BY <2>2, <2>3
<1>7. Reversed'
  <2> SUFFICES ASSUME NEW j \in Invoices PROVE reversed[j] <= charged'[j]
    BY <1>3, <1>4 DEF Reversed, Placed
  <2>1. reversed[j] \in Nat /\ charged[j] \in Nat /\ reversed[j] <= charged[j]
    BY <1>1, <1>4 DEF Reversed, SharedType
  <2> QED
    BY <1>1, <1>3, <2>1
<1>8. SettledMeansPaid'
  BY <1>3, <1>4 DEF SettledMeansPaid, Placed
<1>9. Going(q)'
  BY <1>2 DEF Going
<1> QED
  BY <1>2, <1>5, <1>6, <1>7, <1>8, <1>9, BooksStep

LEMMA BooksReverseRow ==
  ASSUME Inv, Inv', Books, NEW r \in Requests, Requests = {r}, ReverseRow(r)
  PROVE  Books'
<1> DEFINE c == req[r].customer
           i == req[r].invoice
<1>1. /\ req[r].pc = "reverseRow" /\ c \in Customers /\ i \in Invoices /\ i \in Placed
      /\ req[r].amount \in Nat /\ SharedType
  BY CustomerOf, InvoiceOf, LocalOK
     DEF ReverseRow, At, CustomerSteps, InvoiceSteps, Request, Linked, Inv, Shared
<1>2. /\ \A j \in Invoices : abonado'[j] = IF j = i THEN abonado[j] + req[r].amount ELSE abonado[j]
      /\ \A j \in Invoices :
           reversed'[j] = IF j = i THEN reversed[j] + req[r].amount ELSE reversed[j]
      /\ \A d \in Customers : ledger'[d] = IF d = c THEN ledger[d] - req[r].amount ELSE ledger[d]
      /\ UNCHANGED <<credit, invoice, charged, task>> /\ Finish(r)
  BY <1>1 DEF ReverseRow, SharedType
<1>3. /\ Covered(req[r]) /\ Charged(req[r]) /\ Reversed /\ SettledMeansPaid
      /\ invoice[i].deleted /\ reversed[i] = 0 /\ req[r].amount <= charged[i]
  BY <1>1, Known DEF Going
<1>4. Balanced'
  <2> SUFFICES ASSUME NEW d \in Customers PROVE credit[d].balance >= ledger'[d]
    BY <1>2, <1>3 DEF Balanced, Covered
  <2>1. credit[d].balance >= ledger[d] + Unentered(req[r], d)
    BY <1>3 DEF Covered
  <2>2. Unentered(req[r], d) = IF d = c THEN -req[r].amount ELSE 0
    BY <1>1 DEF Unentered
  <2>3. ledger[d] \in Int
    BY <1>1 DEF SharedType
  <2> QED
    BY <1>1, <1>2, <2>1, <2>2, <2>3
<1>5. AllCharged'
  BY <1>1, <1>2, <1>3 DEF Charged, Charging, AllCharged, Placed
<1>6. Reversed'
  BY <1>1, <1>2, <1>3 DEF Reversed, Placed
<1>7. SettledMeansPaid'
  <2> SUFFICES ASSUME NEW j \in Placed PROVE abonado'[j] >= abonado[j] /\ invoice[j].total \in Nat
                                             /\ abonado[j] \in Nat /\ abonado'[j] \in Nat
    BY <1>2, <1>3 DEF SettledMeansPaid, Placed
  <2>1. j \in Invoices /\ abonado[j] \in Nat /\ invoice[j] \in Invoice
    BY <1>1 DEF Placed, SharedType
  <2> QED
    BY <1>1, <1>2, <2>1 DEF Invoice
<1> QED
  BY <1>2, <1>4, <1>5, <1>6, <1>7, BooksEnd

LEMMA BooksPayRow ==
  ASSUME Inv, Inv', Books, NEW r \in Requests, Requests = {r}, PayRow(r)
  PROVE  Books'
<1> DEFINE c == req[r].customer
           i == req[r].invoice
<1>1. /\ req[r].pc = "payRow" /\ c \in Customers /\ req[r].amount \in Nat /\ SharedType
  BY CustomerOf, LocalOK DEF PayRow, At, CustomerSteps, Request, Inv, Shared
<1>2. /\ Covered(req[r]) /\ Charged(req[r]) /\ Reversed /\ SettledMeansPaid
      /\ i \in Placed \cup {None}
  BY <1>1, Known DEF Going
<1>3. /\ ledger' = [ledger EXCEPT ![c] = @ - req[r].amount]
      /\ abonado' = IF i = None THEN abonado ELSE [abonado EXCEPT ![i] = @ + req[r].amount]
      /\ IF i = None THEN Finish(r) ELSE Goto(r, "close")
      /\ UNCHANGED <<credit, invoice, charged, reversed, task>>
  BY <1>2 DEF PayRow
<1>4. /\ \A j \in Invoices : abonado'[j] = abonado[j] \/ abonado'[j] = abonado[j] + req[r].amount
      /\ \A d \in Customers : ledger'[d] = IF d = c THEN ledger[d] - req[r].amount ELSE ledger[d]
  BY <1>1, <1>3 DEF SharedType
<1>5. Balanced'
  <2> SUFFICES ASSUME NEW d \in Customers PROVE credit[d].balance >= ledger'[d]
    BY <1>2, <1>3 DEF Balanced, Covered
  <2>1. credit[d].balance >= ledger[d] + Unentered(req[r], d)
    BY <1>2 DEF Covered
  <2>2. Unentered(req[r], d) = IF d = c THEN -req[r].amount ELSE 0
    BY <1>1 DEF Unentered
  <2>3. ledger[d] \in Int
    BY <1>1 DEF SharedType
  <2> QED
    BY <1>1, <1>4, <2>1, <2>2, <2>3
<1>6. AllCharged'
  BY <1>1, <1>2, <1>3 DEF Charged, Charging, AllCharged, Placed
<1>7. Reversed'
  BY <1>2, <1>3 DEF Reversed, Placed
<1>8. SettledMeansPaid'
  <2> SUFFICES ASSUME NEW j \in Placed PROVE abonado'[j] >= abonado[j] /\ invoice[j].total \in Nat
                                             /\ abonado[j] \in Nat /\ abonado'[j] \in Nat
    BY <1>2, <1>3 DEF SettledMeansPaid, Placed
  <2>1. j \in Invoices /\ abonado[j] \in Nat /\ invoice[j] \in Invoice
    BY <1>1 DEF Placed, SharedType
  <2> QED
    BY <1>1, <1>4, <2>1 DEF Invoice
<1>9. CASE Finish(r)
  BY <1>5, <1>6, <1>7, <1>8, <1>9, BooksEnd
<1>10. CASE Goto(r, "close")
  <2> PICK q : q = [req[r] EXCEPT !.pc = "close"]
    OBVIOUS
  <2>1. q.pc = "close" /\ Become(r, q)
    BY <1>10, Moved DEF Steps, Goto
  <2>2. Going(q)'
    BY <2>1 DEF Going
  <2> QED
    BY <1>5, <1>6, <1>7, <1>8, <2>1, <2>2, BooksFree DEF Busy
<1> QED
  BY <1>3, <1>9, <1>10

-----------------------------------------------------------------------------
(* The tasks. *)

LEMMA BooksCreateTask ==
  ASSUME Inv, Inv', Books, NEW r \in Requests, Requests = {r}, CreateTask(r)
  PROVE  Books'
<1>1. /\ req[r].pc = "task" /\ req[r].invoice \in Invoices /\ SharedType
      /\ Finish(r) /\ UNCHANGED <<credit, invoice, rows>>
  BY InvoiceOf DEF CreateTask, At, InvoiceSteps, Inv, Shared
<1>3. Covered(req[r]) /\ Charged(req[r]) /\ Reversed /\ SettledMeansPaid
  BY Known
<1>4. \A d \in Customers : Unentered(req[r], d) = 0 /\ ledger[d] \in Int
  BY <1>1 DEF Unentered, SharedType
<1>5. Balanced'
  BY <1>1, <1>3, <1>4 DEF Balanced, Covered, rows
<1>6. AllCharged'
  BY <1>1, <1>3 DEF AllCharged, Charged, Charging, Placed, rows
<1>7. Reversed' /\ SettledMeansPaid'
  BY <1>1, <1>3 DEF Reversed, SettledMeansPaid, Placed, rows
<1> QED
  BY <1>1, <1>5, <1>6, <1>7, BooksEnd

LEMMA BooksCloseTask ==
  ASSUME Inv, Inv', Books, NEW r \in Requests, Requests = {r}, CloseTask(r)
  PROVE  Books'
<1>1. /\ req[r].pc = "closeTask" /\ SharedType
      /\ Finish(r) /\ UNCHANGED <<credit, invoice, rows>>
  BY DEF CloseTask, At, Inv, Shared
<1>3. Balanced /\ AllCharged /\ Reversed /\ SettledMeansPaid
  BY <1>1, Known DEF Busy
<1>4. Balanced' /\ Reversed' /\ SettledMeansPaid'
  BY <1>1, <1>3 DEF Balanced, Reversed, SettledMeansPaid, Placed, rows
<1>5. AllCharged'
  BY <1>1, <1>3 DEF AllCharged, Placed, rows
<1> QED
  BY <1>1, <1>4, <1>5, BooksEnd

\* A person who sets a task leaves the books alone.
LEMMA BooksPeople == ASSUME Inv, Books, People PROVE Books'
<1>1. PICK i \in Invoices, status \in {"PENDING", "DONE"} : SetTask(i, status)
  BY DEF People
<1>2. UNCHANGED <<credit, invoice, rows, req>>
  BY <1>1 DEF SetTask
<1>3. Reversed' /\ SettledMeansPaid'
  BY <1>2 DEF Books, Reversed, SettledMeansPaid, Placed, rows
<1>4. ASSUME NEW r \in Requests
      PROVE  Covered(req[r])' /\ Charged(req[r])' /\ Going(req[r])'
  <2>1. Covered(req[r]) /\ Charged(req[r]) /\ Going(req[r])
    BY DEF Books
  <2> QED
    BY <1>2, <2>1 DEF Covered, Unentered, Charged, Charging, Going, Placed, rows
<1> QED
  BY <1>3, <1>4 DEF Books

-----------------------------------------------------------------------------
(* The invoices. *)

LEMMA BooksInsert ==
  ASSUME Inv, Inv', Books, NEW r \in Requests, Requests = {r}, InsertInvoice(r)
  PROVE  Books'
<1> DEFINE c == req[r].customer
<1>1. PICK i \in Invoices \ Placed :
        /\ invoice' = [invoice EXCEPT ![i] =
             [NoInvoice EXCEPT !.status = "PAID", !.payment = "pending_credit",
                 !.customer = req[r].customer, !.method = req[r].method,
                 !.total = req[r].amount]]
        /\ Become(r, [req[r] EXCEPT !.pc = "charge", !.invoice = i])
  BY DEF InsertInvoice
<1> PICK q : q = [req[r] EXCEPT !.pc = "charge", !.invoice = i]
  OBVIOUS
<1>2. /\ req[r].pc = "insert" /\ UNCHANGED <<credit, rows, task>> /\ c \in Customers /\ SharedType
  BY CustomerOf DEF InsertInvoice, At, CustomerSteps, Inv, Shared
<1>3. /\ q.pc = "charge" /\ q.invoice = i /\ q.customer = c /\ q.amount = req[r].amount
      /\ Become(r, q)
  BY <1>1, LocalOK DEF Request
<1>4. /\ invoice'[i].total = req[r].amount /\ invoice'[i].status # "none"
      /\ invoice'[i].payment = "pending_credit" /\ ~invoice'[i].deleted
      /\ \A j \in Invoices \ {i} : invoice'[j] = invoice[j]
  BY <1>1, <1>2 DEF SharedType, NoInvoice
<1>5. \A j \in Placed' : j = i \/ (j \in Placed /\ j # i)
  BY <1>1, <1>4 DEF Placed
<1>6. /\ Balanced /\ AllCharged /\ Reversed /\ SettledMeansPaid
      /\ req[r].amount <= credit[c].limit - credit[c].balance
  BY <1>2, Known DEF Busy, Going
<1>7. Covered(q)'
  <2>1. \A d \in Customers : Unentered(q, d) = 0 /\ ledger[d] \in Int
    BY <1>2, <1>3 DEF Unentered, SharedType
  <2> QED
    BY <1>2, <1>6, <2>1 DEF Balanced, Covered, Unentered, rows
<1>8. Charged(q)'
  BY <1>2, <1>3, <1>4, <1>5, <1>6 DEF Charged, Charging, AllCharged, Placed, rows
<1>9. Reversed'
  BY <1>1, <1>2, <1>4, <1>6 DEF Reversed, Placed, rows
<1>10. SettledMeansPaid'
  BY <1>2, <1>4, <1>5, <1>6 DEF SettledMeansPaid, Placed, rows
<1>11. Going(q)'
  BY <1>2, <1>3, <1>4, <1>6 DEF Going
<1> QED
  BY <1>3, <1>7, <1>8, <1>9, <1>10, <1>11, BooksStep

\* An invoice of the table changes: its total does not grow, it is paid only when the
\* payments cover it, and it stays voided or has no reversal.
LEMMA BooksEdited ==
  ASSUME Inv, Reversed, SettledMeansPaid, Balanced, AllCharged,
         NEW i \in Placed, NEW v \in Invoice, invoice' = [invoice EXCEPT ![i] = v],
         v.status # "none", v.total <= invoice[i].total,
         v.payment = "paid" => abonado[i] >= v.total,
         ~v.deleted => ~invoice[i].deleted, UNCHANGED <<credit, rows, task>>
  PROVE  Reversed' /\ SettledMeansPaid' /\ Balanced' /\ AllCharged'
<1>1. SharedType /\ i \in Invoices /\ invoice[i].total \in Nat /\ charged[i] \in Nat
  BY DEF Inv, Shared, SharedType, Placed, Invoice
<1>2. \A j \in Invoices : invoice'[j] = IF j = i THEN v ELSE invoice[j]
  BY <1>1 DEF SharedType
<1>3. Placed' = Placed
  BY <1>1, <1>2 DEF Placed
<1>4. Reversed'
  BY <1>1, <1>2, <1>3 DEF Reversed, rows
<1>5. SettledMeansPaid'
  BY <1>1, <1>2, <1>3 DEF SettledMeansPaid, rows, Placed
<1>6. Balanced'
  BY DEF Balanced, rows
<1>7. AllCharged'
  <2>1. v.total \in Nat /\ (charged[i] >= invoice[i].total => charged[i] >= v.total)
    BY <1>1 DEF Invoice
  <2> QED
    BY <1>2, <1>3, <2>1 DEF AllCharged, rows, Placed
<1> QED
  BY <1>4, <1>5, <1>6, <1>7

\* What the requests that change an invoice go by.
LEMMA InvoiceKnown ==
  ASSUME Inv, Books, NEW r \in Requests,
         req[r].pc \in {"void", "closeInvoice", "adjustWrite", "markWrite"}
  PROVE  /\ req[r].invoice \in Placed /\ invoice[req[r].invoice] \in Invoice
         /\ invoice \in [Invoices -> Invoice] /\ req[r] \in Request
         /\ Reversed /\ SettledMeansPaid /\ Balanced /\ AllCharged /\ Going(req[r])
BY Known, InvoiceOf DEF InvoiceSteps, Linked, Busy, Inv, Shared, SharedType

LEMMA BooksVoidCommit ==
  ASSUME Inv, Inv', Books, NEW r \in Requests, Requests = {r}, VoidCommit(r)
  PROVE  Books'
<1> DEFINE i == req[r].invoice
<1> PICK v : v = [invoice[i] EXCEPT !.status = "CANCELLED", !.deleted = TRUE]
  OBVIOUS
<1>1. req[r].pc = "void"
  BY DEF VoidCommit, At
<1>2. /\ i \in Placed /\ i \in Invoices /\ invoice[i] \in Invoice
      /\ invoice \in [Invoices -> Invoice] /\ req[r] \in Request
      /\ Reversed /\ SettledMeansPaid /\ Balanced /\ AllCharged
      /\ ~invoice[i].deleted /\ req[r].amount = invoice[i].total
  BY <1>1, InvoiceKnown DEF Going, Placed
<1>3. /\ v \in Invoice /\ v.status # "none" /\ v.deleted
      /\ v.total = invoice[i].total /\ v.payment = invoice[i].payment
      /\ v.total <= invoice[i].total
  <2>1. v \in Invoice /\ v.status = "CANCELLED" /\ v.deleted
        /\ v.total = invoice[i].total /\ v.payment = invoice[i].payment
    BY <1>2 DEF Invoice
  <2>2. v.total \in Nat
    BY <2>1 DEF Invoice
  <2> QED
    BY <2>1, <2>2
<1>4. invoice' = [invoice EXCEPT ![i] = v] /\ UNCHANGED <<credit, rows, task>>
  BY <1>2 DEF VoidCommit
<1>5. v.payment = "paid" => abonado[i] >= v.total
  BY <1>2, <1>3 DEF SettledMeansPaid
<1>6. Reversed' /\ SettledMeansPaid' /\ Balanced' /\ AllCharged'
  BY <1>2, <1>3, <1>4, <1>5, BooksEdited
<1>7. CASE Finish(r)
  BY <1>6, <1>7, BooksEnd
<1>8. CASE Goto(r, "reverse")
  <2> PICK q : q = [req[r] EXCEPT !.pc = "reverse"]
    OBVIOUS
  <2>1. q.pc = "reverse" /\ q.invoice = i /\ q.amount = req[r].amount /\ Become(r, q)
    BY <1>8, Moved DEF Steps, Goto
  <2>2. invoice'[i].deleted
    BY <1>2, <1>3, <1>4
  <2>3. reversed'[i] = 0 /\ q.amount <= charged'[i]
    BY <1>2, <1>4, <2>1 DEF Reversed, AllCharged, rows, Inv, Shared, SharedType, Invoice
  <2>4. Going(q)'
    BY <2>1, <2>2, <2>3 DEF Going
  <2> QED
    BY <1>6, <2>1, <2>4, BooksFree DEF Busy
<1> QED
  BY <1>7, <1>8 DEF VoidCommit

LEMMA BooksCloseInvoice ==
  ASSUME Inv, Inv', Books, NEW r \in Requests, Requests = {r}, CloseInvoice(r)
  PROVE  Books'
<1> DEFINE i == req[r].invoice
<1> PICK v : v = [invoice[i] EXCEPT !.payment = "paid"]
  OBVIOUS
<1> PICK q : q = [req[r] EXCEPT !.pc = "closeTask"]
  OBVIOUS
<1>1. req[r].pc = "closeInvoice"
  BY DEF CloseInvoice, At
<1>2. /\ i \in Placed /\ i \in Invoices /\ invoice[i] \in Invoice
      /\ invoice \in [Invoices -> Invoice]
      /\ Reversed /\ SettledMeansPaid /\ Balanced /\ AllCharged
      /\ abonado[i] >= invoice[i].total
  BY <1>1, InvoiceKnown DEF Going, Placed
<1>3. /\ v \in Invoice /\ v.status = invoice[i].status /\ v.deleted = invoice[i].deleted
      /\ v.total = invoice[i].total /\ v.total <= invoice[i].total /\ v.status # "none"
  BY <1>2 DEF Invoice, Placed
<1>4. invoice' = [invoice EXCEPT ![i] = v] /\ UNCHANGED <<credit, rows, task>>
  BY <1>2 DEF CloseInvoice
<1>5. Reversed' /\ SettledMeansPaid' /\ Balanced' /\ AllCharged'
  BY <1>2, <1>3, <1>4, BooksEdited
<1>6. q.pc = "closeTask" /\ Become(r, q)
  BY Moved DEF Steps, Goto, CloseInvoice
<1>7. Going(q)'
  BY <1>6 DEF Going
<1> QED
  BY <1>5, <1>6, <1>7, BooksFree DEF Busy

LEMMA BooksAdjustWrite ==
  ASSUME Inv, Inv', Books, NEW r \in Requests, Requests = {r}, AdjustWrite(r)
  PROVE  Books'
<1> DEFINE i == req[r].invoice
<1> PICK v : v = [invoice[i] EXCEPT !.total = req[r].amount]
  OBVIOUS
<1>1. req[r].pc = "adjustWrite"
  BY DEF AdjustWrite, At
<1>2. /\ i \in Placed /\ i \in Invoices /\ invoice[i] \in Invoice
      /\ invoice \in [Invoices -> Invoice] /\ req[r].amount \in Nat
      /\ Reversed /\ SettledMeansPaid /\ Balanced /\ AllCharged
      /\ req[r].amount <= invoice[i].total /\ abonado[i] \in Nat
  BY <1>1, InvoiceKnown DEF Going, Placed, Request, Inv, Shared, SharedType
<1>3. /\ v \in Invoice /\ v.status = invoice[i].status /\ v.deleted = invoice[i].deleted
      /\ v.total = req[r].amount /\ v.payment = invoice[i].payment
      /\ invoice[i].total \in Nat /\ v.status # "none"
  BY <1>2 DEF Invoice, Placed
<1>4. invoice' = [invoice EXCEPT ![i] = v] /\ UNCHANGED <<credit, rows, task>> /\ Finish(r)
  BY <1>2 DEF AdjustWrite
<1>5. v.payment = "paid" => abonado[i] >= v.total
  BY <1>2, <1>3 DEF SettledMeansPaid
<1>6. Reversed' /\ SettledMeansPaid' /\ Balanced' /\ AllCharged'
  BY <1>2, <1>3, <1>4, <1>5, BooksEdited
<1> QED
  BY <1>4, <1>6, BooksEnd

LEMMA BooksMarkWrite ==
  ASSUME Inv, Inv', Books, NEW r \in Requests, Requests = {r}, MarkWrite(r)
  PROVE  Books'
<1> DEFINE i == req[r].invoice
<1> PICK v : v = [invoice[i] EXCEPT !.marked = TRUE, !.status = "PAID"]
  OBVIOUS
<1>1. req[r].pc = "markWrite"
  BY DEF MarkWrite, At
<1>2. /\ i \in Placed /\ i \in Invoices /\ invoice[i] \in Invoice
      /\ invoice \in [Invoices -> Invoice]
      /\ Reversed /\ SettledMeansPaid /\ Balanced /\ AllCharged
  BY <1>1, InvoiceKnown DEF Placed
<1>3. /\ v \in Invoice /\ v.status # "none" /\ v.deleted = invoice[i].deleted
      /\ v.total = invoice[i].total /\ v.total <= invoice[i].total
      /\ v.payment = invoice[i].payment
  <2>1. v \in Invoice /\ v.status = "PAID" /\ v.deleted = invoice[i].deleted
        /\ v.total = invoice[i].total /\ v.payment = invoice[i].payment
    BY <1>2 DEF Invoice
  <2>2. v.total \in Nat
    BY <2>1 DEF Invoice
  <2> QED
    BY <2>1, <2>2
<1>4. invoice' = [invoice EXCEPT ![i] = v] /\ UNCHANGED <<credit, rows, task>> /\ Finish(r)
  BY <1>2 DEF MarkWrite
<1>5. v.payment = "paid" => abonado[i] >= v.total
  BY <1>2, <1>3 DEF SettledMeansPaid
<1>6. Reversed' /\ SettledMeansPaid' /\ Balanced' /\ AllCharged'
  BY <1>2, <1>3, <1>4, <1>5, BooksEdited
<1> QED
  BY <1>4, <1>6, BooksEnd

-----------------------------------------------------------------------------
(* The theorems. *)

LEMMA BooksNext ==
  ASSUME OneRequest, KnownInvoices, Inv, Serial, Books, [ReliableNext]_vars
  PROVE  Inv' /\ Serial' /\ Books'
<1>1. [Next]_vars
  BY DEF Next
<1>2. Inv' /\ Serial'
  BY <1>1, NextKeeps, SerialNext, Single
<1>3. ASSUME UNCHANGED vars PROVE Books'
  <2>1. UNCHANGED <<credit, invoice, charged, abonado, reversed, ledger, task, req>>
    BY <1>3 DEF vars, rows
  <2>2. Reversed' /\ SettledMeansPaid'
    BY <2>1 DEF Books, Reversed, SettledMeansPaid, Placed
  <2>3. ASSUME NEW r \in Requests
        PROVE  Covered(req[r])' /\ Charged(req[r])' /\ Going(req[r])'
    <3>1. Covered(req[r]) /\ Charged(req[r]) /\ Going(req[r])
      BY DEF Books
    <3> QED
      BY <2>1, <3>1 DEF Covered, Unentered, Charged, Charging, Going, Placed
  <2> QED
    BY <2>2, <2>3 DEF Books
<1>4. ASSUME People PROVE Books'
  BY <1>4, BooksPeople
<1>5. ASSUME NEW r \in Requests, Begin(r) \/ Continue(r) PROVE Books'
  <2>1. Requests = {r}
    BY Single
  <2>2. ASSUME Begin(r) PROVE Books'
    BY <1>2, <2>1, <2>2, BooksBegin
  <2>3. ASSUME Continue(r) PROVE Books'
    BY <1>2, <2>1, <2>3, BooksSaleCheck, BooksSaleOpen, BooksInsert, BooksChargeRead, BooksWrites,
       BooksChargeRow, BooksCreateTask, BooksVoidCommit, BooksReads, BooksReverseRow,
       BooksPayRow, BooksCloseInvoice, BooksCloseTask, BooksLimitWrite, BooksAdjustWrite,
       BooksMarkWrite DEF Continue
  <2> QED
    BY <1>5, <2>2, <2>3
<1> QED
  BY <1>2, <1>3, <1>4, <1>5 DEF ReliableNext

LEMMA BooksInit == Init => Inv /\ Serial /\ Books
<1> SUFFICES ASSUME Init PROVE Inv /\ Serial /\ Books
  OBVIOUS
<1>1. Serial
  BY DEF Init, Serial, InvoicesOpen, Placed, NoInvoice, Snapshot, AccountSteps, Idle
<1>2. Reversed /\ SettledMeansPaid
  BY DEF Init, Reversed, SettledMeansPaid, Placed, NoInvoice
<1>3. ASSUME NEW r \in Requests
      PROVE  Covered(req[r]) /\ Charged(req[r]) /\ Going(req[r])
  <2>1. req[r] = Idle
    BY DEF Init
  <2> QED
    BY <2>1, IdleGoes DEF Init, Idle, Covered, Unentered, Charged, Placed, NoInvoice
<1> QED
  BY <1>1, <1>2, <1>3, InitInv DEF Books

LEMMA BooksHold ==
  ASSUME OneRequest, KnownInvoices
  PROVE  FairSpec => [](Inv /\ Books)
<1>1. Init => Inv /\ Serial /\ Books
  BY BooksInit
<1>2. Inv /\ Serial /\ Books /\ [ReliableNext]_vars => Inv' /\ Serial' /\ Books'
  BY BooksNext
<1> QED
  BY <1>1, <1>2, PTL DEF FairSpec

LEMMA QuietBooks ==
  ASSUME Inv, Books, Quiet, OneRequest
  PROVE  Balanced /\ AllCharged
BY Known DEF OneRequest, Quiet, At, Busy

\* When one request runs at a time and none fails, currentBalance never falls short of
\* the rows of the ledger: registerPayment, the charge and the reversal write both.
THEOREM BalancesCoverLedgers ==
  ASSUME OneRequest, KnownInvoices
  PROVE  FairSpec => []BalanceCoversLedger
<1>1. Inv /\ Books => BalanceCoversLedger
  BY QuietBooks DEF Balanced, BalanceCoversLedger
<1> QED
  BY <1>1, BooksHold, PTL

\* When one request runs at a time and none fails, every sale on credit ends charged for
\* what it was sold for, whether or not its collection task can be created: the second check
\* of the limit finds what the first did.
THEOREM SalesCharged ==
  ASSUME OneRequest, KnownInvoices
  PROVE  FairSpec => []SalesAreCharged
<1>1. Inv /\ Books => SalesAreCharged
  BY QuietBooks DEF AllCharged, SalesAreCharged
<1> QED
  BY <1>1, BooksHold, PTL

\* When one request runs at a time and none fails, an invoice shown as paid has payments for
\* its total: the closing compares the payments with the total it read just before.
THEOREM SettledArePaid ==
  ASSUME OneRequest, KnownInvoices
  PROVE  FairSpec => []SettledMeansPaid
<1>1. Inv /\ Books => SettledMeansPaid
  BY DEF Books
<1> QED
  BY <1>1, BooksHold, PTL

\* When one request runs at a time and none fails, what was charged for an invoice is
\* reversed at most once, voided and marked as paid in any order.
THEOREM ReversedAtMostOnce ==
  ASSUME OneRequest, KnownInvoices
  PROVE  FairSpec => []ReversedOnce
<1>1. Inv /\ Books => ReversedOnce
  BY DEF Books, Reversed, ReversedOnce
<1> QED
  BY <1>1, BooksHold, PTL
=============================================================================
