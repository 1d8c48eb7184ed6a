---------------------------- MODULE CreditSales ----------------------------
(***************************************************************************)
(* Sales on credit: the part of invoices.service.ts that sells on credit,  *)
(* voids, adjusts and marks invoices, credits.service.ts, and the          *)
(* collection tasks of tasks.service.ts.  No transaction covers these      *)
(* operations: a request is a chain of statements, each a step here, and   *)
(* currentBalance is read by one statement and written whole by another.   *)
(* The table credit_transactions is kept as the sums its readers ask for.  *)
(* Stock, numbers and taxes of an invoice are left out.                    *)
(***************************************************************************)
EXTENDS Integers, FiniteSets

CONSTANTS
  Customers, Invoices, Requests,
  Totals,           \* totals a sale may have
  Methods,          \* CREDIT, and MIXED for a sale paid by credit and something else
  Limits,           \* limits an administrator may set
  DefaultLimit,     \* the limit of an account opened by a sale (50 in the code)
  Operations,       \* the kinds of request that arrive
  UnknownInvoices,  \* TRUE when a payment may name an invoice that does not exist
  None              \* SQL NULL

ASSUME CreditAssumption ==
  /\ Totals \subseteq Nat \ {0}
  /\ Methods \subseteq {"CREDIT", "MIXED"}
  /\ Limits \subseteq Nat
  /\ DefaultLimit \in Nat
  /\ Operations \subseteq {"sale", "void", "payment", "limit", "adjust", "mark", "task"}
  /\ UnknownInvoices \in BOOLEAN
  /\ None \notin Invoices /\ None \notin Customers

VARIABLES
  credit,     \* customer_credits, by customer
  invoice,    \* the credit invoices
  charged,    \* sum of the CHARGE rows of each invoice
  abonado,    \* sum of the PAYMENT rows of each invoice, reversals included
  reversed,   \* sum of the reversals among them
  ledger,     \* CHARGE rows minus PAYMENT rows of each customer's account
  task,       \* the COBRANZA task of each invoice
  req         \* the request each server task is running

rows == <<charged, abonado, reversed, ledger>>
vars == <<credit, invoice, rows, task, req>>

Steps == {"idle", "saleCheck", "saleOpen", "insert", "charge", "chargeWrite", "chargeRow",
          "task", "void", "reverse", "reverseWrite", "reverseRow", "payWrite", "payRow",
          "close", "closeSum", "closeInvoice", "closeTask", "limitWrite", "adjustWrite",
          "markWrite"}

Account == [open : BOOLEAN, limit : Nat, balance : Nat]

Invoice == [status : {"none", "PAID", "CANCELLED"}, deleted : BOOLEAN,
            customer : Customers \cup {None}, method : {"CREDIT", "MIXED"},
            payment : {"pending_credit", "paid"}, total : Nat, marked : BOOLEAN]

\* amount: of the sale, payment, reversal or new limit; seen: the balance or total read.
Request == [pc : Steps, customer : Customers \cup {None}, invoice : Invoices \cup {None},
            amount : Nat, seen : Nat, method : {"CREDIT", "MIXED"}, reverses : BOOLEAN]

NoInvoice == [status |-> "none", deleted |-> FALSE, customer |-> None, method |-> "CREDIT",
              payment |-> "paid", total |-> 0, marked |-> FALSE]

Idle == [pc |-> "idle", customer |-> None, invoice |-> None, amount |-> 0, seen |-> 0,
         method |-> "CREDIT", reverses |-> FALSE]

Init ==
  /\ credit = [c \in Customers |-> [open |-> FALSE, limit |-> 0, balance |-> 0]]
  /\ invoice = [i \in Invoices |-> NoInvoice]
  /\ charged = [i \in Invoices |-> 0]
  /\ abonado = [i \in Invoices |-> 0]
  /\ reversed = [i \in Invoices |-> 0]
  /\ ledger = [c \in Customers |-> 0]
  /\ task = [i \in Invoices |-> "none"]
  /\ req = [r \in Requests |-> Idle]

TypeOK ==
  /\ credit \in [Customers -> Account]
  /\ invoice \in [Invoices -> Invoice]
  /\ charged \in [Invoices -> Nat]
  /\ abonado \in [Invoices -> Nat]
  /\ reversed \in [Invoices -> Nat]
  /\ ledger \in [Customers -> Int]
  /\ task \in [Invoices -> {"none", "PENDING", "DONE"}]
  /\ req \in [Requests -> Request]

Placed == {i \in Invoices : invoice[i].status # "none"}

At(r, step) == req[r].pc = step
Arrives(r, operation) == At(r, "idle") /\ operation \in Operations
Become(r, q) == req' = [req EXCEPT ![r] = q]
Goto(r, step) == Become(r, [req[r] EXCEPT !.pc = step])
Finish(r) == Become(r, Idle)

\* Mutant of Available: the limit alone is compared.
LimitOnly(c) == credit[c].limit

Available(c) == credit[c].limit - credit[c].balance

\* The balance is written whole, from the value an earlier statement read.
Balance(c, n) == credit' = [credit EXCEPT ![c].balance = n]

\* Mutant of Reduced: no clamp at zero.
Unclamped(n, a) == n - a

\* Mutant of Reduced: the reversal clears the debt.
Cleared(n, a) == 0

\* Math.max(0, balance - amount)
Reduced(n, a) == IF n > a THEN n - a ELSE 0

-----------------------------------------------------------------------------
(* A sale on credit: create, with chargeForInvoice and tasks.create. *)

\* Bound: a sale begins only while there is an invoice left for it.
Selling == {r \in Requests : req[r].pc \in {"saleCheck", "saleOpen", "insert"}}

BeginSale(r, c, total, method) ==
  /\ Arrives(r, "sale")
  /\ Cardinality(Selling) < Cardinality(Invoices \ Placed)
  /\ Become(r, [Idle EXCEPT !.pc = "saleCheck", !.customer = c, !.amount = total,
                            !.method = method])
  /\ UNCHANGED <<credit, invoice, rows, task>>

\* getOrCreateCredit finds the account, or is about to open one; the first check of the limit.
SaleCheck(r) ==
  /\ At(r, "saleCheck")
  /\ LET c == req[r].customer
     IN  IF ~credit[c].open THEN Goto(r, "saleOpen")
         ELSE IF Available(c) < req[r].amount THEN Finish(r)
         ELSE Goto(r, "insert")
  /\ UNCHANGED <<credit, invoice, rows, task>>

Opened(c) == IF credit[c].open THEN credit[c]
             ELSE [open |-> TRUE, limit |-> DefaultLimit, balance |-> 0]

\* customerId is unique: the request that finds the account opened meanwhile fails.
SaleOpen(r) ==
  /\ At(r, "saleOpen")
  /\ LET c == req[r].customer
     IN  /\ credit' = [credit EXCEPT ![c] = Opened(c)]
         /\ IF credit[c].open \/ DefaultLimit < req[r].amount THEN Finish(r)
            ELSE Goto(r, "insert")
  /\ UNCHANGED <<invoice, rows, task>>

\* The transaction of the sale commits; nothing after it is undone with it.
InsertInvoice(r) ==
  /\ At(r, "insert")
  /\ \E i \in Invoices \ Placed :
       /\ invoice' = [invoice EXCEPT ![i] =
            [NoInvoice EXCEPT !.status = "PAID", !.payment = "pending_credit",
                !.customer = req[r].customer, !.method = req[r].method,
                !.total = req[r].amount]]
       /\ Become(r, [req[r] EXCEPT !.pc = "charge", !.invoice = i])
  /\ UNCHANGED <<credit, rows, task>>

\* chargeForInvoice checks the limit again; when it throws, the invoice stays.
ChargeRead(r) ==
  /\ At(r, "charge")
  /\ LET c == req[r].customer
     IN  IF Available(c) < req[r].amount THEN Finish(r)
         ELSE Become(r, [req[r] EXCEPT !.pc = "chargeWrite", !.seen = credit[c].balance])
  /\ UNCHANGED <<credit, invoice, rows, task>>

ChargeWrite(r) ==
  /\ At(r, "chargeWrite")
  /\ Balance(req[r].customer, req[r].seen + req[r].amount)
  /\ Goto(r, "chargeRow")
  /\ UNCHANGED <<invoice, rows, task>>

\* Mutant of WithCharge: the row does not name its invoice.
ChargeUnnamed(i, a) == charged

WithCharge(i, a) == [charged EXCEPT ![i] = @ + a]

ChargeRow(r) ==
  /\ At(r, "chargeRow")
  /\ charged' = WithCharge(req[r].invoice, req[r].amount)
  /\ ledger' = [ledger EXCEPT ![req[r].customer] = @ + req[r].amount]
  /\ Goto(r, "task")
  /\ UNCHANGED <<credit, invoice, abonado, reversed, task>>

\* tasks.create throws when the seller has no ACTIVE membership of the organisation, which
\* a platform administrator let in by OrganizationGuard need not have: the charged invoice
\* stays without a task, and the request ends with an error.
CreateTask(r) ==
  /\ At(r, "task")
  /\ task' \in {[task EXCEPT ![req[r].invoice] = "PENDING"], task}
  /\ Finish(r)
  /\ UNCHANGED <<credit, invoice, rows>>

-----------------------------------------------------------------------------
(* voidInvoice, with reverseChargeForVoid. *)

\* Mutant of IsCreditSale: only invoices still pending are.
StillPending(i) == invoice[i].payment = "pending_credit"

IsCreditSale(i) == invoice[i].method = "CREDIT" \/ invoice[i].payment = "pending_credit"

\* Mutant of Voidable: the mark of deletion is not looked at.
VoidableIfPaid(i) == invoice[i].status = "PAID"

Voidable(i) == invoice[i].status = "PAID" /\ ~invoice[i].deleted

\* The invoice is read, and whether it is a sale on credit decided, before the transaction.
BeginVoid(r, i) ==
  /\ Arrives(r, "void")
  /\ Voidable(i)
  /\ Become(r, [Idle EXCEPT !.pc = "void", !.invoice = i, !.customer = invoice[i].customer,
                !.amount = invoice[i].total, !.reverses = IsCreditSale(i)])
  /\ UNCHANGED <<credit, invoice, rows, task>>

VoidCommit(r) ==
  /\ At(r, "void")
  /\ invoice' = [invoice EXCEPT ![req[r].invoice].status = "CANCELLED",
                                ![req[r].invoice].deleted = TRUE]
  /\ IF req[r].reverses THEN Goto(r, "reverse") ELSE Finish(r)
  /\ UNCHANGED <<credit, rows, task>>

ReverseRead(r) ==
  /\ At(r, "reverse")
  /\ Become(r, [req[r] EXCEPT !.pc = "reverseWrite",
                              !.seen = credit[req[r].customer].balance])
  /\ UNCHANGED <<credit, invoice, rows, task>>

ReverseWrite(r) ==
  /\ At(r, "reverseWrite")
  /\ Balance(req[r].customer, Reduced(req[r].seen, req[r].amount))
  /\ Goto(r, "reverseRow")
  /\ UNCHANGED <<invoice, rows, task>>

ReverseRow(r) ==
  /\ At(r, "reverseRow")
  /\ abonado' = [abonado EXCEPT ![req[r].invoice] = @ + req[r].amount]
  /\ reversed' = [reversed EXCEPT ![req[r].invoice] = @ + req[r].amount]
  /\ ledger' = [ledger EXCEPT ![req[r].customer] = @ - req[r].amount]
  /\ Finish(r)
  /\ UNCHANGED <<credit, invoice, charged, task>>

-----------------------------------------------------------------------------
(* registerPayment, with tryCloseCollectionTaskForInvoice. *)

\* dto.invoiceId: any number, or none; it need not be an invoice of this customer.
Payables == Placed \cup {None} \cup (IF UnknownInvoices THEN Invoices ELSE {})

BeginPayment(r, c, amount, i) ==
  /\ Arrives(r, "payment")
  /\ credit[c].open
  /\ i \in Payables
  /\ amount > 0 /\ amount <= credit[c].balance
  /\ Become(r, [Idle EXCEPT !.pc = "payWrite", !.customer = c, !.invoice = i,
                            !.amount = amount, !.seen = credit[c].balance])
  /\ UNCHANGED <<credit, invoice, rows, task>>

PayWrite(r) ==
  /\ At(r, "payWrite")
  /\ Balance(req[r].customer, req[r].seen - req[r].amount)
  /\ Goto(r, "payRow")
  /\ UNCHANGED <<invoice, rows, task>>

\* The row of a payment that names no existing invoice violates its foreign key.
PayRow(r) ==
  /\ At(r, "payRow")
  /\ LET i == req[r].invoice
     IN  IF i # None /\ i \notin Placed
         THEN Finish(r) /\ UNCHANGED <<abonado, ledger>>
         ELSE /\ ledger' = [ledger EXCEPT ![req[r].customer] = @ - req[r].amount]
              /\ abonado' = IF i = None THEN abonado
                            ELSE [abonado EXCEPT ![i] = @ + req[r].amount]
              /\ IF i = None THEN Finish(r) ELSE Goto(r, "close")
  /\ UNCHANGED <<credit, invoice, charged, reversed, task>>

\* The total is read, then the sum of the payments.
CloseRead(r) ==
  /\ At(r, "close")
  /\ Become(r, [req[r] EXCEPT !.pc = "closeSum", !.seen = invoice[req[r].invoice].total])
  /\ UNCHANGED <<credit, invoice, rows, task>>

\* Mutant of Settles: any payment settles the invoice.
SettlesAtOnce(i, total) == abonado[i] > 0

Settles(i, total) == abonado[i] >= total

CloseSum(r) ==
  /\ At(r, "closeSum")
  /\ IF Settles(req[r].invoice, req[r].seen) THEN Goto(r, "closeInvoice") ELSE Finish(r)
  /\ UNCHANGED <<credit, invoice, rows, task>>

CloseInvoice(r) ==
  /\ At(r, "closeInvoice")
  /\ invoice' = [invoice EXCEPT ![req[r].invoice].payment = "paid"]
  /\ Goto(r, "closeTask")
  /\ UNCHANGED <<credit, rows, task>>

CloseTask(r) ==
  /\ At(r, "closeTask")
  /\ task' = [task EXCEPT ![req[r].invoice] = IF @ = "PENDING" THEN "DONE" ELSE @]
  /\ Finish(r)
  /\ UNCHANGED <<credit, invoice, rows>>

-----------------------------------------------------------------------------
(* updateLimit, adjustAmount, markAsPaidByClient, tasks.updateStatus. *)

\* Mutant of LimitCovers: the new limit is not compared with the balance.
AnyLimit(c, limit) == limit >= 0

LimitCovers(c, limit) == limit >= credit[c].balance

BeginLimit(r, c, limit) ==
  /\ Arrives(r, "limit")
  /\ credit[c].open
  /\ LimitCovers(c, limit)
  /\ Become(r, [Idle EXCEPT !.pc = "limitWrite", !.customer = c, !.amount = limit])
  /\ UNCHANGED <<credit, invoice, rows, task>>

LimitWrite(r) ==
  /\ At(r, "limitWrite")
  /\ credit' = [credit EXCEPT ![req[r].customer].limit = req[r].amount]
  /\ Finish(r)
  /\ UNCHANGED <<invoice, rows, task>>

\* A void does not stop an adjustment; the account and its rows are left alone.
BeginAdjust(r, i, total) ==
  /\ Arrives(r, "adjust")
  /\ i \in Placed
  /\ total < invoice[i].total
  /\ Become(r, [Idle EXCEPT !.pc = "adjustWrite", !.invoice = i, !.amount = total])
  /\ UNCHANGED <<credit, invoice, rows, task>>

AdjustWrite(r) ==
  /\ At(r, "adjustWrite")
  /\ invoice' = [invoice EXCEPT ![req[r].invoice].total = req[r].amount]
  /\ Finish(r)
  /\ UNCHANGED <<credit, rows, task>>

BeginMark(r, i) ==
  /\ Arrives(r, "mark")
  /\ i \in Placed
  /\ ~invoice[i].marked
  /\ Become(r, [Idle EXCEPT !.pc = "markWrite", !.invoice = i])
  /\ UNCHANGED <<credit, invoice, rows, task>>

\* The client's mark also sets the status of the invoice.
MarkWrite(r) ==
  /\ At(r, "markWrite")
  /\ invoice' = [invoice EXCEPT ![req[r].invoice].marked = TRUE,
                                ![req[r].invoice].status = "PAID"]
  /\ Finish(r)
  /\ UNCHANGED <<credit, rows, task>>

\* PENDING stands for IN_PROGRESS as well; the assignee may close or reopen the task.
SetTask(i, status) ==
  /\ "task" \in Operations
  /\ task[i] # "none"
  /\ task' = [task EXCEPT ![i] = status]
  /\ UNCHANGED <<credit, invoice, rows, req>>

-----------------------------------------------------------------------------

Begin(r) ==
  \/ \E c \in Customers, total \in Totals, m \in Methods : BeginSale(r, c, total, m)
  \/ \E i \in Invoices : BeginVoid(r, i) \/ BeginMark(r, i)
  \/ \E c \in Customers, i \in Invoices \cup {None} :
       \E amount \in 1 .. credit[c].balance : BeginPayment(r, c, amount, i)
  \/ \E c \in Customers, limit \in Limits : BeginLimit(r, c, limit)
  \/ \E i \in Invoices : \E total \in 0 .. invoice[i].total : BeginAdjust(r, i, total)

Continue(r) ==
  \/ SaleCheck(r) \/ SaleOpen(r) \/ InsertInvoice(r) \/ ChargeRead(r) \/ ChargeWrite(r)
  \/ ChargeRow(r) \/ CreateTask(r)
  \/ VoidCommit(r) \/ ReverseRead(r) \/ ReverseWrite(r) \/ ReverseRow(r)
  \/ PayWrite(r) \/ PayRow(r) \/ CloseRead(r) \/ CloseSum(r) \/ CloseInvoice(r)
  \/ CloseTask(r)
  \/ LimitWrite(r) \/ AdjustWrite(r) \/ MarkWrite(r)

\* The process dies, or a statement fails: what was written stays written.
Fail(r) ==
  /\ ~At(r, "idle")
  /\ Finish(r)
  /\ UNCHANGED <<credit, invoice, rows, task>>

People == \E i \in Invoices, status \in {"PENDING", "DONE"} : SetTask(i, status)

ReliableNext == (\E r \in Requests : Begin(r) \/ Continue(r)) \/ People

Next == ReliableNext \/ (\E r \in Requests : Fail(r))

Spec == Init /\ [][Next]_vars

\* A request that began is carried on; nobody is bound to begin one.
FairSpec == Init /\ [][ReliableNext]_vars /\ \A r \in Requests : WF_vars(Continue(r))

-----------------------------------------------------------------------------
(* Properties that hold whatever the requests do. *)

\* However its reads and writes interleave, the balance never exceeds every limit that
\* was ever granted: a charge is written from a balance and a limit read together.
BalanceUnderCeiling ==
  \A c \in Customers : \E limit \in Limits \cup {DefaultLimit} : credit[c].balance <= limit

\* A collection task is created after the charge of its invoice is in the ledger,
\* wherever the creation of the sale is cut.
TaskHasCharge == \A i \in Invoices : task[i] # "none" => charged[i] > 0

-----------------------------------------------------------------------------
(* Properties of one request at a time that does not fail. *)

Quiet == \A r \in Requests : At(r, "idle")

\* The accounts behave as CreditAccount promises: an operation takes effect at once, so a
\* charge finds its amount available and the limit is never set under the balance.
Accounts == INSTANCE CreditAccount
              WITH Customers <- Customers, DefaultLimit <- DefaultLimit, credit <- credit

AccountsKept == Accounts!Spec

\* currentBalance never falls short of the ledger: the clamp of a reversal can only raise it.
BalanceCoversLedger == Quiet => \A c \in Customers : credit[c].balance >= ledger[c]

\* Every sale on credit is charged for what it was sold for: the second check of the limit,
\* after the invoice is committed, finds what the first found.
SalesAreCharged ==
  Quiet => \A i \in Placed : charged[i] > 0 /\ charged[i] >= invoice[i].total

\* An invoice shown as paid has payments for its total, whatever is adjusted later.
SettledMeansPaid ==
  \A i \in Placed : invoice[i].payment = "paid" => abonado[i] >= invoice[i].total

\* The void of a sale on credit ends with a reversal in the ledger.
VoidsAreReversed ==
  \A i \in Invoices :
    (invoice[i].deleted /\ invoice[i].method = "CREDIT" /\ invoice[i].total > 0)
       ~> reversed[i] > 0

\* voidInvoice refuses an invoice that is already voided: what was charged for it is
\* reversed once, also after the client marks the voided invoice as paid.
ReversedOnce == \A i \in Invoices : reversed[i] <= charged[i]
=============================================================================
