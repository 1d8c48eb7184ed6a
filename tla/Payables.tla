------------------------------ MODULE Payables ------------------------------
(***************************************************************************)
(* What one organisation owes and pays: expenses with their partial        *)
(* payments (expenses.service.ts), purchases that become expenses          *)
(* (purchases-import.service.ts, invoice-upload.service.ts) and the        *)
(* payroll, whose runs are paid expenses (payroll.service.ts).             *)
(* A payment, an import, an adjustment and a payroll run decide on what    *)
(* earlier statements read and write in later ones; the stock a purchase   *)
(* adds is Receive of Inventory.tla.  Amounts are cents, as the columns    *)
(* round them; what is paid is compared with a tolerance of a cent.        *)
(***************************************************************************)
EXTENDS Integers, Sequences, FiniteSets, FiniteSetsExt

CONSTANTS
  Expenses, Employees, Requests,
  File,         \* the purchases of the file that is imported, by import key, in order
  Amounts,      \* amounts of expenses and payments
  PaidAtMost,   \* bound on the payments of an expense
  Purchase,     \* what an imported purchase costs
  Salaries,     \* salaries: by the month, or by hours and commissions
  Adjustments,  \* bonuses and, negative, deductions
  Extras,       \* bound on the bonuses minus the deductions of an employee
  Operations,   \* the kinds of request that arrive
  None          \* SQL NULL

Keys == {File[n] : n \in DOMAIN File}

ASSUME PayablesAssumption ==
  /\ File \in Seq(Keys) /\ None \notin Keys \cup Expenses \cup Employees
  /\ Amounts \subseteq Nat \ {0} /\ Salaries \subseteq Nat /\ Purchase \in Nat \ {0}
  /\ Adjustments \subseteq Int \ {0}
  /\ PaidAtMost \in Nat /\ Extras \in Nat

VARIABLES
  expense,    \* expenses, by id
  payments,   \* sum of the expense_payments of each expense
  profile,    \* payroll_profiles
  line,       \* the last payroll line of each employee
  task,       \* the request each server task is running
  removed,    \* how often an imported purchase was removed
  received,   \* how often the units of an imported purchase entered the stock
  disturbed   \* ghost: expenses and employees written by overlapping or correcting requests

vars == <<expense, payments, profile, line, task, removed, received, disturbed>>

ExpenseRow == [status : {"none", "PENDING", "PAID", "removed"}, amount : Nat, key : Keys \cup {None}]
NoExpense == [status |-> "none", amount |-> 0, key |-> None]

\* extra: bonuses minus deductions.
ProfileRow == [status : {"none", "PENDING", "REVIEW", "PAID"}, base : Nat, extra : Int]
LineRow == [amount : Nat, extra : Int]

Idle == [pc |-> "idle", subject |-> None, amount |-> 0, seen |-> 0, total |-> 0,
         rest |-> <<>>, skip |-> {}, pay |-> <<>>]

Init ==
  /\ expense = [e \in Expenses |-> NoExpense]
  /\ payments = [e \in Expenses |-> 0]
  /\ profile = [m \in Employees |-> [status |-> "none", base |-> 0, extra |-> 0]]
  /\ line = [m \in Employees |-> [amount |-> 0, extra |-> 0]]
  /\ task = [r \in Requests |-> Idle]
  /\ removed = [k \in Keys |-> 0]
  /\ received = [k \in Keys |-> 0]
  /\ disturbed = {}

Unused == {e \in Expenses : expense[e].status = "none"}
Exists(e) == expense[e].status \in {"PENDING", "PAID"}
At(r, step) == task[r].pc = step
Arrives(r, operation) == At(r, "idle") /\ operation \in Operations
Become(r, t) == task' = [task EXCEPT ![r] = t]
Finish(r) == Become(r, Idle)

\* Requests other than r that decided on the payments of an expense, or on a profile.
Pending(r, subject) == {q \in Requests \ {r} : ~At(q, "idle") /\ task[q].subject = subject}

-----------------------------------------------------------------------------
(* create, update, remove *)

\* 0.01 of the currency.
Tolerance == 1

\* Mutant of StatusAfter: only what is paid beyond the amount settles it.
StatusIfExceeded(paid, amount) == {IF paid > amount THEN "PAID" ELSE "PENDING"}

\* paid >= amount - 0.01 in floating point: at the boundary it depends on the rounding.
StatusAfter(paid, amount) ==
  IF paid >= amount THEN {"PAID"}
  ELSE IF paid + Tolerance < amount THEN {"PENDING"}
  ELSE {"PAID", "PENDING"}

\* A new expense with its payment: one transaction.
Record(e, amount, status, initial) ==
  /\ e \in Unused
  /\ initial <= amount + Tolerance
  /\ \E after \in IF initial > 0 THEN StatusAfter(initial, amount) ELSE {status} :
       expense' = [expense EXCEPT ![e] = [status |-> after, amount |-> amount, key |-> None]]
  /\ payments' = [payments EXCEPT ![e] = initial]
  /\ UNCHANGED <<profile, line, task, removed, received, disturbed>>

Create(r, e, amount, status, initial) ==
  Arrives(r, "create") /\ Record(e, amount, status, initial)

\* A purchase invoice read from a photograph and confirmed by the user; nothing tells that
\* it was confirmed before.
ConfirmUpload(r, e, amount, initial) ==
  Arrives(r, "upload") /\ Record(e, amount, "PENDING", initial)

\* A purchase invoice of which every row of the file names a product.
ImportInvoice(r, e, amount, initial) ==
  Arrives(r, "invoice") /\ Record(e, amount, "PENDING", initial)

\* A correction of the amount or of the status leaves the payments as they are.
Update(r, e, amount, status) ==
  /\ Arrives(r, "update")
  /\ Exists(e)
  /\ expense' = [expense EXCEPT ![e] = [@ EXCEPT !.amount = amount, !.status = status]]
  /\ disturbed' = disturbed \cup {e}
  /\ UNCHANGED <<payments, profile, line, task, removed, received>>

\* The row is deleted, its payments with it; the stock of a purchase stays.
Remove(r, e) ==
  /\ Arrives(r, "remove")
  /\ Exists(e)
  /\ expense' = [expense EXCEPT ![e] = [NoExpense EXCEPT !.status = "removed"]]
  /\ payments' = [payments EXCEPT ![e] = 0]
  /\ removed' = IF expense[e].key = None THEN removed
                ELSE [removed EXCEPT ![expense[e].key] = @ + 1]
  /\ UNCHANGED <<profile, line, task, received, disturbed>>

-----------------------------------------------------------------------------
(* registerPayment *)

Remaining(e) == Max({0, expense[e].amount - payments[e]})

\* A cent is accepted for an expense that is paid already, as often as it is sent.
BeginPayment(r, e, amount) ==
  /\ Arrives(r, "pay")
  /\ Exists(e)
  /\ amount <= Remaining(e) + Tolerance
  /\ payments[e] + amount <= PaidAtMost
  /\ Become(r, [Idle EXCEPT !.pc = "pay", !.subject = e, !.amount = amount,
                            !.seen = payments[e], !.total = expense[e].amount])
  /\ disturbed' = IF Pending(r, e) = {} THEN disturbed ELSE disturbed \cup {e}
  /\ UNCHANGED <<expense, payments, profile, line, removed, received>>

\* The status comes from the sum that was read; the payment of a removed expense is refused.
Pay(r) ==
  LET e == task[r].subject IN
  /\ At(r, "pay")
  /\ \/ /\ Exists(e)
        /\ payments' = [payments EXCEPT ![e] = @ + task[r].amount]
        /\ \E status \in StatusAfter(task[r].seen + task[r].amount, task[r].total) :
             expense' = [expense EXCEPT ![e].status = status]
     \/ ~Exists(e) /\ UNCHANGED <<payments, expense>>
  /\ Finish(r)
  /\ UNCHANGED <<profile, line, removed, received, disturbed>>

-----------------------------------------------------------------------------
(* Confirmed import of a file of purchases *)

Imported == {expense[e].key : e \in Expenses} \ {None}

\* The preview is made again; skipImported = false tries every purchase.
BeginImport(r, skipImported) ==
  /\ Arrives(r, "import")
  /\ Become(r, [Idle EXCEPT !.pc = "import", !.rest = File,
                            !.skip = IF skipImported THEN Imported ELSE {}])
  /\ UNCHANGED <<expense, payments, profile, line, removed, received, disturbed>>

\* Mutant of KeyFree: the key is not unique.
KeyNotUnique(k) == TRUE

\* (organizationId, importKey) is unique.
KeyFree(k) == k \notin Imported

\* The next purchase of the file, with its stock, in a transaction of its own; the first one
\* that is refused ends the request.
ImportGroup(r) ==
  LET k == Head(task[r].rest)
      onwards == [task[r] EXCEPT !.rest = Tail(@)] IN
  /\ At(r, "import")
  /\ task[r].rest # <<>>
  /\ \/ k \in task[r].skip /\ Become(r, onwards) /\ UNCHANGED <<expense, received>>
     \/ k \notin task[r].skip /\ ~KeyFree(k) /\ Finish(r) /\ UNCHANGED <<expense, received>>
     \/ /\ k \notin task[r].skip /\ KeyFree(k)
        /\ \E e \in Unused :
             expense' = [expense EXCEPT ![e] = [status |-> "PAID", amount |-> Purchase, key |-> k]]
        /\ received' = [received EXCEPT ![k] = @ + 1]
        /\ Become(r, onwards)
  /\ UNCHANGED <<payments, profile, line, removed, disturbed>>

EndImport(r) ==
  /\ At(r, "import") /\ task[r].rest = <<>>
  /\ Finish(r)
  /\ UNCHANGED <<expense, payments, profile, line, removed, received, disturbed>>

-----------------------------------------------------------------------------
(* Payroll *)

\* listEmployees makes the profiles of new members.
ListEmployees(r, salary) ==
  /\ Arrives(r, "payroll")
  /\ \E m \in Employees : profile[m].status = "none"
  /\ profile' = [m \in Employees |-> IF profile[m].status = "none"
                                     THEN [status |-> "PENDING", base |-> salary, extra |-> 0]
                                     ELSE profile[m]]
  /\ UNCHANGED <<expense, payments, line, task, removed, received, disturbed>>

\* updateProfile: another salary, whatever the status, which stays as it is.
UpdateProfile(r, m, salary) ==
  /\ Arrives(r, "payroll")
  /\ profile[m].status # "none"
  /\ profile' = [profile EXCEPT ![m].base = salary]
  /\ UNCHANGED <<expense, payments, line, task, removed, received, disturbed>>

BeginAdjust(r, m, adjustment) ==
  /\ Arrives(r, "payroll")
  /\ profile[m].status # "none"
  /\ profile[m].extra + adjustment \in -Extras .. Extras
  /\ Become(r, [Idle EXCEPT !.pc = "adjust", !.subject = m,
                            !.amount = profile[m].extra + adjustment])
  /\ disturbed' = IF Pending(r, m) = {} /\ \A q \in Requests : ~At(q, "payroll")
                  THEN disturbed ELSE disturbed \cup {m}
  /\ UNCHANGED <<expense, payments, profile, line, removed, received>>

\* Mutant of AdjustedStatus: the profile stays as it was.
StatusKept(status) == status

AdjustedStatus(status) == "REVIEW"

\* Bonuses and deductions are written whole, from the values read.
Adjust(r) ==
  LET m == task[r].subject IN
  /\ At(r, "adjust")
  /\ profile' = [profile EXCEPT ![m].status = AdjustedStatus(@),
                                ![m].extra = task[r].amount]
  /\ Finish(r)
  /\ UNCHANGED <<expense, payments, line, removed, received, disturbed>>

Net(m) == profile[m].base + profile[m].extra

Payable == {m \in Employees : profile[m].status # "none" /\ Net(m) > 0}

\* A run reads every profile: those already paid are paid again.
BeginPayroll(r) ==
  /\ Arrives(r, "payroll")
  /\ Payable # {}
  /\ Become(r, [Idle EXCEPT !.pc = "payroll", !.pay =
       [m \in Payable |-> [amount |-> Net(m), extra |-> profile[m].extra]]])
  /\ disturbed' = disturbed \cup {m \in Employees : Pending(r, m) # {}}
  /\ UNCHANGED <<expense, payments, profile, line, removed, received>>

\* One transaction: a paid expense, its payment and a line for each, and the profile is PAID.
\* A statement that fails aborts it whole.
Payroll(r) ==
  LET pay == task[r].pay IN
  /\ At(r, "payroll")
  /\ \/ \E id \in [DOMAIN pay -> Unused] :
          LET paidFor(e) == {m \in DOMAIN pay : id[m] = e} IN
          /\ \A e \in Expenses : Cardinality(paidFor(e)) <= 1
          /\ expense' = [e \in Expenses |->
               IF paidFor(e) = {} THEN expense[e]
               ELSE [status |-> "PAID", amount |-> pay[CHOOSE m \in paidFor(e) : TRUE].amount,
                     key |-> None]]
          /\ payments' = [e \in Expenses |->
               IF paidFor(e) = {} THEN payments[e] ELSE pay[CHOOSE m \in paidFor(e) : TRUE].amount]
          /\ line' = [m \in Employees |-> IF m \in DOMAIN pay THEN pay[m] ELSE line[m]]
          /\ profile' = [m \in Employees |-> IF m \in DOMAIN pay
                                             THEN [profile[m] EXCEPT !.status = "PAID"] ELSE profile[m]]
     \/ UNCHANGED <<expense, payments, line, profile>>
  /\ Finish(r)
  /\ UNCHANGED <<removed, received, disturbed>>

-----------------------------------------------------------------------------
\* The process dies between two statements, or one of them throws: a transaction it had not
\* committed is undone, what it had committed stays.
Fail(r) ==
  /\ ~At(r, "idle")
  /\ Finish(r)
  /\ UNCHANGED <<expense, payments, profile, line, removed, received, disturbed>>

Next == \E r \in Requests :
  \/ \E e \in Expenses :
       \/ \E amount \in Amounts, status \in {"PENDING", "PAID"} :
            Update(r, e, amount, status)
              \/ \E initial \in {0} \cup Amounts : Create(r, e, amount, status, initial)
       \/ \E amount \in Amounts, initial \in {0} \cup Amounts :
            ConfirmUpload(r, e, amount, initial) \/ ImportInvoice(r, e, amount, initial)
       \/ Remove(r, e)
       \/ \E amount \in Amounts : BeginPayment(r, e, amount)
  \/ Pay(r)
  \/ \E skipImported \in BOOLEAN : BeginImport(r, skipImported)
  \/ ImportGroup(r) \/ EndImport(r)
  \/ \E salary \in Salaries :
       ListEmployees(r, salary) \/ \E m \in Employees : UpdateProfile(r, m, salary)
  \/ \E m \in Employees, adjustment \in Adjustments : BeginAdjust(r, m, adjustment)
  \/ Adjust(r) \/ BeginPayroll(r) \/ Payroll(r)
  \/ Fail(r)

Spec == Init /\ [][Next]_vars

-----------------------------------------------------------------------------
TypeOK ==
  /\ expense \in [Expenses -> ExpenseRow]
  /\ payments \in [Expenses -> Nat]
  /\ profile \in [Employees -> ProfileRow]
  /\ line \in [Employees -> LineRow]
  /\ removed \in [Keys -> Nat] /\ received \in [Keys -> Nat]
  /\ disturbed \subseteq Expenses \cup Employees
  /\ \A r \in Requests : At(r, "pay") => task[r].subject \in Expenses

\* An imported purchase enters the stock once, however often its file is confirmed, by how
\* many users at a time: again only after its expense was removed, which leaves the units.
PurchaseReceivedOnce ==
  \A k \in Keys : received[k] = removed[k] + Cardinality({e \in Expenses : expense[e].key = k})
                  /\ received[k] <= removed[k] + 1

\* An expense whose payments did not overlap, and that nobody corrected, is PAID when its
\* payments cover it, and if it is PAID by payments they are at most a cent short: create,
\* registerPayment and the payroll write status and payments together.  (It may be overpaid,
\* by a cent at a time.)
PaymentsAgree ==
  \A e \in Expenses \ disturbed : payments[e] > 0 =>
    /\ payments[e] >= expense[e].amount => expense[e].status = "PAID"
    /\ expense[e].status = "PAID" => payments[e] + Tolerance >= expense[e].amount

\* The last payment of an employee shown as PAID has the bonuses and deductions that the
\* profile has, when no run crossed an adjustment and no two adjustments crossed: one puts
\* the profile in REVIEW until the next run.  (A new salary does not, so nothing is said of
\* the salary.)
PaidIsOwed ==
  \A m \in Employees \ disturbed :
    profile[m].status = "PAID" => line[m].extra = profile[m].extra

=============================================================================
