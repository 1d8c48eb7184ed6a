-------------------------- MODULE Payables_proofs --------------------------
(***************************************************************************)
(* Purchases enter the stock once, and statuses agree with payments and    *)
(* with bonuses, for any expenses, employees, files, amounts and requests. *)
(***************************************************************************)
EXTENDS Payables, FiniteSetTheorems, SequenceTheorems, TLAPS

Steps == {"idle", "pay", "import", "adjust", "payroll"}

Runs == UNION {[M -> LineRow] : M \in SUBSET Employees}

TaskRow == [pc : Steps, subject : Expenses \cup Employees \cup {None}, amount : Int, seen : Nat,
            total : Nat, rest : Seq(Keys), skip : SUBSET Keys, pay : Runs \cup {<<>>}]

Types == TypeOK /\ task \in [Requests -> TaskRow]

\* What is not there, or no more, is no purchase and has no payment; no two are one purchase.
KeysUnique ==
  /\ \A e \in Expenses : ~Exists(e) => expense[e].key = None /\ payments[e] = 0
  /\ \A e, f \in Expenses : expense[e].key = expense[f].key /\ expense[e].key # None => e = f

\* The units of a purchase entered once for its expense, and once for each that was removed.
Stocked == \A k \in Keys : received[k] = removed[k] + (IF k \in Imported THEN 1 ELSE 0)

\* A payment was decided on what is there, if nobody else pays or corrects the expense.
Paying == \A r \in Requests : At(r, "pay") =>
  LET e == task[r].subject IN
  /\ e \in Expenses /\ expense[e].status # "none" /\ task[r].amount \in Nat \ {0}
  /\ Exists(e) /\ e \notin disturbed =>
       task[r].seen = payments[e] /\ task[r].total = expense[e].amount

PayingAlone == \A r, q \in Requests :
  r # q /\ At(r, "pay") /\ At(q, "pay") /\ task[r].subject = task[q].subject =>
    task[r].subject \in disturbed

Books == KeysUnique /\ Stocked /\ PaymentsAgree /\ Paying /\ PayingAlone

\* A run pays the bonuses and deductions of the profile, if nobody adjusts it meanwhile.
Running == \A r \in Requests : At(r, "payroll") =>
  /\ task[r].pay \in Runs
  /\ \A m \in DOMAIN task[r].pay \ disturbed :
       task[r].pay[m].extra = profile[m].extra /\ profile[m].status # "none"

AdjustingAlone == \A r, q \in Requests :
  At(r, "payroll") /\ At(q, "adjust") /\ task[q].subject \in DOMAIN task[r].pay =>
    task[q].subject \in disturbed

Wages == PaidIsOwed /\ Running /\ AdjustingAlone

Inv == Types /\ Books /\ Wages

-----------------------------------------------------------------------------
LEMMA InitInv == Init => Inv
<1> SUFFICES ASSUME Init PROVE Inv
  OBVIOUS
<1>1. Idle \in TaskRow
  BY DEF Idle, TaskRow, Steps
<1>2. NoExpense \in ExpenseRow
  BY DEF NoExpense, ExpenseRow
<1>3. Types
  <2>1. expense \in [Expenses -> ExpenseRow] /\ task \in [Requests -> TaskRow]
    BY <1>1, <1>2 DEF Init
  <2>2. profile \in [Employees -> ProfileRow] /\ line \in [Employees -> LineRow]
    BY DEF Init, ProfileRow, LineRow
  <2>3. \A r \in Requests : ~At(r, "pay")
    BY DEF Init, At, Idle
  <2> QED
    BY <2>1, <2>2, <2>3 DEF Init, Types, TypeOK
<1>4. KeysUnique /\ Imported = {}
  BY DEF Init, KeysUnique, NoExpense, Imported
<1>5. Stocked
  BY <1>4 DEF Init, Stocked
<1>6. PaymentsAgree /\ Paying /\ PayingAlone
  BY DEF Init, PaymentsAgree, Paying, PayingAlone, At, Idle
<1>7. Wages
  BY DEF Init, Wages, PaidIsOwed, Running, AdjustingAlone, At, Idle
<1> QED
  BY <1>3, <1>4, <1>5, <1>6, <1>7 DEF Inv, Books

LEMMA TaskBecomes ==
  ASSUME Types, NEW r \in Requests, NEW t, Become(r, t)
  PROVE  /\ \A q \in Requests : task'[q] = IF q = r THEN t ELSE task[q]
         /\ t \in TaskRow => task' \in [Requests -> TaskRow]
BY DEF Types, Become

LEMMA Rows ==
  ASSUME Types
  PROVE  /\ \A r \in Requests : task[r] \in TaskRow
         /\ \A e \in Expenses : expense[e] \in ExpenseRow /\ payments[e] \in Nat
         /\ \A m \in Employees : profile[m] \in ProfileRow /\ line[m] \in LineRow
         /\ Idle \in TaskRow /\ Idle.pc = "idle"
BY DEF Types, TypeOK, Idle, TaskRow, Steps

\* The expenses are not touched, and no payment begins.
LEMMA BooksKept ==
  ASSUME Books, UNCHANGED <<expense, payments, removed, received>>, disturbed \subseteq disturbed',
         \A q \in Requests : task'[q] = task[q] \/ task'[q].pc # "pay"
  PROVE  Books'
<1>1. KeysUnique' /\ Stocked' /\ PaymentsAgree'
  BY DEF Books, KeysUnique, Stocked, PaymentsAgree, Exists, Imported
<1>2. Paying' /\ PayingAlone'
  BY DEF Books, Paying, PayingAlone, Exists, At
<1> QED
  BY <1>1, <1>2 DEF Books

\* The payroll is not touched, and no run or adjustment begins.
LEMMA WagesKept ==
  ASSUME Wages, UNCHANGED <<profile, line>>, disturbed \subseteq disturbed',
         \A q \in Requests : task'[q] = task[q] \/ task'[q].pc \notin {"payroll", "adjust"}
  PROVE  Wages'
<1>1. PaidIsOwed'
  BY DEF Wages, PaidIsOwed
<1>2. Running' /\ AdjustingAlone'
  BY DEF Wages, Running, AdjustingAlone, At
<1> QED
  BY <1>1, <1>2 DEF Wages

-----------------------------------------------------------------------------
(* Expenses *)

LEMMA StatusAfterType ==
  ASSUME NEW paid, NEW amount PROVE StatusAfter(paid, amount) \subseteq {"PENDING", "PAID"}
BY DEF StatusAfter

\* The status agrees with what is paid, up to a cent.
LEMMA StatusAfterAgrees ==
  ASSUME NEW paid \in Nat, NEW amount \in Nat, NEW status \in StatusAfter(paid, amount)
  PROVE  /\ paid >= amount => status = "PAID"
         /\ status = "PAID" => paid + Tolerance >= amount
BY DEF StatusAfter, Tolerance

LEMMA RecordStep ==
  ASSUME Inv, NEW e \in Expenses, NEW amount \in Amounts,
         NEW status \in {"PENDING", "PAID"}, NEW initial \in {0} \cup Amounts,
         Record(e, amount, status, initial)
  PROVE  Inv'
<1> PICK after \in IF initial > 0 THEN StatusAfter(initial, amount) ELSE {status} :
           expense' = [expense EXCEPT ![e] = [status |-> after, amount |-> amount, key |-> None]]
  BY DEF Record
<1> DEFINE new == [status |-> after, amount |-> amount, key |-> None]
<1>1. /\ expense' = [expense EXCEPT ![e] = new] /\ payments' = [payments EXCEPT ![e] = initial]
      /\ UNCHANGED <<profile, line, task, removed, received, disturbed>>
      /\ expense[e].status = "none"
  BY DEF Record, Unused
<1>2. amount \in Nat \ {0} /\ initial \in Nat
  BY PayablesAssumption
<1>3. new \in ExpenseRow /\ new.status \in {"PENDING", "PAID"} /\ new.key = None /\ new.amount = amount
      /\ (initial > 0 => new.status \in StatusAfter(initial, amount))
  BY <1>2, StatusAfterType DEF ExpenseRow
<1> HIDE DEF new
<1>4. \A f \in Expenses : /\ expense'[f] = IF f = e THEN new ELSE expense[f]
                          /\ payments'[f] = IF f = e THEN initial ELSE payments[f]
  BY <1>1 DEF Inv, Types, TypeOK
<1>5. Types'
  BY <1>1, <1>2, <1>3 DEF Inv, Types, TypeOK, At
<1>6. expense[e].key = None
  BY <1>1 DEF Inv, Books, KeysUnique, Exists
<1>7. KeysUnique'
  BY <1>3, <1>4 DEF Inv, Books, KeysUnique, Exists
<1>8. Imported' = Imported
  BY <1>3, <1>4, <1>6 DEF Imported
<1>9. Stocked'
  BY <1>1, <1>8 DEF Inv, Books, Stocked
<1>10. PaymentsAgree'
  BY <1>1, <1>2, <1>3, <1>4, StatusAfterAgrees DEF Inv, Books, PaymentsAgree
<1>11. Paying' /\ PayingAlone'
  BY <1>1, <1>4 DEF Inv, Books, Paying, PayingAlone, Exists, At
<1>12. Wages'
  BY <1>1, WagesKept DEF Inv
<1> QED
  BY <1>5, <1>7, <1>9, <1>10, <1>11, <1>12 DEF Inv, Books

LEMMA UpdateStep ==
  ASSUME Inv, NEW r \in Requests, NEW e \in Expenses, NEW amount \in Amounts,
         NEW status \in {"PENDING", "PAID"}, Update(r, e, amount, status)
  PROVE  Inv'
<1> DEFINE new == [expense[e] EXCEPT !.amount = amount, !.status = status]
<1>1. /\ expense' = [expense EXCEPT ![e] = new] /\ disturbed' = disturbed \cup {e} /\ Exists(e)
      /\ UNCHANGED <<payments, profile, line, task, removed, received>>
  BY DEF Update
<1>2. amount \in Nat
  BY PayablesAssumption
<1>3. new \in ExpenseRow /\ new.status = status /\ new.key = expense[e].key
  BY <1>2, Rows DEF Inv, ExpenseRow
<1> HIDE DEF new
<1>4. \A f \in Expenses : expense'[f] = IF f = e THEN new ELSE expense[f]
  BY <1>1 DEF Inv, Types, TypeOK
<1>5. Types'
  BY <1>1, <1>3 DEF Inv, Types, TypeOK, At
<1>6. \A f \in Expenses : (Exists(f)' <=> Exists(f)) /\ expense'[f].key = expense[f].key
  BY <1>1, <1>3, <1>4 DEF Exists
<1>7. KeysUnique' /\ Imported' = Imported
  BY <1>1, <1>6 DEF Inv, Books, KeysUnique, Imported
<1>8. Stocked'
  BY <1>1, <1>7 DEF Inv, Books, Stocked
<1>9. PaymentsAgree' /\ PayingAlone'
  BY <1>1, <1>4 DEF Inv, Books, PaymentsAgree, PayingAlone, At
<1>10. Paying'
  BY <1>1, <1>3, <1>4, <1>6 DEF Inv, Books, Paying, At
<1>11. Wages'
  BY <1>1, WagesKept DEF Inv
<1> QED
  BY <1>5, <1>7, <1>8, <1>9, <1>10, <1>11 DEF Inv, Books

LEMMA RemoveStep ==
  ASSUME Inv, NEW r \in Requests, NEW e \in Expenses, Remove(r, e)
  PROVE  Inv'
<1> DEFINE new == [NoExpense EXCEPT !.status = "removed"]
<1>1. /\ expense' = [expense EXCEPT ![e] = new] /\ payments' = [payments EXCEPT ![e] = 0]
      /\ removed' = IF expense[e].key = None THEN removed ELSE [removed EXCEPT ![expense[e].key] = @ + 1]
      /\ UNCHANGED <<profile, line, task, received, disturbed>> /\ Exists(e)
  BY DEF Remove
<1>2. new \in ExpenseRow /\ new.status = "removed" /\ new.key = None
  BY DEF NoExpense, ExpenseRow
<1> HIDE DEF new
<1>3. \A f \in Expenses : /\ expense'[f] = IF f = e THEN new ELSE expense[f]
                          /\ payments'[f] = IF f = e THEN 0 ELSE payments[f]
  BY <1>1 DEF Inv, Types, TypeOK
<1>4. expense[e].key \in Keys \cup {None} /\ removed \in [Keys -> Nat]
  BY Rows DEF Inv, ExpenseRow, Types, TypeOK
<1>5. removed' \in [Keys -> Nat]
  BY <1>1, <1>4
<1>6. Types'
  BY <1>1, <1>2, <1>5 DEF Inv, Types, TypeOK, At
<1>7. KeysUnique'
  BY <1>2, <1>3 DEF Inv, Books, KeysUnique, Exists
<1>8. ASSUME NEW k \in Keys
      PROVE  /\ k \in Imported' <=> k \in Imported /\ k # expense[e].key
             /\ removed'[k] = removed[k] + (IF k = expense[e].key THEN 1 ELSE 0)
             /\ k = expense[e].key => k \in Imported
  <2>1. None \notin Keys
    BY PayablesAssumption
  <2>2. k \in Imported' <=> k \in Imported /\ k # expense[e].key
    BY <1>2, <1>3, <2>1 DEF Imported, Inv, Books, KeysUnique
  <2>3. removed'[k] = removed[k] + (IF k = expense[e].key THEN 1 ELSE 0)
    BY <1>1, <1>4, <2>1
  <2> QED
    BY <2>1, <2>2, <2>3 DEF Imported
<1>9. Stocked'
  BY <1>1, <1>4, <1>8 DEF Inv, Books, Stocked, Types, TypeOK
<1>10. PaymentsAgree'
  BY <1>1, <1>3 DEF Inv, Books, PaymentsAgree
<1>11. Paying' /\ PayingAlone'
  BY <1>1, <1>2, <1>3 DEF Inv, Books, Paying, PayingAlone, Exists, At
<1>12. Wages'
  BY <1>1, WagesKept DEF Inv
<1> QED
  BY <1>6, <1>7, <1>9, <1>10, <1>11, <1>12 DEF Inv, Books

LEMMA BeginPaymentStep ==
  ASSUME Inv, NEW r \in Requests, NEW e \in Expenses, NEW amount \in Amounts,
         BeginPayment(r, e, amount)
  PROVE  Inv'
<1> DEFINE t == [Idle EXCEPT !.pc = "pay", !.subject = e, !.amount = amount,
                             !.seen = payments[e], !.total = expense[e].amount]
<1>1. /\ Become(r, t) /\ Exists(e) /\ At(r, "idle")
      /\ disturbed' = IF Pending(r, e) = {} THEN disturbed ELSE disturbed \cup {e}
      /\ UNCHANGED <<expense, payments, profile, line, removed, received>>
  BY DEF BeginPayment, Arrives
<1>2. /\ t.pc = "pay" /\ t.subject = e /\ t.amount = amount /\ t.seen = payments[e]
      /\ t.total = expense[e].amount
  BY DEF Idle
<1>3. amount \in Nat \ {0}
      /\ payments[e] \in Nat /\ expense[e].amount \in Nat
  BY Rows, PayablesAssumption DEF Inv, ExpenseRow
<1>4. t \in TaskRow
  <2>1. Idle \in TaskRow /\ "pay" \in Steps /\ amount \in Int /\ e \in Expenses \cup Employees \cup {None}
    BY <1>3, Rows DEF Inv, Steps
  <2>2. [Idle EXCEPT !.pc = "pay", !.subject = e, !.amount = amount] \in TaskRow
    BY <2>1 DEF TaskRow
  <2>3. t = [[Idle EXCEPT !.pc = "pay", !.subject = e, !.amount = amount]
               EXCEPT !.seen = payments[e], !.total = expense[e].amount]
    BY DEF Idle
  <2> HIDE DEF t
  <2> QED
    BY <1>3, <2>2, <2>3 DEF TaskRow
<1> HIDE DEF t
<1>5. \A q \in Requests : task'[q] = IF q = r THEN t ELSE task[q]
  BY <1>1, TaskBecomes DEF Inv
<1>6. Types'
  BY <1>1, <1>2, <1>4, <1>5, TaskBecomes DEF Inv, Types, TypeOK, At
<1>7. KeysUnique' /\ Stocked' /\ PaymentsAgree'
  BY <1>1 DEF Inv, Books, KeysUnique, Stocked, PaymentsAgree, Exists, Imported
<1>8. \A q \in Requests : q # r /\ At(q, "pay") /\ task[q].subject = e => e \in disturbed'
  BY <1>1 DEF Pending, At
<1>9. PayingAlone'
  BY <1>1, <1>2, <1>5, <1>8 DEF Inv, Books, PayingAlone, At
<1>10. Paying'
  BY <1>1, <1>2, <1>3, <1>5 DEF Inv, Books, Paying, Exists, At
<1>11. Wages'
  BY <1>1, <1>2, <1>5, WagesKept DEF Inv
<1> QED
  BY <1>6, <1>7, <1>9, <1>10, <1>11 DEF Inv, Books

LEMMA PayStep ==
  ASSUME Inv, NEW r \in Requests, Pay(r)
  PROVE  Inv'
<1> DEFINE e == task[r].subject
           statuses == StatusAfter(task[r].seen + task[r].amount, task[r].total)
<1>1. /\ Become(r, Idle) /\ At(r, "pay") /\ e \in Expenses
      /\ UNCHANGED <<profile, line, removed, received, disturbed>>
  BY DEF Pay, Finish, Inv, Types, TypeOK
<1>2. /\ \A q \in Requests : task'[q] = IF q = r THEN Idle ELSE task[q]
      /\ task' \in [Requests -> TaskRow] /\ Idle.pc = "idle"
  BY <1>1, TaskBecomes, Rows DEF Inv
<1>3. Wages'
  BY <1>1, <1>2, WagesKept DEF Inv
<1>4. CASE UNCHANGED <<payments, expense>>
  <2>1. Books'
    BY <1>1, <1>2, <1>4, BooksKept DEF Inv
  <2>2. Types'
    BY <1>1, <1>2, <1>4 DEF Inv, Types, TypeOK, At
  <2> QED
    BY <1>3, <2>1, <2>2 DEF Inv
<1>5. ASSUME Exists(e), NEW status \in statuses, payments' = [payments EXCEPT ![e] = @ + task[r].amount],
             expense' = [expense EXCEPT ![e].status = status]
      PROVE  Inv'
  <2>1. /\ task[r].amount \in Nat \ {0} /\ status \in {"PENDING", "PAID"}
        /\ payments[e] \in Nat /\ expense[e] \in ExpenseRow
        /\ e \notin disturbed => task[r].seen = payments[e] /\ task[r].total = expense[e].amount
    BY <1>1, <1>5, StatusAfterType, Rows DEF Inv, Books, Paying
  <2>2. \A f \in Expenses :
          /\ payments'[f] = IF f = e THEN payments[e] + task[r].amount ELSE payments[f]
          /\ expense'[f].status = IF f = e THEN status ELSE expense[f].status
          /\ expense'[f].amount = expense[f].amount /\ expense'[f].key = expense[f].key
    BY <1>1, <1>5, Rows DEF Inv, Types, TypeOK, ExpenseRow
  <2>3. expense' \in [Expenses -> ExpenseRow] /\ payments' \in [Expenses -> Nat]
    <3>1. [expense[e] EXCEPT !.status = status] \in ExpenseRow
      BY <2>1 DEF ExpenseRow
    <3>2. expense' = [expense EXCEPT ![e] = [expense[e] EXCEPT !.status = status]]
      BY <1>5
    <3>3. payments[e] + task[r].amount \in Nat
      BY <2>1
    <3> QED
      BY <1>5, <3>1, <3>2, <3>3 DEF Inv, Types, TypeOK
  <2>4. Types'
    BY <1>1, <1>2, <2>3 DEF Inv, Types, TypeOK, At
  <2>5. \A f \in Expenses : Exists(f)' <=> Exists(f)
    BY <1>5, <2>1, <2>2 DEF Exists
  <2>6. KeysUnique' /\ Imported' = Imported
    BY <1>5, <2>2, <2>5 DEF Inv, Books, KeysUnique, Imported
  <2>7. Stocked'
    BY <1>1, <2>6 DEF Inv, Books, Stocked
  <2>8. PayingAlone'
    BY <1>1, <1>2 DEF Inv, Books, PayingAlone, At
  <2>9. PaymentsAgree'
    <3>1. ASSUME e \notin disturbed
          PROVE  /\ payments'[e] >= expense'[e].amount => expense'[e].status = "PAID"
                 /\ expense'[e].status = "PAID" => payments'[e] + Tolerance >= expense'[e].amount
      <4>1. /\ payments'[e] \in Nat /\ expense'[e].amount \in Nat
            /\ expense'[e].status \in StatusAfter(payments'[e], expense'[e].amount)
        BY <1>1, <1>5, <2>1, <2>2, <3>1 DEF ExpenseRow
      <4> QED
        BY <4>1, StatusAfterAgrees
    <3>2. \A f \in Expenses : f # e => payments'[f] = payments[f] /\ expense'[f].amount = expense[f].amount
                                       /\ expense'[f].status = expense[f].status
      BY <2>2
    <3> QED
      BY <1>1, <3>1, <3>2 DEF Inv, Books, PaymentsAgree
  <2>10. Paying'
    <3>1. \A q \in Requests : At(q, "pay")' => q # r /\ At(q, "pay") /\ task'[q] = task[q]
      BY <1>1, <1>2 DEF At
    <3>2. \A q \in Requests : At(q, "pay")' /\ task[q].subject = e => e \in disturbed
      BY <1>1, <3>1 DEF Inv, Books, PayingAlone
    <3>3. \A f \in Expenses : expense[f].status # "none" => expense'[f].status # "none"
      BY <2>1, <2>2
    <3> QED
      BY <1>1, <2>2, <2>5, <3>1, <3>2, <3>3 DEF Inv, Books, Paying
  <2> QED
    BY <1>3, <2>4, <2>6, <2>7, <2>8, <2>9, <2>10 DEF Inv, Books
<1> HIDE DEF statuses
<1> QED
  BY <1>4, <1>5 DEF Pay, statuses

-----------------------------------------------------------------------------
(* Import *)

LEMMA BeginImportStep ==
  ASSUME Inv, NEW r \in Requests, NEW skipImported \in BOOLEAN, BeginImport(r, skipImported)
  PROVE  Inv'
<1> DEFINE t == [Idle EXCEPT !.pc = "import", !.rest = File,
                             !.skip = IF skipImported THEN Imported ELSE {}]
<1>1. Become(r, t) /\ UNCHANGED <<expense, payments, profile, line, removed, received, disturbed>>
  BY DEF BeginImport
<1>2. Imported \subseteq Keys
  BY Rows DEF Inv, Imported, ExpenseRow
<1>3. t \in TaskRow /\ t.pc = "import"
  <2>1. Idle \in TaskRow /\ "import" \in Steps /\ File \in Seq(Keys)
    BY Rows, PayablesAssumption DEF Inv, Steps
  <2>2. (IF skipImported THEN Imported ELSE {}) \subseteq Keys
    BY <1>2
  <2> QED
    BY <2>1, <2>2 DEF TaskRow
<1> HIDE DEF t
<1>4. \A q \in Requests : task'[q] = IF q = r THEN t ELSE task[q]
  BY <1>1, TaskBecomes DEF Inv
<1>5. Types'
  BY <1>1, <1>3, <1>4, TaskBecomes DEF Inv, Types, TypeOK, At
<1> QED
  BY <1>1, <1>3, <1>4, <1>5, BooksKept, WagesKept DEF Inv

LEMMA EndImportStep ==
  ASSUME Inv, NEW r \in Requests, Finish(r),
         UNCHANGED <<expense, payments, profile, line, removed, received, disturbed>>
  PROVE  Inv'
<1>1. /\ \A q \in Requests : task'[q] = IF q = r THEN Idle ELSE task[q]
      /\ task' \in [Requests -> TaskRow] /\ Idle.pc = "idle"
  BY TaskBecomes, Rows DEF Inv, Finish
<1>2. Types'
  BY <1>1 DEF Inv, Types, TypeOK, At
<1> QED
  BY <1>1, <1>2, BooksKept, WagesKept DEF Inv

LEMMA ImportGroupStep ==
  ASSUME Inv, NEW r \in Requests, ImportGroup(r)
  PROVE  Inv'
<1> DEFINE k == Head(task[r].rest)
           t == [task[r] EXCEPT !.rest = Tail(@)]
<1>1. /\ At(r, "import") /\ task[r] \in TaskRow /\ task[r].rest # <<>>
      /\ UNCHANGED <<payments, profile, line, removed, disturbed>>
  BY Rows DEF ImportGroup, Inv
<1>2. k \in Keys /\ Tail(task[r].rest) \in Seq(Keys)
  BY <1>1, HeadTailProperties DEF TaskRow
<1>3. t \in TaskRow /\ t.pc = "import"
  BY <1>1, <1>2 DEF TaskRow, At
<1>4. CASE k \in task[r].skip /\ Become(r, t) /\ UNCHANGED <<expense, received>>
  <2>1. \A q \in Requests : task'[q] = IF q = r THEN t ELSE task[q]
    BY <1>4, TaskBecomes DEF Inv
  <2>2. Types'
    BY <1>1, <1>3, <1>4, <2>1, TaskBecomes DEF Inv, Types, TypeOK, At
  <2> QED
    BY <1>1, <1>3, <1>4, <2>1, <2>2, BooksKept, WagesKept DEF Inv
<1>5. CASE Finish(r) /\ UNCHANGED <<expense, received>>
  BY <1>1, <1>5, EndImportStep
<1>6. ASSUME NEW x, x = k, KeyFree(x), NEW e \in Unused,
             expense' = [expense EXCEPT ![e] = [status |-> "PAID", amount |-> Purchase, key |-> x]],
             received' = [received EXCEPT ![x] = @ + 1], Become(r, t)
      PROVE  Inv'
  <2> DEFINE new == [status |-> "PAID", amount |-> Purchase, key |-> x]
  <2>1. new \in ExpenseRow /\ x \in Keys /\ x # None /\ new.key = x /\ new.status = "PAID"
    BY <1>2, <1>6, PayablesAssumption DEF ExpenseRow
  <2> HIDE DEF new
  <2>2. e \in Expenses /\ expense[e].status = "none" /\ expense[e].key = None /\ payments[e] = 0
    BY <1>6 DEF Unused, Inv, Books, KeysUnique, Exists
  <2>3. \A f \in Expenses : expense'[f] = IF f = e THEN new ELSE expense[f]
    BY <1>6, <2>2 DEF Inv, Types, TypeOK, new
  <2>4. \A q \in Requests : task'[q] = IF q = r THEN t ELSE task[q]
    BY <1>6, TaskBecomes DEF Inv
  <2>5. Types'
    <3>1. expense' \in [Expenses -> ExpenseRow] /\ received' \in [Keys -> Nat]
      BY <1>6, <2>1, <2>2 DEF Inv, Types, TypeOK, new
    <3>2. task' \in [Requests -> TaskRow]
      BY <1>3, <1>6, TaskBecomes DEF Inv
    <3> QED
      BY <1>1, <1>3, <2>4, <3>1, <3>2 DEF Inv, Types, TypeOK, At
  <2>6. KeysUnique'
    BY <1>1, <1>6, <2>1, <2>2, <2>3 DEF Inv, Books, KeysUnique, Exists, KeyFree, Imported
  <2>7. Imported' = Imported \cup {x}
    BY <2>1, <2>2, <2>3 DEF Imported
  <2>8. Stocked'
    BY <1>1, <1>6, <2>1, <2>7 DEF Inv, Books, Stocked, KeyFree, Types, TypeOK
  <2>9. PaymentsAgree'
    BY <1>1, <2>2, <2>3 DEF Inv, Books, PaymentsAgree
  <2>10. Paying' /\ PayingAlone'
    <3>1. \A q \in Requests : At(q, "pay")' => At(q, "pay") /\ task'[q] = task[q]
      BY <1>3, <2>4 DEF At
    <3>2. PayingAlone'
      BY <1>1, <3>1 DEF Inv, Books, PayingAlone
    <3> QED
      BY <1>1, <2>2, <2>3, <3>1, <3>2 DEF Inv, Books, Paying, Exists
  <2>11. Wages'
    BY <1>1, <1>3, <2>4, WagesKept DEF Inv
  <2> QED
    BY <2>5, <2>6, <2>8, <2>9, <2>10, <2>11 DEF Inv, Books
<1> QED
  BY <1>4, <1>5, <1>6 DEF ImportGroup

-----------------------------------------------------------------------------
(* Payroll *)

\* Only profiles change: new ones, and salaries.
LEMMA ProfileStep ==
  ASSUME Inv, profile' \in [Employees -> ProfileRow], disturbed \subseteq disturbed',
         disturbed' \subseteq Expenses \cup Employees,
         UNCHANGED <<expense, payments, line, task, removed, received>>,
         \A m \in Employees :
           \/ profile'[m].status = profile[m].status /\ profile'[m].extra = profile[m].extra
           \/ profile[m].status = "none" /\ profile'[m].status # "PAID"
  PROVE  Inv'
<1>1. Types'
  BY DEF Inv, Types, TypeOK, At
<1>2. Books'
  BY BooksKept DEF Inv
<1>3. PaidIsOwed'
  BY DEF Inv, Wages, PaidIsOwed
<1>4. \A M \in SUBSET Employees : \A f \in [M -> LineRow] : DOMAIN f \subseteq Employees
  OBVIOUS
<1>5. Running' /\ AdjustingAlone'
  BY <1>4 DEF Inv, Wages, Running, Runs, AdjustingAlone, At
<1> QED
  BY <1>1, <1>2, <1>3, <1>5 DEF Inv, Wages

LEMMA ListEmployeesStep ==
  ASSUME Inv, NEW r \in Requests, NEW salary \in Salaries, ListEmployees(r, salary)
  PROVE  Inv'
<1>1. [status |-> "PENDING", base |-> salary, extra |-> 0] \in ProfileRow
  BY PayablesAssumption DEF ProfileRow
<1>2. profile' \in [Employees -> ProfileRow]
  BY <1>1, Rows DEF ListEmployees, Inv
<1> QED
  BY <1>2, ProfileStep DEF ListEmployees, Inv, Types, TypeOK

LEMMA UpdateProfileStep ==
  ASSUME Inv, NEW r \in Requests, NEW m \in Employees, NEW salary \in Salaries,
         UpdateProfile(r, m, salary)
  PROVE  Inv'
<1>1. /\ profile' = [profile EXCEPT ![m] = [profile[m] EXCEPT !.base = salary]]
      /\ UNCHANGED <<expense, payments, line, task, removed, received, disturbed>>
  BY DEF UpdateProfile
<1>2. [profile[m] EXCEPT !.base = salary] \in ProfileRow
  BY Rows, PayablesAssumption DEF Inv, ProfileRow
<1>3. profile' \in [Employees -> ProfileRow]
  BY <1>1, <1>2 DEF Inv, Types, TypeOK
<1>4. \A n \in Employees :
        profile'[n].status = profile[n].status /\ profile'[n].extra = profile[n].extra
  BY <1>1, Rows DEF Inv, Types, TypeOK, ProfileRow
<1> QED
  BY <1>1, <1>3, <1>4, ProfileStep DEF Inv, Types, TypeOK

LEMMA BeginAdjustStep ==
  ASSUME Inv, NEW r \in Requests, NEW m \in Employees, NEW adjustment \in Adjustments,
         BeginAdjust(r, m, adjustment)
  PROVE  Inv'
<1> DEFINE t == [Idle EXCEPT !.pc = "adjust", !.subject = m, !.amount = profile[m].extra + adjustment]
<1>1. /\ Become(r, t) /\ UNCHANGED <<expense, payments, profile, line, removed, received>>
      /\ disturbed \subseteq disturbed' /\ disturbed' \subseteq disturbed \cup {m}
      /\ m \in disturbed' \/ \A q \in Requests : ~At(q, "payroll")
  BY DEF BeginAdjust
<1>2. t.pc = "adjust" /\ t.subject = m
  BY DEF Idle
<1>3. t \in TaskRow
  <2>1. Idle \in TaskRow /\ "adjust" \in Steps /\ profile[m].extra + adjustment \in Int
    BY Rows, PayablesAssumption DEF Inv, Steps, ProfileRow
  <2> QED
    BY <2>1 DEF TaskRow
<1> HIDE DEF t
<1>4. \A q \in Requests : task'[q] = IF q = r THEN t ELSE task[q]
  BY <1>1, TaskBecomes DEF Inv
<1>5. Types'
  BY <1>1, <1>2, <1>3, <1>4, TaskBecomes DEF Inv, Types, TypeOK, At
<1>6. Books'
  BY <1>1, <1>2, <1>4, BooksKept DEF Inv
<1>7. PaidIsOwed' /\ Running'
  BY <1>1, <1>2, <1>4 DEF Inv, Wages, PaidIsOwed, Running, At
<1>8. AdjustingAlone'
  BY <1>1, <1>2, <1>4 DEF Inv, Wages, AdjustingAlone, At
<1> QED
  BY <1>5, <1>6, <1>7, <1>8 DEF Inv, Wages

LEMMA AdjustStep ==
  ASSUME Inv, NEW r \in Requests, Adjust(r)
  PROVE  Inv'
<1> DEFINE m == task[r].subject
           new == [profile[m] EXCEPT !.status = AdjustedStatus(profile[m].status),
                                     !.extra = task[r].amount]
<1>1. /\ At(r, "adjust") /\ Become(r, Idle) /\ profile' = [profile EXCEPT ![task[r].subject] = new]
      /\ UNCHANGED <<expense, payments, line, removed, received, disturbed>>
  BY DEF Adjust, Finish
<1>2. m \in Employees => new \in ProfileRow /\ new.status = "REVIEW"
  BY Rows DEF Inv, TaskRow, ProfileRow, AdjustedStatus
<1>3. \A n \in Employees : profile'[n] = IF n = m THEN new ELSE profile[n]
  BY <1>1 DEF Inv, Types, TypeOK
<1>4. /\ \A q \in Requests : task'[q] = IF q = r THEN Idle ELSE task[q]
      /\ task' \in [Requests -> TaskRow] /\ Idle.pc = "idle"
  BY <1>1, TaskBecomes, Rows DEF Inv
<1> HIDE DEF new
<1>5. Types'
  BY <1>1, <1>2, <1>4 DEF Inv, Types, TypeOK, At
<1>6. Books'
  BY <1>1, <1>4, BooksKept DEF Inv
<1>7. PaidIsOwed'
  BY <1>1, <1>2, <1>3 DEF Inv, Wages, PaidIsOwed
<1>8. ASSUME NEW q \in Requests, At(q, "payroll")', NEW n \in DOMAIN task'[q].pay \ disturbed'
      PROVE  task'[q].pay[n].extra = profile'[n].extra /\ profile'[n].status # "none"
  <2>1. At(q, "payroll") /\ task'[q] = task[q] /\ n \notin disturbed /\ n \in DOMAIN task[q].pay
    BY <1>1, <1>4, <1>8 DEF At
  <2>2. n # m
    BY <1>1, <2>1 DEF Inv, Wages, AdjustingAlone
  <2>3. n \in Employees
    BY <2>1 DEF Inv, Wages, Running, Runs
  <2> QED
    BY <1>3, <2>1, <2>2, <2>3 DEF Inv, Wages, Running
<1>9. Running'
  BY <1>1, <1>4, <1>8 DEF Inv, Wages, Running, At
<1>10. AdjustingAlone'
  BY <1>1, <1>4 DEF Inv, Wages, AdjustingAlone, At
<1> QED
  BY <1>5, <1>6, <1>7, <1>9, <1>10 DEF Inv, Wages

LEMMA BeginPayrollStep ==
  ASSUME Inv, NEW r \in Requests, BeginPayroll(r)
  PROVE  Inv'
<1> DEFINE pay == [m \in Payable |-> [amount |-> Net(m), extra |-> profile[m].extra]]
           t == [Idle EXCEPT !.pc = "payroll", !.pay = pay]
<1>1. /\ At(r, "idle") /\ Become(r, t) /\ UNCHANGED <<expense, payments, profile, line, removed, received>>
      /\ disturbed' = disturbed \cup {m \in Employees : Pending(r, m) # {}}
  BY DEF BeginPayroll, Arrives
<1>2. Payable \subseteq Employees /\ \A m \in Payable : /\ Net(m) \in Nat /\ profile[m].extra \in Int
                                                    /\ profile[m].status # "none"
  BY Rows DEF Inv, Payable, Net, ProfileRow
<1>3. pay \in Runs
  <2>1. pay \in [Payable -> LineRow]
    BY <1>2 DEF LineRow
  <2> QED
    BY <1>2, <2>1 DEF Runs
<1>4. DOMAIN pay = Payable /\ \A m \in Payable : pay[m].extra = profile[m].extra
  OBVIOUS
<1> HIDE DEF pay
<1>5. t.pc = "payroll" /\ t.pay = pay
  BY DEF Idle
<1>6. t \in TaskRow
  <2>1. Idle \in TaskRow /\ "payroll" \in Steps
    BY Rows DEF Inv, Steps
  <2> QED
    BY <1>3, <2>1 DEF TaskRow
<1> HIDE DEF t
<1>7. \A q \in Requests : task'[q] = IF q = r THEN t ELSE task[q]
  BY <1>1, TaskBecomes DEF Inv
<1>8. Types'
  BY <1>1, <1>5, <1>6, <1>7, TaskBecomes DEF Inv, Types, TypeOK, At
<1>9. Books'
  BY <1>1, <1>5, <1>7, BooksKept DEF Inv
<1>10. PaidIsOwed'
  BY <1>1 DEF Inv, Wages, PaidIsOwed
<1>11. Running'
  BY <1>1, <1>2, <1>3, <1>4, <1>5, <1>7 DEF Inv, Wages, Running, At
<1>12. \A q \in Requests : At(q, "adjust") /\ task[q].subject \in Payable => task[q].subject \in disturbed'
  BY <1>1, <1>2 DEF Pending, At
<1>13. AdjustingAlone'
  BY <1>1, <1>4, <1>5, <1>7, <1>12 DEF Inv, Wages, AdjustingAlone, At
<1> QED
  BY <1>8, <1>9, <1>10, <1>11, <1>13 DEF Inv, Wages

LEMMA PayrollStep ==
  ASSUME Inv, NEW r \in Requests, Payroll(r)
  PROVE  Inv'
<1>1. At(r, "payroll") /\ Finish(r) /\ UNCHANGED <<removed, received, disturbed>>
  BY DEF Payroll
<1>2. CASE UNCHANGED <<expense, payments, line, profile>>
  BY <1>1, <1>2, EndImportStep
<1> DEFINE pay == task[r].pay
<1>3. /\ DOMAIN pay \subseteq Employees
      /\ \A m \in DOMAIN pay : pay[m] \in LineRow /\ pay[m].amount \in Nat
      /\ \A m \in DOMAIN pay \ disturbed : pay[m].extra = profile[m].extra
  BY <1>1 DEF Inv, Wages, Running, Runs, LineRow
<1>4. CASE ~UNCHANGED <<expense, payments, line, profile>>
  <2>1. PICK id \in [DOMAIN pay -> Unused] :
           /\ expense' = [e \in Expenses |->
                IF {m \in DOMAIN pay : id[m] = e} = {} THEN expense[e]
                ELSE [status |-> "PAID",
                      amount |-> pay[CHOOSE m \in {m \in DOMAIN pay : id[m] = e} : TRUE].amount,
                      key |-> None]]
           /\ payments' = [e \in Expenses |->
                IF {m \in DOMAIN pay : id[m] = e} = {} THEN payments[e]
                ELSE pay[CHOOSE m \in {m \in DOMAIN pay : id[m] = e} : TRUE].amount]
           /\ line' = [m \in Employees |-> IF m \in DOMAIN pay THEN pay[m] ELSE line[m]]
           /\ profile' = [m \in Employees |-> IF m \in DOMAIN pay
                                              THEN [profile[m] EXCEPT !.status = "PAID"] ELSE profile[m]]
    BY <1>4 DEF Payroll
  <2> HIDE DEF pay
  <2> DEFINE for(e) == {m \in DOMAIN pay : id[m] = e}
  <2>2. \A e \in Expenses : for(e) # {} =>
          /\ expense[e].status = "none" /\ pay[CHOOSE m \in for(e) : TRUE].amount \in Nat
    BY <1>3, <2>1 DEF Unused
  <2>3. \A e \in Expenses :
          IF for(e) = {} THEN expense'[e] = expense[e] /\ payments'[e] = payments[e]
          ELSE /\ expense'[e] = [status |-> "PAID", amount |-> payments'[e], key |-> None]
               /\ payments'[e] \in Nat
    BY <2>1, <2>2
  <2>4. \A e \in Expenses :
          \/ expense'[e] = expense[e] /\ payments'[e] = payments[e]
          \/ /\ expense[e].status = "none" /\ expense'[e].status = "PAID" /\ expense'[e].key = None
             /\ expense'[e].amount = payments'[e] /\ payments'[e] \in Nat /\ expense'[e] \in ExpenseRow
    <3>1. \A n \in Nat : [status |-> "PAID", amount |-> n, key |-> None] \in ExpenseRow
      BY DEF ExpenseRow
    <3>2. ASSUME NEW e \in Expenses, for(e) # {}
          PROVE  /\ expense[e].status = "none" /\ expense'[e].status = "PAID" /\ expense'[e].key = None
                 /\ expense'[e].amount = payments'[e] /\ payments'[e] \in Nat /\ expense'[e] \in ExpenseRow
      <4>1. expense'[e] = [status |-> "PAID", amount |-> payments'[e], key |-> None] /\ payments'[e] \in Nat
        BY <2>3, <3>2
      <4>2. expense[e].status = "none" /\ expense'[e] \in ExpenseRow
        BY <2>2, <3>1, <3>2, <4>1
      <4> QED
        BY <4>1, <4>2
    <3> QED
      BY <2>3, <3>2
  <2>5. expense' \in [Expenses -> ExpenseRow] /\ payments' \in [Expenses -> Nat]
    <3>1. /\ \A e \in Expenses : expense'[e] \in ExpenseRow /\ payments'[e] \in Nat
      BY <2>4, Rows DEF Inv
    <3>2. /\ expense' = [e \in Expenses |-> expense'[e]]
          /\ payments' = [e \in Expenses |-> payments'[e]]
      BY <2>1
    <3> QED
      BY <3>1, <3>2
  <2>6. line' \in [Employees -> LineRow] /\ profile' \in [Employees -> ProfileRow]
    <3>1. \A m \in Employees : [profile[m] EXCEPT !.status = "PAID"] \in ProfileRow
      BY Rows DEF Inv, ProfileRow
    <3> QED
      BY <1>3, <2>1, <3>1, Rows DEF Inv
  <2>7. /\ \A q \in Requests : task'[q] = IF q = r THEN Idle ELSE task[q]
        /\ task' \in [Requests -> TaskRow] /\ Idle.pc = "idle"
    BY <1>1, TaskBecomes, Rows DEF Inv, Finish
  <2>8. Types'
    BY <1>1, <2>5, <2>6, <2>7 DEF Inv, Types, TypeOK, At
  <2>9. \A e \in Expenses : expense'[e].key = expense[e].key
    BY <2>4 DEF Inv, Books, KeysUnique, Exists
  <2>10. KeysUnique' /\ Imported' = Imported
    BY <2>4, <2>9 DEF Inv, Books, KeysUnique, Exists, Imported
  <2>11. Stocked'
    BY <1>1, <2>10 DEF Inv, Books, Stocked
  <2>12. PaymentsAgree'
    BY <1>1, <2>4 DEF Inv, Books, PaymentsAgree, Tolerance
  <2>13. \A q \in Requests : At(q, "pay")' => At(q, "pay") /\ task'[q] = task[q]
    BY <2>7 DEF At
  <2>14. PayingAlone'
    BY <1>1, <2>13 DEF Inv, Books, PayingAlone
  <2>15. Paying'
    BY <1>1, <2>4, <2>13 DEF Inv, Books, Paying, Exists
  <2>16. \A m \in Employees :
           /\ profile'[m].extra = profile[m].extra
           /\ m \in DOMAIN pay => line'[m] = pay[m] /\ profile'[m].status = "PAID"
           /\ m \notin DOMAIN pay => line'[m] = line[m] /\ profile'[m] = profile[m]
    BY <2>1, Rows DEF Inv, ProfileRow
  <2>17. PaidIsOwed'
    BY <1>1, <1>3, <2>16 DEF Inv, Wages, PaidIsOwed
  <2>18. \A q \in Requests : task'[q].pc \in {"payroll", "adjust"} => task'[q] = task[q]
    BY <2>7
  <2>19. Running'
    <3>1. ASSUME NEW q \in Requests, At(q, "payroll") PROVE DOMAIN task[q].pay \subseteq Employees
      BY <3>1 DEF Inv, Wages, Running, Runs
    <3> QED
      BY <1>1, <2>16, <2>18, <3>1 DEF Inv, Wages, Running, At
  <2>20. AdjustingAlone'
    BY <1>1, <2>18 DEF Inv, Wages, AdjustingAlone, At
  <2> QED
    BY <2>8, <2>10, <2>11, <2>12, <2>14, <2>15, <2>17, <2>19, <2>20 DEF Inv, Books, Wages
<1> QED
  BY <1>2, <1>4

-----------------------------------------------------------------------------
LEMMA NextInv == Inv /\ [Next]_vars => Inv'
<1> SUFFICES ASSUME Inv, [Next]_vars PROVE Inv'
  OBVIOUS
<1>1. CASE UNCHANGED vars
  <2>1. Types'
    BY <1>1 DEF vars, Inv, Types, TypeOK, At
  <2> QED
    BY <1>1, <2>1, BooksKept, WagesKept DEF vars, Inv
<1>2. ASSUME NEW r \in Requests, NEW e \in Expenses,
             \/ Remove(r, e) \/ \E amount \in Amounts : BeginPayment(r, e, amount)
             \/ \E amount \in Amounts, status \in {"PENDING", "PAID"} :
                  Update(r, e, amount, status)
                    \/ \E initial \in {0} \cup Amounts : Create(r, e, amount, status, initial)
             \/ \E amount \in Amounts, initial \in {0} \cup Amounts :
                  ConfirmUpload(r, e, amount, initial) \/ ImportInvoice(r, e, amount, initial)
      PROVE  Inv'
  BY <1>2, RemoveStep, BeginPaymentStep, UpdateStep, RecordStep
     DEF Create, ConfirmUpload, ImportInvoice
<1>3. ASSUME NEW r \in Requests, Pay(r) PROVE Inv'
  BY <1>3, PayStep
<1>4. ASSUME NEW r \in Requests,
             ImportGroup(r) \/ EndImport(r) \/ \E skipImported \in BOOLEAN : BeginImport(r, skipImported)
      PROVE  Inv'
  BY <1>4, BeginImportStep, ImportGroupStep, EndImportStep DEF EndImport
<1>5. ASSUME NEW r \in Requests, NEW salary \in Salaries,
             ListEmployees(r, salary) \/ \E m \in Employees : UpdateProfile(r, m, salary)
      PROVE  Inv'
  BY <1>5, ListEmployeesStep, UpdateProfileStep
<1>6. ASSUME NEW r \in Requests,
             \/ \E m \in Employees, adjustment \in Adjustments : BeginAdjust(r, m, adjustment)
             \/ Adjust(r) \/ BeginPayroll(r) \/ Payroll(r)
      PROVE  Inv'
  BY <1>6, BeginAdjustStep, AdjustStep, BeginPayrollStep, PayrollStep
<1>7. ASSUME NEW r \in Requests, Fail(r) PROVE Inv'
  BY <1>7, EndImportStep DEF Fail
<1> QED
  BY <1>1, <1>2, <1>3, <1>4, <1>5, <1>6, <1>7 DEF Next

LEMMA Invariance == Spec => []Inv
BY InitInv, NextInv, PTL DEF Spec

\* Expenses, payments, profiles and lines keep their types: no pay is negative.
THEOREM TypeCorrect == Spec => []TypeOK
<1>1. Inv => TypeOK
  BY DEF Inv, Types
<1> QED
  BY <1>1, Invariance, PTL

\* The units of an imported purchase enter the stock once for each time its expense exists, in
\* any interleaving of imports and removals.
THEOREM PurchasesReceivedOnce == Spec => []PurchaseReceivedOnce
<1>1. Inv => PurchaseReceivedOnce
  <2> SUFFICES ASSUME Inv, NEW k \in Keys
               PROVE  /\ received[k] = removed[k] + Cardinality({e \in Expenses : expense[e].key = k})
                      /\ received[k] <= removed[k] + 1
    BY DEF PurchaseReceivedOnce
  <2> DEFINE S == {e \in Expenses : expense[e].key = k}
  <2>1. k # None /\ removed[k] \in Nat
    BY PayablesAssumption DEF Inv, Types, TypeOK
  <2>2. CASE k \notin Imported
    <3>1. S = {}
      BY <2>1, <2>2 DEF Imported
    <3>2. Cardinality(S) = 0
      BY <3>1, FS_EmptySet
    <3> HIDE DEF S
    <3> QED
      BY <2>1, <2>2, <3>2 DEF Inv, Books, Stocked, S
  <2>3. CASE k \in Imported
    <3>1. \E e : S = {e}
      BY <2>1, <2>3 DEF Imported, Inv, Books, KeysUnique
    <3>2. Cardinality(S) = 1
      BY <3>1, FS_Singleton
    <3> HIDE DEF S
    <3> QED
      BY <2>1, <2>3, <3>2 DEF Inv, Books, Stocked, S
  <2> QED
    BY <2>2, <2>3
<1> QED
  BY <1>1, Invariance, PTL

\* Status and payments of an expense agree, to a cent: PAID when payments cover it, and at
\* most a cent short when PAID by payments; as long as no two payments of it overlap and
\* nobody corrects it.  Nothing bounds what is paid beyond the amount.
THEOREM PaymentsAgreed == Spec => []PaymentsAgree
<1>1. Inv => PaymentsAgree
  BY DEF Inv, Books
<1> QED
  BY <1>1, Invariance, PTL

\* An employee shown as PAID was paid the bonuses and deductions of the profile, as long as no
\* run crossed an adjustment of the employee and no two adjustments crossed; salaries may
\* change at any time.
THEOREM PaidWhatIsOwed == Spec => []PaidIsOwed
<1>1. Inv => PaidIsOwed
  BY DEF Inv, Wages
<1> QED
  BY <1>1, Invariance, PTL
=============================================================================
