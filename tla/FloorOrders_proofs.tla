------------------------- MODULE FloorOrders_proofs -------------------------
(***************************************************************************)
(* A charged order has the invoice of its own charge, for any products,    *)
(* orders, accounts, invoices and requests.                                *)
(***************************************************************************)
EXTENDS FloorOrders, TLAPS

ReqRow == [pc : Steps, subject : Invoices \cup Orders \cup Accounts \cup Tables \cup {None},
           product : Products \cup {None}, kind : LineKinds, qty : Int, lines : Nat,
           released : Nat, seen : Int, was : Statuses, sold : Invoices \cup {None}]

OnOrder == {"sendRead", "reserve", "reserveWrite", "status", "cancel", "chargeSale", "chargeMark"}

\* A request works on a row that exists.
Subject(q) ==
  /\ q.pc \in OnOrder => q.subject \in Orders /\ Exists(q.subject)
  /\ q.pc = "void" => q.subject \in Invoices
  /\ q.pc = "account" => q.subject \in Tables
  /\ q.pc = "insert" => q.subject \in Accounts
  /\ q.pc # "adjust" => q.qty \in Nat
  /\ q.pc = "status" => q.was \in {"IN_PREP", "READY"}

\* A charge carries the product and the quantity of its order.
Charging(q) ==
  q.pc \in {"chargeSale", "chargeMark"} =>
    q.product = order[q.subject].product /\ q.qty = order[q.subject].qty

\* The invoice a charge has created is there, and no order's yet.
Sold(q) ==
  q.pc = "chargeMark" =>
    /\ q.sold \in Placed /\ invoice[q.sold].product = q.product /\ invoice[q.sold].qty = q.qty
    /\ \A o \in Orders : order[o].charged # q.sold

SoldApart == \A r, q \in Requests :
  r # q /\ At(r, "chargeMark") /\ At(q, "chargeMark") => req[r].sold # req[q].sold

\* The types of all but the requests.
Stored ==
  /\ stock \in [Products -> Int] /\ reserved \in [Products -> Int]
  /\ invoice \in [Invoices -> InvoiceRow]
  /\ consumed \in [Products -> Nat] /\ received \in [Products -> Nat]
  /\ order \in [Orders -> OrderRow] /\ account \in [Accounts -> AccountRow]
  /\ paid \in [Accounts -> Nat]

Inv ==
  /\ TypeOK /\ req \in [Requests -> ReqRow]
  /\ \A r \in Requests : Subject(req[r]) /\ Charging(req[r]) /\ Sold(req[r])
  /\ SoldApart
  /\ ChargedHasItsInvoice

-----------------------------------------------------------------------------
LEMMA MaxType ==
  ASSUME NEW x \in Int, NEW y \in Int
  PROVE  Max({x, y}) \in Int /\ Max({x, y}) >= x /\ Max({x, y}) >= y
<1>1. \E z \in {x, y} : \A w \in {x, y} : z >= w
  OBVIOUS
<1>2. Max({x, y}) \in {x, y} /\ \A w \in {x, y} : Max({x, y}) >= w
  BY <1>1 DEF Max
<1> QED
  BY <1>2

LEMMA MinType ==
  ASSUME NEW x \in Int, NEW y \in Int
  PROVE  Min({x, y}) \in Int
<1>1. \E z \in {x, y} : \A w \in {x, y} : z =< w
  OBVIOUS
<1>2. Min({x, y}) \in {x, y}
  BY <1>1 DEF Min
<1> QED
  BY <1>2

LEMMA TakenType ==
  ASSUME NEW kind \in LineKinds, NEW qty \in Nat
  PROVE  Taken(kind, qty) \in Nat /\ Restored(kind, qty) \in Nat
<1>1. Factor \in Nat
  BY InventoryAssumption
<1>2. qty * Factor \in Nat
  BY <1>1
<1> QED
  BY <1>2 DEF Taken, Restored, LineKinds, Imports

LEMMA ProductType ==
  ASSUME NEW m \in Nat, NEW n \in Nat
  PROVE  m * n \in Nat
OBVIOUS

LEMMA InitInv == Init => Inv
<1> SUFFICES ASSUME Init PROVE Inv
  OBVIOUS
<1>1. Idle \in ReqRow /\ Subject(Idle) /\ Charging(Idle) /\ Sold(Idle)
  BY DEF Idle, ReqRow, Steps, LineKinds, Imports, Statuses, Subject, OnOrder, Charging, Sold
<1>2. NoInvoice \in InvoiceRow /\ NoOrder \in OrderRow /\ NoAccount \in AccountRow
  BY DEF NoInvoice, InvoiceRow, LineKinds, Imports, NoOrder, OrderRow, Statuses, NoAccount, AccountRow
<1>3. Idle.pc = "idle" /\ "idle" \in Steps
  BY DEF Idle, Steps
<1>4. TypeOK
  BY <1>2, <1>3, InventoryAssumption DEF Init, InitInventory, TypeOK
<1>5. ChargedHasItsInvoice
  BY DEF Init, ChargedHasItsInvoice, NoOrder
<1>6. SoldApart
  BY <1>3 DEF Init, SoldApart, At
<1> QED
  BY <1>1, <1>4, <1>5, <1>6 DEF Init, Inv

LEMMA Rows ==
  ASSUME Inv
  PROVE  /\ \A r \in Requests : req[r] \in ReqRow /\ Subject(req[r]) /\ Charging(req[r]) /\ Sold(req[r])
         /\ \A o \in Orders : order[o] \in OrderRow
         /\ \A i \in Invoices : invoice[i] \in InvoiceRow
         /\ \A a \in Accounts : account[a] \in AccountRow /\ paid[a] \in Nat
         /\ \A p \in Products : /\ stock[p] \in Int /\ reserved[p] \in Int
                              /\ consumed[p] \in Nat /\ received[p] \in Nat
         /\ Idle \in ReqRow /\ Idle.pc = "idle"
<1>1. Idle \in ReqRow /\ Idle.pc = "idle"
  BY DEF Idle, ReqRow, Steps, LineKinds, Imports, Statuses
<1> QED
  BY <1>1 DEF Inv, TypeOK

LEMMA RequestBecomes ==
  ASSUME Inv, NEW r \in Requests, NEW t \in ReqRow, Become(r, t)
  PROVE  /\ \A q \in Requests : req'[q] = IF q = r THEN t ELSE req[q]
         /\ req' \in [Requests -> ReqRow]
BY DEF Inv, Become

\* An order keeps what it asks for and its invoice, or is new.
OrderStays(o) ==
  \/ /\ order'[o].product = order[o].product /\ order'[o].qty = order[o].qty
     /\ order'[o].charged = order[o].charged /\ (Exists(o) => order'[o].status # "none")
     /\ order'[o].status = "CHARGED" => order[o].status = "CHARGED"
  \/ ~Exists(o) /\ order'[o].charged = None /\ order'[o].status = "DRAFT"

\* An invoice keeps what it sold, or is new.
InvoiceStays(i) ==
  i \in Placed => /\ invoice'[i].product = invoice[i].product /\ invoice'[i].qty = invoice[i].qty
                  /\ invoice'[i].status # "none"

LEMMA ChargedStays ==
  ASSUME Inv, \A o \in Orders : OrderStays(o), \A i \in Invoices : InvoiceStays(i)
  PROVE  /\ ChargedHasItsInvoice'
         /\ \A q \in ReqRow : Subject(q) => Subject(q)'
         /\ \A q \in ReqRow : Subject(q) /\ Charging(q) => Charging(q)'
         /\ \A q \in ReqRow : Sold(q) => Sold(q)'
<1>1. None \notin Invoices
  BY InventoryAssumption
<1>2. Placed \subseteq Placed'
  BY DEF InvoiceStays, Placed
<1>3. \A o \in Orders : order'[o].charged # None =>
        /\ order'[o].charged = order[o].charged /\ order'[o].product = order[o].product
        /\ order'[o].qty = order[o].qty
  BY DEF OrderStays
<1>4. ChargedHasItsInvoice'
  <2>1. \A o \in Orders : order'[o].status = "CHARGED" => order'[o].charged # None
    BY DEF Inv, ChargedHasItsInvoice, OrderStays
  <2>2. ASSUME NEW o \in Orders, order'[o].charged # None
        PROVE  /\ order'[o].charged \in Placed' /\ invoice'[order'[o].charged].product = order'[o].product
               /\ invoice'[order'[o].charged].qty = order'[o].qty
    <3>1. order[o].charged \in Placed /\ invoice[order[o].charged].product = order[o].product
          /\ invoice[order[o].charged].qty = order[o].qty
      BY <1>3, <2>2 DEF Inv, ChargedHasItsInvoice
    <3>2. order[o].charged \in Invoices
      BY <3>1 DEF Placed
    <3> QED
      BY <1>2, <1>3, <2>2, <3>1, <3>2 DEF InvoiceStays
  <2>3. \A o, q \in Orders : order'[o].charged = order'[q].charged /\ o # q => order'[o].charged = None
    BY <1>3 DEF Inv, ChargedHasItsInvoice
  <2> QED
    BY <2>1, <2>2, <2>3 DEF ChargedHasItsInvoice
<1>5. ASSUME NEW q \in ReqRow, Subject(q) PROVE Subject(q)'
  BY <1>5 DEF Subject, Exists, OrderStays
<1>6. ASSUME NEW q \in ReqRow, Subject(q), Charging(q) PROVE Charging(q)'
  BY <1>6 DEF Subject, Charging, OnOrder, OrderStays
<1>7. ASSUME NEW q \in ReqRow, Sold(q) PROVE Sold(q)'
  <2>1. CASE q.pc # "chargeMark"
    BY <2>1 DEF Sold
  <2>2. CASE q.pc = "chargeMark"
    <3>1. q.sold \in Placed /\ q.sold \in Invoices /\ q.sold # None
      BY <1>1, <1>7, <2>2 DEF Sold, Placed
    <3>2. \A o \in Orders : order'[o].charged # q.sold
      BY <1>3, <1>7, <2>2, <3>1 DEF Sold
    <3> QED
      BY <1>2, <1>7, <2>2, <3>1, <3>2 DEF Sold, InvoiceStays
  <2> QED
    BY <2>1, <2>2
<1> QED
  BY <1>4, <1>5, <1>6, <1>7

\* Any step of a request but the last two of a charge.
LEMMA RequestStep ==
  ASSUME Inv, Stored', NEW r \in Requests, NEW t \in ReqRow, Become(r, t),
         \A o \in Orders : OrderStays(o), \A i \in Invoices : InvoiceStays(i),
         Subject(t)', Charging(t)', t.pc # "chargeMark"
  PROVE  Inv'
<1>1. /\ \A q \in Requests : req'[q] = IF q = r THEN t ELSE req[q]
      /\ req' \in [Requests -> ReqRow]
  BY RequestBecomes
<1>2. Sold(t)'
  BY DEF Sold
<1>3. ASSUME NEW q \in Requests, NEW x, x = req'[q]
      PROVE  Subject(x)' /\ Charging(x)' /\ Sold(x)'
  <2>1. CASE q = r
    BY <1>1, <1>2, <1>3, <2>1
  <2>2. CASE q # r
    <3>1. x = req[q]
      BY <1>1, <1>3, <2>2
    <3>2. x \in ReqRow /\ Subject(x) /\ Charging(x) /\ Sold(x)
      BY <3>1, Rows
    <3> QED
      BY <3>2, ChargedStays
  <2> QED
    BY <2>1, <2>2
<1>4. SoldApart'
  BY <1>1 DEF Inv, SoldApart, At
<1>5. \A q \in Requests : req'[q].pc \in Steps
  BY <1>1 DEF ReqRow
<1>6. TypeOK'
  BY <1>5 DEF Stored, TypeOK
<1>7. ASSUME NEW q \in Requests PROVE (Subject(req[q]) /\ Charging(req[q]) /\ Sold(req[q]))'
  BY <1>3
<1> QED
  BY <1>1, <1>4, <1>6, <1>7, ChargedStays DEF Inv

\* A statement that only reads.
LEMMA ReadStep ==
  ASSUME Inv, NEW r \in Requests, NEW t \in ReqRow, Become(r, t), Subject(t), Charging(t),
         t.pc # "chargeMark", UNCHANGED <<inventoryVars, floorVars>>
  PROVE  Inv'
<1>1. Stored'
  BY DEF Inv, TypeOK, Stored, inventoryVars, floorVars
<1>2. (\A o \in Orders : OrderStays(o)) /\ (\A i \in Invoices : InvoiceStays(i))
  BY DEF OrderStays, InvoiceStays, Placed, inventoryVars, floorVars, Exists
<1>3. Subject(t)' /\ Charging(t)'
  BY <1>2, ChargedStays
<1> QED
  BY <1>1, <1>2, <1>3, RequestStep

\* The last statement of a request.
LEMMA FinishStep ==
  ASSUME Inv, Stored', NEW r \in Requests, Finish(r),
         \A o \in Orders : OrderStays(o), \A i \in Invoices : InvoiceStays(i)
  PROVE  Inv'
<1>1. PICK t : t = Idle
  OBVIOUS
<1>2. t \in ReqRow /\ t.pc = "idle" /\ Become(r, t)
  BY <1>1, Rows DEF Finish
<1>3. t.qty \in Nat
  BY <1>1 DEF Idle
<1>4. Subject(t)' /\ Charging(t)'
  BY <1>2, <1>3 DEF Subject, OnOrder, Charging
<1> QED
  BY <1>2, <1>4, RequestStep

-----------------------------------------------------------------------------
\* The rows of requests that have only read.
LEMMA InitRow == Idle \in ReqRow
BY DEF Idle, ReqRow, Steps, LineKinds, Imports, Statuses

LEMMA IdleRow == Idle \in ReqRow /\ Idle.pc = "idle" /\ Idle.qty = 0 /\ Idle.qty \in Nat
<1>1. Idle.pc = "idle" /\ Idle.qty = 0 /\ Idle.qty \in Nat
  BY DEF Idle
<1> QED
  BY <1>1, InitRow

LEMMA StepNames ==
  /\ "idle" \in Steps /\ "saleCommit" \in Steps /\ "void" \in Steps /\ "outflow" \in Steps
  /\ "adjust" \in Steps /\ "account" \in Steps /\ "insert" \in Steps /\ "sendRead" \in Steps
  /\ "reserve" \in Steps /\ "reserveWrite" \in Steps /\ "status" \in Steps /\ "cancel" \in Steps /\ "chargeSale" \in Steps
  /\ "chargeMark" \in Steps /\ "pay" \in Steps /\ "claim" \in Steps /\ "claimTab" \in Steps
  /\ "claimOrders" \in Steps /\ "unclaim" \in Steps
  /\ "IN_PREP" \in Statuses /\ "READY" \in Statuses
BY DEF Steps, Statuses, Active

LEMMA InventoryReads ==
  ASSUME Inv, NEW r \in Requests, UNCHANGED floorVars,
         \/ \E p \in Products, kind \in Kinds, qty \in Quantities, lines \in LineCounts :
              BeginSale(r, p, kind, qty, lines)
         \/ \E i \in Invoices : BeginVoid(r, i)
         \/ \E p \in Products, kind \in Kinds, qty \in Quantities : BeginOutflow(r, p, kind, qty)
         \/ \E p \in Products, qty \in Quantities, lines \in LineCounts :
              BeginConsumptions(r, p, qty, lines)
         \/ \E p \in Products, kind \in Imports, qty \in Quantities, lines \in LineCounts :
              \E skip \in BOOLEAN : BeginImport(r, p, kind, qty, lines, skip)
         \/ \E p \in Products, delta \in Deltas : BeginAdjust(r, p, delta)
  PROVE  Inv'
<1>1. /\ Kinds \subseteq LineKinds /\ Imports \subseteq LineKinds /\ Quantities \subseteq Nat /\ LineCounts \subseteq Nat
      /\ Deltas \subseteq Int /\ Quantities \subseteq Int /\ 1 \in Nat
  BY InventoryAssumption DEF LineKinds, Imports
<1>2. SUFFICES \E t \in ReqRow : /\ Become(r, t) /\ UNCHANGED inventoryVars
                                 /\ t.pc \in {"saleCommit", "void", "outflow", "adjust"}
                                 /\ t.pc = "void" => t.subject \in Invoices
                                 /\ t.pc # "adjust" => t.qty \in Nat
  <2>1. PICK t \in ReqRow : /\ Become(r, t) /\ UNCHANGED inventoryVars
                            /\ t.pc \in {"saleCommit", "void", "outflow", "adjust"}
                            /\ t.pc = "void" => t.subject \in Invoices
                            /\ t.pc # "adjust" => t.qty \in Nat
    BY <1>2
  <2>2. Subject(t) /\ Charging(t) /\ t.pc # "chargeMark"
    BY <2>1 DEF Subject, OnOrder, Charging
  <2> QED
    BY <2>1, <2>2, ReadStep
<1>3. ASSUME NEW p \in Products, NEW kind \in Kinds, NEW qty \in Quantities,
             NEW lines \in LineCounts, BeginSale(r, p, kind, qty, lines)
      PROVE  \E t \in ReqRow : /\ Become(r, t) /\ UNCHANGED inventoryVars
                               /\ t.pc = "saleCommit" /\ t.qty \in Nat
  <2>1. PICK t : t = [Idle EXCEPT !.pc = "saleCommit", !.product = p, !.kind = kind,
                                  !.qty = qty, !.lines = lines]
    OBVIOUS
  <2>2. t.qty \in Nat /\ t.pc = "saleCommit"
    BY <1>1, <2>1, IdleRow DEF ReqRow
  <2>3. t \in ReqRow
    BY <1>1, <2>1, IdleRow, StepNames DEF ReqRow
  <2> QED
    BY <1>3, <2>1, <2>2, <2>3 DEF BeginSale
<1>4. ASSUME NEW i \in Invoices, BeginVoid(r, i)
      PROVE  \E t \in ReqRow : /\ Become(r, t) /\ UNCHANGED inventoryVars
                               /\ t.pc = "void" /\ t.subject \in Invoices /\ t.qty \in Nat
  <2>1. PICK t : t = [Idle EXCEPT !.pc = "void", !.subject = i]
    OBVIOUS
  <2>2. t \in ReqRow /\ t.pc = "void" /\ t.subject \in Invoices /\ t.qty \in Nat
    BY <2>1, IdleRow, StepNames DEF ReqRow
  <2> QED
    BY <1>4, <2>1, <2>2 DEF BeginVoid
<1>5. ASSUME NEW p \in Products, NEW kind \in Kinds, NEW qty \in Quantities,
             BeginOutflow(r, p, kind, qty)
      PROVE  \E t \in ReqRow : /\ Become(r, t) /\ UNCHANGED inventoryVars
                               /\ t.pc = "outflow" /\ t.qty \in Nat
  <2>1. PICK t : t = [Idle EXCEPT !.pc = "outflow", !.product = p, !.kind = kind, !.qty = qty,
                                  !.lines = 1]
    OBVIOUS
  <2>2. t.qty \in Nat /\ t.pc = "outflow"
    BY <1>1, <2>1, IdleRow DEF ReqRow
  <2>3. t \in ReqRow
    BY <1>1, <2>1, IdleRow, StepNames DEF ReqRow
  <2> QED
    BY <1>5, <2>1, <2>2, <2>3 DEF BeginOutflow
<1>6. ASSUME NEW p \in Products, NEW kind \in Imports, NEW qty \in Quantities,
             NEW lines \in LineCounts, NEW skip \in BOOLEAN,
             BeginImport(r, p, kind, qty, lines, skip)
      PROVE  \E t \in ReqRow : /\ Become(r, t) /\ UNCHANGED inventoryVars
                               /\ t.pc = "saleCommit" /\ t.qty \in Nat
  <2>1. PICK t : t = [Idle EXCEPT !.pc = "saleCommit", !.product = p, !.kind = kind,
                                  !.qty = qty, !.lines = lines]
    OBVIOUS
  <2>2. t.qty \in Nat /\ t.pc = "saleCommit"
    BY <1>1, <2>1, IdleRow DEF ReqRow
  <2>3. t \in ReqRow
    BY <1>1, <2>1, IdleRow, StepNames DEF ReqRow
  <2> QED
    BY <1>6, <2>1, <2>2, <2>3 DEF BeginImport
<1>7. ASSUME NEW p \in Products, NEW delta \in Deltas, BeginAdjust(r, p, delta)
      PROVE  \E t \in ReqRow : Become(r, t) /\ UNCHANGED inventoryVars /\ t.pc = "adjust"
  <2>1. PICK t : t = [Idle EXCEPT !.pc = "adjust", !.product = p, !.qty = delta,
                                  !.seen = stock[p]]
    OBVIOUS
  <2>2. t \in ReqRow /\ t.pc = "adjust"
    BY <1>1, <2>1, Rows, IdleRow, StepNames DEF ReqRow, LineKinds, Imports
  <2> QED
    BY <1>7, <2>1, <2>2 DEF BeginAdjust
<1>8. ASSUME NEW p \in Products, NEW qty \in Quantities, NEW lines \in LineCounts,
             BeginConsumptions(r, p, qty, lines)
      PROVE  \E t \in ReqRow : /\ Become(r, t) /\ UNCHANGED inventoryVars
                               /\ t.pc = "outflow" /\ t.qty \in Nat
  <2>1. PICK t : t = [Idle EXCEPT !.pc = "outflow", !.product = p, !.qty = qty, !.lines = lines]
    OBVIOUS
  <2>2. t.qty \in Nat /\ t.pc = "outflow"
    BY <1>1, <2>1, IdleRow DEF ReqRow
  <2>3. t \in ReqRow
    BY <1>1, <2>1, IdleRow, StepNames DEF ReqRow
  <2> QED
    BY <1>8, <2>1, <2>2, <2>3 DEF BeginConsumptions
<1> QED
  BY <1>3, <1>4, <1>5, <1>6, <1>7, <1>8

LEMMA OrderReads ==
  ASSUME Inv, NEW r \in Requests, NEW o \in Orders,
         \/ BeginSend(r, o) \/ BeginCancel(r, o)
         \/ \E status \in {"IN_PREP", "READY"} : BeginStatus(r, o, status)
  PROVE  Inv'
<1>1. SUFFICES \E t \in ReqRow : /\ Become(r, t) /\ UNCHANGED <<inventoryVars, floorVars>>
                                 /\ t.pc \in {"reserve", "status", "cancel"} /\ t.subject = o
                                 /\ t.qty = 0 /\ Exists(o)
                                 /\ t.pc = "status" => t.was \in {"IN_PREP", "READY"}
  <2>1. PICK t \in ReqRow : /\ Become(r, t) /\ UNCHANGED <<inventoryVars, floorVars>>
                            /\ t.pc \in {"reserve", "status", "cancel"} /\ t.subject = o
                            /\ t.qty = 0 /\ Exists(o)
                            /\ t.pc = "status" => t.was \in {"IN_PREP", "READY"}
    BY <1>1
  <2>2. Subject(t) /\ Charging(t) /\ t.pc # "chargeMark"
    BY <2>1 DEF Subject, OnOrder, Charging
  <2> QED
    BY <2>1, <2>2, ReadStep
<1>2. ASSUME BeginSend(r, o)
      PROVE  \E t \in ReqRow : /\ Become(r, t) /\ UNCHANGED <<inventoryVars, floorVars>>
                               /\ t.pc = "reserve" /\ t.subject = o /\ t.qty = 0 /\ Exists(o)
  <2>1. PICK t : t = [Idle EXCEPT !.pc = "reserve", !.subject = o]
    OBVIOUS
  <2>2. t \in ReqRow /\ t.pc = "reserve" /\ t.subject = o /\ t.qty = 0
    BY <2>1, IdleRow, StepNames DEF ReqRow
  <2> QED
    BY <1>2, <2>1, <2>2 DEF BeginSend, Sendable, Exists
<1>3. ASSUME BeginCancel(r, o)
      PROVE  \E t \in ReqRow : /\ Become(r, t) /\ UNCHANGED <<inventoryVars, floorVars>>
                               /\ t.pc = "cancel" /\ t.subject = o /\ t.qty = 0 /\ Exists(o)
  <2>1. PICK t : t = [Idle EXCEPT !.pc = "cancel", !.subject = o, !.was = order[o].status]
    OBVIOUS
  <2>2. t \in ReqRow /\ t.pc = "cancel" /\ t.subject = o /\ t.qty = 0
    BY <2>1, Rows DEF Idle, ReqRow, OrderRow, LineKinds, Imports, Steps
  <2> QED
    BY <1>3, <2>1, <2>2 DEF BeginCancel, Exists, Active
<1>4. ASSUME NEW status \in {"IN_PREP", "READY"}, BeginStatus(r, o, status)
      PROVE  \E t \in ReqRow : /\ Become(r, t) /\ UNCHANGED <<inventoryVars, floorVars>>
                               /\ t.pc = "status" /\ t.subject = o /\ t.qty = 0 /\ Exists(o)
                               /\ t.was \in {"IN_PREP", "READY"}
  <2>1. PICK t : t = [Idle EXCEPT !.pc = "status", !.subject = o, !.was = status]
    OBVIOUS
  <2>2. t \in ReqRow /\ t.pc = "status" /\ t.subject = o /\ t.qty = 0 /\ t.was = status
    BY <2>1, IdleRow, StepNames DEF ReqRow
  <2> QED
    BY <1>4, <2>1, <2>2 DEF BeginStatus, From, Exists, Active
<1> QED
  BY <1>2, <1>3, <1>4

LEMMA ChargeRead ==
  ASSUME Inv, NEW r \in Requests, NEW o \in Orders, BeginCharge(r, o)
  PROVE  Inv'
<1>1. PICK t : t = [Idle EXCEPT !.pc = "chargeSale", !.subject = o,
                                !.product = order[o].product, !.qty = order[o].qty,
                                !.lines = 1, !.released = order[o].qty]
  OBVIOUS
<1>2. order[o].product \in Products \cup {None} /\ order[o].qty \in Nat /\ order[o].qty \in Int
  BY Rows DEF OrderRow
<1>3. t \in ReqRow
  BY <1>1, <1>2, IdleRow, StepNames DEF ReqRow
<1>4. t.pc = "chargeSale" /\ t.subject = o /\ t.product = order[o].product /\ t.qty = order[o].qty
  BY <1>1, IdleRow DEF ReqRow
<1>5. Become(r, t) /\ UNCHANGED <<inventoryVars, floorVars>> /\ Exists(o)
  BY <1>1 DEF BeginCharge, Chargeable, Exists, Active
<1>6. Subject(t) /\ Charging(t)
  BY <1>2, <1>3, <1>4, <1>5 DEF Subject, OnOrder, Charging
<1> QED
  BY <1>3, <1>4, <1>5, <1>6, ReadStep

\* The statements that look at an account or at a tab, and those that change nothing.
LEMMA AccountReads ==
  ASSUME Inv, NEW r \in Requests,
         \/ \E t \in Tables, p \in Products, qty \in Quantities : BeginTable(r, t, p, qty)
         \/ \E a \in Accounts : \/ BeginClose(r, a)
                                \/ \E amount \in Amounts : BeginPayment(r, a, amount)
         \/ BeginTab(r)
  PROVE  Inv'
<1>1. SUFFICES \E t \in ReqRow : /\ Become(r, t) /\ UNCHANGED <<inventoryVars, floorVars>>
                                 /\ t.pc \in {"account", "insert", "claim", "pay", "claimTab"}
                                 /\ t.pc = "account" => t.subject \in Tables
                                 /\ t.pc = "insert" => t.subject \in Accounts
                                 /\ t.qty \in Nat
  <2>1. PICK t \in ReqRow : /\ Become(r, t) /\ UNCHANGED <<inventoryVars, floorVars>>
                            /\ t.pc \in {"account", "insert", "claim", "pay", "claimTab"}
                            /\ t.pc = "account" => t.subject \in Tables
                            /\ t.pc = "insert" => t.subject \in Accounts
                            /\ t.qty \in Nat
    BY <1>1
  <2>2. Subject(t) /\ Charging(t) /\ t.pc # "chargeMark"
    BY <2>1 DEF Subject, OnOrder, Charging
  <2> QED
    BY <2>1, <2>2, ReadStep
<1>2. ASSUME NEW x \in Tables, NEW p \in Products, NEW qty \in Quantities,
             BeginTable(r, x, p, qty)
      PROVE  \E t \in ReqRow : /\ Become(r, t) /\ UNCHANGED <<inventoryVars, floorVars>>
                               /\ \/ t.pc = "account" /\ t.subject \in Tables
                                  \/ t.pc = "insert" /\ t.subject \in Accounts
                               /\ t.qty \in Nat
  <2>1. qty \in Nat /\ qty \in Int
    BY InventoryAssumption
  <2>2. CASE OpenAccounts(x) = {}
    <3>1. PICK t : t = [[Idle EXCEPT !.product = p, !.qty = qty]
                          EXCEPT !.pc = "account", !.subject = x]
      OBVIOUS
    <3>2. t.qty \in Nat /\ t.pc = "account" /\ t.subject \in Tables
      BY <2>1, <3>1, IdleRow DEF ReqRow
    <3>3. t \in ReqRow
      BY <2>1, <3>1, IdleRow, StepNames DEF ReqRow
    <3> QED
      BY <1>2, <2>2, <3>1, <3>2, <3>3 DEF BeginTable
  <2>3. CASE OpenAccounts(x) # {}
    <3>1. PICK a \in OpenAccounts(x) :
            Become(r, [[Idle EXCEPT !.product = p, !.qty = qty]
                         EXCEPT !.pc = "insert", !.subject = a])
      BY <1>2, <2>3 DEF BeginTable
    <3>2. PICK t : t = [[Idle EXCEPT !.product = p, !.qty = qty]
                          EXCEPT !.pc = "insert", !.subject = a]
      OBVIOUS
    <3>3. a \in Accounts
      BY DEF OpenAccounts
    <3>4. t.qty \in Nat /\ t.pc = "insert" /\ t.subject \in Accounts
      BY <2>1, <3>2, <3>3, IdleRow DEF ReqRow
    <3>5. t \in ReqRow
      BY <2>1, <3>2, <3>3, IdleRow, StepNames DEF ReqRow
    <3> QED
      BY <1>2, <3>1, <3>2, <3>4, <3>5 DEF BeginTable
  <2> QED
    BY <2>2, <2>3
<1>3. ASSUME NEW a \in Accounts, BeginClose(r, a)
      PROVE  \E t \in ReqRow : /\ Become(r, t) /\ UNCHANGED <<inventoryVars, floorVars>>
                               /\ t.pc = "claim" /\ t.qty \in Nat
  <2>1. PICK t : t = [Idle EXCEPT !.pc = "claim", !.subject = a]
    OBVIOUS
  <2>2. t \in ReqRow /\ t.pc = "claim" /\ t.qty \in Nat
    BY <2>1, IdleRow, StepNames DEF ReqRow
  <2> QED
    BY <1>3, <2>1, <2>2 DEF BeginClose
<1>4. ASSUME NEW a \in Accounts, NEW amount \in Amounts, BeginPayment(r, a, amount)
      PROVE  \E t \in ReqRow : /\ Become(r, t) /\ UNCHANGED <<inventoryVars, floorVars>>
                               /\ t.pc = "pay" /\ t.qty \in Nat
  <2>1. PICK t : t = [Idle EXCEPT !.pc = "pay", !.subject = a, !.qty = amount]
    OBVIOUS
  <2>2. amount \in Nat /\ amount \in Int
    BY FloorAssumption
  <2>3. t.qty \in Nat /\ t.pc = "pay"
    BY <2>1, <2>2, IdleRow DEF ReqRow
  <2>4. t \in ReqRow
    BY <2>1, <2>2, IdleRow, StepNames DEF ReqRow
  <2> QED
    BY <1>4, <2>1, <2>3, <2>4 DEF BeginPayment
<1>5. ASSUME BeginTab(r)
      PROVE  \E t \in ReqRow : /\ Become(r, t) /\ UNCHANGED <<inventoryVars, floorVars>>
                               /\ t.pc = "claimTab" /\ t.qty \in Nat
  <2>1. PICK t : t = [Idle EXCEPT !.pc = "claimTab"]
    OBVIOUS
  <2>2. t \in ReqRow /\ t.pc = "claimTab" /\ t.qty \in Nat
    BY <2>1, IdleRow, StepNames DEF ReqRow
  <2> QED
    BY <1>5, <2>1, <2>2 DEF BeginTab
<1> QED
  BY <1>2, <1>3, <1>4, <1>5

-----------------------------------------------------------------------------
\* Every order stays when floorVars does.
LEMMA OrdersStay ==
  ASSUME Inv, order' = order
  PROVE  \A o \in Orders : OrderStays(o)
BY DEF OrderStays, Exists

LEMMA InvoicesStay ==
  ASSUME Inv, invoice' = invoice
  PROVE  \A i \in Invoices : InvoiceStays(i)
BY DEF InvoiceStays, Placed

\* A statement of no request that is under way.
LEMMA DirectStep ==
  ASSUME Inv, Stored', UNCHANGED <<invoice, req, floorVars>>
  PROVE  Inv'
<1>1. (\A o \in Orders : OrderStays(o)) /\ (\A i \in Invoices : InvoiceStays(i))
  BY OrdersStay, InvoicesStay DEF floorVars
<1>2. ASSUME NEW q \in Requests PROVE (Subject(req[q]) /\ Charging(req[q]) /\ Sold(req[q]))'
  <2>1. PICK x : x = req[q]
    OBVIOUS
  <2>2. x \in ReqRow /\ Subject(x) /\ Charging(x) /\ Sold(x)
    BY <2>1, Rows
  <2>3. Subject(x)' /\ Charging(x)' /\ Sold(x)'
    BY <1>1, <2>2, ChargedStays
  <2> QED
    BY <2>1, <2>3
<1>3. TypeOK'
  BY DEF Stored, Inv, TypeOK
<1>4. SoldApart' /\ req' \in [Requests -> ReqRow]
  BY DEF Inv, SoldApart, At
<1> QED
  BY <1>1, <1>2, <1>3, <1>4, ChargedStays DEF Inv

LEMMA Counted ==
  ASSUME NEW S, NEW f \in [S -> Int], NEW x, NEW n \in Int
  PROVE  [f EXCEPT ![x] = @ + n] \in [S -> Int] /\ [f EXCEPT ![x] = @ - n] \in [S -> Int]
<1>1. \A y \in S : f[y] \in Int /\ f[y] + n \in Int /\ f[y] - n \in Int
  OBVIOUS
<1> QED
  BY <1>1

LEMMA CountedUp ==
  ASSUME NEW S, NEW f \in [S -> Nat], NEW x, NEW n \in Nat
  PROVE  [f EXCEPT ![x] = @ + n] \in [S -> Nat]
<1>1. \A y \in S : f[y] + n \in Nat
  OBVIOUS
<1> QED
  BY <1>1

\* The sale of a request.
LEMMA SaleStored ==
  ASSUME Inv, NEW sale \in ReqRow, sale.qty \in Nat, NEW i \in Invoices, SellAs(sale, i),
         UNCHANGED floorVars
  PROVE  /\ Stored' /\ \A j \in Invoices : InvoiceStays(j)
         /\ i \notin Placed /\ i \in Placed'
         /\ invoice'[i].product = sale.product /\ invoice'[i].qty = sale.qty
<1>1. /\ sale.lines \in Nat /\ sale.kind \in LineKinds /\ sale.released \in Int
      /\ sale.product \in Products \cup {None} /\ sale.qty \in Nat
  BY DEF ReqRow
<1>2. Taken(sale.kind, sale.qty) \in Nat
  BY <1>1, TakenType
<1>3. PICK n : n = sale.lines * Taken(sale.kind, sale.qty)
  OBVIOUS
<1>4. n \in Int
  BY <1>1, <1>2, <1>3, ProductType
<1>5. Released(sale) \in Int
  BY <1>1, <1>3, <1>4, MinType DEF Released
<1>6. stock' \in [Products -> Int]
  BY <1>3, <1>4, Counted DEF SellAs, Inv, TypeOK
<1>7. reserved' \in [Products -> Int]
  BY <1>5, Counted DEF SellAs, Inv, TypeOK
<1>8. PICK row : row = [status |-> "PAID", product |-> sale.product, kind |-> sale.kind,
                        qty |-> sale.qty, lines |-> sale.lines]
  OBVIOUS
<1>9. row \in InvoiceRow /\ row.status = "PAID" /\ row.product = sale.product /\ row.qty = sale.qty
  BY <1>1, <1>8 DEF InvoiceRow, LineKinds, Imports
<1>10. invoice' = [invoice EXCEPT ![i] = row] /\ i \notin Placed
  BY <1>8 DEF SellAs
<1>11. invoice' \in [Invoices -> InvoiceRow] /\ invoice'[i] = row
  BY <1>9, <1>10 DEF Inv, TypeOK
<1>12. Stored'
  BY <1>6, <1>7, <1>11 DEF SellAs, floorVars, Stored, Inv, TypeOK
<1>13. \A j \in Invoices : InvoiceStays(j)
  BY <1>10 DEF InvoiceStays, Inv, TypeOK, Placed
<1> QED
  BY <1>9, <1>10, <1>11, <1>12, <1>13 DEF Placed

LEMMA SaleCommitStep ==
  ASSUME Inv, NEW r \in Requests, NEW i \in Invoices, SaleCommit(r, i), UNCHANGED floorVars
  PROVE  Inv'
<1>1. PICK t : t = req[r]
  OBVIOUS
<1>2. t \in ReqRow /\ t.qty \in Nat /\ SellAs(t, i)
  BY <1>1, Rows DEF SaleCommit, At, Subject
<1>3. Stored' /\ \A j \in Invoices : InvoiceStays(j)
  BY <1>2, SaleStored
<1> QED
  BY <1>3, OrdersStay, FinishStep DEF SaleCommit, floorVars

LEMMA VoidCommitStep ==
  ASSUME Inv, NEW r \in Requests, VoidCommit(r), UNCHANGED floorVars
  PROVE  Inv'
<1>1. PICK i \in Invoices : i = req[r].subject
  BY Rows DEF VoidCommit, At, Subject
<1>2. PICK row \in InvoiceRow : row = invoice[i]
  BY Rows
<1>3. row.lines \in Nat /\ Restored(row.kind, row.qty) \in Nat
  BY TakenType DEF InvoiceRow, LineKinds, Imports
<1>4. PICK n : n = row.lines * Restored(row.kind, row.qty)
  OBVIOUS
<1>5. n \in Int
  BY <1>3, <1>4, ProductType
<1>6. stock' = [stock EXCEPT ![row.product] = @ + n]
  BY <1>1, <1>2, <1>4 DEF VoidCommit
<1>7. stock' \in [Products -> Int]
  BY <1>5, <1>6, Counted DEF Inv, TypeOK
<1>8. PICK new \in InvoiceRow : new = [row EXCEPT !.status = "CANCELLED"]
  BY DEF InvoiceRow
<1>9. /\ new.product = row.product /\ new.qty = row.qty /\ new.status = "CANCELLED"
      /\ invoice' = [invoice EXCEPT ![i] = new]
  BY <1>1, <1>2, <1>8 DEF VoidCommit, InvoiceRow
<1>10. invoice' \in [Invoices -> InvoiceRow]
  BY <1>9 DEF Inv, TypeOK
<1>11. Stored'
  BY <1>7, <1>10 DEF VoidCommit, floorVars, Stored, Inv, TypeOK
<1>12. \A j \in Invoices : InvoiceStays(j)
  BY <1>2, <1>9 DEF InvoiceStays, Inv, TypeOK, Placed
<1> QED
  BY <1>11, <1>12, OrdersStay, FinishStep DEF VoidCommit, floorVars

LEMMA OutflowCommitStep ==
  ASSUME Inv, NEW r \in Requests, OutflowCommit(r), UNCHANGED floorVars
  PROVE  Inv'
<1>1. req[r].kind \in LineKinds /\ req[r].qty \in Nat
  BY Rows DEF OutflowCommit, At, Subject, ReqRow
<1>2. PICK n : n = req[r].lines * Taken(req[r].kind, req[r].qty)
  OBVIOUS
<1>3. n \in Nat /\ n \in Int
  <2>1. Taken(req[r].kind, req[r].qty) \in Nat /\ req[r].lines \in Nat
    BY <1>1, TakenType, Rows DEF ReqRow
  <2> QED
    BY <1>2, <2>1, ProductType
<1>4. stock' \in [Products -> Int] /\ consumed' \in [Products -> Nat]
  <2>1. stock' = [stock EXCEPT ![req[r].product] = @ - n]
        /\ consumed' = [consumed EXCEPT ![req[r].product] = @ + n]
    BY <1>2 DEF OutflowCommit
  <2> QED
    BY <1>3, <2>1, Counted, CountedUp DEF Inv, TypeOK
<1>5. Stored'
  BY <1>4 DEF OutflowCommit, floorVars, Stored, Inv, TypeOK
<1> QED
  BY <1>5, OrdersStay, InvoicesStay, FinishStep DEF OutflowCommit, floorVars

LEMMA AdjustCommitStep ==
  ASSUME Inv, NEW r \in Requests, AdjustCommit(r), UNCHANGED floorVars
  PROVE  Inv'
<1>1. req[r].qty \in Int /\ req[r].seen \in Int
  BY Rows DEF ReqRow
<1>2. NextStock(r) \in Int
  BY <1>1 DEF NextStock
<1>3. PICK m, n : m = Max({0, 0 - req[r].qty}) /\ n = Max({0, req[r].qty})
  OBVIOUS
<1>4. m \in Nat /\ n \in Nat
  <2>1. 0 \in Int /\ 0 - req[r].qty \in Int
    BY <1>1
  <2>2. m \in Int /\ m >= 0 /\ n \in Int /\ n >= 0
    BY <1>1, <1>3, <2>1, MaxType
  <2> QED
    BY <2>2
<1>5. /\ stock' \in [Products -> Int] /\ consumed' \in [Products -> Nat]
      /\ received' \in [Products -> Nat]
  BY <1>2, <1>3, <1>4, CountedUp DEF AdjustCommit, Inv, TypeOK
<1>6. Stored'
  BY <1>5 DEF AdjustCommit, floorVars, Stored, Inv, TypeOK
<1> QED
  BY <1>6, OrdersStay, InvoicesStay, FinishStep DEF AdjustCommit, floorVars

LEMMA DirectWrites ==
  ASSUME Inv, NEW r \in Requests, UNCHANGED floorVars,
         \/ \E p \in Products, qty \in Quantities : Receive(r, p, qty)
         \/ \E p \in Products, level \in Levels : SetLevel(p, level)
  PROVE  Inv'
<1>1. Quantities \subseteq Nat /\ Levels \subseteq Nat
  BY InventoryAssumption
<1>2. ASSUME NEW p \in Products, NEW qty \in Quantities, Receive(r, p, qty) PROVE Inv'
  <2>1. qty \in Nat /\ qty \in Int
    BY <1>1
  <2>2. stock' \in [Products -> Int] /\ received' \in [Products -> Nat]
    BY <1>2, <2>1 DEF Receive, Inv, TypeOK
  <2>3. Stored'
    BY <1>2, <2>2 DEF Receive, floorVars, Stored, Inv, TypeOK
  <2> QED
    BY <1>2, <2>3, DirectStep DEF Receive
<1>3. ASSUME NEW p \in Products, NEW level \in Levels, SetLevel(p, level) PROVE Inv'
  <2>1. level \in Int /\ stock[p] \in Int
    BY <1>1, Rows
  <2>2. PICK m, n : m = Max({0, stock[p] - level}) /\ n = Max({0, level - stock[p]})
    OBVIOUS
  <2>3. m \in Nat /\ n \in Nat
    <3>1. 0 \in Int /\ stock[p] - level \in Int /\ level - stock[p] \in Int
      BY <2>1
    <3>2. m \in Int /\ m >= 0 /\ n \in Int /\ n >= 0
      BY <2>2, <3>1, MaxType
    <3> QED
      BY <3>2
  <2>4. /\ stock' \in [Products -> Int] /\ consumed' \in [Products -> Nat]
        /\ received' \in [Products -> Nat]
    BY <1>3, <2>1, <2>2, <2>3 DEF SetLevel, Inv, TypeOK
  <2>5. Stored'
    BY <1>3, <2>4 DEF SetLevel, floorVars, Stored, Inv, TypeOK
  <2> QED
    BY <1>3, <2>5, DirectStep DEF SetLevel
<1> QED
  BY <1>2, <1>3

-----------------------------------------------------------------------------
\* An order just written is sent by the same request, or waits for another.
LEMMA CreatedStep ==
  ASSUME Inv, Stored', NEW r \in Requests, NEW o \in Orders, NEW now \in BOOLEAN,
         Created(r, o, now), Exists(o)',
         \A x \in Orders : OrderStays(x), \A i \in Invoices : InvoiceStays(i)
  PROVE  Inv'
<1>1. CASE now
  <2>1. PICK t : t = [Idle EXCEPT !.pc = "sendRead", !.subject = o]
    OBVIOUS
  <2>2. t \in ReqRow /\ t.pc = "sendRead" /\ t.subject = o /\ t.qty \in Nat
    BY <2>1, IdleRow, StepNames DEF ReqRow
  <2>3. Subject(t)' /\ Charging(t)'
    BY <2>2 DEF Subject, OnOrder, Charging
  <2> QED
    BY <1>1, <2>1, <2>2, <2>3, RequestStep DEF Created
<1>2. CASE ~now
  BY <1>2, FinishStep DEF Created
<1> QED
  BY <1>1, <1>2

LEMMA TakeOrderStep ==
  ASSUME Inv, NEW r \in Requests, NEW o \in Orders, NEW mode \in Modes, NEW p \in Products,
         NEW qty \in Quantities, NEW now \in BOOLEAN, TakeOrder(r, o, mode, p, qty, now)
  PROVE  Inv'
<1>1. qty \in Nat
  BY InventoryAssumption
<1>2. PICK new : new = [NoOrder EXCEPT !.status = "DRAFT", !.product = p, !.qty = qty,
                                       !.open = mode = "CUENTA_ABIERTA"]
  OBVIOUS
<1>3. new \in OrderRow /\ new.status = "DRAFT" /\ new.charged = None
  BY <1>1, <1>2 DEF NoOrder, OrderRow, Statuses
<1>4. order' = [order EXCEPT ![o] = new] /\ ~Exists(o)
  BY <1>2 DEF TakeOrder
<1>5. Stored'
  BY <1>3, <1>4 DEF TakeOrder, inventoryVars, Stored, Inv, TypeOK
<1>6. (\A x \in Orders : OrderStays(x)) /\ Exists(o)'
  BY <1>3, <1>4 DEF OrderStays, Exists, Inv, TypeOK
<1>7. \A i \in Invoices : InvoiceStays(i)
  BY InvoicesStay DEF TakeOrder, inventoryVars
<1> QED
  BY <1>5, <1>6, <1>7, CreatedStep DEF TakeOrder

LEMMA InsertOrderStep ==
  ASSUME Inv, NEW r \in Requests, NEW o \in Orders, NEW now \in BOOLEAN, InsertOrder(r, o, now)
  PROVE  Inv'
<1>1. /\ req[r].product \in Products \cup {None} /\ req[r].qty \in Nat
      /\ req[r].subject \in Accounts
  BY Rows DEF InsertOrder, At, Subject, ReqRow
<1>2. PICK new : new = [NoOrder EXCEPT !.status = "DRAFT", !.product = req[r].product,
                                       !.qty = req[r].qty, !.account = req[r].subject,
                                       !.open = TRUE]
  OBVIOUS
<1>3. new \in OrderRow /\ new.status = "DRAFT" /\ new.charged = None
  BY <1>1, <1>2 DEF NoOrder, OrderRow, Statuses
<1>4. order' = [order EXCEPT ![o] = new] /\ ~Exists(o)
  BY <1>2 DEF InsertOrder
<1>5. Stored'
  BY <1>3, <1>4 DEF InsertOrder, inventoryVars, Stored, Inv, TypeOK
<1>6. (\A x \in Orders : OrderStays(x)) /\ Exists(o)'
  BY <1>3, <1>4 DEF OrderStays, Exists, Inv, TypeOK
<1>7. \A i \in Invoices : InvoiceStays(i)
  BY InvoicesStay DEF InsertOrder, inventoryVars
<1> QED
  BY <1>5, <1>6, <1>7, CreatedStep DEF InsertOrder

LEMMA OpenAccountStep ==
  ASSUME Inv, NEW r \in Requests, OpenAccount(r)
  PROVE  Inv'
<1>1. req[r].subject \in Tables /\ req[r].qty \in Nat /\ req[r] \in ReqRow
  BY Rows DEF OpenAccount, At, Subject
<1>2. (\A o \in Orders : OrderStays(o)) /\ (\A i \in Invoices : InvoiceStays(i))
  BY OrdersStay, InvoicesStay DEF OpenAccount, inventoryVars
<1>3. ASSUME NEW a \in Accounts, account' = [account EXCEPT ![a] = [table |-> req[r].subject, key |-> "open"]],
             Become(r, [req[r] EXCEPT !.pc = "insert", !.subject = a])
      PROVE  Inv'
  <2>1. PICK t : t = [req[r] EXCEPT !.pc = "insert", !.subject = a]
    OBVIOUS
  <2>2. t \in ReqRow /\ t.pc = "insert" /\ t.subject = a /\ t.qty \in Nat
    BY <1>1, <2>1, StepNames DEF ReqRow
  <2>3. Subject(t)' /\ Charging(t)'
    BY <2>2 DEF Subject, OnOrder, Charging
  <2>4. [table |-> req[r].subject, key |-> "open"] \in AccountRow
    BY <1>1 DEF AccountRow
  <2>5. Stored'
    BY <1>3, <2>4 DEF OpenAccount, inventoryVars, Stored, Inv, TypeOK
  <2> QED
    BY <1>2, <1>3, <2>1, <2>2, <2>3, <2>5, RequestStep
<1>4. ASSUME Finish(r), account' = account PROVE Inv'
  <2>1. Stored'
    BY <1>4 DEF OpenAccount, inventoryVars, Stored, Inv, TypeOK
  <2> QED
    BY <1>2, <1>4, <2>1, FinishStep
<1> QED
  BY <1>3, <1>4 DEF OpenAccount

\* The statements of send that look at the stock: the request goes on to the next, or ends.
LEMMA SendReads ==
  ASSUME Inv, NEW r \in Requests, SendCreated(r) \/ Reserve(r)
  PROVE  Inv'
<1>1. ASSUME NEW pc \in {"reserve", "reserveWrite"}, Goto(r, pc) PROVE Inv'
  <2>1. PICK t : t = [req[r] EXCEPT !.pc = pc]
    OBVIOUS
  <2>2. /\ req[r] \in ReqRow /\ req[r].subject \in Orders /\ Exists(req[r].subject)
        /\ req[r].qty \in Nat
    BY Rows DEF SendCreated, Reserve, At, Subject, OnOrder
  <2>3. t \in ReqRow /\ t.pc = pc /\ t.subject = req[r].subject /\ t.qty \in Nat
    BY <1>1, <2>1, <2>2, StepNames DEF ReqRow
  <2>4. Subject(t) /\ Charging(t) /\ t.pc # "chargeMark"
    BY <1>1, <2>2, <2>3 DEF Subject, OnOrder, Charging
  <2> QED
    BY <1>1, <2>1, <2>3, <2>4, ReadStep DEF SendCreated, Reserve, Goto
<1>2. CASE Finish(r)
  <2>1. Stored'
    BY DEF SendCreated, Reserve, inventoryVars, floorVars, Stored, Inv, TypeOK
  <2> QED
    BY <1>2, <2>1, OrdersStay, InvoicesStay, FinishStep
       DEF SendCreated, Reserve, inventoryVars, floorVars
<1> QED
  BY <1>1, <1>2 DEF SendCreated, Reserve

\* An order whose status alone is written.
LEMMA StatusStored ==
  ASSUME Inv, NEW o \in Orders, NEW status \in Statuses \ {"none", "CHARGED"},
         order' = [order EXCEPT ![o].status = status]
  PROVE  order' \in [Orders -> OrderRow] /\ \A x \in Orders : OrderStays(x)
<1>1. PICK new : new = [order[o] EXCEPT !.status = status]
  OBVIOUS
<1>2. /\ new \in OrderRow /\ new.status = status /\ new.product = order[o].product
      /\ new.qty = order[o].qty /\ new.charged = order[o].charged
  BY <1>1, Rows DEF OrderRow
<1>3. order' = [order EXCEPT ![o] = new]
  BY <1>1
<1> QED
  BY <1>2, <1>3 DEF Inv, TypeOK, OrderStays, Exists

LEMMA ReserveWriteStep ==
  ASSUME Inv, NEW r \in Requests, ReserveWrite(r)
  PROVE  Inv'
<1>1. PICK o \in Orders : o = req[r].subject
  BY Rows DEF ReserveWrite, At, Subject, OnOrder
<1>2. order[o].qty \in Int
  BY Rows DEF OrderRow
<1>3. reserved' \in [Products -> Int]
  BY <1>1, <1>2, Counted DEF ReserveWrite, Inv, TypeOK
<1>4. order' \in [Orders -> OrderRow] /\ \A x \in Orders : OrderStays(x)
  BY <1>1, StatusStored DEF ReserveWrite, Statuses, Active
<1>5. Stored'
  BY <1>3, <1>4 DEF ReserveWrite, Stored, Inv, TypeOK
<1> QED
  BY <1>4, <1>5, InvoicesStay, FinishStep DEF ReserveWrite

LEMMA WriteStatusStep ==
  ASSUME Inv, NEW r \in Requests, WriteStatus(r)
  PROVE  Inv'
<1>1. req[r].subject \in Orders /\ req[r].was \in {"IN_PREP", "READY"}
  BY Rows DEF WriteStatus, At, Subject, OnOrder
<1>2. req[r].was \in Statuses \ {"none", "CHARGED"}
  BY <1>1 DEF Statuses, Active
<1>3. order' \in [Orders -> OrderRow] /\ \A x \in Orders : OrderStays(x)
  BY <1>1, <1>2, StatusStored DEF WriteStatus
<1>4. Stored'
  BY <1>3 DEF WriteStatus, inventoryVars, Stored, Inv, TypeOK
<1> QED
  BY <1>3, <1>4, InvoicesStay, FinishStep DEF WriteStatus, inventoryVars

LEMMA CancelStep ==
  ASSUME Inv, NEW r \in Requests, Cancel(r)
  PROVE  Inv'
<1>1. PICK o \in Orders : o = req[r].subject
  BY Rows DEF Cancel, At, Subject, OnOrder
<1>2. order' \in [Orders -> OrderRow] /\ \A x \in Orders : OrderStays(x)
  BY <1>1, StatusStored DEF Cancel, Statuses
<1>3. order[o].qty \in Int
  BY Rows DEF OrderRow
<1>4. \A p \in Products : Max({0, reserved[p] - order[o].qty}) \in Int
  <2>1. ASSUME NEW p \in Products PROVE Max({0, reserved[p] - order[o].qty}) \in Int
    <3>1. reserved[p] - order[o].qty \in Int /\ 0 \in Int
      BY <1>3, Rows
    <3> QED
      BY <3>1, MaxType
  <2> QED
    BY <2>1
<1>5. reserved' \in [Products -> Int]
  BY <1>1, <1>4 DEF Cancel, Inv, TypeOK
<1>6. Stored'
  BY <1>2, <1>5 DEF Cancel, Stored, Inv, TypeOK
<1> QED
  BY <1>2, <1>6, InvoicesStay, FinishStep DEF Cancel

\* The statements on the account of a table, and those refused.
LEMMA AccountWrites ==
  ASSUME Inv, NEW r \in Requests,
         Pay(r) \/ ClaimAccount(r) \/ ClaimOrders(r) \/ Unclaim(r) \/ ClaimTab(r)
  PROVE  Inv'
<1>1. UNCHANGED <<inventoryVars, order>>
  BY DEF Pay, ClaimAccount, ClaimOrders, Unclaim, ClaimTab, floorVars
<1>2. (\A o \in Orders : OrderStays(o)) /\ (\A i \in Invoices : InvoiceStays(i))
  BY <1>1, OrdersStay, InvoicesStay DEF inventoryVars
<1>3. paid' \in [Accounts -> Nat]
  <2>1. CASE Pay(r)
    <3>1. req[r].qty \in Nat
      BY <2>1, Rows DEF Pay, At, Subject
    <3> QED
      BY <2>1, <3>1, CountedUp DEF Pay, Inv, TypeOK
  <2>2. CASE ~Pay(r)
    BY <2>2 DEF ClaimAccount, ClaimOrders, Unclaim, ClaimTab, floorVars, Inv, TypeOK
  <2> QED
    BY <2>1, <2>2
<1>4. account' \in [Accounts -> AccountRow]
  <2>1. ASSUME NEW a, NEW k, k \in {"none", "open", "closing"} \/ a \notin Accounts
        PROVE  [account EXCEPT ![a].key = k] \in [Accounts -> AccountRow]
    <3>1. a \in Accounts => [account[a] EXCEPT !.key = k] \in AccountRow
      BY <2>1, Rows DEF AccountRow
    <3>2. PICK new : new = [account[a] EXCEPT !.key = k]
      OBVIOUS
    <3>3. [account EXCEPT ![a] = new] \in [Accounts -> AccountRow]
      BY <3>1, <3>2 DEF Inv, TypeOK
    <3> QED
      BY <3>2, <3>3
  <2>2. CASE account' = account
    BY <2>2 DEF Inv, TypeOK
  <2>3. CASE ClaimAccount(r) /\ account' = [account EXCEPT ![req[r].subject].key = "closing"]
    BY <2>1, <2>3
  <2>4. CASE Unclaim(r)
    <3>1. PICK a : a = req[r].subject
      OBVIOUS
    <3>2. PICK k : k = IF account[a].key = "closing" /\ KeyFree(account[a].table)
                       THEN "open" ELSE account[a].key
      OBVIOUS
    <3>3. account' = [account EXCEPT ![a].key = k]
      BY <2>4, <3>1, <3>2 DEF Unclaim, Unclaimed
    <3>4. k \in {"none", "open", "closing"} \/ a \notin Accounts
      BY <3>2, Rows DEF AccountRow
    <3> QED
      BY <2>1, <3>3, <3>4
  <2> QED
    BY <2>2, <2>3, <2>4 DEF Pay, ClaimAccount, ClaimOrders, ClaimTab, floorVars
<1>5. Stored'
  BY <1>1, <1>3, <1>4 DEF inventoryVars, Stored, Inv, TypeOK
<1>6. CASE Finish(r)
  BY <1>2, <1>5, <1>6, FinishStep
<1>7. ASSUME NEW pc \in {"claimOrders", "unclaim"}, Goto(r, pc), At(r, "claim") \/ At(r, "claimOrders")
      PROVE  Inv'
  <2>1. PICK t : t = [req[r] EXCEPT !.pc = pc]
    OBVIOUS
  <2>2. req[r] \in ReqRow /\ req[r].qty \in Nat
    BY <1>7, Rows DEF At, Subject
  <2>3. t \in ReqRow /\ t.pc = pc /\ t.qty \in Nat
    BY <1>7, <2>1, <2>2, StepNames DEF ReqRow
  <2>4. Subject(t)' /\ Charging(t)'
    BY <2>3 DEF Subject, OnOrder, Charging
  <2> QED
    BY <1>2, <1>5, <1>7, <2>1, <2>3, <2>4, RequestStep DEF Goto
<1> QED
  BY <1>6, <1>7 DEF Pay, ClaimAccount, ClaimOrders, Unclaim, ClaimTab

-----------------------------------------------------------------------------
\* The sale of a charge: its invoice is new, so no order and no other charge has it.
LEMMA ChargeSaleStep ==
  ASSUME Inv, NEW r \in Requests, NEW i \in Invoices, ChargeSale(r, i)
  PROVE  Inv'
<1>1. PICK sale : sale = req[r]
  OBVIOUS
<1>2. /\ sale \in ReqRow /\ sale.pc = "chargeSale" /\ sale.qty \in Nat /\ SellAs(sale, i)
      /\ sale.subject \in Orders /\ Exists(sale.subject)
      /\ sale.product = order[sale.subject].product /\ sale.qty = order[sale.subject].qty
  BY <1>1, Rows DEF ChargeSale, At, Subject, OnOrder, Charging
<1>3. UNCHANGED floorVars
  BY DEF ChargeSale
<1>4. /\ Stored' /\ \A j \in Invoices : InvoiceStays(j)
      /\ i \notin Placed /\ i \in Placed'
      /\ invoice'[i].product = sale.product /\ invoice'[i].qty = sale.qty
  BY <1>2, <1>3, SaleStored
<1>5. \A o \in Orders : OrderStays(o)
  BY <1>3, OrdersStay DEF floorVars
<1>6. PICK t : t = [sale EXCEPT !.pc = "chargeMark", !.sold = i]
  OBVIOUS
<1>7. /\ t \in ReqRow /\ t.pc = "chargeMark" /\ t.sold = i /\ t.subject = sale.subject
      /\ t.product = sale.product /\ t.qty = sale.qty
  BY <1>2, <1>6, StepNames DEF ReqRow
<1>8. Become(r, t)
  BY <1>1, <1>6 DEF ChargeSale
<1>9. /\ \A q \in Requests : req'[q] = IF q = r THEN t ELSE req[q]
      /\ req' \in [Requests -> ReqRow]
  BY <1>7, <1>8, RequestBecomes
<1>10. order' = order
  BY <1>3 DEF floorVars
<1>11. Subject(t)' /\ Charging(t)'
  BY <1>2, <1>7, <1>10 DEF Subject, OnOrder, Charging, Exists
<1>12. None \notin Invoices
  BY InventoryAssumption
<1>13. \A o \in Orders : order[o].charged # i
  BY <1>4, <1>12 DEF Inv, ChargedHasItsInvoice
<1>14. Sold(t)'
  BY <1>4, <1>7, <1>10, <1>13 DEF Sold
<1>15. ASSUME NEW q \in Requests, NEW x, x = req'[q]
       PROVE  Subject(x)' /\ Charging(x)' /\ Sold(x)'
  <2>1. CASE q = r
    BY <1>9, <1>11, <1>14, <1>15, <2>1
  <2>2. CASE q # r
    <3>1. x = req[q]
      BY <1>9, <1>15, <2>2
    <3>2. x \in ReqRow /\ Subject(x) /\ Charging(x) /\ Sold(x)
      BY <3>1, Rows
    <3> QED
      BY <1>4, <1>5, <3>2, ChargedStays
  <2> QED
    BY <2>1, <2>2
<1>16. ASSUME NEW q \in Requests PROVE (Subject(req[q]) /\ Charging(req[q]) /\ Sold(req[q]))'
  BY <1>15
<1>17. SoldApart'
  <2>1. \A q \in Requests : At(q, "chargeMark") => req[q].sold # i
    BY <1>4, Rows DEF At, Sold
  <2>2. \A q \in Requests : q # r => req'[q] = req[q]
    BY <1>9
  <2>3. req'[r].sold = i
    BY <1>7, <1>9
  <2> QED
    BY <2>1, <2>2, <2>3 DEF Inv, SoldApart, At
<1>18. TypeOK'
  <2>1. \A q \in Requests : req'[q].pc \in Steps
    BY <1>9 DEF ReqRow
  <2> QED
    BY <1>4, <2>1 DEF Stored, TypeOK
<1> QED
  BY <1>4, <1>5, <1>9, <1>16, <1>17, <1>18, ChargedStays DEF Inv

\* The mark of a charge: the order gets the invoice of this charge, which is no other's.
LEMMA ChargeMarkStep ==
  ASSUME Inv, NEW r \in Requests, ChargeMark(r)
  PROVE  Inv'
<1>1. PICK sale : sale = req[r]
  OBVIOUS
<1>2. /\ sale \in ReqRow /\ sale.pc = "chargeMark" /\ sale.subject \in Orders
      /\ Exists(sale.subject) /\ sale.sold \in Placed /\ sale.sold \in Invoices
      /\ invoice[sale.sold].product = order[sale.subject].product
      /\ invoice[sale.sold].qty = order[sale.subject].qty
      /\ \A o \in Orders : order[o].charged # sale.sold
  BY <1>1, Rows DEF ChargeMark, At, Subject, OnOrder, Charging, Sold, Placed
<1>3. PICK o \in Orders : o = sale.subject
  BY <1>2
<1>4. PICK new : new = [order[o] EXCEPT !.status = "CHARGED", !.charged = sale.sold]
  OBVIOUS
<1>5. /\ new \in OrderRow /\ new.status = "CHARGED" /\ new.charged = sale.sold
      /\ new.product = order[o].product /\ new.qty = order[o].qty
  BY <1>2, <1>4, Rows DEF OrderRow, Statuses
<1>6. order' = [order EXCEPT ![o] = new] /\ Finish(r) /\ UNCHANGED <<inventoryVars, account, paid>>
  BY <1>1, <1>3, <1>4 DEF ChargeMark
<1>7. /\ order' \in [Orders -> OrderRow] /\ order'[o] = new
      /\ \A x \in Orders : x # o => order'[x] = order[x]
  BY <1>5, <1>6 DEF Inv, TypeOK
<1>8. Placed' = Placed /\ invoice' = invoice
  BY <1>6 DEF Placed, inventoryVars
<1>9. None \notin Invoices
  BY InventoryAssumption
<1>10. ChargedHasItsInvoice'
  <2>1. \A x \in Orders : order'[x].status = "CHARGED" => order'[x].charged # None
    BY <1>2, <1>5, <1>7, <1>9 DEF Inv, ChargedHasItsInvoice
  <2>2. ASSUME NEW x \in Orders, order'[x].charged # None
        PROVE  /\ order'[x].charged \in Placed' /\ invoice'[order'[x].charged].product = order'[x].product
               /\ invoice'[order'[x].charged].qty = order'[x].qty
    <3>1. CASE x = o
      BY <1>2, <1>3, <1>5, <1>7, <1>8, <3>1
    <3>2. CASE x # o
      BY <1>7, <1>8, <2>2, <3>2 DEF Inv, ChargedHasItsInvoice
    <3> QED
      BY <3>1, <3>2
  <2>3. ASSUME NEW x \in Orders, NEW y \in Orders, order'[x].charged = order'[y].charged, x # y
        PROVE  order'[x].charged = None
    <3>1. CASE x = o \/ y = o
      BY <1>2, <1>5, <1>7, <2>3, <3>1
    <3>2. CASE x # o /\ y # o
      BY <1>7, <2>3, <3>2 DEF Inv, ChargedHasItsInvoice
    <3> QED
      BY <3>1, <3>2
  <2> QED
    BY <2>1, <2>2, <2>3 DEF ChargedHasItsInvoice
<1>11. \A x \in Orders : /\ order'[x].product = order[x].product /\ order'[x].qty = order[x].qty
                         /\ Exists(x) => order'[x].status # "none"
  BY <1>5, <1>7 DEF Exists
<1>12. PICK t : t = Idle
  OBVIOUS
<1>13. t \in ReqRow /\ t.pc = "idle" /\ t.qty \in Nat
  BY <1>12, IdleRow
<1>14. /\ \A q \in Requests : req'[q] = IF q = r THEN t ELSE req[q]
       /\ req' \in [Requests -> ReqRow]
  BY <1>6, <1>12, <1>13, RequestBecomes DEF Finish
<1>15. ASSUME NEW q \in Requests, NEW x, x = req'[q]
       PROVE  Subject(x)' /\ Charging(x)' /\ Sold(x)'
  <2>1. CASE q = r
    <3>1. x = t
      BY <1>14, <1>15, <2>1
    <3> QED
      BY <1>13, <3>1 DEF Subject, OnOrder, Charging, Sold
  <2>2. CASE q # r
    <3>1. x = req[q]
      BY <1>14, <1>15, <2>2
    <3>2. x \in ReqRow /\ Subject(x) /\ Charging(x) /\ Sold(x)
      BY <3>1, Rows
    <3>3. Subject(x)'
      BY <1>11, <3>2 DEF Subject, Exists
    <3>4. Charging(x)'
      BY <1>11, <3>2 DEF Subject, Charging, OnOrder
    <3>5. x.pc = "chargeMark" => x.sold # sale.sold
      BY <1>1, <1>2, <2>2, <3>1 DEF Inv, SoldApart, At
    <3>6. Sold(x)'
      BY <1>5, <1>7, <1>8, <3>2, <3>5 DEF Sold
    <3> QED
      BY <3>3, <3>4, <3>6
  <2> QED
    BY <2>1, <2>2
<1>16. ASSUME NEW q \in Requests PROVE (Subject(req[q]) /\ Charging(req[q]) /\ Sold(req[q]))'
  BY <1>15
<1>17. SoldApart'
  BY <1>13, <1>14 DEF Inv, SoldApart, At
<1>18. TypeOK'
  <2>1. \A q \in Requests : req'[q].pc \in Steps
    BY <1>14 DEF ReqRow
  <2> QED
    BY <1>6, <1>7, <2>1 DEF Inv, TypeOK, inventoryVars
<1> QED
  BY <1>10, <1>14, <1>16, <1>17, <1>18 DEF Inv

LEMMA FailStep ==
  ASSUME Inv, NEW r \in Requests, Fail(r)
  PROVE  Inv'
<1>1. Stored'
  BY DEF Fail, inventoryVars, floorVars, Stored, Inv, TypeOK
<1> QED
  BY <1>1, OrdersStay, InvoicesStay, FinishStep DEF Fail, inventoryVars, floorVars

-----------------------------------------------------------------------------
LEMMA NextInv ==
  ASSUME Inv, [Next]_vars
  PROVE  Inv'
<1>1. CASE UNCHANGED vars
  <2>1. Stored' /\ UNCHANGED <<invoice, req, floorVars>>
    BY <1>1 DEF vars, inventoryVars, floorVars, Stored, Inv, TypeOK
  <2> QED
    BY <2>1, DirectStep
<1>2. ASSUME NEW r \in Requests, InventoryNext(r), UNCHANGED floorVars PROVE Inv'
  <2>1. CASE \/ \E p \in Products, kind \in Kinds, qty \in Quantities, lines \in LineCounts :
                  BeginSale(r, p, kind, qty, lines)
             \/ \E i \in Invoices : BeginVoid(r, i)
    BY <1>2, <2>1, InventoryReads
  <2>2. CASE \/ \E p \in Products, kind \in Kinds \ {"combo"}, qty \in Quantities :
                  BeginOutflow(r, p, kind, qty)
             \/ \E p \in Products, qty \in Quantities, lines \in LineCounts :
                  BeginConsumptions(r, p, qty, lines)
             \/ \E p \in Products, kind \in Imports, qty \in Quantities, lines \in LineCounts :
                  \E skip \in BOOLEAN : BeginImport(r, p, kind, qty, lines, skip)
             \/ \E p \in Products, delta \in Deltas : BeginAdjust(r, p, delta)
    BY <1>2, <2>2, InventoryReads
  <2>3. CASE \E i \in Invoices : SaleCommit(r, i)
    BY <1>2, <2>3, SaleCommitStep
  <2>4. CASE VoidCommit(r)
    BY <1>2, <2>4, VoidCommitStep
  <2>5. CASE OutflowCommit(r)
    BY <1>2, <2>5, OutflowCommitStep
  <2>6. CASE AdjustCommit(r)
    BY <1>2, <2>6, AdjustCommitStep
  <2>7. CASE \/ \E p \in Products, qty \in Quantities : Receive(r, p, qty)
             \/ \E p \in Products, level \in Levels :
                  EditProduct(r, p, level) \/ ImportCatalogue(r, p, level) \/ ImportStock(r, p, level)
    BY <1>2, <2>7, DirectWrites DEF EditProduct, ImportCatalogue, ImportStock
  <2> QED
    BY <1>2, <2>1, <2>2, <2>3, <2>4, <2>5, <2>6, <2>7 DEF InventoryNext
<1>3. ASSUME NEW r \in Requests, FloorNext(r) PROVE Inv'
  <2>1. CASE \E o \in Orders, mode \in Modes, p \in Products, qty \in Quantities :
               \E now \in BOOLEAN : TakeOrder(r, o, mode, p, qty, now)
    BY <2>1, TakeOrderStep
  <2>2. CASE \E o \in Orders, now \in BOOLEAN : InsertOrder(r, o, now)
    BY <2>2, InsertOrderStep
  <2>3. CASE \/ \E o \in Orders : BeginSend(r, o) \/ BeginCancel(r, o)
             \/ \E o \in Orders, status \in {"IN_PREP", "READY"} : BeginStatus(r, o, status)
    BY <2>3, OrderReads
  <2>4. CASE \E o \in Orders : BeginCharge(r, o)
    BY <2>4, ChargeRead
  <2>5. CASE \/ \E t \in Tables \cap Modes, p \in Products, qty \in Quantities : BeginTable(r, t, p, qty)
             \/ \E a \in Accounts : BeginClose(r, a) \/ \E amount \in Amounts : BeginPayment(r, a, amount)
             \/ BeginTab(r)
    BY <2>5, AccountReads
  <2>6. CASE Pay(r) \/ ClaimAccount(r) \/ ClaimOrders(r) \/ Unclaim(r) \/ ClaimTab(r)
    BY <2>6, AccountWrites
  <2>7. CASE OpenAccount(r) \/ SendCreated(r) \/ Reserve(r) \/ ReserveWrite(r) \/ WriteStatus(r)
             \/ Cancel(r)
    BY <2>7, OpenAccountStep, SendReads, ReserveWriteStep, WriteStatusStep, CancelStep
  <2>8. CASE ChargeMark(r) \/ \E i \in Invoices : ChargeSale(r, i)
    BY <2>8, ChargeMarkStep, ChargeSaleStep
  <2>9. CASE Fail(r)
    BY <2>9, FailStep
  <2> QED
    BY <1>3, <2>1, <2>2, <2>3, <2>4, <2>5, <2>6, <2>7, <2>8, <2>9 DEF FloorNext
<1> QED
  BY <1>1, <1>2, <1>3 DEF Next

LEMMA AlwaysInv == Spec => []Inv
BY InitInv, NextInv, PTL DEF Spec

\* Every row keeps its shape, the statuses their enumeration and the counted units stay
\* natural, for any interleaving of the requests.
THEOREM TypeCorrect == Spec => []TypeOK
<1>1. Inv => TypeOK
  BY DEF Inv
<1> QED
  BY <1>1, AlwaysInv, PTL

\* charge: a charged order always has the invoice of its own sale, and shares it with none.
THEOREM ChargedOrdersInvoiced == Spec => []ChargedHasItsInvoice
<1>1. Inv => ChargedHasItsInvoice
  BY DEF Inv
<1> QED
  BY <1>1, AlwaysInv, PTL

=============================================================================
