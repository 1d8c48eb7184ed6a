----------------------------- MODULE Inventory -----------------------------
(***************************************************************************)
(* The stock of the products of one organisation and the documents that    *)
(* move it: sales and their voids (invoices.service.ts), imported sales    *)
(* (sales-import.service.ts), purchases, consumption and adjustments       *)
(* (inventory-movements.service.ts), and the writers that set the stock    *)
(* outright (products.service.ts update and Excel import,                  *)
(* inventory.service.ts import).  Every operation checks what one          *)
(* statement read and writes with a later one; between them any other      *)
(* request may run.  The floor orders of FloorOrders.tla sell through the  *)
(* same sale and hold stock in reservedStock.                              *)
(* A document has one product; its lines all ask the same quantity.        *)
(***************************************************************************)
EXTENDS Integers, FiniteSets, FiniteSetsExt

CONSTANTS
  Products, Invoices, Requests,
  Opening,      \* stock of every product at the start
  Quantities,   \* quantities a line may ask for
  LineCounts,   \* how many lines of its product a sale may have
  Kinds,        \* what a line over the counter may be: see Taken
  Factor,       \* units in one variant, or of the component in one combo
  Deltas,       \* deltas an adjustment may have
  Levels,       \* stocks that may be written outright
  Moves,        \* bound on the units consumed and received of a product
  Operations,   \* the kinds of request that arrive
  None          \* SQL NULL

ASSUME InventoryAssumption ==
  /\ Opening \in Nat /\ Factor \in Nat \ {0}
  /\ Quantities \subseteq Nat \ {0} /\ LineCounts \subseteq Nat \ {0}
  /\ Kinds \subseteq {"plain", "variant", "noDeduct", "combo"}
  /\ Deltas \subseteq Int \ {0} /\ Levels \subseteq Nat /\ Moves \in Nat
  /\ None \notin Invoices

VARIABLES
  stock,      \* products.stock
  reserved,   \* products.reservedStock
  invoice,    \* the invoices, by id
  consumed,   \* units taken by consumption, negative adjustments and edits
  received,   \* units added by adjustments and edits
  req         \* the request each server task is running

inventoryVars == <<stock, reserved, invoice, consumed, received>>

\* The lines of an imported sale: of a product, or of a bundle or service with a recipe.
Imports == {"imported", "importedCombo"}

LineKinds == {"plain", "variant", "noDeduct", "combo"} \cup Imports

InvoiceRow == [status : {"none", "PAID", "CANCELLED"}, product : Products \cup {None},
               kind : LineKinds, qty : Nat, lines : Nat]

NoInvoice == [status |-> "none", product |-> None, kind |-> "plain", qty |-> 0, lines |-> 0]

InitInventory ==
  /\ stock = [p \in Products |-> Opening]
  /\ reserved = [p \in Products |-> 0]
  /\ invoice = [i \in Invoices |-> NoInvoice]
  /\ consumed = [p \in Products |-> 0]
  /\ received = [p \in Products |-> 0]

\* subject: the invoice, order or account a request is about; seen, was: the stock and the
\* status it read; sold: the invoice a charge created.
Idle == [pc |-> "idle", subject |-> None, product |-> None, kind |-> "plain", qty |-> 0,
         lines |-> 0, released |-> 0, seen |-> 0, was |-> "none", sold |-> None]

At(r, step) == req[r].pc = step
Arrives(r, operation) == At(r, "idle") /\ operation \in Operations
Become(r, q) == req' = [req EXCEPT ![r] = q]
Goto(r, step) == Become(r, [req[r] EXCEPT !.pc = step])
Finish(r) == Become(r, Idle)

Placed == {i \in Invoices : invoice[i].status # "none"}

\* A request that moves a product, within the bound of the instance.
Moving(r, operation, p) == Arrives(r, operation) /\ consumed[p] + received[p] < Moves

-----------------------------------------------------------------------------
(* create: the stock of a sale. *)

\* Mutant of AvailableUnits: what others reserved can be sold.
IgnoresReserved(p, released) == stock[p]

AvailableUnits(p, released) ==
  Max({0, stock[p] - Max({0, reserved[p] - released})})

\* Units of stock a line takes: those of the variant or of the recipe, unless the variant
\* is NO_DEDUCT; an import does not look for the components of a recipe.
Taken(kind, qty) ==
  CASE kind \in {"plain", "imported"} -> qty
    [] kind \in {"variant", "combo"} -> qty * Factor
    [] kind \in {"noDeduct", "importedCombo"} -> 0

\* Mutant of Restored: a combo gives back one unit.
RestoredOnce(kind, qty) == qty

\* Units of stock the void of a line gives back: neither variants nor imports are looked at.
Restored(kind, qty) == IF kind \in {"combo", "importedCombo"} THEN qty * Factor ELSE qty

\* Every line is compared with the same reading of the product.
LinesCovered(p, kind, qty, released) == AvailableUnits(p, released) >= Taken(kind, qty)

\* A sale over the counter, checked before any transaction.
BeginSale(r, p, kind, qty, lines) ==
  /\ Arrives(r, "sale")
  /\ LinesCovered(p, kind, qty, 0)
  /\ Become(r, [Idle EXCEPT !.pc = "saleCommit", !.product = p, !.kind = kind,
                            !.qty = qty, !.lines = lines])
  /\ UNCHANGED inventoryVars

\* Units the decrements of a sale release, out of what the caller asked to release.
Released(sale) == Min({sale.released, sale.lines * Taken(sale.kind, sale.qty)})

\* The transaction of the sale: the decrements are unconditional.
SellAs(sale, i) ==
  /\ i \notin Placed
  /\ stock' = [stock EXCEPT ![sale.product] = @ - sale.lines * Taken(sale.kind, sale.qty)]
  /\ reserved' = [reserved EXCEPT ![sale.product] = @ - Released(sale)]
  /\ invoice' = [invoice EXCEPT ![i] =
       [status |-> "PAID", product |-> sale.product, kind |-> sale.kind,
        qty |-> sale.qty, lines |-> sale.lines]]
  /\ UNCHANGED <<consumed, received>>

SaleCommit(r, i) ==
  /\ At(r, "saleCommit")
  /\ SellAs(req[r], i)
  /\ Finish(r)

\* A confirmed import of sales compares each line with the products it read at the start,
\* unless told to skip that, whatever is reserved; bundles and services are not compared.  Its
\* transaction is that of a sale.
BeginImport(r, p, kind, qty, lines, skipStockValidation) ==
  /\ Arrives(r, "import")
  /\ kind = "importedCombo" => "combo" \in Kinds
  /\ kind = "importedCombo" \/ skipStockValidation \/ stock[p] >= qty
  /\ Become(r, [Idle EXCEPT !.pc = "saleCommit", !.product = p, !.kind = kind,
                            !.qty = qty, !.lines = lines])
  /\ UNCHANGED inventoryVars

-----------------------------------------------------------------------------
(* voidInvoice *)

Voidable(i) == invoice[i].status = "PAID"

BeginVoid(r, i) ==
  /\ Arrives(r, "void")
  /\ Voidable(i)
  /\ Become(r, [Idle EXCEPT !.pc = "void", !.subject = i])
  /\ UNCHANGED inventoryVars

\* Nothing is compared again: the invoice is found by its id.
VoidCommit(r) ==
  LET i == req[r].subject
      row == invoice[i] IN
  /\ At(r, "void")
  /\ stock' = [stock EXCEPT ![row.product] = @ + row.lines * Restored(row.kind, row.qty)]
  /\ invoice' = [invoice EXCEPT ![i].status = "CANCELLED"]
  /\ Finish(r)
  /\ UNCHANGED <<reserved, consumed, received>>

-----------------------------------------------------------------------------
(* createOutflow and createAdjustment *)

\* Consumption looks at the stock, whatever is reserved of it; a variant that takes no
\* stock is not looked at.
OutflowFits(p, units) == units = 0 \/ stock[p] >= units

BeginOutflow(r, p, kind, qty) ==
  /\ Moving(r, "outflow", p)
  /\ OutflowFits(p, Taken(kind, qty))
  /\ Become(r, [Idle EXCEPT !.pc = "outflow", !.product = p, !.kind = kind, !.qty = qty,
                            !.lines = 1])
  /\ UNCHANGED inventoryVars

\* Rows of a file of consumption, each compared with the same reading of its product; their
\* transaction is that of as many outflows.
BeginConsumptions(r, p, qty, lines) ==
  /\ Moving(r, "outflow", p)
  /\ OutflowFits(p, qty)
  /\ Become(r, [Idle EXCEPT !.pc = "outflow", !.product = p, !.qty = qty, !.lines = lines])
  /\ UNCHANGED inventoryVars

\* Mutant of OutflowCommit: the stock is kept above zero.
OutflowClamped(r) ==
  LET p == req[r].product
      units == req[r].lines * Taken(req[r].kind, req[r].qty) IN
  /\ At(r, "outflow")
  /\ stock' = [stock EXCEPT ![p] = Max({0, @ - units})]
  /\ consumed' = [consumed EXCEPT ![p] = @ + units]
  /\ Finish(r)
  /\ UNCHANGED <<reserved, invoice, received>>

OutflowCommit(r) ==
  LET p == req[r].product
      units == req[r].lines * Taken(req[r].kind, req[r].qty) IN
  /\ At(r, "outflow")
  /\ stock' = [stock EXCEPT ![p] = @ - units]
  /\ consumed' = [consumed EXCEPT ![p] = @ + units]
  /\ Finish(r)
  /\ UNCHANGED <<reserved, invoice, received>>

BeginAdjust(r, p, delta) ==
  /\ Moving(r, "adjust", p)
  /\ stock[p] + delta >= 0
  /\ Become(r, [Idle EXCEPT !.pc = "adjust", !.product = p, !.qty = delta, !.seen = stock[p]])
  /\ UNCHANGED inventoryVars

\* The level written was computed when the product was read.
NextStock(r) == req[r].seen + req[r].qty

\* The movement row carries the delta asked for.
AdjustCommit(r) ==
  LET p == req[r].product
      delta == req[r].qty IN
  /\ At(r, "adjust")
  /\ stock' = [stock EXCEPT ![p] = NextStock(r)]
  /\ consumed' = [consumed EXCEPT ![p] = @ + Max({0, 0 - delta})]
  /\ received' = [received EXCEPT ![p] = @ + Max({0, delta})]
  /\ Finish(r)
  /\ UNCHANGED <<reserved, invoice>>

\* A purchase increments the stock in the transaction that records it: new expenses with
\* lines, confirmed uploads of invoices, imported purchases.
Receive(r, p, qty) ==
  /\ Moving(r, "receive", p)
  /\ stock' = [stock EXCEPT ![p] = @ + qty]
  /\ received' = [received EXCEPT ![p] = @ + qty]
  /\ UNCHANGED <<reserved, invoice, consumed, req>>

-----------------------------------------------------------------------------
(* Product edits and Excel imports: the level written replaces the stock. *)

SetLevel(p, level) ==
  /\ stock' = [stock EXCEPT ![p] = level]
  /\ consumed' = [consumed EXCEPT ![p] = @ + Max({0, stock[p] - level})]
  /\ received' = [received EXCEPT ![p] = @ + Max({0, level - stock[p]})]
  /\ UNCHANGED <<reserved, invoice, req>>

EditProduct(r, p, level) == Moving(r, "edit", p) /\ SetLevel(p, level)

\* The catalogue file, in one transaction; the stock file, one statement for each product.
ImportCatalogue(r, p, level) == Moving(r, "catalogue", p) /\ SetLevel(p, level)
ImportStock(r, p, level) == Moving(r, "stockFile", p) /\ SetLevel(p, level)

InventoryNext(r) ==
  \/ \E p \in Products, kind \in Kinds, qty \in Quantities, lines \in LineCounts :
       BeginSale(r, p, kind, qty, lines)
  \/ \E i \in Invoices : SaleCommit(r, i) \/ BeginVoid(r, i)
  \/ VoidCommit(r)
  \/ \E p \in Products, kind \in Kinds \ {"combo"}, qty \in Quantities :
       BeginOutflow(r, p, kind, qty)
  \/ \E p \in Products, qty \in Quantities, lines \in LineCounts :
       BeginConsumptions(r, p, qty, lines)
  \/ OutflowCommit(r)
  \/ \E p \in Products, kind \in Imports, qty \in Quantities, lines \in LineCounts :
       \E skip \in BOOLEAN : BeginImport(r, p, kind, qty, lines, skip)
  \/ \E p \in Products, qty \in Quantities : Receive(r, p, qty)
  \/ \E p \in Products, delta \in Deltas : BeginAdjust(r, p, delta)
  \/ AdjustCommit(r)
  \/ \E p \in Products, level \in Levels :
       EditProduct(r, p, level) \/ ImportCatalogue(r, p, level) \/ ImportStock(r, p, level)

-----------------------------------------------------------------------------
(* What the documents say. *)

SoldUnits(p) ==
  MapThenSumSet(LAMBDA i : invoice[i].lines * Taken(invoice[i].kind, invoice[i].qty),
                {i \in Placed : invoice[i].product = p /\ invoice[i].status = "PAID"})

\* Units the standing imported sales took.
ImportedUnits(p) ==
  MapThenSumSet(LAMBDA i : invoice[i].lines * Taken(invoice[i].kind, invoice[i].qty),
                {i \in Placed : /\ invoice[i].product = p /\ invoice[i].status = "PAID"
                                /\ invoice[i].kind = "imported"})

\* The void of a variant, or of an imported recipe, gives back something else than was taken.
VoidedUnevenly(p) ==
  \E i \in Placed : /\ invoice[i].product = p /\ invoice[i].status = "CANCELLED"
                    /\ invoice[i].kind \in {"variant", "noDeduct", "importedCombo"}

\* A sale over the counter lists the product twice.
SoldInTwoLines(p) ==
  \E i \in Placed : /\ invoice[i].product = p /\ invoice[i].lines > 1
                    /\ invoice[i].kind \notin Imports

=============================================================================
