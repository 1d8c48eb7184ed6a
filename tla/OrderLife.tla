----------------------------- MODULE OrderLife -----------------------------
(***************************************************************************)
(* What the floor promises of an order (floor-orders.service.ts): it is    *)
(* taken, sent to the kitchen if the shelf covers it beyond what others    *)
(* hold, prepared, and then charged or cancelled, once and for good; while *)
(* it is in the kitchen its units are held, and no longer.  FloorOrders,   *)
(* where each operation is a chain of statements that read an order and    *)
(* write it by id, is compared with it.                                    *)
(***************************************************************************)
EXTENDS Integers

CONSTANTS Orders, Products, Quantities, Invoices, Opening, None

VARIABLES
  slip,   \* the orders, each with the invoice that billed it
  held,   \* units of each product held for the kitchen
  shelf   \* units of each product there are

service == <<slip, held, shelf>>

Kitchen == {"SENT", "IN_PREP", "READY"}

Blank == [status |-> "none", product |-> None, qty |-> 0, bill |-> None]

Init ==
  /\ slip = [o \in Orders |-> Blank]
  /\ held = [p \in Products |-> 0]
  /\ shelf = [p \in Products |-> Opening]

Turn(o, status) == slip' = [slip EXCEPT ![o].status = status]
Hold(o) == held' = [held EXCEPT ![slip[o].product] = @ + slip[o].qty]
Release(o) == held' = [held EXCEPT ![slip[o].product] = @ - slip[o].qty]

Take(o, p, qty) ==
  /\ slip[o].status = "none"
  /\ slip' = [slip EXCEPT ![o] = [status |-> "DRAFT", product |-> p, qty |-> qty, bill |-> None]]
  /\ UNCHANGED <<held, shelf>>

Send(o) ==
  /\ slip[o].status = "DRAFT"
  /\ shelf[slip[o].product] - held[slip[o].product] >= slip[o].qty
  /\ Turn(o, "SENT") /\ Hold(o)
  /\ UNCHANGED shelf

\* What is ready does not go back to preparation.
Prepare(o, status) ==
  /\ slip[o].status \in Kitchen
  /\ status = "IN_PREP" => slip[o].status # "READY"
  /\ Turn(o, status)
  /\ UNCHANGED <<held, shelf>>

Cancel(o) ==
  /\ \/ slip[o].status = "DRAFT" /\ UNCHANGED held
     \/ slip[o].status \in Kitchen /\ Release(o)
  /\ Turn(o, "CANCELLED")
  /\ UNCHANGED shelf

\* Its units leave the shelf, for an invoice that bills no other order.
Charge(o, i) ==
  /\ slip[o].status \in Kitchen
  /\ \A x \in Orders : slip[x].bill # i
  /\ slip' = [slip EXCEPT ![o] = [status |-> "CHARGED", product |-> slip[o].product,
                                  qty |-> slip[o].qty, bill |-> i]]
  /\ Release(o)
  /\ shelf' = [shelf EXCEPT ![slip[o].product] = @ - slip[o].qty]

\* Sales over the counter, purchases and the rest move the shelf, and no order.
Elsewhere == UNCHANGED <<slip, held>>

Next ==
  \/ \E o \in Orders : \/ Send(o) \/ Cancel(o)
                       \/ \E status \in {"IN_PREP", "READY"} : Prepare(o, status)
                       \/ \E i \in Invoices : Charge(o, i)
                       \/ \E p \in Products, qty \in Quantities : Take(o, p, qty)
  \/ Elsewhere

Spec == Init /\ [][Next]_service
=============================================================================
