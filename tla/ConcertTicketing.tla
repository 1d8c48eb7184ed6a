-------------------------- MODULE ConcertTicketing --------------------------
(***************************************************************************)
(* The concert box office (src/modules/concert/concert.service.ts): seats  *)
(* are held for a few minutes, turned into a pending order, paid and       *)
(* ticketed by an organiser, cancelled, swept when stale, and the tickets  *)
(* are scanned at the door.                                                *)
(*                                                                         *)
(* The handlers run concurrently over PostgreSQL (READ COMMITTED, Prisma's *)
(* default), so a handler is a sequence of steps, one per awaited database *)
(* call; a $transaction whose statements re-check what they rely on under  *)
(* row locks is one step.  What a handler has read and not yet used is in  *)
(* its entry of req.  Clocks are abstracted to the two questions the code  *)
(* asks of them: is a hold over (until = "past"), is an order older than   *)
(* the pending-order limit (stale).                                        *)
(***************************************************************************)
EXTENDS Naturals, FiniteSets

CONSTANTS
  Seats,      \* the seats of the event
  Mesas,      \* the tables: sets of seats an organiser can release together
  Tokens,     \* hold tokens (bound: holds granted in one behaviour)
  Orders,     \* order ids (bound: orders created in one behaviour)
  Requests,   \* requests in progress at the same time
  None        \* SQL NULL

ASSUME ConcertAssumption ==
  /\ Mesas \subseteq SUBSET Seats
  /\ None \notin Tokens
  /\ None \notin Orders

VARIABLES
  seat,       \* concert_seats: status, holdToken, orderId, heldUntil
  order,      \* concert_orders: status, and whether the order is old
  ticket,     \* concert_tickets by their unique seatId: orderId, checkedInAt
  issued,     \* hold tokens already generated by randomUUID
  admitted,   \* history: times the door answered "Acceso autorizado" per seat
  req         \* the handler in progress of each request, and its locals

vars == <<seat, order, ticket, issued, admitted, req>>

SeatRow == [status : {"AVAILABLE", "HELD", "SOLD"},
            token  : Tokens \cup {None},
            order  : Orders \cup {None},
            until  : {"none", "live", "past"}]

OrderRow == [status : {"none", "PENDING_PAYMENT", "PAID", "CANCELLED"},
             stale  : BOOLEAN]

TicketRow == [order : Orders \cup {None}, used : BOOLEAN]

Ops == {"none", "hold", "extend", "checkout", "confirm", "cancel", "mesa",
        "sell", "sellPay", "scan", "view"}

Steps == {"idle", "refresh", "stale", "sweepRelease", "sweepCancel", "extendFind",
          "extendUpdate", "hold", "checkoutFind", "checkoutTx", "payRead",
          "paySeats", "payTx", "cancelRead", "release", "cancelSet",
          "mesaFind", "mesaLoop", "scanRead", "scanUpdate", "answer"}

Request == [pc : Steps, op : Ops, want : SUBSET Seats,
            token : Tokens \cup {None}, order : Orders \cup {None},
            todo : SUBSET Orders]

Idle == [pc |-> "idle", op |-> "none", want |-> {}, token |-> None,
         order |-> None, todo |-> {}]

\* Mutant of Free: the hold token is blanked, not nulled.
FreeBlankToken == [status |-> "AVAILABLE", token |-> "", order |-> None,
                   until |-> "none"]

Free == [status |-> "AVAILABLE", token |-> None, order |-> None, until |-> "none"]

TypeOK ==
  /\ seat \in [Seats -> SeatRow]
  /\ order \in [Orders -> OrderRow]
  /\ ticket \in [Seats -> TicketRow]
  /\ issued \subseteq Tokens
  /\ admitted \in [Seats -> Nat]
  /\ req \in [Requests -> Request]

Init ==
  /\ seat = [s \in Seats |-> Free]
  /\ order = [o \in Orders |-> [status |-> "none", stale |-> FALSE]]
  /\ ticket = [s \in Seats |-> [order |-> None, used |-> FALSE]]
  /\ issued = {}
  /\ admitted = [s \in Seats |-> 0]
  /\ req = [r \in Requests |-> Idle]

-----------------------------------------------------------------------------
(* Steps of a request. *)

At(r, pc) == req[r].pc = pc

Become(r, q) == req' = [req EXCEPT ![r] = q]

Goto(r, pc) == Become(r, [req[r] EXCEPT !.pc = pc])

Finish(r) == Become(r, Idle)

\* A request arrives.  The handlers that read availability start by refreshing it.
Begin(r, pc, op, want, token, o) ==
  /\ At(r, "idle")
  /\ Become(r, [pc |-> pc, op |-> op, want |-> want, token |-> token, order |-> o,
                todo |-> {}])
  /\ UNCHANGED <<seat, order, ticket, issued, admitted>>

\* What a handler does once refreshSeatAvailability has returned.
AfterRefresh(q) ==
  CASE q.op = "hold"     -> IF q.token = None THEN "hold" ELSE "extendFind"
    [] q.op = "extend"   -> "extendFind"
    [] q.op = "mesa"     -> "mesaFind"
    [] q.op = "sell"     -> "hold"
    [] q.op = "view"     -> "answer"
    [] OTHER             -> "checkoutFind"

\* The sweep goes on with the orders left to do, else the handler resumes.
Sweep(r, left) ==
  Become(r, [req[r] EXCEPT !.todo = left, !.order = None,
             !.pc = IF left = {} THEN AfterRefresh(req[r]) ELSE "sweepRelease"])

\* Mutant of Expired: only holds that never had a deadline are freed.
ExpiredIfNoDeadline(s) ==
  /\ seat[s].status = "HELD"
  /\ seat[s].order = None
  /\ seat[s].until = "none"

Expired(s) ==
  /\ seat[s].status = "HELD"
  /\ seat[s].order = None
  /\ seat[s].until \in {"past", "none"}

\* releaseExpiredHolds: one UPDATE over the holds without an order.
ReleaseExpiredHolds(r) ==
  /\ At(r, "refresh")
  /\ seat' = [s \in Seats |-> IF Expired(s) THEN Free ELSE seat[s]]
  /\ Goto(r, "stale")
  /\ UNCHANGED <<order, ticket, issued, admitted>>

\* releaseStalePendingOrders: the SELECT of the old pending orders.
FindStaleOrders(r) ==
  /\ At(r, "stale")
  /\ Sweep(r, {o \in Orders : order[o].status = "PENDING_PAYMENT" /\ order[o].stale})
  /\ UNCHANGED <<seat, order, ticket, issued, admitted>>

\* Mutant of SeatsReleased: the order keeps the seats already sold.
UnsoldSeatsReleased(o) == [s \in Seats |-> IF seat[s].order = o /\ seat[s].status = "HELD"
                                           THEN Free ELSE seat[s]]

\* releaseSeatsForOrder: every seat of the order becomes free, whatever its status.
SeatsReleased(o) == [s \in Seats |-> IF seat[s].order = o THEN Free ELSE seat[s]]

\* Mutant of OrderCancelled: the status is left as it was.
OrderKept(o) == order

OrderCancelled(o) == [order EXCEPT ![o].status = "CANCELLED"]

\* releaseStalePendingOrders, loop body: free the seats ...
SweepRelease(r) ==
  /\ At(r, "sweepRelease")
  /\ \E o \in req[r].todo :
       /\ seat' = SeatsReleased(o)
       /\ Become(r, [req[r] EXCEPT !.pc = "sweepCancel", !.order = o])
  /\ UNCHANGED <<order, ticket, issued, admitted>>

\* ... then cancel the order, in a statement of its own and without re-reading it.
SweepCancel(r) ==
  /\ At(r, "sweepCancel")
  /\ order' = OrderCancelled(req[r].order)
  /\ Sweep(r, req[r].todo \ {req[r].order})
  /\ UNCHANGED <<seat, ticket, issued, admitted>>

\* tryExtendExistingHold / extendHold: the live seats of the token.  The first
\* also wants them to be exactly the seats asked for, else a new hold is tried.
LiveSeats(t) == {s \in Seats : /\ seat[s].token = t
                               /\ seat[s].status = "HELD"
                               /\ seat[s].order = None
                               /\ seat[s].until = "live"}

ExtendFind(r) ==
  /\ At(r, "extendFind")
  /\ LET held == LiveSeats(req[r].token)
     IN \/ /\ req[r].op = "hold"
           /\ IF held # {} /\ held = req[r].want
              THEN Goto(r, "extendUpdate")
              ELSE Goto(r, "hold")
        \/ /\ req[r].op = "extend"
           /\ IF held = {}
              THEN Finish(r)
              ELSE Become(r, [req[r] EXCEPT !.pc = "extendUpdate",
                                                       !.want = held])
  /\ UNCHANGED <<seat, order, ticket, issued, admitted>>

\* The UPDATE of heldUntil, keyed by the token alone.
ExtendUpdate(r) ==
  /\ At(r, "extendUpdate")
  /\ seat' = [s \in Seats |-> IF seat[s].token = req[r].token
                              THEN [seat[s] EXCEPT !.until = "live"]
                              ELSE seat[s]]
  /\ Finish(r)
  /\ UNCHANGED <<order, ticket, issued, admitted>>

-----------------------------------------------------------------------------
(* Holding, checking out and paying. *)

\* Mutant of Holdable: a seat someone else holds is taken over.
HoldableIfUnsold(want) == \A s \in want : seat[s].status # "SOLD"

\* Each seat is updated only where it is AVAILABLE; one miss rolls back the rest.
Holdable(want) == \A s \in want : seat[s].status = "AVAILABLE"

\* holdSeats: the transaction.  adminSell goes on to checkoutPublic, which refreshes.
Hold(r) ==
  /\ At(r, "hold")
  /\ IF Holdable(req[r].want)
     THEN \E t \in Tokens \ issued :
            /\ issued' = issued \cup {t}
            /\ seat' = [s \in Seats |->
                          IF s \in req[r].want
                          THEN [status |-> "HELD", token |-> t, order |-> seat[s].order,
                                until |-> "live"]
                          ELSE seat[s]]
            /\ IF req[r].op = "sell"
               THEN Become(r, [req[r] EXCEPT !.pc = "refresh", !.op = "sellPay",
                                                        !.token = t])
               ELSE Finish(r)
     ELSE Finish(r) /\ UNCHANGED <<seat, issued>>
  /\ UNCHANGED <<order, ticket, admitted>>

\* checkoutPublic: the seats of the token, expired or not.
CheckoutFind(r) ==
  /\ At(r, "checkoutFind")
  /\ LET found == {s \in Seats : seat[s].token = req[r].token /\ seat[s].status = "HELD"}
     IN IF found = {}
        THEN Finish(r)
        ELSE Become(r, [req[r] EXCEPT !.pc = "checkoutTx", !.want = found])
  /\ UNCHANGED <<seat, order, ticket, issued, admitted>>

\* Mutant of Ordered: the hold token stays on the seat.
OrderedKeepingToken(want, o) ==
  [s \in Seats |-> IF s \in want
                   THEN [seat[s] EXCEPT !.status = "HELD", !.order = o, !.until = "none"]
                   ELSE seat[s]]

\* Mutant of Ordered: a hold that ran out during the upload is not converted.
OrderedIfLive(want, o) ==
  [s \in Seats |-> IF s \in want /\ seat[s].until = "live"
                   THEN [status |-> "HELD", token |-> None, order |-> o, until |-> "none"]
                   ELSE seat[s]]

Ordered(want, o) ==
  [s \in Seats |-> IF s \in want
                   THEN [status |-> "HELD", token |-> None, order |-> o, until |-> "none"]
                   ELSE seat[s]]

\* After the upload of the proof, the transaction: a new order takes the seats read
\* before, whatever has become of them.
CheckoutTx(r) ==
  /\ At(r, "checkoutTx")
  /\ \E o \in Orders :
       /\ order[o].status = "none"
       /\ order' = [order EXCEPT ![o] = [status |-> "PENDING_PAYMENT", stale |-> FALSE]]
       /\ seat' = Ordered(req[r].want, o)
       /\ IF req[r].op = "sellPay"
          THEN Become(r, [req[r] EXCEPT !.pc = "payRead", !.order = o])
          ELSE Finish(r)
  /\ UNCHANGED <<ticket, issued, admitted>>

\* markOrderPaid: the order ...
PayRead(r) ==
  /\ At(r, "payRead")
  /\ IF order[req[r].order].status = "PENDING_PAYMENT"
     THEN Goto(r, "paySeats")
     ELSE Finish(r)
  /\ UNCHANGED <<seat, order, ticket, issued, admitted>>

\* ... then its seats ...
PaySeats(r) ==
  /\ At(r, "paySeats")
  /\ Become(r, [req[r] EXCEPT !.pc = "payTx",
                !.want = {s \in Seats : seat[s].order = req[r].order}])
  /\ UNCHANGED <<seat, order, ticket, issued, admitted>>

\* Mutant of Ticketed: only the seats the order still has get one.
TicketedIfStillOwned(want, o) ==
  [s \in Seats |-> IF s \in want /\ ticket[s].order = None /\ seat[s].order = o
                   THEN [order |-> o, used |-> FALSE]
                   ELSE ticket[s]]

\* A ticket is created where the seat has none yet (seatId is unique).
Ticketed(want, o) ==
  [s \in Seats |-> IF s \in want /\ ticket[s].order = None
                   THEN [order |-> o, used |-> FALSE]
                   ELSE ticket[s]]

\* Mutant of OrderPaid: the tickets are issued, the order stays as it was.
OrderStillPending(o) == order

OrderPaid(o) == [order EXCEPT ![o].status = "PAID"]

\* Mutant of SeatsSold: only the tickets are written.
SeatsUnsold(want) == seat

SeatsSold(want) == [s \in Seats |-> IF s \in want THEN [seat[s] EXCEPT !.status = "SOLD"]
                                                  ELSE seat[s]]

\* ... then the transaction that marks the order paid, the seats sold and the tickets issued.
PayTx(r) ==
  /\ At(r, "payTx")
  /\ order' = OrderPaid(req[r].order)
  /\ seat' = SeatsSold(req[r].want)
  /\ ticket' = Ticketed(req[r].want, req[r].order)
  /\ Finish(r)
  /\ UNCHANGED <<issued, admitted>>

-----------------------------------------------------------------------------
(* Cancelling. *)

\* cancelOrder: pending and paid orders can be cancelled.
CancelRead(r) ==
  /\ At(r, "cancelRead")
  /\ IF order[req[r].order].status \in {"PENDING_PAYMENT", "PAID"}
     THEN Goto(r, "release")
     ELSE Finish(r)
  /\ UNCHANGED <<seat, order, ticket, issued, admitted>>

\* cancelOrder and the loop of releaseMesaSeats: after the proof file is deleted,
\* the seats are released ...
CancelRelease(r) ==
  /\ At(r, "release")
  /\ seat' = SeatsReleased(req[r].order)
  /\ Goto(r, "cancelSet")
  /\ UNCHANGED <<order, ticket, issued, admitted>>

\* ... and the order is cancelled.
CancelSet(r) ==
  /\ At(r, "cancelSet")
  /\ order' = OrderCancelled(req[r].order)
  /\ IF req[r].op = "mesa"
     THEN Become(r, [req[r] EXCEPT !.pc = "mesaLoop", !.order = None,
                                              !.todo = @ \ {req[r].order}])
     ELSE Finish(r)
  /\ UNCHANGED <<seat, ticket, issued, admitted>>

Unsold(S) == {s \in S : seat[s].status # "SOLD"}

\* releaseMesaSeats: the seats of the table that are not sold, and their orders.
MesaFind(r) ==
  /\ At(r, "mesaFind")
  /\ LET found == Unsold(req[r].want)
     IN IF found = {}
        THEN Finish(r)
        ELSE Become(r, [req[r] EXCEPT !.pc = "mesaLoop", !.want = found,
                        !.todo = {seat[s].order : s \in found} \ {None}])
  /\ UNCHANGED <<seat, order, ticket, issued, admitted>>

\* Each order is cancelled if it is still pending, else skipped.
MesaOrder(r) ==
  /\ At(r, "mesaLoop")
  /\ \E o \in req[r].todo :
       IF order[o].status = "PENDING_PAYMENT"
       THEN Become(r, [req[r] EXCEPT !.pc = "release", !.order = o])
       ELSE Become(r, [req[r] EXCEPT !.todo = @ \ {o}])
  /\ UNCHANGED <<seat, order, ticket, issued, admitted>>

\* Then the seats read at the start are freed, those sold since excepted.
MesaRelease(r) ==
  /\ At(r, "mesaLoop")
  /\ req[r].todo = {}
  /\ seat' = [s \in Seats |-> IF s \in Unsold(req[r].want) THEN Free ELSE seat[s]]
  /\ Finish(r)
  /\ UNCHANGED <<order, ticket, issued, admitted>>

-----------------------------------------------------------------------------
(* The door. *)

\* Mutant of Admits: the ticket is not asked whether it was used.
AdmitsAgain(s) == order[ticket[s].order].status = "PAID"

Admits(s) == order[ticket[s].order].status = "PAID" /\ ~ticket[s].used

\* scanTicket: the ticket and its order.  want holds the one seat of the ticket.
ScanRead(r) ==
  /\ At(r, "scanRead")
  /\ \E s \in req[r].want :
       IF Admits(s) THEN Goto(r, "scanUpdate") ELSE Finish(r)
  /\ UNCHANGED <<seat, order, ticket, issued, admitted>>

ScanUpdate(r) ==
  /\ At(r, "scanUpdate")
  /\ ticket' = [s \in Seats |-> IF s \in req[r].want
                                THEN [ticket[s] EXCEPT !.used = TRUE] ELSE ticket[s]]
  /\ admitted' = [s \in Seats |-> IF s \in req[r].want
                                  THEN admitted[s] + 1 ELSE admitted[s]]
  /\ Finish(r)
  /\ UNCHANGED <<seat, order, issued>>

\* getPublicEvent answers after its refresh.
Answer(r) ==
  /\ At(r, "answer")
  /\ Finish(r)
  /\ UNCHANGED <<seat, order, ticket, issued, admitted>>

-----------------------------------------------------------------------------
(* Requests arriving, clocks, failures. *)

Placed == {o \in Orders : order[o].status # "none"}

BeginView(r) == Begin(r, "refresh", "view", {}, None, None)

\* Bounds of the model: no handler starts that could run out of tokens or order ids.
TokensLeft == Tokens \ issued # {}
OrdersLeft == Orders \ Placed # {}

BeginHold(r) == /\ TokensLeft
                /\ \E want \in SUBSET Seats \ {{}}, t \in issued \cup {None} :
                     Begin(r, "refresh", "hold", want, t, None)

BeginExtend(r) == \E t \in issued : Begin(r, "refresh", "extend", {}, t, None)

BeginCheckout(r) == /\ OrdersLeft
                    /\ \E t \in issued : Begin(r, "refresh", "checkout", {}, t, None)

BeginConfirm(r) == \E o \in Placed : Begin(r, "payRead", "confirm", {}, None, o)

BeginSell(r) == /\ TokensLeft /\ OrdersLeft
                /\ \E want \in SUBSET Seats \ {{}} :
                     Begin(r, "refresh", "sell", want, None, None)

BeginCancel(r) == \E o \in Placed : Begin(r, "cancelRead", "cancel", {}, None, o)

BeginMesa(r) == \E m \in Mesas : Begin(r, "refresh", "mesa", m, None, None)

BeginScan(r) == \E s \in Seats : /\ ticket[s].order # None
                                 /\ Begin(r, "scanRead", "scan", {s}, None, None)

\* CONCERT_HOLD_MINUTES pass: the seats of one hold share one heldUntil.
HoldExpires(t) ==
  /\ \E s \in Seats : seat[s].token = t /\ seat[s].until = "live"
  /\ seat' = [s \in Seats |-> IF seat[s].token = t /\ seat[s].until = "live"
                              THEN [seat[s] EXCEPT !.until = "past"] ELSE seat[s]]
  /\ UNCHANGED <<order, ticket, issued, admitted, req>>

\* CONCERT_PENDING_ORDER_HOURS pass.
OrderAges(o) ==
  /\ order[o].status = "PENDING_PAYMENT" /\ ~order[o].stale
  /\ order' = [order EXCEPT ![o].stale = TRUE]
  /\ UNCHANGED <<seat, ticket, issued, admitted, req>>

\* A handler stops between two steps: the process dies, a query, an upload or the
\* deletion of a proof throws, or validation rejects the input after a read.
Fail(r) ==
  /\ ~At(r, "idle")
  /\ Finish(r)
  /\ UNCHANGED <<seat, order, ticket, issued, admitted>>

Arrive(r) ==
  \/ BeginView(r) \/ BeginHold(r) \/ BeginExtend(r) \/ BeginCheckout(r)
  \/ BeginConfirm(r) \/ BeginSell(r) \/ BeginCancel(r) \/ BeginMesa(r) \/ BeginScan(r)

Continue(r) ==
  \/ ReleaseExpiredHolds(r) \/ FindStaleOrders(r) \/ SweepRelease(r) \/ SweepCancel(r)
  \/ ExtendFind(r) \/ ExtendUpdate(r) \/ Hold(r) \/ CheckoutFind(r) \/ CheckoutTx(r)
  \/ PayRead(r) \/ PaySeats(r) \/ PayTx(r) \/ CancelRead(r) \/ CancelRelease(r)
  \/ CancelSet(r) \/ MesaFind(r) \/ MesaOrder(r) \/ MesaRelease(r)
  \/ ScanRead(r) \/ ScanUpdate(r) \/ Answer(r)

Clock == (\E t \in Tokens : HoldExpires(t)) \/ (\E o \in Orders : OrderAges(o))

Next == Clock \/ \E r \in Requests : Arrive(r) \/ Continue(r) \/ Fail(r)

Spec == Init /\ [][Next]_vars

\* No request fails: the system as long as the process and its services stay up.
ReliableNext == Clock \/ \E r \in Requests : Arrive(r) \/ Continue(r)

\* The event loop runs every started handler on, and visitors keep opening the page.
FairSpec == /\ Init /\ [][ReliableNext]_vars
            /\ \A r \in Requests : WF_vars(Continue(r)) /\ SF_vars(BeginView(r))

-----------------------------------------------------------------------------
(* Properties of every interleaving. *)

Shaped(row) ==
  /\ row.token = None \/ row.order = None
  /\ row.token = None <=> row.until = "none"
  /\ row.status = "AVAILABLE" => row.token = None /\ row.order = None
  /\ row.status = "HELD" => row.token # None \/ row.order # None

\* A seat is claimed by a hold or by an order, never by both; a seat on offer is
\* claimed by nobody, and only a hold carries a deadline.  The partial updates of
\* concert_seats (each handler writes some of the four columns) must agree on it.
SeatShape == \A s \in Seats : Shaped(seat[s])

\* A SOLD seat has a ticket row, whatever sweeps, cancellations and checkouts cross the
\* confirmation: markOrderPaid writes both in one transaction and no handler deletes a
\* ticket.  (It need not be a ticket of the order that bought the seat, nor open the door:
\* see PaidSeatHasItsTicket.)
SoldHasTicket == \A s \in Seats : seat[s].status = "SOLD" => ticket[s].order # None

\* A ticket's order has been paid at some time: it is PAID, or CANCELLED since.
TicketOrderSettled == \A s \in Seats :
  ticket[s].order # None => order[ticket[s].order].status \in {"PAID", "CANCELLED"}

\* However the sweep, cancelOrder, releaseMesaSeats and checkoutPublic interleave, a
\* cancelled order keeps no seat: the seats are released before the status is written
\* and no handler gives a seat to an existing order.
CancelledOwnsNothing == \A s \in Seats :
  seat[s].order # None => order[seat[s].order].status # "CANCELLED"

\* A seat passes from one hold to another only by becoming AVAILABLE in between.
NoHoldStolen == [][\A s \in Seats : seat[s].token # None /\ seat'[s].token # None
                                     => seat'[s].token = seat[s].token]_vars

(* What makes them inductive: what the requests in progress know. *)

\* A request that renews a hold was given its token.
RenewalsHaveToken == \A r \in Requests :
  req[r].op = "extend" \/ req[r].pc \in {"extendFind", "extendUpdate"} => req[r].token # None

\* The steps that act on req[r].order.
OrderSteps == {"payRead", "paySeats", "payTx", "cancelRead", "release", "cancelSet",
               "sweepCancel"}

\* Only open orders own seats.
OwnersOpen == \A s \in Seats :
  seat[s].order # None => order[seat[s].order].status \in {"PENDING_PAYMENT", "PAID"}

\* A handler acts on orders that were created.
RequestsNamePlaced == \A r \in Requests :
  /\ req[r].todo \subseteq Placed
  /\ req[r].pc \in OrderSteps => req[r].order \in Placed

\* Between the release of an order's seats and its cancellation it owns none.
ReleasedBeforeCancelled == \A r \in Requests :
  req[r].pc \in {"sweepCancel", "cancelSet"} =>
    \A s \in Seats : seat[s].order # req[r].order

Links == OwnersOpen /\ RequestsNamePlaced /\ ReleasedBeforeCancelled

-----------------------------------------------------------------------------
(* Properties of requests served one at a time, by a process that stays up. *)

Quiet == \A r \in Requests : At(r, "idle")

Owned(o) == {s \in Seats : seat[s].order = o}

\* Between requests, the seats sold are the seats of the paid orders, and every open
\* order has seats: what the organiser's panel shows agrees with what was paid.
SoldMatchesPaid == Quiet =>
  /\ \A s \in Seats : seat[s].status = "SOLD" <=>
                        seat[s].order # None /\ order[seat[s].order].status = "PAID"
  /\ \A o \in Orders : order[o].status \in {"PENDING_PAYMENT", "PAID"} => Owned(o) # {}

\* A request has freed the seats of the order, and not yet cancelled it.
Cancelling(o) == \E r \in Requests : req[r].pc \in {"cancelSet", "sweepCancel"} /\ req[r].order = o

\* The box office as the sales it makes: deadlines and the age of orders left out, an order
\* cancelled from the moment its seats are freed.
Sales == INSTANCE BoxOffice
         WITH Seats <- Seats, Tokens <- Tokens, Orders <- Orders, None <- None,
              claim <- [s \in Seats |-> [status |-> seat[s].status, token |-> seat[s].token,
                                        order |-> seat[s].order]],
              state <- [o \in Orders |-> IF Cancelling(o) THEN "CANCELLED" ELSE order[o].status]

\* Every hold, checkout, payment, cancellation and sweep acts at once on all the seats it is
\* about: no hold or order is ever split, partly paid or partly released.
SalesKept == Sales!Spec

\* "Esta entrada ya fue utilizada": a ticket admits one person, whatever becomes of its
\* order and its seat between two scans.
SingleAdmission == \A s \in Seats : admitted[s] <= 1

\* A hold nobody pays for does not block its seat for ever: whoever opens the page
\* after the deadline makes the seat available again, unless the hold is renewed.
AbandonedHoldsEnd == \A s \in Seats :
  (seat[s].status = "HELD" /\ seat[s].until = "past") ~>
    (seat[s].status # "HELD" \/ seat[s].until # "past")

\* An order nobody confirms does not block its seats for ever either: it is paid,
\* or cancelled without seats.
StaleOrdersEnd == \A o \in Orders :
  (order[o].status = "PENDING_PAYMENT" /\ order[o].stale) ~>
    (order[o].status = "PAID" \/ (order[o].status = "CANCELLED" /\ Owned(o) = {}))

-----------------------------------------------------------------------------
(* What the code says to the buyer, and does not keep. *)

\* "Recibira su entrada digital cuando el organizador confirme el pago.": between
\* requests each sold seat has a ticket of the order that paid for it.
PaidSeatHasItsTicket == Quiet =>
  \A s \in Seats : seat[s].status = "SOLD" => ticket[s].order = seat[s].order
=============================================================================
