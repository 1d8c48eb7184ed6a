----------------------- MODULE ConcertTicketing_proofs -----------------------
(***************************************************************************)
(* Proofs about the box office, for any sets of seats, tables, tokens,     *)
(* orders and concurrent requests, any of which may stop at any step; and, *)
(* where requests are served one at a time, that a ticket admits once,     *)
(* that the panel of the organiser shows as sold what was paid, and that   *)
(* the handlers implement BoxOffice.                                       *)
(***************************************************************************)
EXTENDS ConcertTicketing, TLAPS

-----------------------------------------------------------------------------
(* Types. *)

LEMMA IdleType == Idle \in Request
BY DEF Idle, Request, Steps, Ops

LEMMA FreeType == Free \in SeatRow
BY DEF Free, SeatRow

\* The request that takes a step gets well-typed locals, the others keep theirs.
LEMMA BecomeType ==
  ASSUME TypeOK, NEW r \in Requests, NEW q \in Request, Become(r, q)
  PROVE  req' \in [Requests -> Request]
BY DEF TypeOK, Become

LEMMA GotoType ==
  ASSUME TypeOK, NEW r \in Requests, NEW pc \in Steps, Goto(r, pc)
  PROVE  req' \in [Requests -> Request]
<1>1. [req[r] EXCEPT !.pc = pc] \in Request
  BY DEF TypeOK, Request
<1> QED
  BY <1>1, BecomeType DEF Goto

LEMMA FinishType ==
  ASSUME TypeOK, NEW r \in Requests, Finish(r)
  PROVE  req' \in [Requests -> Request]
BY IdleType, BecomeType DEF Finish

LEMMA SweepType ==
  ASSUME TypeOK, NEW r \in Requests, NEW left \in SUBSET Orders, Sweep(r, left)
  PROVE  req' \in [Requests -> Request]
<1> DEFINE pc == IF left = {} THEN AfterRefresh(req[r]) ELSE "sweepRelease"
<1>1. pc \in Steps
  BY DEF AfterRefresh, Steps
<1>2. [req[r] EXCEPT !.todo = left, !.order = None, !.pc = pc] \in Request
  BY <1>1 DEF TypeOK, Request
<1> QED
  BY <1>2, BecomeType DEF Sweep

\* The locals of a request change a few at a time.
LEMMA OrderLocal ==
  ASSUME NEW q \in Request, NEW pc \in Steps, NEW o \in Orders \cup {None}
  PROVE  [q EXCEPT !.pc = pc, !.order = o] \in Request
BY DEF Request

LEMMA WantLocal ==
  ASSUME NEW q \in Request, NEW pc \in Steps, NEW want \in SUBSET Seats
  PROVE  [q EXCEPT !.pc = pc, !.want = want] \in Request
BY DEF Request

LEMMA TokenLocal ==
  ASSUME NEW q \in Request, NEW pc \in Steps, NEW op \in Ops, NEW t \in Tokens
  PROVE  [q EXCEPT !.pc = pc, !.op = op, !.token = t] \in Request
BY DEF Request

LEMMA OrdersLocal ==
  ASSUME NEW q \in Request, NEW pc \in Steps, NEW o \in Orders \cup {None},
         NEW todo \in SUBSET Orders
  PROVE  [q EXCEPT !.pc = pc, !.order = o, !.todo = todo] \in Request
BY DEF Request

LEMMA MesaLocal ==
  ASSUME NEW q \in Request, NEW pc \in Steps, NEW want \in SUBSET Seats,
         NEW todo \in SUBSET Orders
  PROVE  [q EXCEPT !.pc = pc, !.want = want, !.todo = todo] \in Request
BY DEF Request

LEMMA TodoLocal ==
  ASSUME NEW q \in Request, NEW todo \in SUBSET Orders
  PROVE  [q EXCEPT !.todo = todo] \in Request
BY DEF Request

LEMMA BeginType ==
  ASSUME TypeOK, NEW r \in Requests, NEW pc \in Steps, NEW op \in Ops,
         NEW want \in SUBSET Seats, NEW token \in Tokens \cup {None},
         NEW o \in Orders \cup {None}, Begin(r, pc, op, want, token, o)
  PROVE  TypeOK'
<1>1. [pc |-> pc, op |-> op, want |-> want, token |-> token, order |-> o, todo |-> {}]
        \in Request
  BY DEF Request
<1>2. req' \in [Requests -> Request]
  BY <1>1, BecomeType DEF Begin
<1> QED
  BY <1>2 DEF Begin, TypeOK

LEMMA ArriveType == ASSUME TypeOK, NEW r \in Requests, Arrive(r) PROVE TypeOK'
<1> USE ConcertAssumption DEF Steps, Ops
<1>1. CASE BeginView(r)
  BY <1>1, BeginType DEF BeginView
<1>2. CASE BeginHold(r)
  <2>1. PICK want \in SUBSET Seats \ {{}}, t \in issued \cup {None} :
          Begin(r, "refresh", "hold", want, t, None)
    BY <1>2 DEF BeginHold
  <2> QED
    BY <2>1, BeginType DEF TypeOK
<1>3. CASE BeginExtend(r)
  <2>1. PICK t \in issued : Begin(r, "refresh", "extend", {}, t, None)
    BY <1>3 DEF BeginExtend
  <2> QED
    BY <2>1, BeginType DEF TypeOK
<1>4. CASE BeginCheckout(r)
  <2>1. PICK t \in issued : Begin(r, "refresh", "checkout", {}, t, None)
    BY <1>4 DEF BeginCheckout
  <2> QED
    BY <2>1, BeginType DEF TypeOK
<1>5. CASE BeginConfirm(r) \/ BeginCancel(r)
  <2>1. PICK o \in Orders : \/ Begin(r, "payRead", "confirm", {}, None, o)
                            \/ Begin(r, "cancelRead", "cancel", {}, None, o)
    BY <1>5 DEF BeginConfirm, BeginCancel, Placed
  <2> QED
    BY <2>1, BeginType
<1>6. CASE BeginSell(r)
  <2>1. PICK want \in SUBSET Seats \ {{}} : Begin(r, "refresh", "sell", want, None, None)
    BY <1>6 DEF BeginSell
  <2> QED
    BY <2>1, BeginType
<1>7. CASE BeginMesa(r)
  <2>1. PICK m \in Mesas : Begin(r, "refresh", "mesa", m, None, None)
    BY <1>7 DEF BeginMesa
  <2> QED
    BY <2>1, BeginType
<1>8. CASE BeginScan(r)
  <2>1. PICK s \in Seats : Begin(r, "scanRead", "scan", {s}, None, None)
    BY <1>8 DEF BeginScan
  <2> QED
    BY <2>1, BeginType
<1> QED
  BY <1>1, <1>2, <1>3, <1>4, <1>5, <1>6, <1>7, <1>8 DEF Arrive

-----------------------------------------------------------------------------
LEMMA ContinueType == ASSUME TypeOK, NEW r \in Requests, Continue(r) PROVE TypeOK'
<1> DEFINE Rest == /\ seat' \in [Seats -> SeatRow]
                   /\ order' \in [Orders -> OrderRow]
                   /\ ticket' \in [Seats -> TicketRow]
                   /\ issued' \subseteq Tokens
                   /\ admitted' \in [Seats -> Nat]
           Locals == req' \in [Requests -> Request]
<1>0. Rest /\ Locals => TypeOK'
  BY DEF TypeOK
<1>R. req[r] \in Request
  BY DEF TypeOK
<1>W. req[r].todo \in SUBSET Orders
  BY <1>R DEF Request
<1>1. CASE ReleaseExpiredHolds(r)
  <2>1. Rest
    BY <1>1, FreeType DEF ReleaseExpiredHolds, TypeOK
  <2>2. Locals
    BY <1>1, GotoType DEF ReleaseExpiredHolds, Steps
  <2> QED
    BY <1>0, <2>1, <2>2
<1>2. CASE FindStaleOrders(r)
  BY <1>0, <1>2, SweepType DEF FindStaleOrders, TypeOK
<1>3. CASE SweepRelease(r)
  <2>1. PICK o \in req[r].todo :
          /\ seat' = SeatsReleased(o)
          /\ Become(r, [req[r] EXCEPT !.pc = "sweepCancel", !.order = o])
    BY <1>3 DEF SweepRelease
  <2>2. Rest
    BY <1>3, <2>1, FreeType DEF SweepRelease, SeatsReleased, TypeOK
  <2>3. [req[r] EXCEPT !.pc = "sweepCancel", !.order = o] \in Request
    BY <1>R, <1>W, <2>1, OrderLocal DEF Steps
  <2> QED
    BY <1>0, <2>1, <2>2, <2>3, BecomeType
<1>4. CASE SweepCancel(r)
  <2>1. Rest
    BY <1>4 DEF SweepCancel, OrderCancelled, OrderRow, TypeOK
  <2>2. req[r].todo \ {req[r].order} \in SUBSET Orders
    BY DEF TypeOK, Request
  <2> QED
    BY <1>0, <1>4, <2>1, <2>2, SweepType DEF SweepCancel
<1>5. CASE ExtendFind(r)
  <2>1. Rest
    BY <1>5 DEF ExtendFind, TypeOK
  <2>2. [req[r] EXCEPT !.pc = "extendUpdate", !.want = LiveSeats(req[r].token)] \in Request
    BY <1>R, WantLocal DEF Steps, LiveSeats
  <2>3. \/ Goto(r, "extendUpdate")
        \/ Goto(r, "hold")
        \/ Finish(r)
        \/ Become(r, [req[r] EXCEPT !.pc = "extendUpdate", !.want = LiveSeats(req[r].token)])
    BY <1>5 DEF ExtendFind
  <2>4. Locals
    BY <2>2, <2>3, GotoType, FinishType, BecomeType DEF Steps
  <2> QED
    BY <1>0, <2>1, <2>4
<1>6. CASE ExtendUpdate(r)
  <2>1. Rest
    BY <1>6 DEF ExtendUpdate, SeatRow, TypeOK
  <2> QED
    BY <1>0, <1>6, <2>1, FinishType DEF ExtendUpdate
<1>7. CASE Hold(r)
  <2>1. CASE Holdable(req[r].want)
    <3>1. PICK t \in Tokens \ issued :
            /\ issued' = issued \cup {t}
            /\ seat' = [s \in Seats |->
                          IF s \in req[r].want
                          THEN [status |-> "HELD", token |-> t, order |-> seat[s].order,
                                until |-> "live"]
                          ELSE seat[s]]
            /\ \/ Become(r, [req[r] EXCEPT !.pc = "refresh", !.op = "sellPay", !.token = t])
               \/ Finish(r)
      BY <1>7, <2>1 DEF Hold
    <3>2. \A s \in Seats : [status |-> "HELD", token |-> t, order |-> seat[s].order,
                             until |-> "live"] \in SeatRow
      BY DEF TypeOK, SeatRow
    <3>3. Rest
      BY <1>7, <3>1, <3>2 DEF Hold, TypeOK
    <3>4. [req[r] EXCEPT !.pc = "refresh", !.op = "sellPay", !.token = t] \in Request
      BY <1>R, TokenLocal DEF Steps, Ops
    <3>5. CASE Finish(r)
      BY <1>0, <3>3, <3>5, FinishType
    <3>6. CASE Become(r, [req[r] EXCEPT !.pc = "refresh", !.op = "sellPay", !.token = t])
      BY <1>0, <3>3, <3>4, <3>6, BecomeType
    <3> QED
      BY <3>1, <3>5, <3>6
  <2>2. CASE ~Holdable(req[r].want)
    BY <1>0, <1>7, <2>2, FinishType DEF Hold, TypeOK
  <2> QED
    BY <2>1, <2>2
<1>8. CASE CheckoutFind(r)
  <2> DEFINE found == {s \in Seats : seat[s].token = req[r].token /\ seat[s].status = "HELD"}
  <2>1. [req[r] EXCEPT !.pc = "checkoutTx", !.want = found] \in Request
    BY <1>R, WantLocal DEF Steps
  <2>2. Rest
    BY <1>8 DEF CheckoutFind, TypeOK
  <2>3. \/ Finish(r)
        \/ Become(r, [req[r] EXCEPT !.pc = "checkoutTx", !.want = found])
    BY <1>8 DEF CheckoutFind
  <2> HIDE DEF found
  <2> QED
    BY <1>0, <2>1, <2>2, <2>3, FinishType, BecomeType
<1>9. CASE CheckoutTx(r)
  <2>1. PICK o \in Orders :
          /\ order' = [order EXCEPT ![o] = [status |-> "PENDING_PAYMENT", stale |-> FALSE]]
          /\ seat' = Ordered(req[r].want, o)
          /\ \/ Become(r, [req[r] EXCEPT !.pc = "payRead", !.order = o])
             \/ Finish(r)
    BY <1>9 DEF CheckoutTx
  <2>2. [status |-> "HELD", token |-> None, order |-> o, until |-> "none"] \in SeatRow
    BY DEF SeatRow
  <2>3. [status |-> "PENDING_PAYMENT", stale |-> FALSE] \in OrderRow
    BY DEF OrderRow
  <2>4. Rest
    BY <1>9, <2>1, <2>2, <2>3 DEF CheckoutTx, Ordered, TypeOK
  <2>5. [req[r] EXCEPT !.pc = "payRead", !.order = o] \in Request
    BY <1>R, OrderLocal DEF Steps
  <2> QED
    BY <1>0, <2>1, <2>4, <2>5, FinishType, BecomeType
<1>10. CASE PayRead(r)
  BY <1>0, <1>10, GotoType, FinishType DEF PayRead, TypeOK, Steps
<1>11. CASE PaySeats(r)
  <2>1. [req[r] EXCEPT !.pc = "payTx", !.want = {s \in Seats : seat[s].order = req[r].order}]
          \in Request
    BY <1>R, WantLocal DEF Steps
  <2> QED
    BY <1>0, <1>11, <2>1, BecomeType DEF PaySeats, TypeOK
<1>12. CASE PayTx(r)
  <2>1. seat' \in [Seats -> SeatRow]
    BY <1>12 DEF PayTx, SeatsSold, SeatRow, TypeOK
  <2>2. order' \in [Orders -> OrderRow]
    BY <1>12 DEF PayTx, OrderPaid, OrderRow, TypeOK
  <2>3. ticket' \in [Seats -> TicketRow]
    <3>1. [order |-> req[r].order, used |-> FALSE] \in TicketRow
      BY DEF TicketRow, TypeOK, Request
    <3> QED
      BY <1>12, <3>1 DEF PayTx, Ticketed, TypeOK
  <2> QED
    BY <1>0, <1>12, <2>1, <2>2, <2>3, FinishType DEF PayTx, TypeOK
<1>13. CASE CancelRead(r)
  BY <1>0, <1>13, GotoType, FinishType DEF CancelRead, TypeOK, Steps
<1>14. CASE CancelRelease(r)
  <2>1. Rest
    BY <1>14, FreeType DEF CancelRelease, SeatsReleased, TypeOK
  <2> QED
    BY <1>0, <1>14, <2>1, GotoType DEF CancelRelease, Steps
<1>15. CASE CancelSet(r)
  <2>1. Rest
    BY <1>15 DEF CancelSet, OrderCancelled, OrderRow, TypeOK
  <2>2. [req[r] EXCEPT !.pc = "mesaLoop", !.order = None, !.todo = @ \ {req[r].order}]
          \in Request
    BY <1>R, <1>W, OrdersLocal DEF Steps
  <2> QED
    BY <1>0, <1>15, <2>1, <2>2, FinishType, BecomeType DEF CancelSet
<1>16. CASE MesaFind(r)
  <2> DEFINE found == Unsold(req[r].want)
             next  == [req[r] EXCEPT !.pc = "mesaLoop", !.want = found,
                                     !.todo = {seat[s].order : s \in found} \ {None}]
  <2>1. found \in SUBSET Seats
    BY DEF Unsold, TypeOK, Request
  <2>2. {seat[s].order : s \in found} \ {None} \in SUBSET Orders
    BY <2>1 DEF TypeOK, SeatRow
  <2>3. next \in Request
    BY <1>R, <2>1, <2>2, MesaLocal DEF Steps
  <2>4. Finish(r) \/ Become(r, next)
    BY <1>16 DEF MesaFind
  <2>5. Rest
    BY <1>16 DEF MesaFind, TypeOK
  <2> HIDE DEF next
  <2> QED
    BY <1>0, <2>3, <2>4, <2>5, FinishType, BecomeType
<1>17. CASE MesaOrder(r)
  <2>1. PICK o \in req[r].todo :
          \/ Become(r, [req[r] EXCEPT !.pc = "release", !.order = o])
          \/ Become(r, [req[r] EXCEPT !.todo = @ \ {o}])
    BY <1>17 DEF MesaOrder
  <2>2. [req[r] EXCEPT !.pc = "release", !.order = o] \in Request
    BY <1>R, <1>W, <2>1, OrderLocal DEF Steps
  <2>3. [req[r] EXCEPT !.todo = @ \ {o}] \in Request
    BY <1>R, <1>W, TodoLocal
  <2>4. Rest
    BY <1>17 DEF MesaOrder, TypeOK
  <2> QED
    BY <1>0, <2>1, <2>2, <2>3, <2>4, BecomeType
<1>18. CASE MesaRelease(r)
  <2>1. Rest
    BY <1>18, FreeType DEF MesaRelease, TypeOK
  <2> QED
    BY <1>0, <1>18, <2>1, FinishType DEF MesaRelease
<1>19. CASE ScanRead(r)
  <2>1. Rest
    BY <1>19 DEF ScanRead, TypeOK
  <2>2. Goto(r, "scanUpdate") \/ Finish(r)
    BY <1>19 DEF ScanRead
  <2> QED
    BY <1>0, <2>1, <2>2, GotoType, FinishType DEF Steps
<1>20. CASE ScanUpdate(r)
  <2>1. ticket' \in [Seats -> TicketRow]
    BY <1>20 DEF ScanUpdate, TicketRow, TypeOK
  <2>2. admitted' \in [Seats -> Nat]
    BY <1>20 DEF ScanUpdate, TypeOK
  <2> QED
    BY <1>0, <1>20, <2>1, <2>2, FinishType DEF ScanUpdate, TypeOK
<1>21. CASE Answer(r)
  BY <1>0, <1>21, FinishType DEF Answer, TypeOK
<1> QED
  BY <1>1, <1>2, <1>3, <1>4, <1>5, <1>6, <1>7, <1>8, <1>9, <1>10, <1>11, <1>12, <1>13,
     <1>14, <1>15, <1>16, <1>17, <1>18, <1>19, <1>20, <1>21 DEF Continue

\* Each step keeps the rows and the locals of the requests within their types.
LEMMA TypeStep == TypeOK /\ [Next]_vars => TypeOK'
<1> SUFFICES ASSUME TypeOK, [Next]_vars PROVE TypeOK'
  OBVIOUS
<1>1. ASSUME NEW r \in Requests, Fail(r) PROVE TypeOK'
  BY <1>1, FinishType DEF Fail, TypeOK
<1>2. ASSUME NEW t \in Tokens, HoldExpires(t) PROVE TypeOK'
  BY <1>2 DEF HoldExpires, TypeOK, SeatRow
<1>3. ASSUME NEW o \in Orders, OrderAges(o) PROVE TypeOK'
  BY <1>3 DEF OrderAges, TypeOK, OrderRow
<1>4. CASE UNCHANGED vars
  BY <1>4 DEF vars, TypeOK
<1> QED
  BY <1>1, <1>2, <1>3, <1>4, ArriveType, ContinueType DEF Next, Clock

\* The rows and the locals of the requests keep their types.
THEOREM TypeCorrect == Spec => []TypeOK
<1>1. Init => TypeOK
  BY IdleType, FreeType DEF Init, TypeOK, OrderRow, TicketRow
<1> QED
  BY <1>1, TypeStep, PTL DEF Spec

-----------------------------------------------------------------------------
(* Orders and seats. *)

\* What a step owes the links between orders, seats and requests: it may give a seat
\* only to a new order, it never un-creates one, and its own next step must be linked.
LEMMA LinksKept ==
  ASSUME TypeOK, Links, NEW r \in Requests, NEW q, Become(r, q),
         OwnersOpen', Placed \subseteq Placed',
         \A s \in Seats : seat'[s].order \in Placed => seat[s].order = seat'[s].order,
         q.todo \subseteq Placed',
         q.pc \in OrderSteps => q.order \in Placed',
         q.pc \in {"sweepCancel", "cancelSet"} => \A s \in Seats : seat'[s].order # q.order
  PROVE  Links'
<1>1. \A x \in Requests : req'[x] = IF x = r THEN q ELSE req[x]
  BY DEF Become, TypeOK
<1>2. RequestsNamePlaced'
  BY <1>1 DEF Links, RequestsNamePlaced
<1>3. ASSUME NEW x \in Requests, req'[x].pc \in {"sweepCancel", "cancelSet"}
      PROVE  \A s \in Seats : seat'[s].order # req'[x].order
  <2>1. CASE x = r
    BY <1>1, <1>3, <2>1
  <2>2. CASE x # r
    <3>1. req'[x] = req[x] /\ req[x].order \in Placed
      BY <1>1, <1>3, <2>2 DEF Links, RequestsNamePlaced, OrderSteps
    <3> QED
      BY <1>3, <3>1 DEF Links, ReleasedBeforeCancelled
  <2> QED
    BY <2>1, <2>2
<1> QED
  BY <1>2, <1>3 DEF Links, ReleasedBeforeCancelled

\* A step that writes no order and no seat, and goes on with an order its request has.
LEMMA ReadLinks ==
  ASSUME TypeOK, Links, NEW r \in Requests, NEW q, Become(r, q),
         UNCHANGED <<seat, order>>,
         q.todo \subseteq Placed,
         q.pc \in OrderSteps => q.order \in Placed,
         q.pc \notin {"sweepCancel", "cancelSet"}
  PROVE  Links'
<1>1. OwnersOpen' /\ Placed' = Placed
  BY DEF Links, OwnersOpen, Placed
<1> QED
  BY <1>1, LinksKept

LEMMA FinishLinks ==
  ASSUME TypeOK, Links, NEW r \in Requests, Finish(r), OwnersOpen', Placed \subseteq Placed',
         \A s \in Seats : seat'[s].order \in Placed => seat[s].order = seat'[s].order
  PROVE  Links'
<1>1. Idle.todo = {} /\ Idle.pc = "idle"
  BY DEF Idle
<1>2. "idle" \notin OrderSteps
  BY DEF OrderSteps
<1> QED
  BY <1>1, <1>2, LinksKept DEF Finish

\* A request that starts names an order only if it exists.
LEMMA ArriveLinks == ASSUME TypeOK, Links, NEW r \in Requests, Arrive(r) PROVE Links'
<1> USE DEF OrderSteps
<1>1. ASSUME NEW pc \in Steps, NEW op, NEW want, NEW token, NEW o,
             pc \notin {"sweepCancel", "cancelSet"}, pc \in OrderSteps => o \in Placed,
             Begin(r, pc, op, want, token, o)
      PROVE  Links'
  <2> DEFINE q == [pc |-> pc, op |-> op, want |-> want, token |-> token, order |-> o,
                   todo |-> {}]
  <2>1. q.pc = pc /\ q.order = o /\ q.todo = {}
    OBVIOUS
  <2>2. Become(r, q) /\ UNCHANGED <<seat, order>>
    BY <1>1 DEF Begin
  <2> HIDE DEF q
  <2> QED
    BY <1>1, <2>1, <2>2, ReadLinks
<1>2. CASE BeginConfirm(r) \/ BeginCancel(r)
  <2>1. PICK o \in Placed : \/ Begin(r, "payRead", "confirm", {}, None, o)
                            \/ Begin(r, "cancelRead", "cancel", {}, None, o)
    BY <1>2 DEF BeginConfirm, BeginCancel
  <2> QED
    BY <1>1, <2>1 DEF Steps
<1>3. CASE BeginScan(r)
  BY <1>1, <1>3 DEF BeginScan, Steps
<1>4. CASE \E op, want, token : Begin(r, "refresh", op, want, token, None)
  BY <1>1, <1>4 DEF Steps
<1> QED
  BY <1>2, <1>3, <1>4 DEF Arrive, BeginView, BeginHold, BeginExtend, BeginCheckout, BeginSell,
     BeginMesa

\* The steps of the sweep.
LEMMA SweepLinks ==
  ASSUME TypeOK, Links, NEW r \in Requests, NEW left, Sweep(r, left), left \subseteq Placed',
         OwnersOpen', Placed \subseteq Placed',
         \A s \in Seats : seat'[s].order \in Placed => seat[s].order = seat'[s].order
  PROVE  Links'
<1> DEFINE pc == IF left = {} THEN AfterRefresh(req[r]) ELSE "sweepRelease"
           q  == [req[r] EXCEPT !.todo = left, !.order = None, !.pc = pc]
<1>1. pc \notin OrderSteps /\ pc \notin {"sweepCancel", "cancelSet"}
  BY DEF AfterRefresh, OrderSteps
<1>2. q.pc = pc /\ q.todo = left /\ Become(r, q)
  BY DEF Sweep, TypeOK, Request
<1> HIDE DEF pc, q
<1> QED
  BY <1>1, <1>2, LinksKept

\* releaseSeatsForOrder takes no seat from another order.
LEMMA ReleasedKeepsOthers ==
  ASSUME TypeOK, Links, NEW o \in Orders, seat' = SeatsReleased(o), UNCHANGED order
  PROVE  /\ OwnersOpen' /\ Placed' = Placed
         /\ \A s \in Seats : seat'[s].order # o
         /\ \A s \in Seats : seat'[s].order \in Placed => seat[s].order = seat'[s].order
<1>1. \A s \in Seats : \/ seat'[s] = seat[s] /\ seat[s].order # o
                       \/ seat'[s].order = None
  BY DEF SeatsReleased, Free, TypeOK
<1>2. None \notin Placed /\ Placed' = Placed
  BY ConcertAssumption DEF Placed
<1> QED
  BY <1>1, <1>2, ConcertAssumption DEF OwnersOpen, Links

\* An order without seats can be cancelled.
LEMMA CancelledKeepsLinks ==
  ASSUME TypeOK, Links, NEW o \in Placed, \A s \in Seats : seat[s].order # o,
         order' = OrderCancelled(o), UNCHANGED seat
  PROVE  OwnersOpen' /\ Placed' = Placed
<1>1. \A p \in Orders : order'[p].status = IF p = o THEN "CANCELLED" ELSE order[p].status
  BY DEF OrderCancelled, TypeOK, OrderRow, Placed
<1>2. \A s \in Seats : seat[s].order \in Orders \cup {None}
  BY DEF TypeOK, SeatRow
<1> QED
  BY <1>1, <1>2 DEF Placed, OwnersOpen, Links

LEMMA ContinueLinks == ASSUME TypeOK, Links, NEW r \in Requests, Continue(r) PROVE Links'
<1> DEFINE q == req[r]
           Safe(l) == l \notin OrderSteps /\ l \notin {"sweepCancel", "cancelSet"}
           Kept == /\ OwnersOpen' /\ Placed \subseteq Placed'
                   /\ \A s \in Seats : seat'[s].order \in Placed => seat[s].order = seat'[s].order
<1>a. q \in Request /\ q.todo \subseteq Placed /\ (q.pc \in OrderSteps => q.order \in Placed)
  BY DEF TypeOK, Links, RequestsNamePlaced
<1>b. ASSUME UNCHANGED <<seat, order>> PROVE Kept
  BY <1>b DEF Links, OwnersOpen, Placed
\* A step to a position that acts on no order.
<1>c. ASSUME Kept, NEW p, Become(r, p), p.todo \subseteq Placed, Safe(p.pc) PROVE Links'
  BY <1>c, LinksKept
<1>d. ASSUME NEW l, UNCHANGED <<seat, order>>, Goto(r, l),
             l \in OrderSteps => q.order \in Placed, l \notin {"sweepCancel", "cancelSet"}
      PROVE  Links'
  <2>1. LET p == [q EXCEPT !.pc = l] IN p.pc = l /\ p.todo = q.todo /\ p.order = q.order
    BY <1>a DEF Request
  <2> QED
    BY <1>a, <1>d, <2>1, ReadLinks DEF Goto
<1>e. ASSUME UNCHANGED <<seat, order>>, Finish(r) PROVE Links'
  BY <1>b, <1>e, FinishLinks
<1>1. CASE ReleaseExpiredHolds(r)
  <2>1. Kept
    BY <1>1, ConcertAssumption
       DEF ReleaseExpiredHolds, Free, Expired, Links, OwnersOpen, Placed, TypeOK, SeatRow
  <2>2. LET p == [q EXCEPT !.pc = "stale"] IN p.pc = "stale" /\ p.todo = q.todo
    BY <1>a DEF Request
  <2>3. Safe("stale")
    BY DEF OrderSteps
  <2> QED
    BY <1>1, <1>a, <1>c, <2>1, <2>2, <2>3 DEF ReleaseExpiredHolds, Goto
<1>2. CASE FindStaleOrders(r)
  <2>1. Kept /\ Placed' = Placed
    BY <1>2, <1>b DEF FindStaleOrders, Placed
  <2> QED
    BY <1>2, <2>1, SweepLinks DEF FindStaleOrders, Placed
<1>3. CASE SweepRelease(r)
  <2>1. PICK o \in q.todo : seat' = SeatsReleased(o)
                            /\ Become(r, [q EXCEPT !.pc = "sweepCancel", !.order = o])
    BY <1>3 DEF SweepRelease
  <2>2. o \in Placed /\ o \in Orders /\ UNCHANGED order
    BY <1>3, <1>a DEF SweepRelease, Placed
  <2>3. LET p == [q EXCEPT !.pc = "sweepCancel", !.order = o]
        IN p.pc = "sweepCancel" /\ p.order = o /\ p.todo = q.todo
    BY <1>a DEF Request
  <2> QED
    BY <1>a, <2>1, <2>2, <2>3, ReleasedKeepsOthers, LinksKept
<1>4. CASE SweepCancel(r)
  <2>1. q.order \in Placed /\ \A s \in Seats : seat[s].order # q.order
    BY <1>4, <1>a DEF SweepCancel, At, OrderSteps, Links, ReleasedBeforeCancelled
  <2>2. Kept /\ Placed' = Placed
    BY <1>4, <2>1, CancelledKeepsLinks DEF SweepCancel
  <2> QED
    BY <1>4, <1>a, <2>2, SweepLinks DEF SweepCancel
<1>5. CASE ExtendFind(r)
  <2>1. LET p == [q EXCEPT !.pc = "extendUpdate", !.want = LiveSeats(q.token)]
        IN p.pc = "extendUpdate" /\ p.todo = q.todo
    BY <1>a DEF Request
  <2>2. Safe("extendUpdate") /\ Safe("hold")
    BY DEF OrderSteps
  <2>3. UNCHANGED <<seat, order>>
    BY <1>5 DEF ExtendFind
  <2>4. \/ Goto(r, "extendUpdate")
        \/ Goto(r, "hold")
        \/ Finish(r)
        \/ Become(r, [q EXCEPT !.pc = "extendUpdate", !.want = LiveSeats(q.token)])
    BY <1>5 DEF ExtendFind
  <2> QED
    BY <1>a, <1>b, <1>c, <1>d, <1>e, <2>1, <2>2, <2>3, <2>4
<1>6. CASE ExtendUpdate(r)
  <2>1. Kept
    BY <1>6 DEF ExtendUpdate, Links, OwnersOpen, Placed, TypeOK, SeatRow
  <2> QED
    BY <1>6, <2>1, FinishLinks DEF ExtendUpdate
<1>7. CASE Hold(r)
  <2>0. (\A s \in Seats : seat'[s].order = seat[s].order) /\ UNCHANGED order
    <3>1. CASE Holdable(q.want)
      <4>1. PICK t : seat' = [s \in Seats |->
                       IF s \in q.want
                       THEN [status |-> "HELD", token |-> t, order |-> seat[s].order,
                             until |-> "live"]
                       ELSE seat[s]]
        BY <1>7, <3>1 DEF Hold
      <4> QED
        BY <1>7, <4>1 DEF Hold
    <3>2. CASE ~Holdable(q.want)
      BY <1>7, <3>2 DEF Hold
    <3> QED
      BY <3>1, <3>2
  <2>1. Kept
    BY <2>0 DEF Links, OwnersOpen, Placed
  <2>2. CASE Finish(r)
    BY <2>1, <2>2, FinishLinks
  <2>3. CASE \E t \in Tokens :
               Become(r, [q EXCEPT !.pc = "refresh", !.op = "sellPay", !.token = t])
    <3>1. PICK t \in Tokens :
            Become(r, [q EXCEPT !.pc = "refresh", !.op = "sellPay", !.token = t])
      BY <2>3
    <3>2. LET p == [q EXCEPT !.pc = "refresh", !.op = "sellPay", !.token = t]
          IN p.pc = "refresh" /\ p.todo = q.todo
      BY <1>a DEF Request
    <3>3. Safe("refresh")
      BY DEF OrderSteps
    <3> QED
      BY <1>a, <1>c, <2>1, <3>1, <3>2, <3>3
  <2> QED
    BY <1>7, <2>2, <2>3 DEF Hold
<1>8. CASE CheckoutFind(r)
  <2> DEFINE found == {s \in Seats : seat[s].token = q.token /\ seat[s].status = "HELD"}
  <2>1. LET p == [q EXCEPT !.pc = "checkoutTx", !.want = found]
        IN p.pc = "checkoutTx" /\ p.todo = q.todo
    BY <1>a DEF Request
  <2>2. Safe("checkoutTx")
    BY DEF OrderSteps
  <2>3. UNCHANGED <<seat, order>>
    BY <1>8 DEF CheckoutFind
  <2>4. Finish(r) \/ Become(r, [q EXCEPT !.pc = "checkoutTx", !.want = found])
    BY <1>8 DEF CheckoutFind
  <2> HIDE DEF found
  <2> QED
    BY <1>a, <1>b, <1>c, <1>e, <2>1, <2>2, <2>3, <2>4
<1>9. CASE CheckoutTx(r)
  <2>1. PICK o \in Orders :
          /\ order[o].status = "none"
          /\ order' = [order EXCEPT ![o] = [status |-> "PENDING_PAYMENT", stale |-> FALSE]]
          /\ seat' = Ordered(q.want, o)
          /\ \/ Become(r, [q EXCEPT !.pc = "payRead", !.order = o])
             \/ Finish(r)
    BY <1>9 DEF CheckoutTx
  <2>2. Placed' = Placed \cup {o} /\ o \notin Placed
    BY <2>1 DEF Placed, TypeOK
  <2>3. \A s \in Seats : \/ seat'[s] = seat[s]
                         \/ seat'[s].order = o
    BY <2>1 DEF Ordered
  <2>4. \A s \in Seats : seat[s].order # None => seat[s].order \in Placed
    BY DEF Links, OwnersOpen, TypeOK, SeatRow, Placed
  <2>5. \A p \in Orders : order'[p].status = IF p = o THEN "PENDING_PAYMENT"
                                                      ELSE order[p].status
    BY <2>1 DEF TypeOK
  <2>6. OwnersOpen'
    BY <2>2, <2>3, <2>4, <2>5 DEF Links, OwnersOpen, Placed
  <2>7. Kept
    BY <2>2, <2>3, <2>6
  <2>8. LET p == [q EXCEPT !.pc = "payRead", !.order = o]
        IN p.pc = "payRead" /\ p.todo = q.todo /\ p.order = o
    BY <1>a DEF Request
  <2>9. CASE Finish(r)
    BY <2>7, <2>9, FinishLinks
  <2>10. CASE Become(r, [q EXCEPT !.pc = "payRead", !.order = o])
    <3> DEFINE p == [q EXCEPT !.pc = "payRead", !.order = o]
    <3>1. p.pc = "payRead" /\ p.todo = q.todo /\ p.order = o /\ Become(r, p)
      BY <2>8, <2>10
    <3>2. p.todo \subseteq Placed' /\ p.order \in Placed'
      BY <1>a, <2>2, <3>1
    <3> HIDE DEF p
    <3> QED
      BY <2>7, <3>1, <3>2, LinksKept
  <2> QED
    BY <2>1, <2>9, <2>10
<1>10. CASE PayRead(r)
  <2>1. q.order \in Placed
    BY <1>10, <1>a DEF PayRead, At, OrderSteps
  <2> QED
    BY <1>10, <1>d, <1>e, <2>1 DEF PayRead
<1>11. CASE PaySeats(r)
  <2> DEFINE p == [q EXCEPT !.pc = "payTx", !.want = {s \in Seats : seat[s].order = q.order}]
  <2>1. q.order \in Placed
    BY <1>11, <1>a DEF PaySeats, At, OrderSteps
  <2>2. p.pc = "payTx" /\ p.todo = q.todo /\ p.order = q.order
    BY <1>a DEF Request
  <2>3. Become(r, p) /\ UNCHANGED <<seat, order>>
    BY <1>11 DEF PaySeats
  <2> HIDE DEF p
  <2> QED
    BY <1>a, <2>1, <2>2, <2>3, ReadLinks
<1>12. CASE PayTx(r)
  <2>1. q.order \in Placed
    BY <1>12, <1>a DEF PayTx, At, OrderSteps
  <2>2. \A s \in Seats : seat'[s].order = seat[s].order
    BY <1>12 DEF PayTx, SeatsSold, TypeOK, SeatRow
  <2>3. \A p \in Orders : order'[p].status = IF p = q.order THEN "PAID" ELSE order[p].status
    BY <1>12 DEF PayTx, OrderPaid, TypeOK, OrderRow
  <2>4. \A s \in Seats : seat[s].order \in Orders \cup {None}
    BY DEF TypeOK, SeatRow
  <2>5. Kept
    BY <2>2, <2>3, <2>4 DEF Links, OwnersOpen, Placed
  <2> QED
    BY <1>12, <2>5, FinishLinks DEF PayTx
<1>13. CASE CancelRead(r)
  <2>1. q.order \in Placed
    BY <1>13, <1>a DEF CancelRead, At, OrderSteps
  <2> QED
    BY <1>13, <1>d, <1>e, <2>1 DEF CancelRead
<1>14. CASE CancelRelease(r)
  <2>1. q.order \in Placed /\ q.order \in Orders
    BY <1>14, <1>a DEF CancelRelease, At, OrderSteps, Placed
  <2>2. LET p == [q EXCEPT !.pc = "cancelSet"]
        IN p.pc = "cancelSet" /\ p.todo = q.todo /\ p.order = q.order
    BY <1>a DEF Request
  <2> QED
    BY <1>14, <1>a, <2>1, <2>2, ReleasedKeepsOthers, LinksKept DEF CancelRelease, Goto
<1>15. CASE CancelSet(r)
  <2>1. q.order \in Placed /\ \A s \in Seats : seat[s].order # q.order
    BY <1>15, <1>a DEF CancelSet, At, OrderSteps, Links, ReleasedBeforeCancelled
  <2>2. Kept /\ Placed' = Placed
    BY <1>15, <2>1, CancelledKeepsLinks DEF CancelSet
  <2>3. LET p == [q EXCEPT !.pc = "mesaLoop", !.order = None, !.todo = @ \ {q.order}]
        IN p.pc = "mesaLoop" /\ p.todo \subseteq q.todo
    BY <1>a DEF Request
  <2>4. Safe("mesaLoop")
    BY DEF OrderSteps
  <2> QED
    BY <1>15, <1>a, <1>c, <2>2, <2>3, <2>4, FinishLinks DEF CancelSet
<1>16. CASE MesaFind(r)
  <2> DEFINE found == Unsold(q.want)
             p == [q EXCEPT !.pc = "mesaLoop", !.want = found,
                            !.todo = {seat[s].order : s \in found} \ {None}]
  <2>1. {seat[s].order : s \in found} \ {None} \subseteq Placed
    BY <1>a DEF Unsold, Request, Links, OwnersOpen, TypeOK, SeatRow, Placed
  <2>2. p.pc = "mesaLoop" /\ p.todo \subseteq Placed
    BY <1>a, <2>1 DEF Request
  <2>3. Safe("mesaLoop")
    BY DEF OrderSteps
  <2>4. Finish(r) \/ Become(r, p)
    BY <1>16 DEF MesaFind
  <2>5. UNCHANGED <<seat, order>>
    BY <1>16 DEF MesaFind
  <2> HIDE DEF p
  <2> QED
    BY <1>b, <1>c, <1>e, <2>2, <2>3, <2>4, <2>5
<1>17. CASE MesaOrder(r)
  <2>1. PICK o \in q.todo : \/ Become(r, [q EXCEPT !.pc = "release", !.order = o])
                            \/ Become(r, [q EXCEPT !.todo = @ \ {o}])
    BY <1>17 DEF MesaOrder
  <2>2. LET p == [q EXCEPT !.pc = "release", !.order = o]
        IN p.pc = "release" /\ p.todo = q.todo /\ p.order = o
    BY <1>a DEF Request
  <2>3. LET p == [q EXCEPT !.todo = @ \ {o}]
        IN p.pc = q.pc /\ p.todo \subseteq q.todo /\ p.order = q.order
    BY <1>a DEF Request
  <2>4. UNCHANGED <<seat, order>> /\ q.pc = "mesaLoop"
    BY <1>17 DEF MesaOrder, At
  <2> QED
    BY <1>a, <2>1, <2>2, <2>3, <2>4, ReadLinks
<1>18. CASE MesaRelease(r)
  <2>1. Kept
    BY <1>18, ConcertAssumption
       DEF MesaRelease, Free, Links, OwnersOpen, Placed, TypeOK, SeatRow
  <2> QED
    BY <1>18, <2>1, FinishLinks DEF MesaRelease
<1>19. CASE ScanRead(r)
  <2>1. Safe("scanUpdate")
    BY DEF OrderSteps
  <2> QED
    BY <1>19, <1>d, <1>e, <2>1 DEF ScanRead
<1>20. CASE ScanUpdate(r) \/ Answer(r)
  BY <1>20, <1>e DEF ScanUpdate, Answer
<1> QED
  BY <1>1, <1>2, <1>3, <1>4, <1>5, <1>6, <1>7, <1>8, <1>9, <1>10, <1>11, <1>12, <1>13,
     <1>14, <1>15, <1>16, <1>17, <1>18, <1>19, <1>20 DEF Continue

LEMMA LinksStep == TypeOK /\ Links /\ [Next]_vars => Links'
<1> SUFFICES ASSUME TypeOK, Links, [Next]_vars PROVE Links'
  OBVIOUS
<1>1. ASSUME NEW r \in Requests, Fail(r) PROVE Links'
  BY <1>1, FinishLinks DEF Fail, Links, OwnersOpen, Placed
<1>2. ASSUME NEW t \in Tokens, HoldExpires(t) PROVE Links'
  <2>1. \A s \in Seats : seat'[s].order = seat[s].order
    BY <1>2 DEF HoldExpires, TypeOK, SeatRow
  <2> QED
    BY <1>2, <2>1 DEF HoldExpires, Links, OwnersOpen, RequestsNamePlaced,
       ReleasedBeforeCancelled, Placed
<1>3. ASSUME NEW o \in Orders, OrderAges(o) PROVE Links'
  <2>1. \A p \in Orders : order'[p].status = order[p].status
    BY <1>3 DEF OrderAges, TypeOK, OrderRow
  <2>2. \A s \in Seats : seat[s].order \in Orders \cup {None}
    BY DEF TypeOK, SeatRow
  <2> QED
    BY <1>3, <2>1, <2>2 DEF OrderAges, Links, OwnersOpen, RequestsNamePlaced,
       ReleasedBeforeCancelled, Placed
<1>4. CASE UNCHANGED vars
  BY <1>4 DEF vars, Links, OwnersOpen, RequestsNamePlaced, ReleasedBeforeCancelled, Placed
<1> QED
  BY <1>1, <1>2, <1>3, <1>4, ArriveLinks, ContinueLinks DEF Next, Clock

\* Seats, orders and the requests in progress agree on who owns what.
THEOREM LinksHold == Spec => []Links
<1>1. Init => Links
  BY DEF Init, Links, OwnersOpen, RequestsNamePlaced, ReleasedBeforeCancelled, Free, Idle,
     OrderSteps
<1> QED
  BY <1>1, LinksStep, TypeCorrect, PTL DEF Spec

\* However sweep, cancellation, table release, checkout and payment interleave, a
\* cancelled order keeps no seat.
THEOREM CancelledOrdersOwnNothing == Spec => []CancelledOwnsNothing
<1>1. Links => CancelledOwnsNothing
  BY DEF Links, OwnersOpen, CancelledOwnsNothing
<1> QED
  BY <1>1, LinksHold, PTL

-----------------------------------------------------------------------------
(* Holds and tickets. *)

\* A request that does not renew a hold, or has the token, keeps RenewalsHaveToken.
LEMMA RenewalKept ==
  ASSUME TypeOK, RenewalsHaveToken, NEW r \in Requests, NEW q, Become(r, q),
         q.op = "extend" \/ q.pc \in {"extendFind", "extendUpdate"} => q.token # None
  PROVE  RenewalsHaveToken'
BY DEF TypeOK, Become, RenewalsHaveToken

LEMMA RenewalStep == TypeOK /\ RenewalsHaveToken /\ [Next]_vars => RenewalsHaveToken'
<1> SUFFICES ASSUME TypeOK, RenewalsHaveToken, [Next]_vars PROVE RenewalsHaveToken'
  OBVIOUS
<1> USE ConcertAssumption
<1>1. ASSUME NEW r \in Requests, Finish(r) PROVE RenewalsHaveToken'
  BY <1>1, RenewalKept DEF Finish, Idle
<1>2. ASSUME NEW r \in Requests, NEW l, Goto(r, l),
             l \notin {"extendFind", "extendUpdate"} \/ At(r, "extendFind")
      PROVE  RenewalsHaveToken'
  <2>1. LET p == [req[r] EXCEPT !.pc = l]
        IN p.pc = l /\ p.op = req[r].op /\ p.token = req[r].token
    BY DEF TypeOK, Request
  <2> QED
    BY <1>2, <2>1, RenewalKept DEF Goto, RenewalsHaveToken, At
\* A step that keeps the operation and the token, to a position that renews nothing.
<1>3. ASSUME NEW r \in Requests, NEW p, Become(r, p), p.op = req[r].op,
             p.token = req[r].token,
             p.pc \notin {"extendFind", "extendUpdate"} \/ At(r, "extendFind")
      PROVE  RenewalsHaveToken'
  BY <1>3, RenewalKept DEF RenewalsHaveToken, At
<1>4. ASSUME NEW r \in Requests, NEW left, Sweep(r, left) PROVE RenewalsHaveToken'
  <2> DEFINE pc == IF left = {} THEN AfterRefresh(req[r]) ELSE "sweepRelease"
             p  == [req[r] EXCEPT !.todo = left, !.order = None, !.pc = pc]
  <2>1. p.pc = pc /\ p.op = req[r].op /\ p.token = req[r].token
    BY DEF TypeOK, Request
  <2>2. pc \in {"extendFind", "extendUpdate"} => req[r].token # None
    BY DEF AfterRefresh, RenewalsHaveToken
  <2>3. Become(r, p)
    BY <1>4 DEF Sweep
  <2> HIDE DEF p, pc
  <2> QED
    BY <2>1, <2>2, <2>3, RenewalKept DEF RenewalsHaveToken
<1>5. ASSUME NEW r \in Requests, Arrive(r) PROVE RenewalsHaveToken'
  <2>1. ASSUME NEW pc, NEW op, NEW want, NEW token, NEW o, Begin(r, pc, op, want, token, o),
               op # "extend" \/ token # None, pc \notin {"extendFind", "extendUpdate"}
        PROVE  RenewalsHaveToken'
    <3> DEFINE q == [pc |-> pc, op |-> op, want |-> want, token |-> token, order |-> o,
                     todo |-> {}]
    <3>1. q.pc = pc /\ q.op = op /\ q.token = token
      OBVIOUS
    <3>2. Become(r, q)
      BY <2>1 DEF Begin
    <3> HIDE DEF q
    <3> QED
      BY <2>1, <3>1, <3>2, RenewalKept
  <2>2. CASE BeginExtend(r)
    <3>1. PICK t \in issued : Begin(r, "refresh", "extend", {}, t, None)
      BY <2>2 DEF BeginExtend
    <3>2. t # None
      BY DEF TypeOK
    <3> QED
      BY <2>1, <3>1, <3>2
  <2>3. CASE BeginConfirm(r) \/ BeginCancel(r) \/ BeginScan(r)
    <3>1. \/ \E o \in Placed : Begin(r, "payRead", "confirm", {}, None, o)
          \/ \E o \in Placed : Begin(r, "cancelRead", "cancel", {}, None, o)
          \/ \E s \in Seats : Begin(r, "scanRead", "scan", {s}, None, None)
      BY <2>3 DEF BeginConfirm, BeginCancel, BeginScan
    <3>2. ASSUME NEW o, \/ Begin(r, "payRead", "confirm", {}, None, o)
                        \/ Begin(r, "cancelRead", "cancel", {}, None, o)
          PROVE  RenewalsHaveToken'
      BY <2>1, <3>2
    <3>3. ASSUME NEW s \in Seats, Begin(r, "scanRead", "scan", {s}, None, None)
          PROVE  RenewalsHaveToken'
      BY <2>1, <3>3
    <3> QED
      BY <3>1, <3>2, <3>3
  <2>4. CASE BeginView(r) \/ BeginHold(r) \/ BeginCheckout(r) \/ BeginSell(r) \/ BeginMesa(r)
    BY <2>1, <2>4 DEF BeginView, BeginHold, BeginCheckout, BeginSell, BeginMesa
  <2> QED
    BY <1>5, <2>2, <2>3, <2>4 DEF Arrive
<1>6. ASSUME NEW r \in Requests, Continue(r) PROVE RenewalsHaveToken'
  <2> DEFINE q == req[r]
  <2>0. q \in Request
    BY DEF TypeOK
  <2>1. CASE ReleaseExpiredHolds(r) \/ PayRead(r) \/ CancelRead(r) \/ CancelRelease(r)
             \/ ScanRead(r)
    BY <1>1, <1>2, <2>1 DEF ReleaseExpiredHolds, PayRead, CancelRead, CancelRelease, ScanRead
  <2>2. CASE FindStaleOrders(r) \/ SweepCancel(r)
    BY <1>4, <2>2 DEF FindStaleOrders, SweepCancel
  <2>3. CASE SweepRelease(r)
    <3>1. PICK o \in q.todo : Become(r, [q EXCEPT !.pc = "sweepCancel", !.order = o])
      BY <2>3 DEF SweepRelease
    <3>2. LET p == [q EXCEPT !.pc = "sweepCancel", !.order = o]
          IN p.pc = "sweepCancel" /\ p.op = q.op /\ p.token = q.token
      BY <2>0 DEF Request
    <3> QED
      BY <1>3, <3>1, <3>2
  <2>4. CASE ExtendFind(r)
    <3>1. LET p == [q EXCEPT !.pc = "extendUpdate", !.want = LiveSeats(q.token)]
          IN p.op = q.op /\ p.token = q.token
      BY <2>0 DEF Request
    <3>2. \/ Goto(r, "extendUpdate")
          \/ Goto(r, "hold")
          \/ Finish(r)
          \/ Become(r, [q EXCEPT !.pc = "extendUpdate", !.want = LiveSeats(q.token)])
      BY <2>4 DEF ExtendFind
    <3>3. At(r, "extendFind")
      BY <2>4 DEF ExtendFind
    <3> QED
      BY <1>1, <1>2, <1>3, <3>1, <3>2, <3>3
  <2>5. CASE ExtendUpdate(r) \/ PayTx(r) \/ MesaRelease(r) \/ ScanUpdate(r) \/ Answer(r)
    BY <1>1, <2>5 DEF ExtendUpdate, PayTx, MesaRelease, ScanUpdate, Answer
  <2>6. CASE Hold(r)
    <3>1. Finish(r) \/ \E t \in Tokens :
            Become(r, [q EXCEPT !.pc = "refresh", !.op = "sellPay", !.token = t])
      BY <2>6 DEF Hold
    <3>2. ASSUME NEW t \in Tokens
          PROVE LET p == [q EXCEPT !.pc = "refresh", !.op = "sellPay", !.token = t]
                IN p.pc = "refresh" /\ p.op = "sellPay"
      BY <2>0 DEF Request
    <3> QED
      BY <1>1, <3>1, <3>2, RenewalKept
  <2>7. CASE CheckoutFind(r)
    <3> DEFINE found == {s \in Seats : seat[s].token = q.token /\ seat[s].status = "HELD"}
               p == [q EXCEPT !.pc = "checkoutTx", !.want = found]
    <3>1. p.pc = "checkoutTx" /\ p.op = q.op /\ p.token = q.token
      BY <2>0 DEF Request
    <3>2. Finish(r) \/ Become(r, p)
      BY <2>7 DEF CheckoutFind
    <3> HIDE DEF p
    <3> QED
      BY <1>1, <1>3, <3>1, <3>2
  <2>8. CASE CheckoutTx(r)
    <3>1. Finish(r) \/ \E o \in Orders : Become(r, [q EXCEPT !.pc = "payRead", !.order = o])
      BY <2>8 DEF CheckoutTx
    <3>2. ASSUME NEW o \in Orders
          PROVE LET p == [q EXCEPT !.pc = "payRead", !.order = o]
                IN p.pc = "payRead" /\ p.op = q.op /\ p.token = q.token
      BY <2>0 DEF Request
    <3> QED
      BY <1>1, <1>3, <3>1, <3>2
  <2>9. CASE PaySeats(r)
    <3> DEFINE p == [q EXCEPT !.pc = "payTx", !.want = {s \in Seats : seat[s].order = q.order}]
    <3>1. p.pc = "payTx" /\ p.op = q.op /\ p.token = q.token
      BY <2>0 DEF Request
    <3>2. Become(r, p)
      BY <2>9 DEF PaySeats
    <3> HIDE DEF p
    <3> QED
      BY <1>3, <3>1, <3>2
  <2>10. CASE CancelSet(r)
    <3> DEFINE p == [q EXCEPT !.pc = "mesaLoop", !.order = None, !.todo = @ \ {q.order}]
    <3>1. p.pc = "mesaLoop" /\ p.op = q.op /\ p.token = q.token
      BY <2>0 DEF Request
    <3>2. Finish(r) \/ Become(r, p)
      BY <2>10 DEF CancelSet
    <3> HIDE DEF p
    <3> QED
      BY <1>1, <1>3, <3>1, <3>2
  <2>11. CASE MesaFind(r)
    <3> DEFINE p == [q EXCEPT !.pc = "mesaLoop", !.want = Unsold(q.want),
                       !.todo = {seat[s].order : s \in Unsold(q.want)} \ {None}]
    <3>1. p.pc = "mesaLoop" /\ p.op = q.op /\ p.token = q.token
      BY <2>0 DEF Request
    <3>2. Finish(r) \/ Become(r, p)
      BY <2>11 DEF MesaFind
    <3> HIDE DEF p
    <3> QED
      BY <1>1, <1>3, <3>1, <3>2
  <2>12. CASE MesaOrder(r)
    <3>1. PICK o \in q.todo : \/ Become(r, [q EXCEPT !.pc = "release", !.order = o])
                              \/ Become(r, [q EXCEPT !.todo = @ \ {o}])
      BY <2>12 DEF MesaOrder
    <3>2. LET p == [q EXCEPT !.pc = "release", !.order = o]
          IN p.pc = "release" /\ p.op = q.op /\ p.token = q.token
      BY <2>0 DEF Request
    <3>3. LET p == [q EXCEPT !.todo = @ \ {o}]
          IN p.pc = q.pc /\ p.op = q.op /\ p.token = q.token
      BY <2>0 DEF Request
    <3>4. q.pc = "mesaLoop"
      BY <2>12 DEF MesaOrder, At
    <3> QED
      BY <1>3, <3>1, <3>2, <3>3, <3>4
  <2> QED
    BY <1>6, <2>1, <2>2, <2>3, <2>4, <2>5, <2>6, <2>7, <2>8, <2>9, <2>10, <2>11, <2>12
       DEF Continue
<1>7. ASSUME NEW r \in Requests, Fail(r) PROVE RenewalsHaveToken'
  BY <1>1, <1>7 DEF Fail
<1>8. CASE UNCHANGED req
  BY <1>8 DEF RenewalsHaveToken
<1> QED
  BY <1>5, <1>6, <1>7, <1>8 DEF Next, Clock, HoldExpires, OrderAges, vars

\* Each step writes the columns of a seat together or not at all.
LEMMA ShapeStep ==
  TypeOK /\ RenewalsHaveToken /\ SeatShape /\ [Next]_vars => SeatShape'
<1> SUFFICES ASSUME TypeOK, RenewalsHaveToken, SeatShape, [Next]_vars,
                    NEW s \in Seats
             PROVE  Shaped(seat'[s])
  BY DEF SeatShape
<1> USE ConcertAssumption
<1>1. Shaped(seat[s]) /\ seat[s] \in SeatRow
  BY DEF SeatShape, TypeOK
<1>2. Shaped(Free)
  BY DEF Shaped, Free
<1>3. CASE UNCHANGED seat
  BY <1>1, <1>3
\* Releases: the whole row is reset or left.
<1>4. CASE seat'[s] = Free \/ seat'[s] = seat[s]
  BY <1>1, <1>2, <1>4
<1>5. ASSUME NEW r \in Requests, Continue(r) PROVE Shaped(seat'[s])
  <2>1. CASE ReleaseExpiredHolds(r) \/ SweepRelease(r) \/ CancelRelease(r) \/ MesaRelease(r)
    BY <1>4, <2>1 DEF ReleaseExpiredHolds, SweepRelease, CancelRelease, MesaRelease,
       SeatsReleased, TypeOK
  <2>2. CASE ExtendUpdate(r)
    <3>1. req[r].token # None
      BY <2>2 DEF ExtendUpdate, At, RenewalsHaveToken
    <3>2. seat'[s] = IF seat[s].token = req[r].token
                     THEN [seat[s] EXCEPT !.until = "live"] ELSE seat[s]
      BY <2>2 DEF ExtendUpdate, TypeOK
    <3> QED
      BY <1>1, <3>1, <3>2 DEF Shaped, SeatRow
  <2>3. CASE Hold(r)
    <3>1. CASE s \in req[r].want /\ Holdable(req[r].want)
      <4>1. PICK t \in Tokens : seat'[s] = [status |-> "HELD", token |-> t,
                                            order |-> seat[s].order, until |-> "live"]
        BY <2>3, <3>1 DEF Hold
      <4>2. seat[s].order = None
        BY <1>1, <3>1 DEF Holdable, Shaped
      <4> QED
        BY <4>1, <4>2 DEF Shaped
    <3>2. CASE ~(s \in req[r].want /\ Holdable(req[r].want))
      BY <1>4, <2>3, <3>2 DEF Hold
    <3> QED
      BY <3>1, <3>2
  <2>4. CASE CheckoutTx(r)
    <3>1. PICK o \in Orders : seat' = Ordered(req[r].want, o)
      BY <2>4 DEF CheckoutTx
    <3> QED
      BY <1>1, <3>1 DEF Ordered, Shaped
  <2>5. CASE PayTx(r)
    <3>1. seat'[s] = seat[s] \/ seat'[s] = [seat[s] EXCEPT !.status = "SOLD"]
      BY <2>5 DEF PayTx, SeatsSold, TypeOK
    <3> QED
      BY <1>1, <3>1 DEF Shaped, SeatRow
  <2> QED
    BY <1>3, <1>5, <2>1, <2>2, <2>3, <2>4, <2>5 DEF Continue, FindStaleOrders, SweepCancel,
       ExtendFind, CheckoutFind, PayRead, PaySeats, CancelRead, CancelSet, MesaFind,
       MesaOrder, ScanRead, ScanUpdate, Answer
<1>6. ASSUME NEW t \in Tokens, HoldExpires(t) PROVE Shaped(seat'[s])
  <2>1. seat'[s] = seat[s] \/ (seat'[s] = [seat[s] EXCEPT !.until = "past"]
                               /\ seat[s].token = t)
    BY <1>6 DEF HoldExpires, TypeOK
  <2> QED
    BY <1>1, <2>1 DEF Shaped, SeatRow
<1>7. ASSUME NEW r \in Requests, Arrive(r) \/ Fail(r) PROVE UNCHANGED seat
  BY <1>7 DEF Arrive, Fail, Begin, BeginView, BeginHold, BeginExtend, BeginCheckout,
     BeginConfirm, BeginSell, BeginCancel, BeginMesa, BeginScan
<1> QED
  BY <1>3, <1>5, <1>6, <1>7 DEF Next, Clock, OrderAges, vars

\* The four columns of a seat agree after every step of every handler.
THEOREM SeatsKeepShape == Spec => []SeatShape
<1>1. Init => RenewalsHaveToken /\ SeatShape
  BY DEF Init, RenewalsHaveToken, SeatShape, Shaped, Free, Idle
<1> QED
  BY <1>1, RenewalStep, ShapeStep, TypeCorrect, PTL DEF Spec

\* A hold takes only seats that are AVAILABLE, so carry no token, and no other step
\* writes a token: a hold never passes to another without a release in between.
THEOREM HoldsAreNotStolen == Spec => NoHoldStolen
<1>1. TypeOK /\ SeatShape /\ [Next]_vars =>
        [\A s \in Seats : seat[s].token # None /\ seat'[s].token # None
                          => seat'[s].token = seat[s].token]_vars
  <2> SUFFICES ASSUME TypeOK, SeatShape, Next, NEW s \in Seats, seat[s].token # None,
                      seat'[s].token # None
               PROVE  seat'[s].token = seat[s].token
    OBVIOUS
  <2>1. seat[s] \in SeatRow /\ Shaped(seat[s]) /\ Free.token = None
    BY DEF TypeOK, SeatShape, Free
  <2>2. ASSUME NEW r \in Requests, Continue(r) PROVE seat'[s].token = seat[s].token
    <3>1. CASE ReleaseExpiredHolds(r) \/ SweepRelease(r) \/ CancelRelease(r) \/ MesaRelease(r)
      BY <2>1, <3>1 DEF ReleaseExpiredHolds, SweepRelease, CancelRelease, MesaRelease,
         SeatsReleased, TypeOK
    <3>2. CASE ExtendUpdate(r)
      BY <2>1, <3>2 DEF ExtendUpdate, SeatRow
    <3>3. CASE Hold(r)
      <4>1. Holdable(req[r].want) => s \notin req[r].want
        BY <2>1 DEF Holdable, Shaped
      <4> QED
        BY <3>3, <4>1 DEF Hold
    <3>4. CASE CheckoutTx(r)
      BY <3>4 DEF CheckoutTx, Ordered
    <3>5. CASE PayTx(r)
      BY <2>1, <3>5 DEF PayTx, SeatsSold, SeatRow
    <3> QED
      BY <2>2, <3>1, <3>2, <3>3, <3>4, <3>5 DEF Continue, FindStaleOrders, SweepCancel,
         ExtendFind, CheckoutFind, PayRead, PaySeats, CancelRead, CancelSet, MesaFind,
         MesaOrder, ScanRead, ScanUpdate, Answer
  <2>3. ASSUME NEW t \in Tokens, HoldExpires(t) PROVE seat'[s].token = seat[s].token
    BY <2>1, <2>3 DEF HoldExpires, SeatRow
  <2>4. ASSUME NEW r \in Requests, Arrive(r) \/ Fail(r) PROVE UNCHANGED seat
    BY <2>4 DEF Arrive, Fail, Begin, BeginView, BeginHold, BeginExtend, BeginCheckout,
       BeginConfirm, BeginSell, BeginCancel, BeginMesa, BeginScan
  <2> QED
    BY <2>2, <2>3, <2>4 DEF Next, Clock, OrderAges
<1> QED
  BY <1>1, TypeCorrect, SeatsKeepShape, PTL DEF Spec, NoHoldStolen

\* Tickets are written with the sale and with the payment of their order.
LEMMA TicketStep ==
  TypeOK /\ Links /\ SoldHasTicket /\ TicketOrderSettled /\ [Next]_vars
    => SoldHasTicket' /\ TicketOrderSettled'
<1> SUFFICES ASSUME TypeOK, Links, SoldHasTicket, TicketOrderSettled, [Next]_vars,
                    NEW s \in Seats
             PROVE  /\ seat'[s].status = "SOLD" => ticket'[s].order # None
                    /\ ticket'[s].order # None =>
                         order'[ticket'[s].order].status \in {"PAID", "CANCELLED"}
  BY DEF SoldHasTicket, TicketOrderSettled
<1> USE ConcertAssumption
<1> DEFINE Settled(o) == order[o].status \in {"PAID", "CANCELLED"}
<1>0. /\ seat[s].status = "SOLD" => ticket[s].order # None
      /\ ticket[s].order # None => ticket[s].order \in Orders /\ Settled(ticket[s].order)
  BY DEF SoldHasTicket, TicketOrderSettled, TypeOK, TicketRow
\* A step that sells nothing, writes no ticket and unsettles no order.
<1>1. ASSUME seat'[s].status = "SOLD" => seat[s].status = "SOLD",
             ticket'[s].order = ticket[s].order,
             \A o \in Orders : Settled(o) => order'[o].status \in {"PAID", "CANCELLED"}
      PROVE  /\ seat'[s].status = "SOLD" => ticket'[s].order # None
             /\ ticket'[s].order # None =>
                  order'[ticket'[s].order].status \in {"PAID", "CANCELLED"}
  BY <1>0, <1>1
<1>2. ASSUME NEW r \in Requests, Continue(r)
      PROVE  /\ seat'[s].status = "SOLD" => ticket'[s].order # None
             /\ ticket'[s].order # None =>
                  order'[ticket'[s].order].status \in {"PAID", "CANCELLED"}
  <2>1. CASE ReleaseExpiredHolds(r) \/ SweepRelease(r) \/ CancelRelease(r) \/ MesaRelease(r)
    <3>1. (seat'[s] = Free \/ seat'[s] = seat[s]) /\ UNCHANGED <<order, ticket>>
      BY <2>1 DEF ReleaseExpiredHolds, SweepRelease, CancelRelease, MesaRelease, SeatsReleased
    <3>2. Free.status = "AVAILABLE"
      BY DEF Free
    <3> QED
      BY <1>1, <3>1, <3>2
  <2>2. CASE ExtendUpdate(r)
    <3>1. seat'[s].status = seat[s].status
      BY <2>2 DEF ExtendUpdate, TypeOK, SeatRow
    <3> QED
      BY <1>1, <2>2, <3>1 DEF ExtendUpdate
  <2>3. CASE Hold(r)
    <3>1. CASE Holdable(req[r].want)
      <4>1. PICK t : seat' = [x \in Seats |->
                       IF x \in req[r].want
                       THEN [status |-> "HELD", token |-> t, order |-> seat[x].order,
                             until |-> "live"]
                       ELSE seat[x]]
        BY <2>3, <3>1 DEF Hold
      <4>2. seat'[s].status = "HELD" \/ seat'[s] = seat[s]
        BY <4>1
      <4> QED
        BY <1>1, <2>3, <4>2 DEF Hold
    <3>2. CASE ~Holdable(req[r].want)
      BY <1>1, <2>3, <3>2 DEF Hold
    <3> QED
      BY <3>1, <3>2
  <2>4. CASE CheckoutTx(r)
    <3>1. PICK o \in Orders :
            /\ order[o].status = "none"
            /\ order' = [order EXCEPT ![o] = [status |-> "PENDING_PAYMENT", stale |-> FALSE]]
            /\ seat' = Ordered(req[r].want, o)
      BY <2>4 DEF CheckoutTx
    <3>2. \A p \in Orders : p # o => order'[p] = order[p]
      BY <3>1 DEF TypeOK
    <3>3. seat'[s].status = "SOLD" => seat[s].status = "SOLD"
      BY <3>1 DEF Ordered
    <3> QED
      BY <1>1, <2>4, <3>1, <3>2, <3>3 DEF CheckoutTx
  <2>5. CASE SweepCancel(r) \/ CancelSet(r)
    <3>1. \A p \in Orders : order'[p].status = order[p].status \/ order'[p].status = "CANCELLED"
      BY <2>5 DEF SweepCancel, CancelSet, OrderCancelled, TypeOK, OrderRow
    <3> QED
      BY <1>1, <2>5, <3>1 DEF SweepCancel, CancelSet
  <2>6. CASE PayTx(r)
    <3>1. req[r].order \in Orders
      BY <2>6 DEF PayTx, At, Links, RequestsNamePlaced, OrderSteps, Placed
    <3>2. \A p \in Orders : order'[p].status = IF p = req[r].order THEN "PAID"
                                                                   ELSE order[p].status
      BY <2>6 DEF PayTx, OrderPaid, TypeOK, OrderRow
    <3>3. CASE s \in req[r].want /\ ticket[s].order = None
      <4>1. ticket'[s].order = req[r].order
        BY <2>6, <3>3 DEF PayTx, Ticketed
      <4> QED
        BY <3>1, <3>2, <4>1
    <3>4. CASE ~(s \in req[r].want /\ ticket[s].order = None)
      <4>1. ticket'[s] = ticket[s]
        BY <2>6, <3>4 DEF PayTx, Ticketed
      <4>2. ticket[s].order = None => seat'[s] = seat[s]
        BY <2>6, <3>4 DEF PayTx, SeatsSold
      <4> QED
        BY <1>0, <3>2, <4>1, <4>2
    <3> QED
      BY <3>3, <3>4
  <2>7. CASE ScanUpdate(r)
    <3>1. ticket'[s].order = ticket[s].order
      BY <2>7 DEF ScanUpdate, TypeOK, TicketRow
    <3> QED
      BY <1>1, <2>7, <3>1 DEF ScanUpdate
  <2> QED
    BY <1>1, <1>2, <2>1, <2>2, <2>3, <2>4, <2>5, <2>6, <2>7 DEF Continue, FindStaleOrders,
       ExtendFind, CheckoutFind, PayRead, PaySeats, CancelRead, MesaFind, MesaOrder,
       ScanRead, Answer
<1>3. ASSUME NEW t \in Tokens, HoldExpires(t) PROVE seat'[s].status = seat[s].status
  BY <1>3 DEF HoldExpires, TypeOK, SeatRow
<1>4. ASSUME NEW o \in Orders, OrderAges(o)
      PROVE  \A p \in Orders : order'[p].status = order[p].status
  BY <1>4 DEF OrderAges, TypeOK, OrderRow
<1>5. ASSUME NEW r \in Requests, Arrive(r) \/ Fail(r) PROVE UNCHANGED <<seat, order, ticket>>
  BY <1>5 DEF Arrive, Fail, Begin, BeginView, BeginHold, BeginExtend, BeginCheckout,
     BeginConfirm, BeginSell, BeginCancel, BeginMesa, BeginScan
<1>6. CASE Clock
  BY <1>1, <1>3, <1>4, <1>6 DEF Clock, HoldExpires, OrderAges
<1> QED
  BY <1>1, <1>2, <1>5, <1>6 DEF Next, vars

LEMMA TicketsHold == Spec => [](SoldHasTicket /\ TicketOrderSettled)
<1>1. Init => SoldHasTicket /\ TicketOrderSettled
  BY DEF Init, SoldHasTicket, TicketOrderSettled, Free
<1> QED
  BY <1>1, TicketStep, TypeCorrect, LinksHold, PTL DEF Spec

\* A seat is never SOLD without a ticket.
THEOREM SalesAreTicketed == Spec => []SoldHasTicket
BY TicketsHold, PTL

\* A ticket's order has been paid: it is PAID, or CANCELLED since.
THEOREM TicketsAreSettled == Spec => []TicketOrderSettled
BY TicketsHold, PTL

-----------------------------------------------------------------------------
(* Requests served one at a time. *)

OneAtATime == \A r, s \in Requests : r = s

\* The statement of a request writes its own locals, and the clocks write none.
LEMMA Locals ==
  ASSUME TypeOK, NEW r \in Requests, NEW q, Become(r, q)
  PROVE  req'[r] = q
BY DEF TypeOK, Become

\* Each admission marks a ticket that was unused, and nothing marks or renews it but a scan.
Scanned ==
  /\ \A s \in Seats : /\ admitted[s] = IF ticket[s].used THEN 1 ELSE 0
                      /\ ticket[s].order = None => ~ticket[s].used
  /\ \A r \in Requests : req[r].pc \in {"scanRead", "scanUpdate"} =>
       \E s \in Seats : req[r].want = {s} /\ ticket[s].order # None
  /\ \A r \in Requests : At(r, "scanUpdate") => \A s \in req[r].want : ~ticket[s].used

\* A step that reads or admits nobody, and leaves tickets used and unused as they were.
LEMMA NobodyAdmitted ==
  ASSUME Scanned, OneAtATime, UNCHANGED <<ticket, admitted>>,
         \A r \in Requests : req'[r] = req[r] \/ req'[r].pc \notin {"scanRead", "scanUpdate"}
  PROVE  Scanned'
BY DEF Scanned, At

\* The steps that only follow what a request has just read or freed.
Critical == {"scanRead", "scanUpdate", "checkoutTx", "sweepCancel", "cancelSet"}

\* The steps that lead to them.
LEMMA Leads ==
  ASSUME TypeOK, NEW r \in Requests, Arrive(r) \/ Continue(r) \/ Fail(r)
  PROVE  \/ req'[r].pc \notin Critical
         \/ req'[r].pc \in {"scanRead", "scanUpdate"} /\ (BeginScan(r) \/ ScanRead(r))
         \/ req'[r].pc = "checkoutTx" /\ CheckoutFind(r)
         \/ req'[r].pc \in {"sweepCancel", "cancelSet"} /\ (SweepRelease(r) \/ CancelRelease(r))
<1>0. PICK q \in Request : q = req[r]
  BY DEF TypeOK
<1>1. Finish(r) => req'[r].pc \notin Critical
  BY Locals DEF Finish, Idle, Critical
<1>2. ASSUME NEW pc, pc \notin Critical, Goto(r, pc)
      PROVE  req'[r].pc \notin Critical
  <2>1. req'[r] = [q EXCEPT !.pc = pc]
    BY <1>0, <1>2, Locals DEF Goto
  <2> QED
    BY <1>2, <2>1 DEF Request
<1>3. CASE Arrive(r)
  <2>1. ASSUME NEW pc, NEW op, NEW want, NEW token, NEW o, Begin(r, pc, op, want, token, o)
        PROVE  req'[r].pc = pc
    BY <2>1, Locals DEF Begin
  <2> QED
    BY <1>3, <2>1 DEF Arrive, BeginView, BeginHold, BeginExtend, BeginCheckout, BeginConfirm,
       BeginSell, BeginCancel, BeginMesa, BeginScan, Critical
<1>4. CASE FindStaleOrders(r) \/ SweepCancel(r)
  <2>1. PICK left : Sweep(r, left)
    BY <1>4 DEF FindStaleOrders, SweepCancel
  <2>2. PICK pc : pc = IF left = {} THEN AfterRefresh(q) ELSE "sweepRelease"
    OBVIOUS
  <2>3. pc \notin Critical
    BY <2>2 DEF AfterRefresh, Critical
  <2>4. req'[r] = [q EXCEPT !.todo = left, !.order = None, !.pc = pc]
    BY <1>0, <2>1, <2>2, Locals DEF Sweep
  <2> QED
    BY <2>3, <2>4 DEF Request
<1>5. CASE SweepRelease(r) \/ CancelRelease(r)
  <2>1. \/ \E o : req'[r] = [q EXCEPT !.pc = "sweepCancel", !.order = o]
        \/ req'[r] = [q EXCEPT !.pc = "cancelSet"]
    BY <1>0, <1>5, Locals DEF SweepRelease, CancelRelease, Goto
  <2> QED
    BY <1>5, <2>1 DEF Request
<1>6. CASE CheckoutFind(r)
  <2>1. Finish(r) \/ \E want : req'[r] = [q EXCEPT !.pc = "checkoutTx", !.want = want]
    BY <1>0, <1>6, Locals DEF CheckoutFind
  <2> QED
    BY <1>1, <1>6, <2>1 DEF Request
<1>7. CASE ScanRead(r)
  <2>1. Finish(r) \/ req'[r] = [q EXCEPT !.pc = "scanUpdate"]
    BY <1>0, <1>7, Locals DEF ScanRead, Goto
  <2> QED
    BY <1>1, <1>7, <2>1 DEF Request
<1>8. CASE CheckoutTx(r) \/ MesaOrder(r)
  <2>1. \/ Finish(r)
        \/ \E o : \/ req'[r] = [q EXCEPT !.pc = "payRead", !.order = o]
                  \/ req'[r] = [q EXCEPT !.pc = "release", !.order = o]
                  \/ q.pc = "mesaLoop" /\ req'[r] = [q EXCEPT !.todo = @ \ {o}]
    BY <1>0, <1>8, Locals DEF CheckoutTx, MesaOrder, At
  <2> QED
    BY <1>1, <2>1 DEF Request, Critical
<1>9. CASE ExtendFind(r) \/ PaySeats(r) \/ MesaFind(r) \/ CancelSet(r) \/ Hold(r)
  <2>1. \/ Finish(r) \/ Goto(r, "hold") \/ Goto(r, "extendUpdate")
        \/ \E want, todo, t :
             \/ req'[r] = [q EXCEPT !.pc = "extendUpdate", !.want = want]
             \/ req'[r] = [q EXCEPT !.pc = "payTx", !.want = want]
             \/ req'[r] = [q EXCEPT !.pc = "mesaLoop", !.want = want, !.todo = todo]
             \/ req'[r] = [q EXCEPT !.pc = "mesaLoop", !.order = None, !.todo = @ \ {q.order}]
             \/ req'[r] = [q EXCEPT !.pc = "refresh", !.op = "sellPay", !.token = t]
    BY <1>0, <1>9, Locals DEF ExtendFind, PaySeats, MesaFind, CancelSet, Hold
  <2> QED
    BY <1>1, <1>2, <2>1 DEF Request, Critical
<1>10. CASE \/ ReleaseExpiredHolds(r) \/ ExtendUpdate(r) \/ PayRead(r) \/ PayTx(r)
            \/ CancelRead(r) \/ MesaRelease(r) \/ ScanUpdate(r) \/ Answer(r) \/ Fail(r)
  <2>1. Finish(r) \/ Goto(r, "stale") \/ Goto(r, "paySeats") \/ Goto(r, "release")
    BY <1>10 DEF ReleaseExpiredHolds, ExtendUpdate, PayRead, PayTx, CancelRead,
       MesaRelease, ScanUpdate, Answer, Fail
  <2> QED
    BY <1>1, <1>2, <2>1 DEF Critical
<1> QED
  BY <1>3, <1>4, <1>5, <1>6, <1>7, <1>8, <1>9, <1>10 DEF Continue

\* Only these steps lead to the door.
LEMMA OthersDoNotScan ==
  ASSUME TypeOK, NEW r \in Requests, Arrive(r) \/ Continue(r) \/ Fail(r),
         ~BeginScan(r), ~ScanRead(r)
  PROVE  req'[r].pc \notin {"scanRead", "scanUpdate"}
BY Leads DEF Critical

\* Every step of one request at a time keeps the tickets admitted used, and admitted once.
LEMMA ScannedStep ==
  ASSUME OneAtATime, TypeOK, Scanned, [Next]_vars
  PROVE  Scanned'
<1>1. CASE Clock \/ UNCHANGED vars
  <2>1. UNCHANGED <<ticket, admitted, req>>
    BY <1>1 DEF Clock, HoldExpires, OrderAges, vars
  <2> QED
    BY <2>1, NobodyAdmitted
<1>2. ASSUME NEW r \in Requests, Arrive(r) \/ Continue(r) \/ Fail(r) PROVE Scanned'
  <2>0. \A q \in Requests : q = r
    BY DEF OneAtATime
  <2>a. PICK q \in Request : q = req[r]
    BY DEF TypeOK
  <2>1. CASE BeginScan(r)
    <3>1. PICK s \in Seats : ticket[s].order # None /\ Begin(r, "scanRead", "scan", {s}, None, None)
      BY <2>1 DEF BeginScan
    <3>2. req'[r].pc = "scanRead" /\ req'[r].want = {s} /\ UNCHANGED <<ticket, admitted>>
      BY <3>1, Locals DEF Begin
    <3> QED
      BY <2>0, <3>1, <3>2 DEF Scanned, At
  <2>2. CASE ScanRead(r)
    <3>1. UNCHANGED <<ticket, admitted>> /\ q.pc = "scanRead"
      BY <2>2, <2>a DEF ScanRead, At
    <3>2. CASE Finish(r)
      <4>1. req'[r].pc = "idle"
        BY <3>2, Locals DEF Finish, Idle
      <4> QED
        BY <2>0, <3>1, <4>1, NobodyAdmitted
    <3>3. CASE Goto(r, "scanUpdate") /\ \E s \in q.want : ~ticket[s].used
      <4>0. PICK s \in Seats : q.want = {s} /\ ticket[s].order # None
        BY <2>a, <3>1 DEF Scanned
      <4>1. req'[r] = [q EXCEPT !.pc = "scanUpdate"]
        BY <2>a, <3>3, Locals DEF Goto
      <4>2. req'[r].pc = "scanUpdate" /\ req'[r].want = q.want
        BY <4>1 DEF Request
      <4> QED
        BY <2>0, <3>1, <3>3, <4>0, <4>2 DEF Scanned, At
    <3> QED
      BY <2>2, <2>a, <3>2, <3>3 DEF ScanRead, Admits
  <2>3. CASE ScanUpdate(r)
    <3>1. q.pc = "scanUpdate" /\ \A s \in q.want : ticket[s].order # None /\ ~ticket[s].used
      BY <2>3, <2>a DEF ScanUpdate, At, Scanned
    <3>2. req'[r].pc = "idle"
      BY <2>3, Locals DEF ScanUpdate, Finish, Idle
    <3>3. ASSUME NEW s \in Seats
          PROVE  /\ admitted'[s] = IF ticket'[s].used THEN 1 ELSE 0
                 /\ ticket'[s].order = None => ~ticket'[s].used
      <4>1. ticket[s] \in TicketRow /\ admitted[s] = (IF ticket[s].used THEN 1 ELSE 0)
            /\ (ticket[s].order = None => ~ticket[s].used)
        BY DEF TypeOK, Scanned
      <4>2. CASE s \in q.want
        <5>1. ticket'[s] = [ticket[s] EXCEPT !.used = TRUE] /\ admitted'[s] = admitted[s] + 1
          BY <2>3, <2>a, <4>2 DEF ScanUpdate
        <5>2. ticket'[s].used /\ ticket'[s].order = ticket[s].order
          BY <4>1, <5>1 DEF TicketRow
        <5> QED
          BY <3>1, <4>1, <4>2, <5>1, <5>2
      <4>3. CASE s \notin q.want
        <5>1. ticket'[s] = ticket[s] /\ admitted'[s] = admitted[s]
          BY <2>3, <2>a, <4>3 DEF ScanUpdate
        <5> QED
          BY <4>1, <5>1
      <4> QED
        BY <4>2, <4>3
    <3> QED
      BY <2>0, <3>2, <3>3 DEF Scanned, At
  <2>4. CASE PayTx(r)
    <3>1. req'[r].pc = "idle" /\ admitted' = admitted
      BY <2>4, Locals DEF PayTx, Finish, Idle
    <3>2. ASSUME NEW s \in Seats
          PROVE  /\ admitted[s] = IF ticket'[s].used THEN 1 ELSE 0
                 /\ ticket'[s].order = None => ~ticket'[s].used
      <4>1. admitted[s] = (IF ticket[s].used THEN 1 ELSE 0)
            /\ (ticket[s].order = None => ~ticket[s].used)
        BY DEF Scanned
      <4>2. \/ ticket'[s] = ticket[s]
            \/ ticket[s].order = None /\ ticket'[s] = [order |-> req[r].order, used |-> FALSE]
        BY <2>4 DEF PayTx, Ticketed
      <4> QED
        BY <4>1, <4>2
    <3> QED
      BY <2>0, <3>1, <3>2 DEF Scanned, At
  <2>5. CASE ~BeginScan(r) /\ ~ScanRead(r) /\ ~ScanUpdate(r) /\ ~PayTx(r)
    <3>1. UNCHANGED <<ticket, admitted>>
      BY <1>2, <2>5 DEF Arrive, Continue, Fail, Begin, BeginView, BeginHold, BeginExtend,
         BeginCheckout, BeginConfirm, BeginSell, BeginCancel, BeginMesa, ReleaseExpiredHolds,
         FindStaleOrders, SweepRelease, SweepCancel, ExtendFind, ExtendUpdate, Hold,
         CheckoutFind, CheckoutTx, PayRead, PaySeats, CancelRead, CancelRelease, CancelSet,
         MesaFind, MesaOrder, MesaRelease, Answer
    <3>2. req'[r].pc \notin {"scanRead", "scanUpdate"}
      BY <1>2, <2>5, OthersDoNotScan
    <3> QED
      BY <2>0, <3>1, <3>2, NobodyAdmitted
  <2> QED
    BY <2>1, <2>2, <2>3, <2>4, <2>5
<1> QED
  BY <1>1, <1>2 DEF Next

\* A ticket admits one person when no two scans overlap, whatever is cancelled, swept, sold
\* again or dies between two scans.
THEOREM TicketsAdmitOnce ==
  ASSUME OneAtATime
  PROVE  Spec => []SingleAdmission
<1>1. Init => Scanned
  BY DEF Init, Scanned, Idle, At
<1>2. TypeOK /\ Scanned /\ [Next]_vars => Scanned'
  BY ScannedStep
<1>3. Scanned => SingleAdmission
  <2> SUFFICES ASSUME Scanned, NEW s \in Seats PROVE admitted[s] <= 1
    BY DEF SingleAdmission
  <2>1. admitted[s] = 0 \/ admitted[s] = 1
    BY DEF Scanned
  <2> QED
    BY <2>1
<1> QED
  BY <1>1, <1>2, <1>3, TypeCorrect, PTL DEF Spec

-----------------------------------------------------------------------------
(* What the organiser's panel shows. *)

\* The seats sold are the seats of the paid orders.
PaidFor(s) ==
  seat[s].status = "SOLD" <=> seat[s].order # None /\ order[seat[s].order].status = "PAID"

Matched == \A s \in Seats : PaidFor(s)

\* What the request in progress has read is still so; only clocks have ticked since.
Reads(q) ==
  /\ q.pc \in {"refresh", "stale", "sweepRelease", "sweepCancel"} /\ AfterRefresh(q) = "checkoutFind"
       => q.token # None
  /\ q.pc = "checkoutFind" => q.token # None
  /\ q.pc = "checkoutTx" => q.want # {} /\ \A s \in q.want : seat[s].order = None
  /\ q.pc \in {"paySeats", "payTx"} => order[q.order].status = "PENDING_PAYMENT"
  /\ q.pc = "payTx" => q.want = Owned(q.order)
  /\ q.pc = "cancelRead" => q.op # "mesa"
  /\ q.pc = "mesaLoop" \/ (q.op = "mesa" /\ q.pc \in {"release", "cancelSet"}) =>
       \A s \in q.want : seat[s].status # "SOLD" /\ seat[s].order \in q.todo \cup {None}

\* The open orders have seats, but for the one being cancelled.
Seated == \A o \in Orders :
  order[o].status \in {"PENDING_PAYMENT", "PAID"} => Owned(o) # {} \/ Cancelling(o)

\* Steps at which a request has read nothing it will rely on.
Careless == {"idle", "hold", "extendFind", "extendUpdate", "payRead", "mesaFind", "scanRead",
             "scanUpdate", "answer"}

\* A request at a step that relies on nothing has read enough.
LEMMA CarelessReads ==
  ASSUME NEW q, q.pc \in Careless
  PROVE  Reads(q) /\ Reads(q)'
BY DEF Reads, Careless

\* What a request read stays true while seats and orders keep their status.
LEMMA ReadsStay ==
  ASSUME TypeOK, NEW q \in Request, Reads(q),
         \A s \in Seats : seat'[s].status = seat[s].status /\ seat'[s].order = seat[s].order,
         \A o \in Orders : order'[o].status = order[o].status,
         q.pc \in {"paySeats", "payTx"} => q.order \in Orders
  PROVE  Reads(q)'
<1>1. \A o : Owned(o)' = Owned(o)
  BY DEF Owned
<1>2. q.want \subseteq Seats
  BY DEF Request
<1> QED
  BY <1>1, <1>2 DEF Reads, AfterRefresh

\* A request that has only arrived has read nothing.
LEMMA ArriveReads ==
  ASSUME TypeOK, NEW r \in Requests, Arrive(r), NEW x, x = req'[r]
  PROVE  Reads(x)'
<1> USE ConcertAssumption
<1>1. ASSUME NEW pc, NEW op, NEW want, NEW token, NEW o, Begin(r, pc, op, want, token, o)
      PROVE  x.pc = pc /\ x.op = op /\ x.token = token
  BY <1>1, Locals DEF Begin
<1>2. CASE BeginConfirm(r) \/ BeginScan(r)
  <2>1. x.pc \in Careless
    BY <1>1, <1>2 DEF BeginConfirm, BeginScan, Careless
  <2> QED
    BY <2>1, CarelessReads
<1>3. CASE BeginCancel(r)
  <2>1. x.pc = "cancelRead" /\ x.op = "cancel"
    BY <1>1, <1>3 DEF BeginCancel
  <2> QED
    BY <2>1 DEF Reads
<1>4. CASE BeginCheckout(r)
  <2>1. PICK t \in issued : Begin(r, "refresh", "checkout", {}, t, None)
    BY <1>4 DEF BeginCheckout
  <2>2. x.pc = "refresh" /\ x.token # None
    BY <1>1, <2>1 DEF TypeOK
  <2> QED
    BY <2>2 DEF Reads
<1>5. CASE BeginView(r) \/ BeginHold(r) \/ BeginExtend(r) \/ BeginSell(r) \/ BeginMesa(r)
  <2>1. x.pc = "refresh" /\ x.op \in {"view", "hold", "extend", "sell", "mesa"}
    BY <1>1, <1>5 DEF BeginView, BeginHold, BeginExtend, BeginSell, BeginMesa
  <2>2. AfterRefresh(x) # "checkoutFind"
    BY <2>1 DEF AfterRefresh
  <2> QED
    BY <2>1, <2>2 DEF Reads
<1> QED
  BY <1>2, <1>3, <1>4, <1>5 DEF Arrive

\* A sweep that goes on, or is over.
LEMMA SweepReads ==
  ASSUME TypeOK, NEW r \in Requests, NEW left, Sweep(r, left), NEW x, x = req'[r],
         NEW q \in Request, q = req[r], q.pc \in {"stale", "sweepCancel"}, Reads(q)
  PROVE  Reads(x)'
<1>1. PICK pc : pc = IF left = {} THEN AfterRefresh(q) ELSE "sweepRelease"
  OBVIOUS
<1>2. x = [q EXCEPT !.todo = left, !.order = None, !.pc = pc]
  BY <1>1, Locals DEF Sweep
<1>3. x.pc = pc /\ x.op = q.op /\ x.token = q.token
  BY <1>2 DEF Request
<1>4. CASE left # {}
  <2>1. x.pc = "sweepRelease" /\ (AfterRefresh(x) = "checkoutFind" => x.token # None)
    BY <1>1, <1>3, <1>4 DEF AfterRefresh, Reads
  <2> QED
    BY <2>1 DEF Reads
<1>5. CASE left = {} /\ pc # "checkoutFind"
  <2>1. x.pc \in Careless
    BY <1>1, <1>3, <1>5 DEF AfterRefresh, Careless
  <2> QED
    BY <2>1, CarelessReads
<1>6. CASE left = {} /\ pc = "checkoutFind"
  <2>1. x.pc = "checkoutFind" /\ x.token # None
    BY <1>1, <1>3, <1>6 DEF Reads
  <2> QED
    BY <2>1 DEF Reads
<1> QED
  BY <1>4, <1>5, <1>6

\* What a request that goes on knows of what it has read, and of what it has just written.
LEMMA ContinueReads ==
  ASSUME TypeOK, Links, SeatShape, Matched, NEW r \in Requests, Continue(r), Reads(req[r]),
         NEW x, x = req'[r]
  PROVE  Reads(x)'
<1> USE ConcertAssumption
<1>0. PICK q \in Request : q = req[r] /\ Reads(q)
  BY DEF TypeOK
<1>R. \A s \in Seats : seat[s] \in SeatRow /\ Shaped(seat[s])
  BY DEF TypeOK, SeatShape
<1>F. Finish(r) => Reads(x)'
  <2>1. Finish(r) => x.pc \in Careless
    BY Locals DEF Finish, Idle, Careless
  <2> QED
    BY <2>1, CarelessReads
<1>G. ASSUME NEW pc \in Careless, Goto(r, pc) PROVE Reads(x)'
  <2>1. x = [q EXCEPT !.pc = pc]
    BY <1>0, <1>G, Locals DEF Goto
  <2>2. x.pc \in Careless
    BY <2>1 DEF Request
  <2> QED
    BY <2>2, CarelessReads
<1>1. CASE ReleaseExpiredHolds(r)
  <2>1. x = [q EXCEPT !.pc = "stale"] /\ q.pc = "refresh"
    BY <1>0, <1>1, Locals DEF ReleaseExpiredHolds, Goto, At
  <2>2. x.pc = "stale" /\ x.op = q.op /\ x.token = q.token
    BY <2>1 DEF Request
  <2>3. AfterRefresh(x) = "checkoutFind" => x.token # None
    BY <1>0, <2>1, <2>2 DEF Reads, AfterRefresh
  <2> QED
    BY <2>2, <2>3 DEF Reads
<1>2. CASE FindStaleOrders(r) \/ SweepCancel(r)
  <2>1. (\E left : Sweep(r, left)) /\ q.pc \in {"stale", "sweepCancel"}
    BY <1>0, <1>2 DEF FindStaleOrders, SweepCancel, At
  <2> QED
    BY <1>0, <2>1, SweepReads
<1>3. CASE SweepRelease(r)
  <2>1. PICK o : x = [q EXCEPT !.pc = "sweepCancel", !.order = o]
    BY <1>0, <1>3, Locals DEF SweepRelease
  <2>2. x.pc = "sweepCancel" /\ x.op = q.op /\ x.token = q.token /\ q.pc = "sweepRelease"
    BY <1>0, <1>3, <2>1 DEF Request, SweepRelease, At
  <2>3. AfterRefresh(x) = "checkoutFind" => x.token # None
    BY <1>0, <2>2 DEF Reads, AfterRefresh
  <2> QED
    BY <2>2, <2>3 DEF Reads
<1>4. CASE ExtendFind(r)
  <2>1. ASSUME x = [q EXCEPT !.pc = "extendUpdate", !.want = LiveSeats(q.token)] PROVE Reads(x)'
    <3>1. x.pc \in Careless
      BY <2>1 DEF Request, Careless
    <3> QED
      BY <3>1, CarelessReads
  <2>2. \/ Goto(r, "hold") \/ Goto(r, "extendUpdate") \/ Finish(r)
        \/ x = [q EXCEPT !.pc = "extendUpdate", !.want = LiveSeats(q.token)]
    BY <1>0, <1>4, Locals DEF ExtendFind
  <2> QED
    BY <1>F, <1>G, <2>1, <2>2 DEF Careless
<1>5. CASE Hold(r)
  <2>1. ASSUME NEW t \in Tokens, Become(r, [req[r] EXCEPT !.pc = "refresh", !.op = "sellPay", !.token = t])
        PROVE  Reads(x)'
    <3>1. x = [q EXCEPT !.pc = "refresh", !.op = "sellPay", !.token = t]
      BY <1>0, <2>1, Locals
    <3>2. x.pc = "refresh" /\ x.token # None
      BY <3>1 DEF Request
    <3> QED
      BY <3>2 DEF Reads
  <2> QED
    BY <1>5, <1>F, <2>1 DEF Hold
<1>6. CASE CheckoutFind(r)
  <2>1. q.pc = "checkoutFind" /\ seat' = seat
    BY <1>0, <1>6 DEF CheckoutFind, At
  <2>2. q.token # None
    BY <1>0, <2>1 DEF Reads
  <2>3. PICK found : found = {s \in Seats : seat[s].token = q.token /\ seat[s].status = "HELD"}
    OBVIOUS
  <2>4. \A s \in found : s \in Seats /\ seat[s].order = None
    BY <1>R, <2>2, <2>3 DEF Shaped
  <2>5. CASE found # {} /\ x = [q EXCEPT !.pc = "checkoutTx", !.want = found]
    <3>1. x.pc = "checkoutTx" /\ x.want = found
      BY <2>5 DEF Request
    <3> QED
      BY <2>1, <2>4, <2>5, <3>1 DEF Reads
  <2> QED
    BY <1>0, <1>6, <1>F, <2>3, <2>5, Locals DEF CheckoutFind
<1>7. CASE CheckoutTx(r)
  <2>1. ASSUME NEW o, Become(r, [req[r] EXCEPT !.pc = "payRead", !.order = o]) PROVE Reads(x)'
    <3>1. x = [q EXCEPT !.pc = "payRead", !.order = o]
      BY <1>0, <2>1, Locals
    <3>2. x.pc \in Careless
      BY <3>1 DEF Request, Careless
    <3> QED
      BY <3>2, CarelessReads
  <2> QED
    BY <1>7, <1>F, <2>1 DEF CheckoutTx
<1>8. CASE PayRead(r)
  <2>1. CASE order[q.order].status = "PENDING_PAYMENT"
    <3>1. x = [q EXCEPT !.pc = "paySeats"] /\ order' = order
      BY <1>0, <1>8, <2>1, Locals DEF PayRead, Goto
    <3>2. x.pc = "paySeats" /\ x.order = q.order
      BY <3>1 DEF Request
    <3> QED
      BY <2>1, <3>1, <3>2 DEF Reads
  <2>2. CASE order[q.order].status # "PENDING_PAYMENT"
    BY <1>0, <1>8, <1>F, <2>2 DEF PayRead
  <2> QED
    BY <2>1, <2>2
<1>9. CASE PaySeats(r)
  <2>1. x = [q EXCEPT !.pc = "payTx", !.want = Owned(q.order)] /\ UNCHANGED <<seat, order>>
    BY <1>0, <1>9, Locals DEF PaySeats, Owned
  <2>2. x.pc = "payTx" /\ x.order = q.order /\ x.want = Owned(q.order)
    BY <2>1 DEF Request
  <2>3. order[q.order].status = "PENDING_PAYMENT"
    BY <1>0, <1>9 DEF PaySeats, At, Reads
  <2>4. Owned(x.order)' = Owned(q.order)
    BY <2>1, <2>2 DEF Owned
  <2> QED
    BY <2>1, <2>2, <2>3, <2>4 DEF Reads
<1>10. CASE CancelRead(r)
  <2>1. CASE Goto(r, "release")
    <3>1. x = [q EXCEPT !.pc = "release"] /\ q.op # "mesa"
      BY <1>0, <1>10, <2>1, Locals DEF CancelRead, At, Goto, Reads
    <3>2. x.pc = "release" /\ x.op # "mesa"
      BY <3>1 DEF Request
    <3> QED
      BY <3>2 DEF Reads
  <2> QED
    BY <1>10, <1>F, <2>1 DEF CancelRead
<1>11. CASE CancelRelease(r)
  <2>1. x = [q EXCEPT !.pc = "cancelSet"] /\ q.pc = "release" /\ seat' = SeatsReleased(q.order)
    BY <1>0, <1>11, Locals DEF CancelRelease, Goto, At
  <2>2. x.pc = "cancelSet" /\ x.op = q.op /\ x.want = q.want /\ x.todo = q.todo
        /\ q.want \subseteq Seats
    BY <2>1 DEF Request
  <2>3. ASSUME q.op = "mesa", NEW s \in q.want
        PROVE  seat'[s].status # "SOLD" /\ seat'[s].order \in q.todo \cup {None}
    <3>1. seat[s].status # "SOLD" /\ seat[s].order \in q.todo \cup {None}
      BY <1>0, <2>1, <2>3 DEF Reads
    <3>2. seat'[s] = seat[s] \/ seat'[s] = Free
      BY <2>1, <2>2, <2>3 DEF SeatsReleased
    <3> QED
      BY <3>1, <3>2 DEF Free
  <2> QED
    BY <2>2, <2>3 DEF Reads
<1>12. CASE CancelSet(r)
  <2>1. q.pc = "cancelSet" /\ seat' = seat /\ \A s \in Seats : seat[s].order # q.order
    BY <1>0, <1>12 DEF CancelSet, At, Links, ReleasedBeforeCancelled
  <2>2. CASE q.op = "mesa"
    <3>1. x = [q EXCEPT !.pc = "mesaLoop", !.order = None, !.todo = @ \ {q.order}]
      BY <1>0, <1>12, <2>2, Locals DEF CancelSet
    <3>2. x.pc = "mesaLoop" /\ x.want = q.want /\ x.todo = q.todo \ {q.order}
          /\ q.want \subseteq Seats
      BY <3>1 DEF Request
    <3>3. \A s \in q.want : seat[s].status # "SOLD" /\ seat[s].order \in q.todo \cup {None}
      BY <1>0, <2>1, <2>2 DEF Reads
    <3>4. \A s \in x.want : seat'[s].status # "SOLD" /\ seat'[s].order \in x.todo \cup {None}
      BY <2>1, <3>2, <3>3
    <3> QED
      BY <3>2, <3>4 DEF Reads
  <2>3. CASE q.op # "mesa"
    BY <1>0, <1>12, <1>F, <2>3 DEF CancelSet
  <2> QED
    BY <2>2, <2>3
<1>13. CASE MesaFind(r)
  <2>1. PICK found, todo : /\ found = Unsold(q.want)
                           /\ todo = {seat[s].order : s \in found} \ {None}
    OBVIOUS
  <2>2. seat' = seat /\ \A s \in found : seat[s].status # "SOLD" /\ seat[s].order \in todo \cup {None}
    BY <1>13, <2>1 DEF MesaFind, Unsold
  <2>3. CASE x = [q EXCEPT !.pc = "mesaLoop", !.want = found, !.todo = todo]
    <3>1. x.pc = "mesaLoop" /\ x.want = found /\ x.todo = todo
      BY <2>3 DEF Request
    <3> QED
      BY <2>2, <3>1 DEF Reads
  <2> QED
    BY <1>0, <1>13, <1>F, <2>1, <2>3, Locals DEF MesaFind
<1>14. CASE MesaOrder(r)
  <2>1. PICK o \in q.todo :
          IF order[o].status = "PENDING_PAYMENT"
          THEN Become(r, [q EXCEPT !.pc = "release", !.order = o])
          ELSE Become(r, [q EXCEPT !.todo = @ \ {o}])
    BY <1>0, <1>14 DEF MesaOrder
  <2>2. /\ q.pc = "mesaLoop" /\ seat' = seat /\ q.want \subseteq Seats
        /\ \A s \in q.want : seat[s].status # "SOLD" /\ seat[s].order \in q.todo \cup {None}
    BY <1>0, <1>14 DEF MesaOrder, At, Reads, Request
  <2>3. CASE order[o].status = "PENDING_PAYMENT"
    <3>1. x = [q EXCEPT !.pc = "release", !.order = o]
      BY <2>1, <2>3, Locals
    <3>2. x.pc = "release" /\ x.want = q.want /\ x.todo = q.todo
      BY <3>1 DEF Request
    <3> QED
      BY <2>2, <3>2 DEF Reads
  <2>4. CASE order[o].status # "PENDING_PAYMENT"
    <3>1. x = [q EXCEPT !.todo = @ \ {o}]
      BY <2>1, <2>4, Locals
    <3>2. x.pc = "mesaLoop" /\ x.want = q.want /\ x.todo = q.todo \ {o}
      BY <2>2, <3>1 DEF Request
    <3>3. ASSUME NEW s \in q.want PROVE seat[s].order # o
      <4>1. s \in Seats /\ PaidFor(s) /\ seat[s].status # "SOLD"
        BY <2>2, <3>3 DEF Matched
      <4>2. seat[s].order = None \/ order[seat[s].order].status = "PENDING_PAYMENT"
        BY <4>1 DEF Links, OwnersOpen, PaidFor
      <4>3. o # None
        BY DEF Request
      <4> QED
        BY <2>4, <4>2, <4>3
    <3> QED
      BY <2>2, <3>2, <3>3 DEF Reads
  <2> QED
    BY <2>3, <2>4
<1>15. CASE ExtendUpdate(r) \/ PayTx(r) \/ MesaRelease(r) \/ ScanUpdate(r) \/ Answer(r)
  BY <1>15, <1>F DEF ExtendUpdate, PayTx, MesaRelease, ScanUpdate, Answer
<1>16. CASE ScanRead(r)
  BY <1>16, <1>F, <1>G DEF ScanRead, Careless
<1> QED
  BY <1>1, <1>2, <1>3, <1>4, <1>5, <1>6, <1>7, <1>8, <1>9, <1>10, <1>11, <1>12, <1>13, <1>14,
     <1>15, <1>16 DEF Continue

\* The clocks touch deadlines and ages only.
LEMMA ClockKeeps ==
  ASSUME TypeOK, Clock
  PROVE  /\ \A s \in Seats : seat'[s].status = seat[s].status /\ seat'[s].order = seat[s].order
         /\ \A o \in Orders : order'[o].status = order[o].status
         /\ req' = req
<1>1. ASSUME NEW t, HoldExpires(t)
      PROVE  \A s \in Seats : seat'[s].status = seat[s].status /\ seat'[s].order = seat[s].order
  BY <1>1 DEF HoldExpires, TypeOK, SeatRow
<1>2. ASSUME NEW o \in Orders, OrderAges(o) PROVE \A p \in Orders : order'[p].status = order[p].status
  BY <1>2 DEF OrderAges, TypeOK, OrderRow
<1> QED
  BY <1>1, <1>2 DEF Clock, HoldExpires, OrderAges

\* One request at a time goes by what the tables still say.
LEMMA ReadsStep ==
  ASSUME OneAtATime, TypeOK, Links, SeatShape, Matched, \A r \in Requests : Reads(req[r]), [Next]_vars
  PROVE  (\A r \in Requests : Reads(req[r]))'
<1>1. SUFFICES ASSUME NEW r \in Requests, NEW x, x = req'[r] PROVE Reads(x)'
  OBVIOUS
<1>2. PICK q \in Request : q = req[r] /\ Reads(q)
  BY DEF TypeOK
<1>3. CASE Clock \/ UNCHANGED vars
  <2>1. /\ \A s \in Seats : seat'[s].status = seat[s].status /\ seat'[s].order = seat[s].order
        /\ \A o \in Orders : order'[o].status = order[o].status
        /\ x = q
    BY <1>1, <1>2, <1>3, ClockKeeps DEF vars
  <2>2. q.pc \in {"paySeats", "payTx"} => q.order \in Orders
    BY <1>2 DEF Links, RequestsNamePlaced, OrderSteps, Placed
  <2> QED
    BY <1>2, <2>1, <2>2, ReadsStay
<1>4. ASSUME Arrive(r) PROVE Reads(x)'
  BY <1>1, <1>4, ArriveReads
<1>5. ASSUME Continue(r) PROVE Reads(x)'
  BY <1>1, <1>5, ContinueReads
<1>6. ASSUME Fail(r) PROVE Reads(x)'
  <2>1. x.pc \in Careless
    BY <1>1, <1>6, Locals DEF Fail, Finish, Idle, Careless
  <2> QED
    BY <2>1, CarelessReads
<1> QED
  BY <1>3, <1>4, <1>5, <1>6 DEF Next, OneAtATime

\* A seat that keeps its owner, of the same status, or that becomes free.
LEMMA PaidForStays ==
  ASSUME NEW s \in Seats, PaidFor(s), seat'[s].status = seat[s].status,
         seat'[s].order = seat[s].order,
         seat[s].order # None => order'[seat[s].order].status = order[seat[s].order].status
  PROVE  PaidFor(s)'
BY DEF PaidFor

\* A seat that is freed is nobody's.
LEMMA FreeIsUnpaid ==
  ASSUME NEW s \in Seats, seat'[s] = Free
  PROVE  PaidFor(s)'
BY DEF PaidFor, Free

\* Orders are paid with their seats, and lose them before they are cancelled, even when the
\* process dies in between.
LEMMA MatchedStep ==
  ASSUME OneAtATime, TypeOK, Links, SeatShape, Matched, \A r \in Requests : Reads(req[r]), [Next]_vars
  PROVE  Matched'
<1> USE ConcertAssumption
<1> SUFFICES ASSUME NEW s \in Seats PROVE PaidFor(s)'
  BY DEF Matched
<1>1. /\ seat[s] \in SeatRow /\ Shaped(seat[s]) /\ PaidFor(s)
      /\ seat[s].order # None => /\ seat[s].order \in Orders
                                 /\ order[seat[s].order].status \in {"PENDING_PAYMENT", "PAID"}
  BY DEF TypeOK, SeatShape, Matched, Links, OwnersOpen, SeatRow
<1>2. CASE Clock \/ UNCHANGED vars
  <2>1. /\ seat'[s].status = seat[s].status /\ seat'[s].order = seat[s].order
        /\ \A o \in Orders : order'[o].status = order[o].status
    BY <1>2, ClockKeeps DEF vars
  <2> QED
    BY <1>1, <2>1, PaidForStays
<1>3. ASSUME seat'[s] = seat[s], order' = order PROVE PaidFor(s)'
  BY <1>1, <1>3, PaidForStays
<1>4. ASSUME NEW r \in Requests, Arrive(r) \/ Fail(r) PROVE PaidFor(s)'
  <2>1. UNCHANGED <<seat, order>>
    BY <1>4 DEF Arrive, Fail, Begin, BeginView, BeginHold, BeginExtend, BeginCheckout,
       BeginConfirm, BeginSell, BeginCancel, BeginMesa, BeginScan
  <2> QED
    BY <1>3, <2>1
<1>5. ASSUME NEW r \in Requests, Continue(r) PROVE PaidFor(s)'
  <2>0. PICK q \in Request : q = req[r] /\ Reads(q)
    BY DEF TypeOK
  <2>1. CASE ReleaseExpiredHolds(r) \/ SweepRelease(r) \/ CancelRelease(r) \/ MesaRelease(r)
    <3>1. (seat'[s] = Free \/ seat'[s] = seat[s]) /\ order' = order
      BY <2>1 DEF ReleaseExpiredHolds, SweepRelease, CancelRelease, MesaRelease, SeatsReleased
    <3> QED
      BY <1>3, <3>1, FreeIsUnpaid
  <2>2. CASE ExtendUpdate(r)
    <3>1. seat'[s].status = seat[s].status /\ seat'[s].order = seat[s].order /\ order' = order
      BY <1>1, <2>2 DEF ExtendUpdate, SeatRow
    <3> QED
      BY <1>1, <3>1, PaidForStays
  <2>3. CASE Hold(r)
    <3>1. CASE Holdable(q.want) /\ s \in q.want
      <4>1. seat'[s].status = "HELD" /\ seat'[s].order = seat[s].order
        <5>1. PICK t : seat'[s] = [status |-> "HELD", token |-> t, order |-> seat[s].order,
                                   until |-> "live"]
          BY <2>0, <2>3, <3>1 DEF Hold
        <5> QED
          BY <5>1
      <4>2. seat[s].order = None
        BY <1>1, <3>1 DEF Holdable, Shaped
      <4> QED
        BY <4>1, <4>2 DEF PaidFor
    <3>2. CASE ~(Holdable(q.want) /\ s \in q.want)
      <4>1. seat'[s] = seat[s] /\ order' = order
        BY <2>0, <2>3, <3>2 DEF Hold
      <4> QED
        BY <1>3, <4>1
    <3> QED
      BY <3>1, <3>2
  <2>4. CASE CheckoutTx(r)
    <3>1. PICK o \in Orders :
            /\ order[o].status = "none"
            /\ order' = [order EXCEPT ![o] = [status |-> "PENDING_PAYMENT", stale |-> FALSE]]
            /\ seat' = Ordered(q.want, o)
      BY <2>0, <2>4 DEF CheckoutTx
    <3>2. CASE s \in q.want
      <4>1. seat'[s].status = "HELD" /\ seat'[s].order = o /\ order'[o].status = "PENDING_PAYMENT"
        BY <3>1, <3>2 DEF Ordered, TypeOK
      <4> QED
        BY <4>1 DEF PaidFor
    <3>3. CASE s \notin q.want
      <4>1. seat'[s] = seat[s]
        BY <3>1, <3>3 DEF Ordered
      <4>2. seat[s].order # None => order'[seat[s].order] = order[seat[s].order]
        BY <1>1, <3>1 DEF TypeOK
      <4> QED
        BY <1>1, <4>1, <4>2, PaidForStays
    <3> QED
      BY <3>2, <3>3
  <2>5. CASE SweepCancel(r) \/ CancelSet(r)
    <3>1. seat' = seat /\ order' = [order EXCEPT ![q.order].status = "CANCELLED"]
          /\ seat[s].order # q.order
      BY <2>0, <2>5 DEF SweepCancel, CancelSet, OrderCancelled, At, Links, ReleasedBeforeCancelled
    <3>2. seat[s].order # None => order'[seat[s].order] = order[seat[s].order]
      BY <1>1, <3>1 DEF TypeOK
    <3> QED
      BY <1>1, <3>1, <3>2, PaidForStays
  <2>6. CASE PayTx(r)
    <3>1. /\ q.pc = "payTx" /\ order' = [order EXCEPT ![q.order].status = "PAID"]
          /\ seat' = [x \in Seats |-> IF x \in q.want THEN [seat[x] EXCEPT !.status = "SOLD"]
                                                      ELSE seat[x]]
      BY <2>0, <2>6 DEF PayTx, At, OrderPaid, SeatsSold
    <3>2. q.want = Owned(q.order) /\ q.order \in Orders
      BY <2>0, <3>1 DEF Reads, Links, RequestsNamePlaced, OrderSteps, Placed
    <3>3. order'[q.order].status = "PAID"
      BY <3>1, <3>2 DEF TypeOK, OrderRow
    <3>4. CASE s \in q.want
      <4>1. seat[s].order = q.order /\ q.order # None
        BY <3>2, <3>4 DEF Owned
      <4>2. seat'[s].status = "SOLD" /\ seat'[s].order = seat[s].order
        BY <1>1, <3>1, <3>4 DEF SeatRow
      <4> QED
        BY <3>3, <4>1, <4>2 DEF PaidFor
    <3>5. CASE s \notin q.want
      <4>1. seat'[s] = seat[s] /\ seat[s].order # q.order
        BY <3>1, <3>2, <3>5 DEF Owned
      <4>2. seat[s].order # None => order'[seat[s].order] = order[seat[s].order]
        BY <1>1, <3>1, <4>1 DEF TypeOK
      <4> QED
        BY <1>1, <4>1, <4>2, PaidForStays
    <3> QED
      BY <3>4, <3>5
  <2> QED
    BY <1>3, <1>5, <2>1, <2>2, <2>3, <2>4, <2>5, <2>6 DEF Continue, FindStaleOrders, ExtendFind,
       CheckoutFind, PayRead, PaySeats, CancelRead, MesaFind, MesaOrder, ScanRead, ScanUpdate,
       Answer
<1> QED
  BY <1>2, <1>4, <1>5 DEF Next

\* What a request relies on, and the sales it relies on it for.
Alone == TypeOK /\ Links /\ SeatShape /\ Matched /\ \A r \in Requests : Reads(req[r])

\* One request at a time is well typed, finds seats and payments matched and knows what it read.
LEMMA AlwaysAlone == ASSUME OneAtATime PROVE Spec => []Alone
<1>1. Init => Matched /\ \A r \in Requests : Reads(req[r])
  <2> SUFFICES ASSUME Init PROVE Matched /\ \A r \in Requests : Reads(req[r])
    OBVIOUS
  <2>1. Matched
    BY DEF Init, Matched, PaidFor, Free
  <2>2. \A r \in Requests : req[r].pc \in Careless
    BY DEF Init, Idle, Careless
  <2> QED
    BY <2>1, <2>2, CarelessReads
<1>2. /\ TypeOK /\ Links /\ SeatShape /\ Matched /\ (\A r \in Requests : Reads(req[r])) /\ [Next]_vars
      => Matched' /\ (\A r \in Requests : Reads(req[r]))'
  BY MatchedStep, ReadsStep
<1>3. Spec => [](TypeOK /\ Links /\ SeatShape)
  BY TypeCorrect, LinksHold, SeatsKeepShape, PTL
<1> QED
  BY <1>1, <1>2, <1>3, PTL DEF Spec, Alone

\* The process stays up: no order is left between the release of its seats and its status.

\* A step of a request that is not cancelling, which leaves every seat to its owner and opens
\* no order.
LEMMA SeatedStays ==
  ASSUME OneAtATime, Seated, NEW r \in Requests, req[r].pc \notin {"cancelSet", "sweepCancel"},
         \A s \in Seats : seat'[s].order = seat[s].order,
         \A o \in Orders : order'[o].status \in {"PENDING_PAYMENT", "PAID"} =>
                             order[o].status \in {"PENDING_PAYMENT", "PAID"}
  PROVE  Seated'
<1>1. \A o : Owned(o)' = Owned(o)
  BY DEF Owned
<1>2. \A o : ~Cancelling(o)
  BY DEF Cancelling, OneAtATime
<1> QED
  BY <1>1, <1>2 DEF Seated

\* Without failures, the seats of a paid order stay sold after every step of one request at a time.
LEMMA SeatedStep ==
  ASSUME OneAtATime, Alone, Seated, [ReliableNext]_vars
  PROVE  Seated'
<1> USE ConcertAssumption
<1>1. CASE Clock \/ UNCHANGED vars
  <2>1. /\ \A s \in Seats : seat'[s].order = seat[s].order
        /\ \A o \in Orders : order'[o].status = order[o].status
        /\ req' = req
    BY <1>1, ClockKeeps DEF vars, Alone
  <2>2. \A o : Owned(o)' = Owned(o) /\ Cancelling(o)' = Cancelling(o)
    BY <2>1 DEF Owned, Cancelling
  <2> QED
    BY <2>1, <2>2 DEF Seated
<1>2. ASSUME NEW r \in Requests, Arrive(r) PROVE Seated'
  <2>1. UNCHANGED <<seat, order>> /\ req[r].pc = "idle"
    BY <1>2 DEF Arrive, At, Begin, BeginView, BeginHold, BeginExtend, BeginCheckout,
       BeginConfirm, BeginSell, BeginCancel, BeginMesa, BeginScan
  <2> QED
    BY <2>1, SeatedStays
<1>3. ASSUME NEW r \in Requests, Continue(r) PROVE Seated'
  <2>0. PICK q \in Request : q = req[r] /\ Reads(q)
    BY DEF TypeOK, Alone
  <2>R. \A s \in Seats : seat[s] \in SeatRow /\ Shaped(seat[s])
    BY DEF TypeOK, SeatShape, Alone
  <2>1. CASE SweepRelease(r) \/ CancelRelease(r)
    <3>1. PICK o : /\ seat' = SeatsReleased(o) /\ order' = order
                   /\ \/ req'[r] = [q EXCEPT !.pc = "sweepCancel", !.order = o]
                      \/ req'[r] = [q EXCEPT !.pc = "cancelSet"] /\ o = q.order
      BY <2>0, <2>1, Locals DEF SweepRelease, CancelRelease, Goto, Alone
    <3>2. req'[r].pc \in {"cancelSet", "sweepCancel"} /\ req'[r].order = o
      BY <3>1 DEF Request
    <3>3. Cancelling(o)'
      BY <3>2 DEF Cancelling
    <3>4. \A p \in Orders : ~Cancelling(p)
      BY <2>1 DEF Cancelling, OneAtATime, SweepRelease, CancelRelease, At
    <3>5. ASSUME NEW p \in Orders, p # o PROVE Owned(p)' = Owned(p)
      <4>1. \A s \in Seats : seat'[s].order = p <=> seat[s].order = p
        BY <3>1, <3>5 DEF SeatsReleased, Free
      <4> QED
        BY <4>1 DEF Owned
    <3> QED
      BY <3>1, <3>3, <3>4, <3>5 DEF Seated
  <2>2. CASE SweepCancel(r) \/ CancelSet(r)
    <3>1. seat' = seat /\ order' = [order EXCEPT ![q.order].status = "CANCELLED"]
      BY <2>0, <2>2 DEF SweepCancel, CancelSet, OrderCancelled
    <3>2. ASSUME NEW o \in Orders, order'[o].status \in {"PENDING_PAYMENT", "PAID"}
          PROVE  Owned(o)' # {}
      <4>1. order[o] \in OrderRow /\ order'[o] = (IF o = q.order THEN [order[o] EXCEPT !.status = "CANCELLED"] ELSE order[o])
        BY <3>1 DEF Alone, TypeOK
      <4>2. o # q.order
        BY <3>2, <4>1 DEF OrderRow
      <4>3. ~Cancelling(o)
        BY <2>0, <4>2 DEF Cancelling, OneAtATime
      <4>4. Owned(o) # {}
        BY <3>2, <4>1, <4>2, <4>3 DEF Seated
      <4>5. Owned(o)' = Owned(o)
        BY <3>1 DEF Owned
      <4> QED
        BY <4>4, <4>5
    <3> QED
      BY <3>2 DEF Seated
  <2>3. CASE CheckoutTx(r)
    <3>1. PICK o \in Orders :
            /\ order' = [order EXCEPT ![o] = [status |-> "PENDING_PAYMENT", stale |-> FALSE]]
            /\ seat' = Ordered(q.want, o)
      BY <2>0, <2>3 DEF CheckoutTx
    <3>2. q.want # {} /\ q.want \subseteq Seats /\ \A s \in q.want : seat[s].order = None
      BY <2>0, <2>3 DEF CheckoutTx, At, Reads, Request
    <3>3. \A s \in Seats : seat'[s].order = IF s \in q.want THEN o ELSE seat[s].order
      BY <3>1 DEF Ordered
    <3>4. Owned(o)' # {}
      BY <3>2, <3>3 DEF Owned
    <3>5. ASSUME NEW p \in Orders, p # o PROVE order'[p] = order[p] /\ Owned(p)' = Owned(p)
      <4>1. order'[p] = order[p]
        BY <3>1, <3>5 DEF Alone, TypeOK
      <4>2. \A s \in Seats : seat'[s].order = p <=> seat[s].order = p
        BY <3>2, <3>3, <3>5
      <4> QED
        BY <4>1, <4>2 DEF Owned
    <3>6. \A p \in Orders : ~Cancelling(p)
      BY <2>3 DEF Cancelling, OneAtATime, CheckoutTx, At
    <3> QED
      BY <3>4, <3>5, <3>6 DEF Seated
  <2>4. CASE PayTx(r)
    <3>1. /\ q.pc = "payTx" /\ order' = [order EXCEPT ![q.order].status = "PAID"]
          /\ seat' = [x \in Seats |-> IF x \in q.want THEN [seat[x] EXCEPT !.status = "SOLD"]
                                                      ELSE seat[x]]
      BY <2>0, <2>4 DEF PayTx, At, OrderPaid, SeatsSold
    <3>2. \A s \in Seats : seat'[s].order = seat[s].order
      BY <2>R, <3>1 DEF SeatRow
    <3>3. order[q.order].status = "PENDING_PAYMENT"
      BY <2>0, <3>1 DEF Reads
    <3>4. \A o \in Orders : o # q.order => order'[o] = order[o]
      BY <3>1 DEF Alone, TypeOK
    <3> QED
      BY <2>0, <3>1, <3>2, <3>3, <3>4, SeatedStays
  <2>5. CASE ReleaseExpiredHolds(r) \/ ExtendUpdate(r) \/ Hold(r) \/ MesaRelease(r)
    <3>1. order' = order /\ req[r].pc \notin {"cancelSet", "sweepCancel"}
      BY <2>5 DEF ReleaseExpiredHolds, ExtendUpdate, Hold, MesaRelease, At
    <3>2. ASSUME NEW s \in Seats PROVE seat'[s].order = seat[s].order
      <4>1. CASE ReleaseExpiredHolds(r)
        BY <4>1 DEF ReleaseExpiredHolds, Expired, Free
      <4>2. CASE ExtendUpdate(r)
        BY <2>R, <4>2 DEF ExtendUpdate, SeatRow
      <4>3. CASE Hold(r)
        <5>1. CASE seat'[s] # seat[s]
          <6>1. PICK t : seat'[s] = [status |-> "HELD", token |-> t, order |-> seat[s].order,
                                     until |-> "live"]
            BY <4>3, <5>1 DEF Hold
          <6> QED
            BY <6>1
        <5> QED
          BY <5>1
      <4>4. CASE MesaRelease(r)
        <5>1. q.pc = "mesaLoop" /\ q.todo = {} /\ (seat'[s] = seat[s] \/ (s \in q.want /\ seat'[s] = Free))
          BY <2>0, <4>4 DEF MesaRelease, At, Unsold
        <5>2. s \in q.want => seat[s].order = None
          BY <2>0, <5>1 DEF Reads
        <5> QED
          BY <5>1, <5>2 DEF Free
      <4> QED
        BY <2>5, <4>1, <4>2, <4>3, <4>4
    <3> QED
      BY <3>1, <3>2, SeatedStays
  <2>6. CASE UNCHANGED <<seat, order>> /\ req[r].pc \notin {"cancelSet", "sweepCancel"}
    BY <2>6, SeatedStays
  <2> QED
    BY <1>3, <2>1, <2>2, <2>3, <2>4, <2>5, <2>6 DEF Continue, At, FindStaleOrders, ExtendFind,
       CheckoutFind, PayRead, PaySeats, CancelRead, MesaFind, MesaOrder, ScanRead, ScanUpdate,
       Answer
<1> QED
  BY <1>1, <1>2, <1>3 DEF ReliableNext

\* With one request at a time, and a process that stays up, the seats sold are those of the paid
\* orders between requests, and no open order is without seats, for any hall and any number of
\* holds, orders, sweeps, payments and cancellations.
THEOREM PanelAgreesWithPayments ==
  ASSUME OneAtATime
  PROVE  FairSpec => []SoldMatchesPaid
<1>1. [ReliableNext]_vars => [Next]_vars
  BY DEF ReliableNext, Next
<1>2. FairSpec => Spec
  BY <1>1, PTL DEF FairSpec, Spec
<1>3. Init => Seated
  BY DEF Init, Seated
<1>4. Alone /\ Seated /\ [ReliableNext]_vars => Seated'
  BY SeatedStep
<1>5. Alone /\ Seated => SoldMatchesPaid
  <2> SUFFICES ASSUME Alone, Seated, Quiet
               PROVE  /\ \A s \in Seats : PaidFor(s)
                      /\ \A o \in Orders : order[o].status \in {"PENDING_PAYMENT", "PAID"} =>
                                             Owned(o) # {}
    BY DEF SoldMatchesPaid, PaidFor
  <2>1. \A o \in Orders : ~Cancelling(o)
    BY DEF Quiet, At, Cancelling
  <2> QED
    BY <2>1 DEF Alone, Matched, Seated
<1> QED
  BY <1>2, <1>3, <1>4, <1>5, AlwaysAlone, PTL DEF FairSpec


-----------------------------------------------------------------------------
(* The box office as the sales it makes. *)

\* What a seat and an order say to whom leaves deadlines and age out.
View(row) == [status |-> row.status, token |-> row.token, order |-> row.order]
Claim == [s \in Seats |-> View(seat[s])]
State == [o \in Orders |-> IF Cancelling(o) THEN "CANCELLED" ELSE order[o].status]

\* Holds have tokens that were issued, and a checkout has read the whole of its hold.
Whole ==
  /\ \A s \in Seats : seat[s].token # None => seat[s].token \in issued
  /\ \A r \in Requests : At(r, "checkoutTx") =>
       req[r].token # None /\ req[r].want = {s \in Seats : seat[s].token = req[r].token}

\* A step that issues no token and starts no checkout.
LEMMA WholeStays ==
  ASSUME OneAtATime, Whole, issued' = issued,
         \A s \in Seats : seat'[s].token \in {seat[s].token, None},
         \A r \in Requests : req'[r].pc # "checkoutTx"
  PROVE  Whole'
BY DEF Whole, At

\* What the clocks change is no part of a hold but its deadline.
LEMMA ClockKeepsTokens ==
  ASSUME TypeOK, Clock, NEW s \in Seats
  PROVE  seat'[s].token = seat[s].token
<1>1. ASSUME NEW t, HoldExpires(t) PROVE seat'[s].token = seat[s].token
  BY <1>1 DEF HoldExpires, TypeOK, SeatRow
<1> QED
  BY <1>1 DEF Clock, OrderAges

\* The tokens of the seats change where they are held, and where they are given up.
LEMMA TokensGivenUp ==
  ASSUME TypeOK, NEW r \in Requests, Arrive(r) \/ Continue(r) \/ Fail(r), ~Hold(r), NEW s \in Seats
  PROVE  seat'[s].token \in {seat[s].token, None}
<1>0. seat[s] \in SeatRow
  BY DEF TypeOK
<1>1. CASE Arrive(r) \/ Fail(r)
  BY <1>1 DEF Arrive, Fail, Begin, BeginView, BeginHold, BeginExtend, BeginCheckout,
     BeginConfirm, BeginSell, BeginCancel, BeginMesa, BeginScan
<1>2. CASE ReleaseExpiredHolds(r) \/ SweepRelease(r) \/ CancelRelease(r) \/ MesaRelease(r)
  <2>1. seat'[s] = seat[s] \/ seat'[s] = Free
    BY <1>2 DEF ReleaseExpiredHolds, SweepRelease, CancelRelease, MesaRelease, SeatsReleased
  <2> QED
    BY <2>1 DEF Free
<1>3. CASE CheckoutTx(r)
  <2>1. PICK o : seat' = Ordered(req[r].want, o)
    BY <1>3 DEF CheckoutTx
  <2> QED
    BY <2>1 DEF Ordered
<1>4. CASE ExtendUpdate(r)
  BY <1>0, <1>4 DEF ExtendUpdate, SeatRow
<1>5. CASE PayTx(r)
  BY <1>0, <1>5 DEF PayTx, SeatsSold, SeatRow
<1>6. CASE seat' = seat
  BY <1>6
<1> QED
  BY <1>1, <1>2, <1>3, <1>4, <1>5, <1>6 DEF Continue, FindStaleOrders, SweepCancel, ExtendFind,
     CheckoutFind, PayRead, PaySeats, CancelRead, CancelSet, MesaFind, MesaOrder, ScanRead,
     ScanUpdate, Answer

\* Every step of one request at a time keeps holds issued and checkouts whole.
LEMMA WholeStep ==
  ASSUME OneAtATime, Alone, Whole, [Next]_vars
  PROVE  Whole'
<1>0. TypeOK
  BY DEF Alone
<1>1. CASE Clock \/ UNCHANGED vars
  <2>1. /\ \A s \in Seats : seat'[s].token = seat[s].token
        /\ issued' = issued /\ req' = req
    BY <1>0, <1>1, ClockKeepsTokens DEF Clock, HoldExpires, OrderAges, vars
  <2> QED
    BY <2>1 DEF Whole, At
<1>2. ASSUME NEW r \in Requests, Arrive(r) \/ Continue(r) \/ Fail(r), ~Hold(r), ~CheckoutFind(r)
      PROVE  Whole'
  <2>1. issued' = issued
    BY <1>2 DEF Arrive, Fail, Begin, BeginView, BeginHold, BeginExtend, BeginCheckout,
       BeginConfirm, BeginSell, BeginCancel, BeginMesa, BeginScan, Continue, ReleaseExpiredHolds,
       SweepRelease, CancelRelease, MesaRelease, CheckoutTx, ExtendUpdate, PayTx,
       FindStaleOrders, SweepCancel, ExtendFind, PayRead, PaySeats, CancelRead, CancelSet,
       MesaFind, MesaOrder, ScanRead, ScanUpdate, Answer
  <2>2. req'[r].pc # "checkoutTx"
    BY <1>0, <1>2, Leads DEF Critical
  <2> QED
    BY <1>0, <1>2, <2>1, <2>2, TokensGivenUp, WholeStays DEF OneAtATime
<1>3. ASSUME NEW r \in Requests, Hold(r) PROVE Whole'
  <2>1. req'[r].pc # "checkoutTx"
    BY <1>0, <1>3, Leads DEF Critical, Continue, Hold, CheckoutFind, At
  <2>2. CASE issued' = issued /\ seat' = seat
    BY <2>1, <2>2, WholeStays DEF OneAtATime
  <2>3. CASE ~(issued' = issued /\ seat' = seat)
    <3>1. PICK t \in Tokens \ issued :
            /\ issued' = issued \cup {t}
            /\ seat' = [s \in Seats |->
                 IF s \in req[r].want
                 THEN [status |-> "HELD", token |-> t, order |-> seat[s].order, until |-> "live"]
                 ELSE seat[s]]
      BY <1>3, <2>3 DEF Hold
    <3>2. \A s \in Seats : seat'[s] = seat[s] \/ seat'[s].token = t
      BY <3>1
    <3> QED
      BY <2>1, <3>1, <3>2 DEF Whole, At, OneAtATime
  <2> QED
    BY <2>2, <2>3
<1>4. ASSUME NEW r \in Requests, CheckoutFind(r) PROVE Whole'
  <2>0. PICK q \in Request : q = req[r] /\ Reads(q) /\ q.pc = "checkoutFind"
    BY <1>0, <1>4 DEF TypeOK, Alone, CheckoutFind, At
  <2>1. q.token # None /\ issued' = issued /\ seat' = seat
    BY <1>4, <2>0 DEF CheckoutFind, Reads
  <2>2. CASE req'[r].pc # "checkoutTx"
    BY <2>1, <2>2, WholeStays DEF OneAtATime
  <2>3. CASE req'[r].pc = "checkoutTx"
    <3>1. PICK found : /\ found = {s \in Seats : seat[s].token = q.token /\ seat[s].status = "HELD"}
                       /\ Finish(r) \/ req'[r] = [q EXCEPT !.pc = "checkoutTx", !.want = found]
      BY <1>0, <1>4, <2>0, Locals DEF CheckoutFind
    <3>2. req'[r] = [q EXCEPT !.pc = "checkoutTx", !.want = found]
      BY <1>0, <2>3, <3>1, Locals DEF Finish, Idle
    <3>3. req'[r].token = q.token /\ req'[r].want = found
      BY <3>2 DEF Request
    <3>4. \A s \in Seats : seat[s].token = q.token => seat[s].status = "HELD"
      <4> SUFFICES ASSUME NEW s \in Seats, seat[s].token = q.token PROVE seat[s].status = "HELD"
        OBVIOUS
      <4>1. seat[s].order = None /\ seat[s].status # "AVAILABLE"
        BY <2>1 DEF Alone, SeatShape, Shaped
      <4>2. seat[s].status # "SOLD"
        BY <4>1 DEF Alone, Matched, PaidFor
      <4> QED
        BY <1>0, <4>1, <4>2 DEF TypeOK, SeatRow
    <3>5. found = {s \in Seats : seat[s].token = q.token}
      BY <3>1, <3>4
    <3> QED
      BY <2>1, <3>3, <3>5 DEF Whole, At, OneAtATime
  <2> QED
    BY <2>2, <2>3
<1> QED
  BY <1>1, <1>2, <1>3, <1>4 DEF Next

\* A step that moves no seat and turns no order moves no sale.
LEMMA SalesStay ==
  ASSUME \A s \in Seats : View(seat'[s]) = View(seat[s]),
         \A o \in Orders : (IF Cancelling(o)' THEN "CANCELLED" ELSE order'[o].status)
                            = IF Cancelling(o) THEN "CANCELLED" ELSE order[o].status
  PROVE  UNCHANGED Sales!sales
<1>1. Claim' = Claim /\ State' = State
  BY DEF Claim, State
<1> QED
  BY <1>1 DEF Sales!sales, Claim, State, View

\* A step gives some seats to a new owner.
LEMMA Gives ==
  ASSUME NEW S, NEW to, \A s \in Seats : View(seat'[s]) = IF s \in S THEN to ELSE View(seat[s])
  PROVE  Sales!Give(S, to)
<1>1. Claim' = [s \in Seats |-> IF s \in S THEN to ELSE Claim[s]]
  BY DEF Claim
<1> QED
  BY <1>1 DEF Sales!Give, Claim, View

\* A step turns an order, when none is being cancelled that was not, or is not any more.
LEMMA Turns ==
  ASSUME NEW o \in Orders, NEW status,
         \A p \in Orders : (IF Cancelling(p)' THEN "CANCELLED" ELSE order'[p].status)
           = IF p = o THEN status ELSE IF Cancelling(p) THEN "CANCELLED" ELSE order[p].status
  PROVE  Sales!Turn(o, status)
<1>1. State' = [State EXCEPT ![o] = status]
  BY DEF State
<1> QED
  BY <1>1 DEF Sales!Turn, State

\* The seats of an order, and of a hold, are those of the tables.
LEMMA ViewedSeats ==
  ASSUME NEW t, NEW o
  PROVE  Sales!SeatsOf(o) = Owned(o) /\ Sales!HeldBy(t) = {s \in Seats : seat[s].token = t}
BY DEF Sales!SeatsOf, Sales!HeldBy, Owned

\* What a step leaves, but for a cancellation between its two statements.
LEMMA NoneCancelling ==
  ASSUME OneAtATime, TypeOK, NEW r \in Requests, Arrive(r) \/ Continue(r),
         ~SweepRelease(r), ~CancelRelease(r)
  PROVE  \A o \in Orders : ~Cancelling(o)'
<1>1. req'[r].pc \notin {"sweepCancel", "cancelSet"}
  BY Leads DEF Critical
<1> QED
  BY <1>1 DEF Cancelling, OneAtATime

\* An order whose seats are freed is cancelled at once, whole.
LEMMA ReleaseCancels ==
  ASSUME OneAtATime, Alone, Seated, NEW r \in Requests, SweepRelease(r) \/ CancelRelease(r)
  PROVE  (\E o \in Orders : Sales!Cancel(o)) \/ UNCHANGED Sales!sales
<1>0. PICK q \in Request : q = req[r]
  BY DEF TypeOK, Alone
<1>1. PICK o : /\ seat' = SeatsReleased(o) /\ order' = order
               /\ \/ req'[r] = [q EXCEPT !.pc = "sweepCancel", !.order = o] /\ o \in q.todo
                  \/ req'[r] = [q EXCEPT !.pc = "cancelSet"] /\ o = q.order /\ q.pc = "release"
  BY <1>0, Locals DEF SweepRelease, CancelRelease, Goto, Alone, At
<1>2. o \in Placed /\ o \in Orders
  <2>1. o \in Placed
    BY <1>0, <1>1 DEF Alone, Links, RequestsNamePlaced, OrderSteps
  <2> QED
    BY <2>1 DEF Placed
<1>3. req'[r].pc \in {"cancelSet", "sweepCancel"} /\ req'[r].order = o
  BY <1>1 DEF Request
<1>4. \A p \in Orders : Cancelling(p)' <=> p = o
  BY <1>3 DEF Cancelling, OneAtATime
<1>5. \A p \in Orders : ~Cancelling(p)
  BY DEF Cancelling, OneAtATime, SweepRelease, CancelRelease, At
<1>6. \A s \in Seats : View(seat'[s]) = IF s \in Owned(o) THEN View(Free) ELSE View(seat[s])
  BY <1>1 DEF SeatsReleased, Owned
<1>7. CASE order[o].status = "CANCELLED"
  <2>1. Owned(o) = {}
    BY <1>2, <1>7, ConcertAssumption DEF Owned, Alone, Links, OwnersOpen
  <2>2. \A s \in Seats : View(seat'[s]) = View(seat[s])
    BY <1>6, <2>1
  <2> QED
    BY <1>1, <1>4, <1>5, <1>7, <2>2, SalesStay
<1>8. CASE order[o].status # "CANCELLED"
  <2>1. order[o].status \in {"PENDING_PAYMENT", "PAID"}
    BY <1>2, <1>8 DEF Placed, Alone, TypeOK, OrderRow
  <2>2. Owned(o) # {}
    BY <1>2, <1>5, <2>1 DEF Seated
  <2>3. Sales!Turn(o, "CANCELLED")
    BY <1>1, <1>2, <1>4, <1>5, Turns
  <2>4. Sales!Give(Owned(o), View(Free))
    BY <1>6, Gives
  <2>5. View(Free) = Sales!Free
    BY DEF View, Free, Sales!Free
  <2>6. State[o] \in {"PENDING_PAYMENT", "PAID"}
    BY <1>2, <1>5, <2>1 DEF State
  <2>7. Sales!Cancel(o)
    BY <1>2, <2>2, <2>3, <2>4, <2>5, <2>6, ViewedSeats DEF Sales!Cancel, State
  <2> QED
    BY <1>2, <2>7
<1> QED
  BY <1>7, <1>8

\* A hold takes seats on offer, with a token nobody has.
LEMMA HoldHolds ==
  ASSUME OneAtATime, Alone, Whole, NEW r \in Requests, Hold(r)
  PROVE  (\E S \in SUBSET Seats, t \in Tokens : Sales!Hold(t, S)) \/ UNCHANGED Sales!sales
<1>1. \A o \in Orders : ~Cancelling(o) /\ ~Cancelling(o)'
  BY NoneCancelling DEF Alone, Cancelling, OneAtATime, Hold, Continue, SweepRelease, CancelRelease, At
<1>2. order' = order
  BY DEF Hold
<1>3. CASE seat' = seat
  BY <1>1, <1>2, <1>3, SalesStay
<1>4. CASE seat' # seat
  <2>1. PICK t \in Tokens \ issued :
          /\ Holdable(req[r].want)
          /\ seat' = [s \in Seats |->
               IF s \in req[r].want
               THEN [status |-> "HELD", token |-> t, order |-> seat[s].order, until |-> "live"]
               ELSE seat[s]]
    BY <1>4 DEF Hold
  <2>2. PICK S \in SUBSET Seats : S = req[r].want
    BY DEF Alone, TypeOK, Request
  <2>3. ASSUME NEW s \in S
        PROVE  seat[s].status = "AVAILABLE" /\ seat[s].token = None /\ seat[s].order = None
    BY <2>1, <2>2 DEF Holdable, Alone, SeatShape, Shaped
  <2>4. \A s \in Seats : View(seat'[s]) = IF s \in S THEN Sales!Held(t) ELSE View(seat[s])
    BY <2>1, <2>2, <2>3 DEF View, Sales!Held
  <2>5. Sales!Give(S, Sales!Held(t))
    BY <2>4, Gives
  <2>6. \A s \in S : View(seat[s]) = Sales!Free
    BY <2>3 DEF View, Sales!Free
  <2>7. Sales!HeldBy(t) = {}
    BY <2>1, ViewedSeats, ConcertAssumption DEF Whole
  <2>8. State' = State
    BY <1>1, <1>2 DEF State
  <2>9. Sales!Hold(t, S)
    BY <2>5, <2>6, <2>7, <2>8 DEF Sales!Hold, View, State
  <2> QED
    BY <2>9
<1> QED
  BY <1>3, <1>4

\* Held seats go back on offer, those of an order stay its own.
LEMMA LetGoes ==
  ASSUME OneAtATime, Alone, NEW r \in Requests, ReleaseExpiredHolds(r) \/ MesaRelease(r)
  PROVE  \E S \in SUBSET Seats : Sales!LetGo(S)
<1>0. PICK q \in Request : q = req[r] /\ Reads(q)
  BY DEF TypeOK, Alone
<1>1. \A o \in Orders : ~Cancelling(o) /\ ~Cancelling(o)'
  BY NoneCancelling
     DEF Alone, Cancelling, OneAtATime, ReleaseExpiredHolds, MesaRelease, Continue, SweepRelease,
         CancelRelease, At
<1>2. order' = order
  BY DEF ReleaseExpiredHolds, MesaRelease
<1>3. PICK S : S = {s \in Seats : seat[s].token # None /\ seat'[s] = Free}
  OBVIOUS
<1>4. ASSUME NEW s \in Seats PROVE seat'[s] = seat[s] \/ (seat'[s] = Free /\ seat[s].order = None)
  <2>1. CASE ReleaseExpiredHolds(r)
    BY <2>1 DEF ReleaseExpiredHolds, Expired
  <2>2. CASE MesaRelease(r)
    <3>1. /\ q.pc = "mesaLoop" /\ q.todo = {}
          /\ seat'[s] = seat[s] \/ (s \in q.want /\ seat'[s] = Free)
      BY <1>0, <2>2 DEF MesaRelease, At, Unsold
    <3>2. s \in q.want => seat[s].order = None
      BY <1>0, <3>1 DEF Reads
    <3> QED
      BY <3>1, <3>2
  <2> QED
    BY <2>1, <2>2
<1>5. ASSUME NEW s \in Seats
      PROVE  View(seat'[s]) = IF s \in S THEN Sales!Free ELSE View(seat[s])
  <2>1. View(Free) = Sales!Free
    BY DEF View, Free, Sales!Free
  <2>2. CASE s \in S
    BY <1>3, <2>1, <2>2
  <2>3. CASE s \notin S /\ seat'[s] = seat[s]
    BY <2>3
  <2>4. CASE s \notin S /\ seat'[s] = Free /\ seat[s].order = None
    <3>1. seat[s].token = None /\ seat[s].order = None
      BY <1>3, <2>4
    <3>2. seat[s].status = "AVAILABLE"
      BY <3>1 DEF Alone, SeatShape, Shaped, Matched, PaidFor, TypeOK, SeatRow
    <3>3. View(seat[s]) = View(Free)
      BY <3>1, <3>2 DEF View, Free
    <3> QED
      BY <2>4, <3>3
  <2> QED
    BY <1>4, <2>2, <2>3, <2>4
<1>6. Sales!Give(S, Sales!Free)
  BY <1>5, Gives
<1>7. State' = State
  BY <1>1, <1>2 DEF State
<1>8. Sales!LetGo(S)
  BY <1>3, <1>6, <1>7 DEF Sales!LetGo, State
<1> QED
  BY <1>3, <1>8

\* A checkout takes a hold whole.
LEMMA CheckoutTakes ==
  ASSUME OneAtATime, Alone, Whole, NEW r \in Requests, CheckoutTx(r)
  PROVE  \E t \in Tokens, o \in Orders : Sales!Checkout(t, o)
<1>0. PICK q \in Request : q = req[r] /\ Reads(q) /\ q.pc = "checkoutTx"
  BY DEF TypeOK, Alone, CheckoutTx, At
<1>1. \A o \in Orders : ~Cancelling(o) /\ ~Cancelling(o)'
  BY NoneCancelling
     DEF Alone, Cancelling, OneAtATime, CheckoutTx, Continue, SweepRelease, CancelRelease, At
<1>2. PICK o \in Orders :
        /\ order[o].status = "none"
        /\ order' = [order EXCEPT ![o] = [status |-> "PENDING_PAYMENT", stale |-> FALSE]]
        /\ seat' = Ordered(q.want, o)
  BY <1>0 DEF CheckoutTx
<1>3. PICK t \in Tokens : t = q.token /\ q.want = {s \in Seats : seat[s].token = t}
  BY <1>0 DEF Whole, At, Request
<1>4. q.want # {}
  BY <1>0 DEF Reads
<1>5. \A s \in Seats : View(seat'[s]) = IF s \in q.want THEN Sales!Ordered(o) ELSE View(seat[s])
  BY <1>2 DEF Ordered, View, Sales!Ordered
<1>6. Sales!Give(q.want, Sales!Ordered(o))
  BY <1>5, Gives
<1>7. \A p \in Orders : order'[p].status = IF p = o THEN "PENDING_PAYMENT" ELSE order[p].status
  BY <1>2 DEF Alone, TypeOK
<1>8. Sales!Turn(o, "PENDING_PAYMENT")
  BY <1>1, <1>7, Turns
<1>9. State[o] = "none"
  BY <1>1, <1>2 DEF State
<1>10. Sales!Checkout(t, o)
  BY <1>3, <1>4, <1>6, <1>8, <1>9, ViewedSeats DEF Sales!Checkout, State
<1> QED
  BY <1>10

\* A payment sells all the seats of its order.
LEMMA PaySells ==
  ASSUME OneAtATime, Alone, Seated, NEW r \in Requests, PayTx(r)
  PROVE  \E o \in Orders : Sales!Pay(o)
<1>0. PICK q \in Request : q = req[r] /\ Reads(q) /\ q.pc = "payTx"
  BY DEF TypeOK, Alone, PayTx, At
<1>1. \A o \in Orders : ~Cancelling(o) /\ ~Cancelling(o)'
  BY NoneCancelling
     DEF Alone, Cancelling, OneAtATime, PayTx, Continue, SweepRelease, CancelRelease, At
<1>2. PICK o \in Orders : o = q.order
  BY <1>0 DEF Alone, Links, RequestsNamePlaced, OrderSteps, Placed
<1>3. /\ order' = [order EXCEPT ![o].status = "PAID"]
      /\ seat' = [x \in Seats |-> IF x \in q.want THEN [seat[x] EXCEPT !.status = "SOLD"]
                                                  ELSE seat[x]]
  BY <1>0, <1>2 DEF PayTx, OrderPaid, SeatsSold
<1>4. order[o].status = "PENDING_PAYMENT" /\ q.want = Owned(o)
  BY <1>0, <1>2 DEF Reads
<1>5. Owned(o) # {}
  BY <1>1, <1>4 DEF Seated
<1>6. ASSUME NEW s \in Seats
      PROVE  View(seat'[s]) = IF s \in Owned(o) THEN Sales!Sold(o) ELSE View(seat[s])
  <2>1. CASE s \in Owned(o)
    <3>1. seat[s].order = o /\ seat[s].token = None
      BY <2>1, ConcertAssumption DEF Owned, Alone, SeatShape, Shaped
    <3>2. seat[s] \in SeatRow /\ seat'[s] = [seat[s] EXCEPT !.status = "SOLD"]
      BY <1>3, <1>4, <2>1 DEF Alone, TypeOK
    <3>3. seat'[s].status = "SOLD" /\ seat'[s].token = None /\ seat'[s].order = o
      BY <3>1, <3>2 DEF SeatRow
    <3> QED
      BY <2>1, <3>3 DEF View, Sales!Sold
  <2>2. CASE s \notin Owned(o)
    BY <1>3, <1>4, <2>2
  <2> QED
    BY <2>1, <2>2
<1>7. Sales!Give(Owned(o), Sales!Sold(o))
  BY <1>6, Gives
<1>8. \A p \in Orders : order'[p].status = IF p = o THEN "PAID" ELSE order[p].status
  BY <1>3 DEF Alone, TypeOK, OrderRow
<1>9. Sales!Turn(o, "PAID")
  BY <1>1, <1>8, Turns
<1>10. State[o] = "PENDING_PAYMENT"
  BY <1>1, <1>4 DEF State
<1>11. Sales!Pay(o)
  BY <1>5, <1>7, <1>9, <1>10, ViewedSeats DEF Sales!Pay, State
<1> QED
  BY <1>11

\* Every step of one request at a time, by a process that stays up, is a sale or none.
LEMMA SalesStep ==
  ASSUME OneAtATime, Alone, Seated, Whole, [ReliableNext]_vars
  PROVE  [Sales!Next]_(Sales!sales)
<1>0. TypeOK
  BY DEF Alone
<1>1. CASE Clock \/ UNCHANGED vars
  <2>1. /\ \A s \in Seats : seat'[s].status = seat[s].status /\ seat'[s].order = seat[s].order
        /\ \A o \in Orders : order'[o].status = order[o].status
        /\ req' = req
    BY <1>0, <1>1, ClockKeeps DEF vars
  <2>2. \A s \in Seats : seat'[s].token = seat[s].token
    BY <1>0, <1>1, ClockKeepsTokens DEF vars
  <2>3. \A s \in Seats : View(seat'[s]) = View(seat[s])
    BY <2>1, <2>2 DEF View
  <2>4. \A o \in Orders : Cancelling(o)' = Cancelling(o)
    BY <2>1 DEF Cancelling
  <2> QED
    BY <2>1, <2>3, <2>4, SalesStay
<1>2. ASSUME NEW r \in Requests, Arrive(r) \/ Continue(r), seat' = seat, order' = order,
             req[r].pc \notin {"sweepCancel", "cancelSet"}, ~SweepRelease(r), ~CancelRelease(r)
      PROVE  UNCHANGED Sales!sales
  <2>1. \A o \in Orders : ~Cancelling(o) /\ ~Cancelling(o)'
    BY <1>0, <1>2, NoneCancelling DEF Cancelling, OneAtATime
  <2> QED
    BY <1>2, <2>1, SalesStay
<1>3. ASSUME NEW r \in Requests, Arrive(r) PROVE UNCHANGED Sales!sales
  <2>1. UNCHANGED <<seat, order>> /\ req[r].pc = "idle"
    BY <1>3 DEF Arrive, At, Begin, BeginView, BeginHold, BeginExtend, BeginCheckout,
       BeginConfirm, BeginSell, BeginCancel, BeginMesa, BeginScan
  <2> QED
    BY <1>2, <1>3, <2>1 DEF SweepRelease, CancelRelease, At
<1>4. ASSUME NEW r \in Requests, Continue(r) PROVE [Sales!Next]_(Sales!sales)
  <2>1. CASE SweepRelease(r) \/ CancelRelease(r)
    BY <2>1, ReleaseCancels DEF Sales!Next
  <2>2. CASE Hold(r)
    BY <2>2, HoldHolds DEF Sales!Next
  <2>3. CASE ReleaseExpiredHolds(r) \/ MesaRelease(r)
    BY <2>3, LetGoes DEF Sales!Next
  <2>4. CASE CheckoutTx(r)
    BY <2>4, CheckoutTakes DEF Sales!Next
  <2>5. CASE PayTx(r)
    BY <2>5, PaySells DEF Sales!Next
  <2>6. CASE SweepCancel(r) \/ CancelSet(r)
    <3>1. PICK o : /\ o = req[r].order /\ req[r].pc \in {"sweepCancel", "cancelSet"}
                   /\ seat' = seat /\ order' = [order EXCEPT ![o].status = "CANCELLED"]
      BY <2>6 DEF SweepCancel, CancelSet, OrderCancelled, At
    <3>2. \A p \in Orders : Cancelling(p) <=> p = o
      BY <3>1 DEF Cancelling, OneAtATime
    <3>3. \A p \in Orders : ~Cancelling(p)'
      BY <1>0, <1>4, <2>6, NoneCancelling DEF SweepCancel, CancelSet, SweepRelease, CancelRelease, At
    <3>4. \A p \in Orders : order'[p].status = IF p = o THEN "CANCELLED" ELSE order[p].status
      BY <1>0, <3>1 DEF TypeOK, OrderRow
    <3> QED
      BY <3>1, <3>2, <3>3, <3>4, SalesStay
  <2>7. CASE ExtendUpdate(r)
    <3>1. order' = order /\ req[r].pc = "extendUpdate"
      BY <2>7 DEF ExtendUpdate, At
    <3>2. ASSUME NEW s \in Seats PROVE View(seat'[s]) = View(seat[s])
      <4>1. seat[s] \in SeatRow /\ (seat'[s] = seat[s] \/ seat'[s] = [seat[s] EXCEPT !.until = "live"])
        BY <1>0, <2>7 DEF ExtendUpdate, TypeOK
      <4> QED
        BY <4>1 DEF SeatRow, View
    <3>3. \A o \in Orders : ~Cancelling(o) /\ ~Cancelling(o)'
      BY <1>0, <1>4, <2>7, <3>1, NoneCancelling DEF Cancelling, OneAtATime, SweepRelease,
         CancelRelease, At
    <3> QED
      BY <3>1, <3>2, <3>3, SalesStay
  <2>8. CASE \/ FindStaleOrders(r) \/ ExtendFind(r) \/ CheckoutFind(r) \/ PayRead(r) \/ PaySeats(r)
             \/ CancelRead(r) \/ MesaFind(r) \/ MesaOrder(r) \/ ScanRead(r) \/ ScanUpdate(r)
             \/ Answer(r)
    <3>1. /\ seat' = seat /\ order' = order
          /\ req[r].pc \notin {"sweepCancel", "cancelSet", "sweepRelease", "release"}
      BY <2>8 DEF FindStaleOrders, ExtendFind, CheckoutFind, PayRead, PaySeats, CancelRead,
         MesaFind, MesaOrder, ScanRead, ScanUpdate, Answer, At
    <3> QED
      BY <1>2, <1>4, <3>1 DEF SweepRelease, CancelRelease, At
  <2> QED
    BY <1>4, <2>1, <2>2, <2>3, <2>4, <2>5, <2>6, <2>7, <2>8 DEF Continue
<1> QED
  BY <1>1, <1>3, <1>4 DEF ReliableNext

\* With one request at a time, and a process that stays up, the statements of the handlers
\* amount to holds, checkouts, payments and cancellations that take effect at once on whole
\* holds and whole orders, for any hall and any number of them.
THEOREM SalesRefined ==
  ASSUME OneAtATime
  PROVE  FairSpec => SalesKept
<1>1. [ReliableNext]_vars => [Next]_vars
  BY DEF ReliableNext, Next
<1>2. FairSpec => Spec
  BY <1>1, PTL DEF FairSpec, Spec
<1>3. Init => Seated /\ Whole /\ Sales!Init
  <2> SUFFICES ASSUME Init PROVE Seated /\ Whole /\ Sales!Init
    OBVIOUS
  <2>1. Seated /\ Whole
    BY DEF Init, Seated, Whole, Free, Idle, At
  <2>2. Claim = [s \in Seats |-> View(Free)]
    BY DEF Init, Claim
  <2>3. \A o \in Orders : ~Cancelling(o)
    BY DEF Init, Cancelling, Idle
  <2>4. State = [o \in Orders |-> "none"]
    BY <2>3 DEF Init, State
  <2> QED
    BY <2>1, <2>2, <2>4 DEF Sales!Init, Sales!Free, Claim, State, View, Free
<1>4. Alone /\ Seated /\ [ReliableNext]_vars => Seated'
  BY SeatedStep
<1>5. Alone /\ Whole /\ [ReliableNext]_vars => Whole'
  BY <1>1, WholeStep
<1>6. Alone /\ Seated /\ Whole /\ [ReliableNext]_vars => [Sales!Next]_(Sales!sales)
  BY SalesStep
<1>7. Spec => []Alone
  BY AlwaysAlone
<1> QED
  BY <1>2, <1>3, <1>4, <1>5, <1>6, <1>7, PTL DEF FairSpec, SalesKept, Sales!Spec
=============================================================================
