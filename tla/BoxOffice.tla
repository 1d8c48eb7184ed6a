----------------------------- MODULE BoxOffice -----------------------------
(***************************************************************************)
(* What the box office promises (concert.service.ts): a hold, a checkout,  *)
(* a payment and a cancellation each take effect at once, on all the seats *)
(* they are about.  A hold takes seats on offer; an order takes a hold     *)
(* whole, and is paid or cancelled whole.  ConcertTicketing, where each is *)
(* a chain of statements, is compared with it.                             *)
(***************************************************************************)

CONSTANTS Seats, Tokens, Orders, None

VARIABLES
  claim,   \* whose each seat is: nobody's, of a hold, of a pending or of a paid order
  state    \* what has become of each order

sales == <<claim, state>>

Free == [status |-> "AVAILABLE", token |-> None, order |-> None]
Held(t) == [status |-> "HELD", token |-> t, order |-> None]
Ordered(o) == [status |-> "HELD", token |-> None, order |-> o]
Sold(o) == [status |-> "SOLD", token |-> None, order |-> o]

HeldBy(t) == {s \in Seats : claim[s].token = t}
SeatsOf(o) == {s \in Seats : claim[s].order = o}

Give(S, to) == claim' = [s \in Seats |-> IF s \in S THEN to ELSE claim[s]]
Turn(o, status) == state' = [state EXCEPT ![o] = status]

Init ==
  /\ claim = [s \in Seats |-> Free]
  /\ state = [o \in Orders |-> "none"]

\* Seats on offer, for a token of their own.
Hold(t, S) ==
  /\ HeldBy(t) = {}
  /\ \A s \in S : claim[s] = Free
  /\ Give(S, Held(t))
  /\ UNCHANGED state

\* Held seats go back on offer: their deadline is past, or their table is released.
LetGo(S) ==
  /\ \A s \in S : claim[s].token # None
  /\ Give(S, Free)
  /\ UNCHANGED state

Checkout(t, o) ==
  /\ state[o] = "none" /\ HeldBy(t) # {}
  /\ Give(HeldBy(t), Ordered(o))
  /\ Turn(o, "PENDING_PAYMENT")

Pay(o) ==
  /\ state[o] = "PENDING_PAYMENT" /\ SeatsOf(o) # {}
  /\ Give(SeatsOf(o), Sold(o))
  /\ Turn(o, "PAID")

Cancel(o) ==
  /\ state[o] \in {"PENDING_PAYMENT", "PAID"} /\ SeatsOf(o) # {}
  /\ Give(SeatsOf(o), Free)
  /\ Turn(o, "CANCELLED")

Next ==
  \/ \E S \in SUBSET Seats : LetGo(S) \/ \E t \in Tokens : Hold(t, S)
  \/ \E o \in Orders : Pay(o) \/ Cancel(o) \/ \E t \in Tokens : Checkout(t, o)

Spec == Init /\ [][Next]_sales
=============================================================================
