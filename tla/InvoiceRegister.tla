-------------------------- MODULE InvoiceRegister --------------------------
(***************************************************************************)
(* What the numbering of an organisation's invoices promises               *)
(* (invoice-sequence.service.ts, "atomico", and the unique keys of         *)
(* Invoice): documents are registered one after the other, each takes the  *)
(* number that follows the last, and a legacy invoice is registered once.  *)
(* FiscalNumbering, where a number is allocated by several statements of a *)
(* transaction that others run along with and that may roll back, is       *)
(* compared with it.                                                       *)
(***************************************************************************)
EXTENDS Naturals

CONSTANTS
  Docs,       \* the documents to register
  KeyOf,      \* the key of each, None if it has none
  Existing,   \* the last number at the start
  None

VARIABLES
  number,     \* the number of each document, 0 while it is not registered
  last        \* the last number given

register == <<number, last>>

Init == number = [d \in Docs |-> 0] /\ last = Existing

Register(d) ==
  /\ number[d] = 0
  /\ \A e \in Docs : number[e] # 0 /\ KeyOf[e] = KeyOf[d] => KeyOf[d] = None
  /\ last' = last + 1
  /\ number' = [number EXCEPT ![d] = last']

Next == \E d \in Docs : Register(d)

Spec == Init /\ [][Next]_register
=============================================================================
