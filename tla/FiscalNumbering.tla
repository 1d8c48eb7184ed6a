-------------------------- MODULE FiscalNumbering --------------------------
(***************************************************************************)
(* The two numbers of an invoice of one organisation.                      *)
(*  - the consecutive (invoice-sequence.service.ts): bumped by an UPDATE   *)
(*    ... RETURNING inside the transaction that inserts the invoice, so    *)
(*    the sequence row stays locked until that transaction ends;           *)
(*  - the control number (fiscal-control-number.service.ts): read, then    *)
(*    written, in a short transaction of its own before the sale's.        *)
(* A document is a sale (invoices.service.ts, create), which takes both,   *)
(* or a legacy invoice being imported (sales-import.service.ts), which     *)
(* takes a consecutive only and carries an idempotency key.                *)
(* PostgreSQL is READ COMMITTED; lock is the row lock on the sequence.     *)
(***************************************************************************)
EXTENDS Naturals, FiniteSets

CONSTANTS
  Sales,      \* sales being created
  Imports,    \* legacy invoices being imported
  Keys,       \* legacyImportKey values
  KeyOf,      \* the key of each import, None for a sale
  Existing,   \* highest consecutive of the invoices present at the start
  None        \* SQL NULL

Docs == Sales \cup Imports

ASSUME NumberingAssumption ==
  /\ Sales \cap Imports = {}
  /\ Existing \in Nat
  /\ None \notin Docs /\ None \notin Keys
  /\ KeyOf \in [Docs -> Keys \cup {None}]

VARIABLES
  profile,    \* fiscal_profiles.nextControlSequence, 0 while there is no row
  next,       \* organization_invoice_sequences.nextNumber, 0 while there is no row
  lock,       \* the document whose transaction holds the sequence row, or None
  invoice,    \* the invoice inserted for each document: n = 0 while there is none
  pc,         \* where each document is
  seq,        \* the control sequence each sale read
  got,        \* the consecutive each document obtained
  crossed     \* ghost: sales whose allocation of a control number overlapped another's

vars == <<profile, next, lock, invoice, pc, seq, got, crossed>>

Steps == {"lookup", "control", "controlWrite", "controlCreate", "allocate", "seqMax",
          "seqCreate", "insert", "done", "failed"}

TypeOK ==
  /\ profile \in Nat
  /\ next \in Nat
  /\ lock \in Docs \cup {None}
  /\ invoice \in [Docs -> [n : Nat, control : Nat]]
  /\ pc \in [Docs -> Steps]
  /\ seq \in [Docs -> Nat]
  /\ got \in [Docs -> Nat]
  /\ crossed \subseteq Sales

\* The migration that created the table gave a row to the organisations with invoices.
Init ==
  /\ profile \in {0, 1}
  /\ next = IF Existing = 0 THEN 0 ELSE Existing + 1
  /\ lock = None
  /\ invoice = [d \in Docs |-> [n |-> 0, control |-> 0]]
  /\ pc = [d \in Docs |-> IF d \in Sales THEN "control" ELSE "lookup"]
  /\ seq = [d \in Docs |-> 0]
  /\ got = [d \in Docs |-> 0]
  /\ crossed = {}

Issued == {d \in Docs : invoice[d].n # 0}

At(d, step) == pc[d] = step

Goto(d, step) == pc' = [pc EXCEPT ![d] = step]

-----------------------------------------------------------------------------
(* allocateControlNumber. *)

FirstControl == 1

\* Between the read of the profile and its write.
Allocating == {d \in Sales : pc[d] \in {"controlWrite", "controlCreate"}}

\* Mutant of ControlAfter: the sequence stays.
ControlUnchanged(n) == n

ControlAfter(n) == n + 1

\* The profile is read; a missing one is about to be created with sequence 1.
ControlRead(d) ==
  /\ At(d, "control")
  /\ IF profile = 0
     THEN Goto(d, "controlCreate") /\ seq' = [seq EXCEPT ![d] = FirstControl]
     ELSE Goto(d, "controlWrite") /\ seq' = [seq EXCEPT ![d] = profile]
  /\ crossed' = IF Allocating = {} THEN crossed ELSE crossed \cup Allocating \cup {d}
  /\ UNCHANGED <<profile, next, lock, invoice, got>>

\* organizationId is unique: the second to create the profile fails, and its sale with it.
ControlCreate(d) ==
  /\ At(d, "controlCreate")
  /\ IF profile = 0
     THEN profile' = ControlAfter(seq[d]) /\ Goto(d, "allocate")
     ELSE UNCHANGED profile /\ Goto(d, "failed")
  /\ UNCHANGED <<next, lock, invoice, seq, got, crossed>>

\* The sequence is written from the value read.
ControlWrite(d) ==
  /\ At(d, "controlWrite")
  /\ profile' = ControlAfter(seq[d])
  /\ Goto(d, "allocate")
  /\ UNCHANGED <<next, lock, invoice, seq, got, crossed>>

-----------------------------------------------------------------------------
(* allocateNext, inside the transaction that inserts the invoice. *)

\* Mutant of RowFree: the row is not locked by the bump.
RowAlwaysFree == TRUE

RowFree == lock = None

\* The UPDATE locks the row and returns the number it had.
Bump(d) ==
  /\ At(d, "allocate")
  /\ next # 0 /\ RowFree
  /\ lock' = d
  /\ got' = [got EXCEPT ![d] = next]
  /\ Goto(d, "insert")
  /\ UNCHANGED <<profile, next, invoice, seq, crossed>>

\* No row is visible to the UPDATE: first use.
BumpMisses(d) ==
  /\ At(d, "allocate")
  /\ next = 0
  /\ Goto(d, "seqMax")
  /\ UNCHANGED <<profile, next, lock, invoice, seq, got, crossed>>

Highest == CHOOSE m \in {Existing} \cup {invoice[d].n : d \in Docs} :
             \A d \in Docs : m >= Existing /\ m >= invoice[d].n

\* The maximum over the invoices committed so far.
SeqMax(d) ==
  /\ At(d, "seqMax")
  /\ got' = [got EXCEPT ![d] = Highest + 1]
  /\ Goto(d, "seqCreate")
  /\ UNCHANGED <<profile, next, lock, invoice, seq, crossed>>

\* The row is inserted, unseen by others until the commit; whoever inserts it too waits
\* for that commit and then violates the primary key.
SeqCreate(d) ==
  /\ At(d, "seqCreate")
  /\ RowFree
  /\ IF next = 0
     THEN lock' = d /\ Goto(d, "insert")
     ELSE UNCHANGED lock /\ Goto(d, "failed")
  /\ UNCHANGED <<profile, next, invoice, seq, got, crossed>>

NextAfter(n) == n + 1

\* Mutant of KeyFree: the key has an index, not a unique one.
KeyNotUnique(d) == TRUE

\* Unique (organizationId, legacyImportKey).
KeyFree(d) == \A e \in Issued : KeyOf[d] # None => KeyOf[e] # KeyOf[d]

\* The import looks its key up and stops if the invoice is there already.
Lookup(d) ==
  /\ At(d, "lookup")
  /\ IF KeyFree(d) THEN Goto(d, "allocate") ELSE Goto(d, "done")
  /\ UNCHANGED <<profile, next, lock, invoice, seq, got, crossed>>

\* The invoice is inserted and the transaction commits, both numbers with it.
Commit(d) ==
  /\ At(d, "insert")
  /\ KeyFree(d)
  /\ invoice' = [invoice EXCEPT ![d] = [n |-> got[d], control |-> seq[d]]]
  /\ next' = NextAfter(got[d])
  /\ lock' = None
  /\ Goto(d, "done")
  /\ UNCHANGED <<profile, seq, got, crossed>>

\* Mutant of Restored: an aborted transaction keeps the number it took.
Consumed(d) == IF At(d, "insert") THEN got[d] + 1 ELSE next

\* A rollback restores the sequence row.
Restored(d) == next

\* A statement fails (duplicated key, dead process, closed connection): the transaction
\* rolls back.  Control numbers already committed are not given back.
Abort(d) ==
  /\ pc[d] \notin {"done", "failed"}
  /\ lock' = IF lock = d THEN None ELSE lock
  /\ next' = Restored(d)
  /\ Goto(d, "failed")
  /\ UNCHANGED <<profile, invoice, seq, got, crossed>>

Step(d) ==
  \/ ControlRead(d) \/ ControlCreate(d) \/ ControlWrite(d)
  \/ Lookup(d) \/ Bump(d) \/ BumpMisses(d) \/ SeqMax(d) \/ SeqCreate(d)
  \/ Commit(d) \/ Abort(d)

\* Every document is settled.
Settled == (\A d \in Docs : pc[d] \in {"done", "failed"}) /\ UNCHANGED vars

Next == Settled \/ \E d \in Docs : Step(d)

Spec == Init /\ [][Next]_vars

-----------------------------------------------------------------------------
(* Properties. *)

\* "atomico": two invoices of the organisation never get the same consecutive, first use
\* of the sequence included.  (The unique index on it never has to reject one.)
ConsecutivesDistinct == \A d, e \in Issued : d # e => invoice[d].n # invoice[e].n

\* The consecutives have no gap: an aborted sale gives its number back, because the
\* sequence is bumped in the transaction that inserts the invoice.
NoGaps == {invoice[d].n : d \in Issued} =
            IF next = 0 THEN {} ELSE (Existing + 1)..(next - 1)

\* A control number given in peace is given once: only sales that read the profile while
\* another was between its read and its write can share one.  What such sales write late may
\* set the sequence back, but never under a number that was given in peace.
ControlsDistinct ==
  \A d, e \in (Issued \cap Sales) \ crossed : d # e => invoice[d].control # invoice[e].control

\* The register as the others see it: what the committed transactions have numbered.
Numbers == INSTANCE InvoiceRegister
           WITH Docs <- Docs, KeyOf <- KeyOf, Existing <- Existing, None <- None,
                number <- [d \in Docs |-> invoice[d].n],
                last <- IF next = 0 THEN Existing ELSE next - 1

\* Whatever runs together and whatever rolls back, invoices are registered as if each
\* transaction ran alone when it commits: it gives the number after the last, and nothing
\* else moves the register.
RegisterKept == Numbers!Spec
=============================================================================
