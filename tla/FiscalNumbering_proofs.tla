----------------------- MODULE FiscalNumbering_proofs -----------------------
(***************************************************************************)
(* The consecutives of an organisation are distinct and without gaps, for  *)
(* any number of sales and imports at the same time, any of which may roll *)
(* back at any statement; and control numbers given one at a time are      *)
(* never repeated.                                                         *)
(***************************************************************************)
EXTENDS FiscalNumbering, TLAPS

\* A transaction about to insert holds the row and the number the row has, or 1 if it is
\* the one that creates the row.
Holding == \A d \in Docs :
  /\ pc[d] = "insert" <=> lock = d
  /\ pc[d] = "insert" => got[d] = IF next = 0 THEN 1 ELSE next
  /\ pc[d] = "seqCreate" /\ next = 0 => got[d] = 1
  /\ d \in Issued => pc[d] = "done"

\* The row exists as soon as there is an invoice, and counts past the initial ones.
RowFirst == IF next = 0 THEN Existing = 0 ELSE next > Existing

\* Only a sale allocates a control number, only an import looks a key up.
Roles == \A d \in Docs :
  /\ pc[d] \in {"control", "controlWrite", "controlCreate"} => d \in Sales
  /\ pc[d] = "lookup" => d \in Imports

Inv == TypeOK /\ Holding /\ RowFirst /\ NoGaps /\ ConsecutivesDistinct

LEMMA InitInv == Init => Inv
<1> SUFFICES ASSUME Init PROVE Inv
  OBVIOUS
<1>1. Issued = {}
  BY DEF Init, Issued
<1>2. TypeOK
  BY NumberingAssumption DEF Init, TypeOK, Steps, Docs
<1>3. Holding /\ RowFirst
  BY NumberingAssumption, <1>1 DEF Init, Holding, RowFirst
<1>4. NoGaps
  BY NumberingAssumption, <1>1 DEF Init, NoGaps
<1> QED
  BY <1>1, <1>2, <1>3, <1>4 DEF Inv, ConsecutivesDistinct

\* A step that inserts no invoice and leaves the sequence row keeps the numbers as they are.
LEMMA NumbersKept ==
  ASSUME Inv, UNCHANGED <<next, invoice>>
  PROVE  RowFirst' /\ NoGaps' /\ ConsecutivesDistinct' /\ Issued' = Issued
BY DEF Inv, RowFirst, NoGaps, ConsecutivesDistinct, Issued

\* Before the first invoice, the maximum read is zero.
LEMMA FirstNumber == ASSUME Inv, next = 0 PROVE Highest = 0
<1>1. Existing = 0 /\ Issued = {}
  BY DEF Inv, RowFirst, NoGaps
<1>2. \A d \in Docs : invoice[d].n = 0
  BY <1>1 DEF Issued
<1>3. {Existing} \cup {invoice[d].n : d \in Docs} = {0}
  BY <1>1, <1>2
<1> QED
  BY <1>1, <1>2, <1>3 DEF Highest

\* The maximum of the numbers is one of them.
LEMMA HighestInNat == ASSUME Inv PROVE Highest \in Nat
<1>1. CASE next = 0
  BY <1>1, FirstNumber
<1>2. CASE next # 0
  <2>1. Existing \in Nat /\ next \in Nat /\ next > Existing
    BY <1>2, NumberingAssumption DEF Inv, TypeOK, RowFirst
  <2>2. \A d \in Docs : invoice[d].n \in Nat /\ invoice[d].n < next
    <3> SUFFICES ASSUME NEW d \in Docs PROVE invoice[d].n \in Nat /\ invoice[d].n < next
      OBVIOUS
    <3>1. invoice[d].n \in Nat
      BY DEF Inv, TypeOK
    <3>2. CASE d \in Issued
      BY <1>2, <2>1, <3>1, <3>2 DEF Inv, NoGaps
    <3>3. CASE d \notin Issued
      BY <2>1, <3>1, <3>3 DEF Issued
    <3> QED
      BY <3>2, <3>3
  <2>3. \E m \in {Existing} \cup {invoice[d].n : d \in Docs} :
          \A d \in Docs : m >= Existing /\ m >= invoice[d].n
    <3>1. CASE next - 1 = Existing
      BY <2>1, <2>2, <3>1
    <3>2. CASE next - 1 # Existing
      <4>1. next - 1 \in (Existing + 1)..(next - 1)
        BY <2>1, <3>2
      <4>2. PICK d \in Issued : invoice[d].n = next - 1
        BY <1>2, <4>1 DEF Inv, NoGaps
      <4> QED
        BY <2>1, <2>2, <4>2 DEF Issued
    <3> QED
      BY <3>1, <3>2
  <2>4. Highest \in {Existing} \cup {invoice[d].n : d \in Docs}
    BY <2>3 DEF Highest
  <2> QED
    BY <2>1, <2>2, <2>4
<1> QED
  BY <1>1, <1>2

LEMMA HighestType == ASSUME Inv PROVE next = 0 => Highest + 1 = 1
BY FirstNumber

\* The rollback of a transaction, or a step that takes no number.
LEMMA QuietStep ==
  ASSUME Inv, NEW d \in Docs, NEW step \in Steps \ {"insert", "seqCreate"}, Goto(d, step),
         d \notin Issued \/ step = "done",
         UNCHANGED <<next, invoice, got>>,
         lock' = IF lock = d THEN None ELSE lock
  PROVE  Holding'
<1>1. \A e \in Docs : pc'[e] = IF e = d THEN step ELSE pc[e]
  BY DEF Goto, Inv, TypeOK
<1>2. Issued' = Issued
  BY NumbersKept
<1>3. None \notin Docs
  BY NumberingAssumption
<1> QED
  BY <1>1, <1>2, <1>3 DEF Inv, Holding

LEMMA CommitStep == ASSUME Inv, NEW d \in Docs, Commit(d) PROVE Inv'
<1> USE NumberingAssumption
<1>1. pc[d] = "insert" /\ lock = d /\ got[d] = (IF next = 0 THEN 1 ELSE next)
  BY DEF Inv, Holding, Commit, At
<1>2. next \in Nat /\ got[d] \in Nat /\ seq[d] \in Nat
  BY DEF Inv, TypeOK
<1>3. got[d] > Existing /\ (next = 0 => Existing = 0)
  BY <1>1, <1>2 DEF Inv, RowFirst
<1>4. next' = got[d] + 1 /\ lock' = None
  BY DEF Commit, NextAfter
<1>5. \A e \in Docs : /\ pc'[e] = IF e = d THEN "done" ELSE pc[e]
                      /\ invoice'[e] = IF e = d THEN [n |-> got[d], control |-> seq[d]]
                                                ELSE invoice[e]
  BY DEF Commit, Goto, Inv, TypeOK
<1>6. d \notin Issued /\ Issued' = Issued \cup {d}
  <2>1. d \notin Issued
    BY <1>1 DEF Inv, Holding
  <2> QED
    BY <1>2, <1>3, <1>5, <2>1 DEF Issued
<1>7. TypeOK'
  <2>1. [n |-> got[d], control |-> seq[d]] \in [n : Nat, control : Nat]
    BY <1>2
  <2> QED
    BY <1>2, <1>4, <2>1 DEF Commit, Goto, Inv, TypeOK, Steps
<1>8. Holding'
  BY <1>1, <1>2, <1>4, <1>5, <1>6 DEF Inv, Holding, Commit
<1>9. RowFirst'
  BY <1>2, <1>3, <1>4 DEF RowFirst
<1>10. {invoice[e].n : e \in Issued} = (Existing + 1)..(got[d] - 1)
  <2>1. CASE next = 0
    BY <1>1, <1>3, <2>1 DEF Inv, NoGaps
  <2>2. CASE next # 0
    BY <1>1, <2>2 DEF Inv, NoGaps
  <2> QED
    BY <2>1, <2>2
<1>11. {invoice'[e].n : e \in Issued'} = {invoice[e].n : e \in Issued} \cup {got[d]}
  <2>1. \A e \in Issued : e \in Docs /\ e # d /\ invoice'[e] = invoice[e]
    BY <1>5, <1>6 DEF Issued
  <2>2. invoice'[d].n = got[d]
    BY <1>5
  <2> QED
    BY <1>6, <2>1, <2>2
<1>12. NoGaps'
  <2>1. ((Existing + 1)..(got[d] - 1)) \cup {got[d]} = (Existing + 1)..got[d]
    BY <1>2, <1>3
  <2> QED
    BY <1>2, <1>4, <1>10, <1>11, <2>1 DEF NoGaps
<1>13. ConsecutivesDistinct'
  <2>1. \A e \in Issued : invoice[e].n < got[d]
    BY <1>2, <1>10
  <2>2. \A e \in Issued : e \in Docs /\ e # d /\ invoice'[e] = invoice[e]
    BY <1>5, <1>6 DEF Issued
  <2>3. invoice'[d].n = got[d]
    BY <1>5
  <2>4. \A e \in Issued : invoice[e].n \in Nat
    BY DEF Inv, TypeOK, Issued
  <2> QED
    BY <1>2, <1>6, <2>1, <2>2, <2>3, <2>4 DEF Inv, ConsecutivesDistinct
<1> QED
  BY <1>7, <1>8, <1>9, <1>12, <1>13 DEF Inv

LEMMA RolesInit == Init => Roles
BY DEF Init, Roles, Docs

\* No step leads back to the first one, and only a sale reads its profile.
LEMMA RolesKept == ASSUME TypeOK, Roles, [Next]_vars PROVE Roles'
<1>1. ASSUME NEW d \in Docs, Step(d) PROVE Roles'
  <2>1. PICK step : /\ Goto(d, step)
                    /\ step \in {"controlWrite", "controlCreate"} => pc[d] = "control"
                    /\ step \notin {"control", "lookup"}
    BY <1>1 DEF Step, ControlRead, ControlCreate, ControlWrite, Lookup, Bump, BumpMisses,
       SeqMax, SeqCreate, Commit, Abort, At
  <2>2. \A e \in Docs : pc'[e] = IF e = d THEN step ELSE pc[e]
    BY <2>1 DEF Goto, TypeOK
  <2> QED
    BY <2>1, <2>2 DEF Roles
<1>2. CASE UNCHANGED vars
  BY <1>2 DEF vars, Roles
<1> QED
  BY <1>1, <1>2 DEF Next, Settled

LEMMA NextInv == Inv /\ Roles /\ [Next]_vars => Inv'
<1> SUFFICES ASSUME Inv, Roles, [Next]_vars PROVE Inv'
  OBVIOUS
<1> USE NumberingAssumption
<1>1. ASSUME NEW d \in Docs, Step(d) PROVE Inv'
  <2>0. d \in Issued => pc[d] = "done"
    BY DEF Inv, Holding
  <2>1. CASE ControlRead(d) \/ ControlCreate(d) \/ ControlWrite(d) \/ Lookup(d) \/ BumpMisses(d)
    <3>1. TypeOK'
      <4>1. CASE ControlRead(d)
        <5>1. d \in Sales
          BY <4>1 DEF ControlRead, At, Roles
        <5>2. Allocating \subseteq Sales
          BY DEF Allocating
        <5> QED
          BY <4>1, <5>1, <5>2 DEF ControlRead, Goto, Inv, TypeOK, Steps, FirstControl
      <4>2. CASE ControlCreate(d) \/ ControlWrite(d)
        BY <4>2 DEF ControlCreate, ControlWrite, ControlAfter, Goto, Inv, TypeOK, Steps
      <4>3. CASE Lookup(d) \/ BumpMisses(d)
        BY <4>3 DEF Lookup, BumpMisses, Goto, Inv, TypeOK, Steps
      <4> QED
        BY <2>1, <4>1, <4>2, <4>3
    <3>2. UNCHANGED <<next, lock, invoice, got>> /\ lock # d
      BY <2>1 DEF ControlRead, ControlCreate, ControlWrite, Lookup, BumpMisses, At, Inv, Holding
    <3>3. PICK step \in Steps \ {"insert", "seqCreate"} : Goto(d, step)
      BY <2>1 DEF ControlRead, ControlCreate, ControlWrite, Lookup, BumpMisses, Steps
    <3>4. d \notin Issued
      BY <2>0, <2>1 DEF ControlRead, ControlCreate, ControlWrite, Lookup, BumpMisses, At
    <3>5. Holding'
      BY <3>2, <3>3, <3>4, QuietStep
    <3> QED
      BY <3>1, <3>2, <3>5, NumbersKept DEF Inv
  <2>2. CASE Bump(d)
    <3>1. TypeOK'
      BY <2>2 DEF Bump, Goto, Inv, TypeOK, Steps
    <3>2. \A e \in Docs : /\ pc'[e] = IF e = d THEN "insert" ELSE pc[e]
                          /\ got'[e] = IF e = d THEN next ELSE got[e]
      BY <2>2 DEF Bump, Goto, Inv, TypeOK
    <3>3. d \notin Issued /\ UNCHANGED <<next, invoice>>
      BY <2>0, <2>2 DEF Bump, At
    <3>4. next # 0 /\ lock = None /\ lock' = d
      BY <2>2 DEF Bump, RowFree
    <3>5. Holding'
      BY <3>2, <3>3, <3>4, NumbersKept DEF Inv, Holding
    <3> QED
      BY <3>1, <3>3, <3>5, NumbersKept DEF Inv
  <2>3. CASE SeqMax(d)
    <3>1. Highest \in Nat
      BY HighestInNat
    <3>2. TypeOK'
      BY <2>3, <3>1 DEF SeqMax, Goto, Inv, TypeOK, Steps
    <3>3. \A e \in Docs : /\ pc'[e] = IF e = d THEN "seqCreate" ELSE pc[e]
                          /\ got'[e] = IF e = d THEN Highest + 1 ELSE got[e]
      BY <2>3 DEF SeqMax, Goto, Inv, TypeOK
    <3>4. d \notin Issued /\ UNCHANGED <<next, lock, invoice>> /\ pc[d] = "seqMax"
      BY <2>0, <2>3 DEF SeqMax, At
    <3>5. Holding'
      BY <3>3, <3>4, NumbersKept, HighestType DEF Inv, Holding
    <3> QED
      BY <3>2, <3>4, <3>5, NumbersKept DEF Inv
  <2>4. CASE SeqCreate(d)
    <3>1. TypeOK'
      BY <2>4 DEF SeqCreate, Goto, Inv, TypeOK, Steps
    <3>2. d \notin Issued /\ UNCHANGED <<next, invoice, got>> /\ lock = None
      BY <2>0, <2>4 DEF SeqCreate, At, RowFree
    <3>3. CASE next = 0
      <4>1. \A e \in Docs : pc'[e] = IF e = d THEN "insert" ELSE pc[e]
        BY <2>4, <3>3 DEF SeqCreate, Goto, Inv, TypeOK
      <4>2. got[d] = 1 /\ lock' = d
        BY <2>4, <3>3 DEF SeqCreate, At, Inv, Holding
      <4>3. Holding'
        BY <3>2, <3>3, <4>1, <4>2, NumbersKept DEF Inv, Holding
      <4> QED
        BY <3>1, <3>2, <4>3, NumbersKept DEF Inv
    <3>4. CASE next # 0
      <4>1. "failed" \in Steps \ {"insert", "seqCreate"} /\ Goto(d, "failed") /\ UNCHANGED lock
        BY <2>4, <3>4 DEF SeqCreate, Steps
      <4>2. Holding'
        BY <3>2, <4>1, QuietStep
      <4> QED
        BY <3>1, <3>2, <4>2, NumbersKept DEF Inv
    <3> QED
      BY <3>3, <3>4
  <2>5. CASE Commit(d)
    BY <2>5, CommitStep
  <2>6. CASE Abort(d)
    <3>1. TypeOK'
      BY <2>6 DEF Abort, Restored, Goto, Inv, TypeOK, Steps
    <3>2. d \notin Issued /\ UNCHANGED <<next, invoice, got>> /\ Goto(d, "failed")
      BY <2>0, <2>6 DEF Abort, Restored
    <3>3. "failed" \in Steps \ {"insert", "seqCreate"}
      BY DEF Steps
    <3>4. Holding'
      BY <2>6, <3>2, <3>3, QuietStep DEF Abort
    <3> QED
      BY <3>1, <3>2, <3>4, NumbersKept DEF Inv
  <2> QED
    BY <1>1, <2>1, <2>2, <2>3, <2>4, <2>5, <2>6 DEF Step
<1>2. CASE UNCHANGED vars
  <2>1. TypeOK' /\ Holding'
    BY <1>2, NumbersKept DEF vars, Inv, TypeOK, Holding
  <2> QED
    BY <1>2, <2>1, NumbersKept DEF vars, Inv
<1> QED
  BY <1>1, <1>2 DEF Next, Settled

LEMMA InvHolds == Spec => [](Inv /\ Roles)
<1>1. Inv => TypeOK
  BY DEF Inv
<1> QED
  BY <1>1, InitInv, RolesInit, NextInv, RolesKept, PTL DEF Spec

\* Numbers, steps and the lock of the sequence row keep their types.
THEOREM TypeCorrect == Spec => []TypeOK
<1>1. Inv => TypeOK
  BY DEF Inv
<1> QED
  BY <1>1, InvHolds, PTL

\* For any sales and imports running together, consecutives are never repeated.
THEOREM ConsecutivesSound == Spec => []ConsecutivesDistinct
<1>1. Inv => ConsecutivesDistinct
  BY DEF Inv
<1> QED
  BY <1>1, InvHolds, PTL

\* Every number from the first to the last was given to an invoice, whatever rolled back.
THEOREM ConsecutivesComplete == Spec => []NoGaps
<1>1. Inv => NoGaps
  BY DEF Inv
<1> QED
  BY <1>1, InvHolds, PTL

-----------------------------------------------------------------------------
(* Control numbers. *)

\* The sales whose control number is given: the short transaction committed, and the sale
\* has not failed since.
Given == {d \in Sales : pc[d] \in {"allocate", "seqMax", "seqCreate", "insert", "done"}}

Peaceful == Given \ crossed

\* Every number given in peace is behind the profile, and behind what any sale has read and
\* is about to write from.
BehindAll ==
  \A g \in Peaceful : /\ seq[g] < profile
                      /\ \A e \in Allocating : seq[g] < seq[e]

PeacefulDistinct == \A g, h \in Peaceful : g # h => seq[g] # seq[h]

\* Who allocates without being crossed allocates alone.
AloneOrCrossed == \A d, e \in Allocating : d # e => d \in crossed

Carried == \A d \in Issued : pc[d] = "done" /\ invoice[d].control = seq[d]

ControlInv == BehindAll /\ PeacefulDistinct /\ AloneOrCrossed /\ Carried

\* A step after the control number was given, or an end: nothing is allocated or written.
LEMMA ControlsIdle ==
  ASSUME TypeOK, ControlInv, NEW d \in Docs, NEW step \in Steps, Goto(d, step),
         d \in Given \/ d \notin Sales \/ step = "failed",
         step \notin {"controlWrite", "controlCreate"},
         UNCHANGED <<profile, seq, crossed>>
  PROVE  BehindAll' /\ PeacefulDistinct' /\ AloneOrCrossed'
<1>1. \A e \in Docs : pc'[e] = IF e = d THEN step ELSE pc[e]
  BY DEF Goto, TypeOK
<1>2. Peaceful' \subseteq Peaceful /\ Allocating' \subseteq Allocating
  BY <1>1 DEF Peaceful, Given, Allocating, Docs
<1> QED
  BY <1>2 DEF ControlInv, BehindAll, PeacefulDistinct, AloneOrCrossed

\* The number is read: it is past every number given in peace, and whoever reads while
\* another allocates is crossed, and so is the other.
LEMMA ControlReads == ASSUME Inv, Roles, ControlInv, NEW d \in Docs, ControlRead(d) PROVE ControlInv'
<1>1. d \in Sales /\ pc[d] = "control" /\ d \notin Given /\ d \notin Allocating
  BY DEF ControlRead, At, Roles, Given, Allocating
<1>2. PICK step \in {"controlCreate", "controlWrite"} : Goto(d, step)
  BY DEF ControlRead
<1>3. \A e \in Docs : pc'[e] = IF e = d THEN step ELSE pc[e]
  BY <1>2 DEF Goto, Inv, TypeOK
<1>4. Given' = Given /\ Allocating' = Allocating \cup {d}
  BY <1>1, <1>2, <1>3 DEF Given, Allocating, Docs
<1>5. /\ \A e \in Docs : e # d => seq'[e] = seq[e]
      /\ seq'[d] = IF profile = 0 THEN 1 ELSE profile
  BY DEF ControlRead, FirstControl, Inv, TypeOK
<1>6. crossed \subseteq crossed' /\ (Allocating # {} => Allocating \cup {d} \subseteq crossed')
  BY DEF ControlRead
<1>7. Peaceful' \subseteq Peaceful /\ \A g \in Peaceful : g \in Docs /\ g # d
  BY <1>1, <1>4, <1>6 DEF Peaceful, Given, Docs
<1>8. profile' = profile /\ profile \in Nat /\ \A e \in Docs : seq[e] \in Nat
  BY DEF ControlRead, Inv, TypeOK
<1>9. BehindAll'
  <2> SUFFICES ASSUME NEW g \in Peaceful'
               PROVE  seq'[g] < profile' /\ \A e \in Allocating' : seq'[g] < seq'[e]
    BY DEF BehindAll
  <2>1. seq[g] < profile /\ g \in Docs /\ g # d /\ \A e \in Allocating : seq[g] < seq[e]
    BY <1>7 DEF ControlInv, BehindAll
  <2>2. seq'[g] = seq[g] /\ seq'[g] < seq'[d] /\ profile # 0
    BY <1>5, <1>8, <2>1
  <2>3. \A e \in Allocating : e \in Docs /\ e # d
    BY <1>1 DEF Allocating, Docs
  <2> QED
    BY <1>4, <1>5, <1>8, <2>1, <2>2, <2>3
<1>10. PeacefulDistinct'
  BY <1>5, <1>7 DEF ControlInv, PeacefulDistinct
<1>11. AloneOrCrossed'
  BY <1>4, <1>6 DEF ControlInv, AloneOrCrossed
<1>12. Carried'
  <2>1. Issued' = Issued /\ invoice' = invoice
    BY DEF ControlRead, Issued
  <2>2. \A e \in Issued : e \in Docs /\ e # d
    BY <1>1 DEF ControlInv, Carried, Issued
  <2> QED
    BY <1>3, <1>5, <2>1, <2>2 DEF ControlInv, Carried
<1> QED
  BY <1>9, <1>10, <1>11, <1>12 DEF ControlInv

\* The number is given: who was alone is past every number given in peace, and so is the
\* profile.
LEMMA ControlGives ==
  ASSUME Inv, Roles, ControlInv, NEW d \in Docs,
         pc[d] \in {"controlWrite", "controlCreate"}, d \in Sales,
         profile' = ControlAfter(seq[d]), Goto(d, "allocate"),
         UNCHANGED <<invoice, seq, crossed>>
  PROVE  ControlInv'
<1>1. d \in Allocating /\ d \notin Given
  BY DEF Allocating, Given
<1>2. \A e \in Docs : pc'[e] = IF e = d THEN "allocate" ELSE pc[e]
  BY DEF Goto, Inv, TypeOK
<1>3. Given' = Given \cup {d} /\ Allocating' = Allocating \ {d}
  BY <1>1, <1>2 DEF Given, Allocating, Docs
<1>4. profile' = seq[d] + 1 /\ \A e \in Docs : seq[e] \in Nat
  BY DEF ControlAfter, Inv, TypeOK
<1>5. Peaceful' \subseteq Peaceful \cup {d} /\ (d \in crossed => Peaceful' = Peaceful)
  BY <1>3 DEF Peaceful
<1>6. d \notin crossed => Allocating' = {}
  BY <1>1, <1>3 DEF ControlInv, AloneOrCrossed
<1>7. \A g \in Peaceful : g \in Docs /\ seq[g] < seq[d] /\ \A e \in Allocating : seq[g] < seq[e]
  BY <1>1 DEF ControlInv, BehindAll, Peaceful, Given, Docs
<1>8. BehindAll'
  <2> SUFFICES ASSUME NEW g \in Peaceful'
               PROVE  seq[g] < profile' /\ \A e \in Allocating' : seq[g] < seq[e]
    BY DEF BehindAll
  <2>1. CASE g \in Peaceful
    BY <1>3, <1>4, <1>7, <2>1
  <2>2. CASE g = d /\ d \notin crossed
    BY <1>4, <1>6, <2>2
  <2> QED
    BY <1>5, <2>1, <2>2
<1>9. PeacefulDistinct'
  <2>1. \A g \in Peaceful : seq[g] # seq[d]
    BY <1>4, <1>7
  <2> QED
    BY <1>5, <2>1 DEF ControlInv, PeacefulDistinct
<1>10. AloneOrCrossed'
  BY <1>3 DEF ControlInv, AloneOrCrossed
<1>11. Carried'
  BY <1>2 DEF ControlInv, Carried, Issued
<1> QED
  BY <1>8, <1>9, <1>10, <1>11 DEF ControlInv

LEMMA ControlStep == ASSUME Inv, Roles, ControlInv, [Next]_vars PROVE ControlInv'
<1>1. ASSUME NEW d \in Docs, Step(d) PROVE ControlInv'
  <2>1. CASE ControlRead(d)
    BY <2>1, ControlReads
  <2>2. CASE ControlWrite(d) \/ (ControlCreate(d) /\ profile = 0)
    BY <2>2, ControlGives DEF ControlWrite, ControlCreate, At, Roles
  <2>3. CASE ~ControlRead(d) /\ ~ControlWrite(d) /\ ~(ControlCreate(d) /\ profile = 0)
    <3>1. UNCHANGED <<profile, seq, crossed>>
      BY <1>1, <2>3 DEF Step, ControlCreate, Lookup, Bump, BumpMisses, SeqMax, SeqCreate,
         Commit, Abort
    <3>2. PICK step \in Steps : /\ Goto(d, step)
                                /\ d \in Given \/ d \notin Sales \/ step = "failed"
                                /\ step \notin {"controlWrite", "controlCreate"}
      <4>1. pc[d] \in {"allocate", "seqMax", "seqCreate", "insert"} => d \in Given \/ d \notin Sales
        BY DEF Given
      <4>2. pc[d] = "lookup" => d \notin Sales
        BY NumberingAssumption DEF Roles
      <4> QED
        BY <1>1, <2>3, <4>1, <4>2 DEF Step, ControlCreate, Lookup, Bump, BumpMisses, SeqMax,
           SeqCreate, Commit, Abort, At, Steps
    <3>3. BehindAll' /\ PeacefulDistinct' /\ AloneOrCrossed'
      <4>1. TypeOK /\ Goto(d, step)
        BY <3>2 DEF Inv
      <4> QED
        BY <3>1, <3>2, <4>1, ControlsIdle
    <3>4. d \notin Issued
      BY <1>1 DEF Step, ControlRead, ControlCreate, ControlWrite, Lookup, Bump, BumpMisses,
         SeqMax, SeqCreate, Commit, Abort, At, ControlInv, Carried
    <3>5. \A e \in Docs : e # d => pc'[e] = pc[e]
      <4>1. TypeOK /\ Goto(d, step)
        BY <3>2 DEF Inv
      <4> QED
        BY <4>1 DEF Goto, TypeOK
    <3>6. CASE invoice' = invoice
      <4>1. Issued' = Issued
        BY <3>6 DEF Issued
      <4>2. Carried'
        BY <3>1, <3>4, <3>5, <3>6, <4>1 DEF ControlInv, Carried, Issued
      <4> QED
        BY <3>3, <4>2 DEF ControlInv
    <3>7. CASE Commit(d)
      <4>1. \A e \in Docs : invoice'[e] = IF e = d THEN [n |-> got[d], control |-> seq[d]]
                                                     ELSE invoice[e]
        BY <3>7 DEF Commit, Inv, TypeOK
      <4>2. pc'[d] = "done"
        BY <3>7 DEF Commit, Goto, Inv, TypeOK
      <4>3. Issued' \subseteq Issued \cup {d}
        BY <4>1 DEF Issued
      <4>4. Carried'
        BY <3>1, <3>5, <4>1, <4>2, <4>3 DEF ControlInv, Carried, Issued
      <4> QED
        BY <3>3, <4>4 DEF ControlInv
    <3> QED
      BY <1>1, <2>3, <3>6, <3>7 DEF Step, ControlCreate, Lookup, Bump, BumpMisses, SeqMax,
         SeqCreate, Abort
  <2> QED
    BY <2>1, <2>2, <2>3
<1>2. CASE UNCHANGED vars
  BY <1>2 DEF vars, ControlInv, BehindAll, PeacefulDistinct, AloneOrCrossed, Carried, Peaceful,
     Given, Allocating, Issued
<1> QED
  BY <1>1, <1>2 DEF Next, Settled

\* Control numbers given one at a time are never repeated, for any number of sales: a sale
\* allocated while no other was between its read and its write has a number of its own,
\* whatever those that overlapped wrote before and whatever failed.
THEOREM ControlsSound == Spec => []ControlsDistinct
<1>1. Init => ControlInv
  BY DEF Init, ControlInv, BehindAll, PeacefulDistinct, AloneOrCrossed, Carried, Peaceful,
     Given, Allocating, Issued, Docs
<1>2. ControlInv => ControlsDistinct
  <2> SUFFICES ASSUME ControlInv, NEW d \in (Issued \cap Sales) \ crossed,
                      NEW e \in (Issued \cap Sales) \ crossed, d # e
               PROVE  invoice[d].control # invoice[e].control
    BY DEF ControlsDistinct
  <2>1. d \in Peaceful /\ e \in Peaceful
    BY DEF ControlInv, Carried, Peaceful, Given
  <2> QED
    BY <2>1 DEF ControlInv, Carried, PeacefulDistinct
<1> QED
  BY <1>1, <1>2, ControlStep, InvHolds, PTL DEF Spec
-----------------------------------------------------------------------------
(* The register. *)

\* What is registered of each document, and the last number given.
Numbered == [d \in Docs |-> invoice[d].n]
Last == IF next = 0 THEN Existing ELSE next - 1

\* The commit of a transaction registers its document, with the number after the last.
LEMMA CommitRegisters == ASSUME Inv, NEW d \in Docs, Commit(d) PROVE Numbers!Register(d)
<1>1. pc[d] = "insert" /\ got[d] = (IF next = 0 THEN 1 ELSE next)
  BY DEF Inv, Holding, Commit, At
<1>2. /\ next \in Nat /\ got[d] \in Nat /\ invoice[d].n \in Nat
      /\ \A e \in Docs : invoice[e].n \in Nat
  BY DEF Inv, TypeOK
<1>3. next' = got[d] + 1 /\ next' # 0
  BY <1>2 DEF Commit, NextAfter
<1>4. Last' = Last + 1 /\ Last' = got[d]
  <2>1. next = 0 => Existing = 0
    BY DEF Inv, RowFirst
  <2> QED
    BY <1>1, <1>2, <1>3, <2>1 DEF Last
<1>5. Numbered[d] = 0
  <2>1. d \notin Issued
    BY <1>1 DEF Inv, Holding
  <2> QED
    BY <2>1 DEF Issued, Numbered
<1>6. Numbered' = [Numbered EXCEPT ![d] = Last']
  <2>1. invoice' = [invoice EXCEPT ![d] = [n |-> got[d], control |-> seq[d]]]
    BY DEF Commit
  <2>2. \A e \in Docs : invoice'[e].n = IF e = d THEN got[d] ELSE invoice[e].n
    BY <2>1 DEF Inv, TypeOK
  <2> QED
    BY <1>4, <2>2 DEF Numbered
<1>7. \A e \in Docs : Numbered[e] # 0 /\ KeyOf[e] = KeyOf[d] => KeyOf[d] = None
  BY DEF Commit, KeyFree, Issued, Numbered
<1> QED
  BY <1>4, <1>5, <1>6, <1>7 DEF Numbers!Register, Numbered, Last

\* Any other step leaves the register as it is.
LEMMA OthersRegisterNothing ==
  ASSUME [Next]_vars, ~(\E d \in Docs : Commit(d))
  PROVE  UNCHANGED Numbers!register
<1>1. UNCHANGED <<invoice, next>>
  BY DEF Next, Settled, Step, vars, ControlRead, ControlCreate, ControlWrite, Lookup, Bump,
         BumpMisses, SeqMax, SeqCreate, Abort, Restored
<1> QED
  BY <1>1 DEF Numbers!register

\* Sales and imports that run together, wait for each other and roll back at any statement
\* number their invoices as if each were registered at once when it commits.
THEOREM RegisterRefined == Spec => RegisterKept
<1>1. Init => Numbers!Init
  <2> SUFFICES ASSUME Init PROVE Numbers!Init
    OBVIOUS
  <2>1. \A d \in Docs : invoice[d].n = 0
    BY DEF Init
  <2>2. Last = Existing
    BY NumberingAssumption DEF Init, Last
  <2> QED
    BY <2>1, <2>2 DEF Numbers!Init, Last
<1>2. Inv /\ [Next]_vars => [Numbers!Next]_(Numbers!register)
  BY CommitRegisters, OthersRegisterNothing DEF Numbers!Next
<1> QED
  BY <1>1, <1>2, InvHolds, PTL DEF Spec, RegisterKept, Numbers!Spec
=============================================================================
