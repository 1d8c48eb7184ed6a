----------------------------- MODULE CashShift -----------------------------
(***************************************************************************)
(* The shifts of the cashiers of one organisation and their Z reports      *)
(* (cierre-caja.service.ts), closed by the cashier or by the nightly job   *)
(* (cierre-caja-scheduler.service.ts).  A closing sums what its reads find *)
(* between two instants and then writes the shift by id; sales and voids   *)
(* go on meanwhile, with a shift open or without.                          *)
(* An instant is the set of shifts stamped, or of sales made, before it.   *)
(* A report is the set of the sales it sums; amounts and methods of        *)
(* payment are left out.                                                   *)
(***************************************************************************)
EXTENDS Integers, FiniteSets

CONSTANTS
  Users, Shifts, Sales, Requests,
  Job,          \* the request that runs the nightly job
  None          \* SQL NULL

ASSUME CashShiftAssumption == None \notin Users \cup Shifts \cup Sales /\ Job \notin Requests

VARIABLES
  shift,      \* cierre_caja
  sale,       \* invoices: seller, status, and the shifts stamped before createdAt; a row that
              \* is "stamped" has its createdAt and is not committed
  task,       \* the request each server task, and the job, is running
  crossed     \* ghost: users two of whose requests on shifts were running at once

vars == <<shift, sale, task, crossed>>

Tasks == Requests \cup {Job}

ShiftRow == [status : {"none", "opening", "OPEN", "CLOSED"}, user : Users \cup {None},
             report : SUBSET Sales, impreso : BOOLEAN]
SaleRow == [status : {"none", "stamped", "PAID", "CANCELLED"}, seller : Users \cup {None},
            since : SUBSET Shifts, during : Shifts \cup {None}]

TaskRow == [pc : {"idle", "open", "again", "sum", "close"}, user : Users \cup {None},
            shift : Shifts \cup {None}, until : SUBSET Sales, report : SUBSET Sales]

Idle == [pc |-> "idle", user |-> None, shift |-> None, until |-> {}, report |-> {}]

Init ==
  /\ shift = [s \in Shifts |-> [status |-> "none", user |-> None, report |-> {}, impreso |-> FALSE]]
  /\ sale = [v \in Sales |-> [status |-> "none", seller |-> None, since |-> {}, during |-> None]]
  /\ task = [r \in Tasks |-> Idle]
  /\ crossed = {}

At(r, step) == task[r].pc = step
Become(r, t) == task' = [task EXCEPT ![r] = t]
Finish(r) == Become(r, Idle)

Made == {v \in Sales : sale[v].status # "none"}

\* Mutant of OpenOf: the shift is looked for by its user alone.
ShiftsOf(u) == {s \in Shifts : shift[s].status \in {"OPEN", "CLOSED"} /\ shift[s].user = u}

OpenOf(u) == {s \in Shifts : shift[s].status = "OPEN" /\ shift[s].user = u}

\* A request on the shifts of a user starts while another one runs.
Crossing(r, u) == crossed' = IF \E q \in Tasks \ {r} : task[q].user = u THEN crossed \cup {u} ELSE crossed

-----------------------------------------------------------------------------
(* apertura *)

\* fechaApertura is the instant at which no open shift was found.
BeginOpen(r, u, s) ==
  /\ At(r, "idle")
  /\ OpenOf(u) = {}
  /\ shift[s].status = "none"
  /\ shift' = [shift EXCEPT ![s] = [@ EXCEPT !.status = "opening", !.user = u]]
  /\ Become(r, [Idle EXCEPT !.pc = "open", !.user = u, !.shift = s])
  /\ Crossing(r, u)
  /\ UNCHANGED sale

Open(r) ==
  /\ At(r, "open")
  /\ shift' = [shift EXCEPT ![task[r].shift].status = "OPEN"]
  /\ Finish(r)
  /\ UNCHANGED <<sale, crossed>>

-----------------------------------------------------------------------------
(* cerrar, cerrarAutomaticoFinDia *)

\* Mutant of Summed: fechaApertura is not looked at.
SummedEver(s, until) == {v \in until : sale[v].status = "PAID" /\ sale[v].seller = shift[s].user}

\* calcularMontosTurno: the sales of the cashier from the opening to an instant, but those
\* voided by now.
Summed(s, until) ==
  {v \in until : sale[v].status = "PAID" /\ sale[v].seller = shift[s].user /\ s \in sale[v].since}

\* The open shift is read, and the instant up to which it is summed is taken.
BeginClose(r, u, s) ==
  /\ At(r, "idle") /\ r # Job
  /\ s \in OpenOf(u)
  /\ Become(r, [Idle EXCEPT !.pc = "sum", !.user = u, !.shift = s, !.until = Made])
  /\ Crossing(r, u)
  /\ UNCHANGED <<shift, sale>>

\* The job takes an open shift, and will close what shift of its user is open then; what it
\* declares as counted is what it expects now (amounts are left out).
BeginAuto(u, s) ==
  /\ At(Job, "idle")
  /\ s \in OpenOf(u)
  /\ Become(Job, [Idle EXCEPT !.pc = "again", !.user = u, !.shift = s])
  /\ Crossing(Job, u)
  /\ UNCHANGED <<shift, sale>>

\* Mutant of Again: the job gives up where it should close.
GivesUp ==
  /\ At(Job, "again")
  /\ Finish(Job)
  /\ UNCHANGED <<shift, sale, crossed>>

\* cerrar reads the open shift again, if there is one.
Again ==
  LET open == OpenOf(task[Job].user) IN
  /\ At(Job, "again")
  /\ \/ open = {} /\ Finish(Job)
     \/ \E s \in open : Become(Job, [task[Job] EXCEPT !.pc = "sum", !.shift = s, !.until = Made])
  /\ UNCHANGED <<shift, sale, crossed>>

Sum(r) ==
  /\ At(r, "sum")
  /\ Become(r, [task[r] EXCEPT !.pc = "close", !.report = Summed(task[r].shift, task[r].until)])
  /\ UNCHANGED <<shift, sale, crossed>>

\* The shift is written by its id, whatever it has become.
Close(r) ==
  LET s == task[r].shift IN
  /\ At(r, "close")
  /\ shift' = [shift EXCEPT ![s] = [@ EXCEPT !.status = "CLOSED", !.report = task[r].report,
                                              !.impreso = FALSE]]
  /\ Finish(r)
  /\ UNCHANGED <<sale, crossed>>

MarkPrinted(s) ==
  /\ shift[s].status = "CLOSED"
  /\ shift' = [shift EXCEPT ![s].impreso = TRUE]
  /\ UNCHANGED <<sale, task, crossed>>

-----------------------------------------------------------------------------
(* Sales and voids *)

Closing(s) == \E r \in Tasks : task[r].pc \in {"sum", "close"} /\ task[r].shift = s

\* A sale takes its createdAt and commits later: no query finds it before.
Stamp(v, u) ==
  /\ sale[v].status = "none"
  /\ sale' = [sale EXCEPT ![v] = [status |-> "stamped", seller |-> u, during |-> None,
                                  since |-> {s \in Shifts : shift[s].status # "none"}]]
  /\ UNCHANGED <<shift, task, crossed>>

\* during: the shift of the seller that was open at createdAt, and that nobody is closing.
Commit(v) ==
  /\ sale[v].status = "stamped"
  /\ LET open == {s \in OpenOf(sale[v].seller) \cap sale[v].since : ~Closing(s)} IN
     sale' = [sale EXCEPT ![v] = [@ EXCEPT !.status = "PAID",
                !.during = IF open = {} THEN None ELSE CHOOSE s \in open : TRUE]]
  /\ UNCHANGED <<shift, task, crossed>>

Void(v) ==
  /\ sale[v].status = "PAID"
  /\ sale' = [sale EXCEPT ![v].status = "CANCELLED"]
  /\ UNCHANGED <<shift, task, crossed>>

-----------------------------------------------------------------------------
JobStep == Again \/ Sum(Job) \/ Close(Job)

Next ==
  \/ \E r \in Requests, u \in Users, s \in Shifts : BeginOpen(r, u, s) \/ BeginClose(r, u, s)
  \/ \E r \in Requests : Open(r) \/ Sum(r) \/ Close(r)
  \/ \E u \in Users, s \in Shifts : BeginAuto(u, s)
  \/ JobStep
  \/ \E s \in Shifts : MarkPrinted(s)
  \/ \E v \in Sales : Commit(v) \/ Void(v) \/ \E u \in Users : Stamp(v, u)

\* The job runs every night and goes through the shifts it finds; a request that was begun
\* ends.
Fairness ==
  /\ WF_vars(JobStep) /\ \A u \in Users, s \in Shifts : SF_vars(BeginAuto(u, s))
  /\ \A r \in Requests : WF_vars(Open(r) \/ Sum(r) \/ Close(r))

Spec == Init /\ [][Next]_vars /\ Fairness

-----------------------------------------------------------------------------
TypeOK ==
  /\ shift \in [Shifts -> ShiftRow]
  /\ sale \in [Sales -> SaleRow]
  /\ crossed \subseteq Users
  /\ task \in [Tasks -> TaskRow]

Reports(v) == {s \in Shifts : v \in shift[s].report}

\* A sale begun and committed while its cashier has an open shift that nobody is closing is in
\* the Z report of that shift, and in no other, once it is closed; any other sale is in one
\* report at most.  Openings, closings by the cashier and by the job follow one another, sales
\* and voids happen at any step of them.
SaleInItsReport ==
  \A v \in Sales : sale[v].status = "PAID" /\ sale[v].seller \notin crossed =>
    /\ Cardinality(Reports(v)) <= 1
    /\ sale[v].during # None /\ shift[sale[v].during].status = "CLOSED" => Reports(v) = {sale[v].during}

\* The figures of a closed shift never change, unless two closings of one cashier cross.
ClosedStays ==
  [][\A s \in Shifts : shift[s].status = "CLOSED" /\ shift[s].user \notin crossed =>
       shift'[s].status = "CLOSED" /\ shift'[s].report = shift[s].report]_vars

\* No shift stays open for ever: the nightly job closes what the cashiers leave open.
ShiftsEnd == \A s \in Shifts : shift[s].status = "OPEN" ~> shift[s].status = "CLOSED"

=============================================================================
