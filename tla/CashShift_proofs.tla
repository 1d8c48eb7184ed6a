-------------------------- MODULE CashShift_proofs --------------------------
(***************************************************************************)
(* Z reports hold the sales of their shift and keep their figures, for any *)
(* cashiers, shifts, sales and requests.                                   *)
(***************************************************************************)
EXTENDS CashShift, FiniteSetTheorems, TLAPS

\* A request works on a shift of its user, which it has stamped or found open.
Working == \A r \in Tasks : ~At(r, "idle") =>
  /\ task[r].user \in Users /\ task[r].shift \in Shifts
  /\ shift[task[r].shift].user = task[r].user
  /\ IF At(r, "open") THEN shift[task[r].shift].status = "opening"
     ELSE shift[task[r].shift].status \in {"OPEN", "CLOSED"}

\* One request opens a shift, and two requests of a user have crossed.
Alone == \A r, q \in Tasks : r # q /\ ~At(r, "idle") /\ ~At(q, "idle") =>
  /\ task[r].user = task[q].user => task[r].user \in crossed
  /\ At(r, "open") /\ At(q, "open") => task[r].shift # task[q].shift

\* A shift that is being closed is open, if its user crossed nothing.
ClosingOpen == \A r \in Tasks :
  task[r].pc \in {"sum", "close"} /\ shift[task[r].shift].status = "CLOSED" =>
    task[r].user \in crossed

\* A shift that is stamped and not there yet has a request that opens it.
Opening == \A s \in Shifts : shift[s].status = "opening" =>
  \E r \in Tasks : At(r, "open") /\ task[r].shift = s

Unclosed(s) == shift[s].status \in {"opening", "OPEN"}

\* A user that crossed nothing has one shift that is not closed.
OneUnclosed == \A s, t \in Shifts :
  Unclosed(s) /\ Unclosed(t) /\ shift[s].user = shift[t].user /\ shift[s].user \notin crossed =>
    s = t

\* A sale was stamped after shifts that exist.
SinceThere == \A v \in Sales : \A s \in sale[v].since : shift[s].status # "none"

\* Sale v belongs to the figures of shift s.
Belongs(v, s) ==
  sale[v].status \in {"PAID", "CANCELLED"} /\ sale[v].seller = shift[s].user /\ s \in sale[v].since

\* A report, written or about to be, holds sales of the shift's user and time.
Reported ==
  /\ \A s \in Shifts : \A v \in shift[s].report : shift[s].status = "CLOSED" /\ Belongs(v, s)
  /\ \A r \in Tasks : At(r, "close") => \A v \in task[r].report : Belongs(v, task[r].shift)

\* The shifts whose report has the sale, or may still get it.
Live(v, s) == s \in sale[v].since /\ sale[v].seller = shift[s].user
              /\ (Unclosed(s) \/ v \in shift[s].report)

LiveOnce == \A v \in Sales : sale[v].seller \notin crossed =>
  \A s, t \in Shifts : Live(v, s) /\ Live(v, t) => s = t

\* A sale committed in an open shift is known to whoever closes the shift.
Counted == \A v \in Sales, s \in Shifts : sale[v].status = "PAID" /\ sale[v].during = s =>
  /\ Belongs(v, s)
  /\ shift[s].status = "CLOSED" => v \in shift[s].report
  /\ \A r \in Tasks : task[r].shift = s =>
       (At(r, "sum") => v \in task[r].until) /\ (At(r, "close") => v \in task[r].report)

Inv ==
  /\ TypeOK /\ Working /\ Alone /\ ClosingOpen /\ Opening
  /\ OneUnclosed /\ SinceThere /\ Reported /\ LiveOnce /\ Counted

-----------------------------------------------------------------------------
LEMMA TaskBecomes ==
  ASSUME TypeOK, NEW r \in Tasks, NEW t, Become(r, t)
  PROVE  \A q \in Tasks : task'[q] = IF q = r THEN t ELSE task[q]
BY DEF TypeOK, Become

LEMMA Crosses ==
  ASSUME NEW r, NEW u, Crossing(r, u)
  PROVE  /\ crossed \subseteq crossed'
         /\ \A q \in Tasks : q # r /\ task[q].user = u => u \in crossed'
BY DEF Crossing

\* A request begins on the shifts of a user, or goes on with its own.
LEMMA AloneStep ==
  ASSUME Inv, NEW r \in Tasks, NEW t, Become(r, t), crossed \subseteq crossed',
         t.pc # "idle" =>
           \/ ~At(r, "idle") /\ t.user = task[r].user
           \/ Crossing(r, t.user),
         t.pc = "open" => shift[t.shift].status = "none"
  PROVE  Alone'
<1>1. \A q \in Tasks : task'[q] = IF q = r THEN t ELSE task[q]
  BY TaskBecomes DEF Inv
<1>2. ASSUME NEW p \in Tasks, NEW q \in Tasks, p # q, task'[p].pc # "idle", task'[q].pc # "idle"
      PROVE  /\ task'[p].user = task'[q].user => task'[p].user \in crossed'
             /\ task'[p].pc = "open" /\ task'[q].pc = "open" => task'[p].shift # task'[q].shift
  <2>1. CASE p # r /\ q # r
    BY <1>1, <1>2, <2>1 DEF Inv, Alone, At
  <2>2. ASSUME NEW o \in Tasks, o # r, task[o].pc # "idle", t.pc # "idle"
        PROVE  /\ task[o].user = t.user => t.user \in crossed'
               /\ task[o].pc = "open" /\ t.pc = "open" => task[o].shift # t.shift
    <3>1. CASE ~At(r, "idle") /\ t.user = task[r].user
      BY <2>2, <3>1 DEF Inv, Alone, Working, At
    <3>2. CASE Crossing(r, t.user)
      BY <2>2, <3>2 DEF Crossing, Inv, Working, At
    <3> QED
      BY <2>2, <3>1, <3>2
  <2>3. CASE p = r
    BY <1>1, <1>2, <2>2, <2>3
  <2>4. CASE q = r
    BY <1>1, <1>2, <2>2, <2>4
  <2> QED
    BY <2>1, <2>3, <2>4
<1> QED
  BY <1>2 DEF Alone, At

LEMMA InitInv == Init => Inv
<1> SUFFICES ASSUME Init PROVE Inv
  OBVIOUS
<1>1. TypeOK
  BY DEF Init, TypeOK, Idle, ShiftRow, SaleRow, TaskRow
<1>2. Working /\ Alone /\ ClosingOpen /\ Opening /\ OneUnclosed
  BY DEF Init, Working, Alone, ClosingOpen, Opening, OneUnclosed, Unclosed, Idle, At
<1>3. SinceThere /\ Reported /\ LiveOnce /\ Counted
  BY DEF Init, SinceThere, Reported, LiveOnce, Counted, Live, Idle, At
<1> QED
  BY <1>1, <1>2, <1>3 DEF Inv

LEMMA ShiftType ==
  ASSUME TypeOK, NEW s \in Shifts, NEW row \in ShiftRow, shift' = [shift EXCEPT ![s] = row]
  PROVE  shift' \in [Shifts -> ShiftRow]
BY DEF TypeOK

LEMMA TaskType ==
  ASSUME TypeOK, NEW r \in Tasks, NEW t \in TaskRow, Become(r, t)
  PROVE  task' \in [Tasks -> TaskRow]
BY DEF TypeOK, Become

LEMMA SaleType ==
  ASSUME TypeOK, NEW v \in Sales, NEW row \in SaleRow, sale' = [sale EXCEPT ![v] = row]
  PROVE  sale' \in [Sales -> SaleRow]
BY DEF TypeOK

LEMMA RowType ==
  ASSUME TypeOK
  PROVE  /\ \A s \in Shifts : shift[s] \in ShiftRow
         /\ \A v \in Sales : sale[v] \in SaleRow
         /\ \A r \in Tasks : task[r] \in TaskRow
         /\ Idle \in TaskRow
BY DEF TypeOK, Idle, TaskRow

LEMMA CrossingType ==
  ASSUME TypeOK, NEW r, NEW u \in Users, Crossing(r, u)
  PROVE  crossed' \subseteq Users
BY DEF TypeOK, Crossing

LEMMA TypeStep == TypeOK /\ [Next]_vars => TypeOK'
<1> SUFFICES ASSUME TypeOK, [Next]_vars PROVE TypeOK'
  OBVIOUS
<1>1. Requests \subseteq Tasks /\ Job \in Tasks
  BY DEF Tasks
<1>2. /\ \A u \in Users, s \in Shifts, pc \in {"open", "again", "sum"}, until \in SUBSET Sales :
           [pc |-> pc, user |-> u, shift |-> s, until |-> until, report |-> {}] \in TaskRow
      /\ Made \in SUBSET Sales
  BY DEF Made, TaskRow
<1>3. ASSUME NEW r \in Requests, NEW u \in Users, NEW s \in Shifts, BeginOpen(r, u, s) PROVE TypeOK'
  <2> DEFINE row == [shift[s] EXCEPT !.status = "opening", !.user = u]
  <2>1. row \in ShiftRow /\ shift' = [shift EXCEPT ![s] = row]
    BY <1>3, RowType DEF BeginOpen, ShiftRow
  <2>2. /\ [Idle EXCEPT !.pc = "open", !.user = u, !.shift = s] \in TaskRow
        /\ Become(r, [Idle EXCEPT !.pc = "open", !.user = u, !.shift = s])
    BY <1>2, <1>3 DEF BeginOpen, Idle, TaskRow
  <2>3. crossed' \subseteq Users /\ sale' = sale
    BY <1>3, CrossingType DEF BeginOpen
  <2> QED
    BY <1>1, <2>1, <2>2, <2>3, ShiftType, TaskType DEF TypeOK
<1>4. ASSUME NEW r \in Requests, NEW u \in Users, NEW s \in Shifts, BeginClose(r, u, s) PROVE TypeOK'
  <2>1. /\ [Idle EXCEPT !.pc = "sum", !.user = u, !.shift = s, !.until = Made] \in TaskRow
        /\ Become(r, [Idle EXCEPT !.pc = "sum", !.user = u, !.shift = s, !.until = Made])
    BY <1>2, <1>4 DEF BeginClose, Idle, TaskRow
  <2>2. crossed' \subseteq Users /\ sale' = sale /\ shift' = shift
    BY <1>4, CrossingType DEF BeginClose
  <2> QED
    BY <1>1, <2>1, <2>2, TaskType DEF TypeOK
<1>5. ASSUME NEW u \in Users, NEW s \in Shifts, BeginAuto(u, s) PROVE TypeOK'
  <2>1. /\ [Idle EXCEPT !.pc = "again", !.user = u, !.shift = s] \in TaskRow
        /\ Become(Job, [Idle EXCEPT !.pc = "again", !.user = u, !.shift = s])
    BY <1>2, <1>5 DEF BeginAuto, Idle, TaskRow
  <2>2. crossed' \subseteq Users /\ sale' = sale /\ shift' = shift
    BY <1>5, CrossingType DEF BeginAuto
  <2> QED
    BY <1>1, <2>1, <2>2, TaskType DEF TypeOK
<1>6. CASE Again
  <2>1. ASSUME NEW s \in Shifts
        PROVE  [task[Job] EXCEPT !.pc = "sum", !.shift = s, !.until = Made] \in TaskRow
    <3>1. task[Job] \in TaskRow
      BY <1>1, RowType
    <3> QED
      BY <1>2, <3>1 DEF TaskRow
  <2>2. CASE Finish(Job)
    BY <1>1, <1>6, <2>2, RowType, TaskType DEF Again, Finish, TypeOK
  <2>3. CASE \E s \in OpenOf(task[Job].user) :
               Become(Job, [task[Job] EXCEPT !.pc = "sum", !.shift = s, !.until = Made])
    <3>1. PICK s \in Shifts :
            Become(Job, [task[Job] EXCEPT !.pc = "sum", !.shift = s, !.until = Made])
      BY <2>3 DEF OpenOf
    <3>2. task' \in [Tasks -> TaskRow]
      BY <1>1, <2>1, <3>1, TaskType
    <3> QED
      BY <1>6, <3>2 DEF Again, TypeOK
  <2> QED
    BY <1>6, <2>2, <2>3 DEF Again
<1>7. ASSUME NEW r \in Tasks, Open(r) PROVE TypeOK'
  <2>1. ASSUME task[r].shift \in Shifts PROVE shift' \in [Shifts -> ShiftRow]
    <3>1. [shift[task[r].shift] EXCEPT !.status = "OPEN"] \in ShiftRow
      BY <2>1, RowType DEF ShiftRow
    <3>2. shift' = [shift EXCEPT ![task[r].shift] = [shift[task[r].shift] EXCEPT !.status = "OPEN"]]
      BY <1>7 DEF Open
    <3> QED
      BY <2>1, <3>1, <3>2, ShiftType
  <2>2. ASSUME task[r].shift \notin Shifts PROVE shift' = shift
    BY <1>7, <2>2 DEF Open, TypeOK
  <2> QED
    BY <1>7, <2>1, <2>2, RowType, TaskType DEF Open, Finish, TypeOK
<1>8. ASSUME NEW r \in Tasks, Sum(r) PROVE TypeOK'
  <2>1. Summed(task[r].shift, task[r].until) \in SUBSET Sales
    BY RowType DEF Summed, TaskRow
  <2>2. [task[r] EXCEPT !.pc = "close", !.report = Summed(task[r].shift, task[r].until)] \in TaskRow
    BY <2>1, RowType DEF TaskRow
  <2> QED
    BY <1>8, <2>2, TaskType DEF Sum, TypeOK
<1>9. ASSUME NEW r \in Tasks, Close(r) PROVE TypeOK'
  <2> DEFINE s == task[r].shift
  <2>1. ASSUME s \in Shifts PROVE shift' \in [Shifts -> ShiftRow]
    <3>1. [shift[s] EXCEPT !.status = "CLOSED", !.report = task[r].report, !.impreso = FALSE]
          \in ShiftRow
      <4>1. task[r].report \in SUBSET Sales /\ shift[s] \in ShiftRow
        BY <2>1, RowType DEF TaskRow
      <4> QED
        BY <4>1 DEF ShiftRow
    <3>2. shift' = [shift EXCEPT ![s] = [shift[s] EXCEPT !.status = "CLOSED",
                                                        !.report = task[r].report, !.impreso = FALSE]]
      BY <1>9 DEF Close
    <3> QED
      BY <2>1, <3>1, <3>2, ShiftType
  <2>2. ASSUME s \notin Shifts PROVE shift' = shift
    BY <1>9, <2>2 DEF Close, TypeOK
  <2> QED
    BY <1>9, <2>1, <2>2, RowType, TaskType DEF Close, Finish, TypeOK
<1>10. ASSUME NEW s \in Shifts, MarkPrinted(s) PROVE TypeOK'
  BY <1>10 DEF MarkPrinted, TypeOK, ShiftRow
<1>11. ASSUME NEW v \in Sales, NEW u \in Users, Stamp(v, u) PROVE TypeOK'
  <2>1. [status |-> "stamped", seller |-> u, during |-> None,
         since |-> {s \in Shifts : shift[s].status # "none"}] \in SaleRow
    BY DEF SaleRow
  <2> QED
    BY <1>11, <2>1, SaleType DEF Stamp, TypeOK
<1>12. ASSUME NEW v \in Sales, Commit(v) PROVE TypeOK'
  <2> DEFINE open == {s \in OpenOf(sale[v].seller) \cap sale[v].since : ~Closing(s)}
             d == IF open = {} THEN None ELSE CHOOSE s \in open : TRUE
  <2>1. d \in Shifts \cup {None}
    BY DEF OpenOf
  <2>2. [sale[v] EXCEPT !.status = "PAID", !.during = d] \in SaleRow
    BY <2>1, RowType DEF SaleRow
  <2>3. sale' = [sale EXCEPT ![v] = [sale[v] EXCEPT !.status = "PAID", !.during = d]]
    BY <1>12 DEF Commit
  <2> HIDE DEF d
  <2> QED
    BY <1>12, <2>2, <2>3, SaleType DEF Commit, TypeOK
<1>13. ASSUME NEW v \in Sales, Void(v) PROVE TypeOK'
  BY <1>13 DEF Void, TypeOK, SaleRow
<1>14. CASE UNCHANGED vars
  BY <1>14 DEF vars, TypeOK
<1> QED
  BY <1>1, <1>3, <1>4, <1>5, <1>6, <1>7, <1>8, <1>9, <1>10, <1>11, <1>12, <1>13, <1>14
  DEF Next, JobStep

LEMMA FieldTypes ==
  ASSUME TypeOK
  PROVE  /\ \A v \in Sales : sale[v].since \subseteq Shifts
         /\ \A s \in Shifts : shift[s].report \subseteq Sales
         /\ \A r \in Tasks : task[r].report \subseteq Sales /\ task[r].until \subseteq Sales
BY RowType DEF ShiftRow, SaleRow, TaskRow

-----------------------------------------------------------------------------
LEMMA BeginOpenStep ==
  ASSUME Inv, NEW r \in Tasks, NEW u \in Users, NEW s \in Shifts, BeginOpen(r, u, s), TypeOK'
  PROVE  Inv'
<1> DEFINE t == [Idle EXCEPT !.pc = "open", !.user = u, !.shift = s]
<1>1. /\ t.pc = "open" /\ t.user = u /\ t.shift = s
      /\ At(r, "idle") /\ Become(r, t) /\ Crossing(r, u) /\ OpenOf(u) = {} /\ sale' = sale
      /\ shift[s].status = "none"
  BY DEF BeginOpen, Idle
<1> HIDE DEF t
<1>2. \A q \in Tasks : task'[q] = IF q = r THEN t ELSE task[q]
  BY <1>1, TaskBecomes DEF Inv
<1>3. \A x \in Shifts :
        /\ shift'[x].report = shift[x].report
        /\ x = s => shift'[x].status = "opening" /\ shift'[x].user = u
        /\ x # s => shift'[x].status = shift[x].status /\ shift'[x].user = shift[x].user
  BY DEF BeginOpen, Inv, TypeOK, ShiftRow
<1>4. /\ crossed \subseteq crossed'
      /\ \A q \in Tasks : q # r /\ task[q].user = u => u \in crossed'
  BY <1>1, Crosses
<1>5. Working' /\ ClosingOpen' /\ Opening'
  BY <1>1, <1>2, <1>3, <1>4 DEF Inv, Working, ClosingOpen, Opening, At
<1>6. Alone'
  BY <1>1, <1>4, AloneStep
<1>7. ASSUME NEW x \in Shifts, x # s, shift[x].user = u, Unclosed(x) PROVE u \in crossed'
  <2>1. shift[x].status = "opening"
    BY <1>1, <1>7 DEF OpenOf, Unclosed
  <2>2. PICK q \in Tasks : At(q, "open") /\ task[q].shift = x
    BY <2>1 DEF Inv, Opening
  <2> QED
    BY <1>1, <1>4, <1>7, <2>2 DEF Inv, Working, At
<1>8. OneUnclosed'
  BY <1>3, <1>4, <1>7 DEF Inv, OneUnclosed, Unclosed
<1>9. SinceThere'
  BY <1>1, <1>3, FieldTypes DEF Inv, SinceThere
<1>11. \A v \in Sales, x \in Shifts : Belongs(v, x)' <=> Belongs(v, x)
  BY <1>1, <1>3, FieldTypes DEF Inv, SinceThere, Belongs
<1>12. Reported'
  BY <1>1, <1>2, <1>3, <1>11, FieldTypes DEF Inv, Reported, Working, At
<1>13. Counted'
  BY <1>1, <1>2, <1>3, <1>11 DEF Inv, Counted, At
<1>10. LiveOnce'
  <2>1. \A v \in Sales, x \in Shifts : Live(v, x)' => Live(v, x)
    BY <1>1, <1>3 DEF Inv, SinceThere, Live, Unclosed
  <2> QED
    BY <1>1, <1>4, <2>1 DEF Inv, LiveOnce
<1> QED
  BY <1>5, <1>6, <1>8, <1>9, <1>10, <1>12, <1>13 DEF Inv

\* A step that changes what one request knows and nothing else.
LEMMA TaskOnlyStep ==
  ASSUME Inv, TypeOK', Alone', NEW r \in Tasks, NEW t, Become(r, t), UNCHANGED <<shift, sale>>,
         crossed \subseteq crossed', ~At(r, "open"), t.pc # "open",
         t.pc # "idle" => /\ t.user \in Users /\ t.shift \in Shifts
                          /\ shift[t.shift].user = t.user
                          /\ shift[t.shift].status \in {"OPEN", "CLOSED"},
         t.pc \in {"sum", "close"} /\ shift[t.shift].status = "CLOSED" => t.user \in crossed',
         t.pc = "close" => \A v \in t.report : Belongs(v, t.shift),
         \A v \in Sales : sale[v].status = "PAID" /\ sale[v].during = t.shift =>
           (t.pc = "sum" => v \in t.until) /\ (t.pc = "close" => v \in t.report)
  PROVE  Inv'
<1>1. \A q \in Tasks : task'[q] = IF q = r THEN t ELSE task[q]
  BY TaskBecomes DEF Inv
<1>2. Working' /\ ClosingOpen'
  BY <1>1 DEF Inv, Working, ClosingOpen, At
<1>3. Opening'
  BY <1>1 DEF Inv, Opening, At
<1>4. OneUnclosed' /\ LiveOnce'
  BY DEF Inv, OneUnclosed, LiveOnce, Unclosed, Live
<1>5. SinceThere'
  BY DEF Inv, SinceThere
<1>6. \A v, s : Belongs(v, s)' <=> Belongs(v, s)
  BY DEF Belongs
<1>7. Reported'
  BY <1>1, <1>6 DEF Inv, Reported, At
<1>8. Counted'
  BY <1>1, <1>6 DEF Inv, Counted, At
<1> QED
  BY <1>2, <1>3, <1>4, <1>5, <1>7, <1>8 DEF Inv

LEMMA BeginCloseStep ==
  ASSUME Inv, NEW r \in Tasks, NEW u \in Users, NEW s \in Shifts,
         BeginClose(r, u, s) \/ (r = Job /\ BeginAuto(u, s)), TypeOK'
  PROVE  Inv'
<1>1. PICK t : /\ (t.pc = "sum" /\ t.until = Made) \/ t.pc = "again"
               /\ t.user = u /\ t.shift = s /\ Become(r, t)
  <2>1. CASE BeginClose(r, u, s)
    <3> DEFINE t == [Idle EXCEPT !.pc = "sum", !.user = u, !.shift = s, !.until = Made]
    <3>1. t.pc = "sum" /\ t.until = Made /\ t.user = u /\ t.shift = s
      BY DEF Idle
    <3> QED
      BY <2>1, <3>1 DEF BeginClose
  <2>2. CASE r = Job /\ BeginAuto(u, s)
    <3> DEFINE t == [Idle EXCEPT !.pc = "again", !.user = u, !.shift = s]
    <3>1. t.pc = "again" /\ t.user = u /\ t.shift = s
      BY DEF Idle
    <3> QED
      BY <2>2, <3>1 DEF BeginAuto
  <2> QED
    BY <2>1, <2>2
<1>2. /\ At(r, "idle") /\ s \in OpenOf(u) /\ Crossing(r, u) /\ UNCHANGED <<shift, sale>>
  BY DEF BeginClose, BeginAuto
<1>3. Alone'
  BY <1>1, <1>2, AloneStep, Crosses
<1>4. \A v \in Sales : sale[v].status = "PAID" => v \in Made
  BY DEF Made
<1> QED
  BY <1>1, <1>2, <1>3, <1>4, TaskOnlyStep, Crosses DEF OpenOf, At

LEMMA AgainStep ==
  ASSUME Inv, Again, TypeOK'
  PROVE  Inv'
<1>1. Job \in Tasks
  BY DEF Tasks
<1>2. CASE Finish(Job)
  <2>1. Become(Job, Idle) /\ Idle.pc = "idle"
    BY <1>2 DEF Finish, Idle
  <2>2. Alone'
    BY <1>1, <2>1, AloneStep DEF Again
  <2>3. ~At(Job, "open") /\ UNCHANGED <<shift, sale, crossed>>
    BY DEF Again, At
  <2> QED
    BY <1>1, <2>1, <2>2, <2>3, TaskOnlyStep
<1>3. ASSUME NEW s \in OpenOf(task[Job].user),
             Become(Job, [task[Job] EXCEPT !.pc = "sum", !.shift = s, !.until = Made])
      PROVE  Inv'
  <2> DEFINE t == [task[Job] EXCEPT !.pc = "sum", !.shift = s, !.until = Made]
  <2>1. t.pc = "sum" /\ t.until = Made /\ t.user = task[Job].user /\ t.shift = s
    BY <1>1, RowType DEF Inv, TaskRow
  <2>2. Become(Job, t)
    BY <1>3
  <2> HIDE DEF t
  <2>3. ~At(Job, "open") /\ ~At(Job, "idle") /\ UNCHANGED <<shift, sale, crossed>>
    BY DEF Again, At
  <2>4. Alone'
    BY <1>1, <2>1, <2>2, <2>3, AloneStep
  <2>5. \A v \in Sales : sale[v].status = "PAID" => v \in Made
    BY DEF Made
  <2>6. s \in Shifts /\ shift[s].user = t.user /\ shift[s].status = "OPEN" /\ t.user \in Users
    BY <1>1, <2>1, <2>3 DEF OpenOf, Inv, Working
  <2> QED
    BY <1>1, <2>1, <2>2, <2>3, <2>4, <2>5, <2>6, TaskOnlyStep
<1> QED
  BY <1>2, <1>3 DEF Again

LEMMA SumStep ==
  ASSUME Inv, NEW r \in Tasks, Sum(r), TypeOK'
  PROVE  Inv'
<1> DEFINE s == task[r].shift
           t == [task[r] EXCEPT !.pc = "close", !.report = Summed(s, task[r].until)]
<1>1. /\ t.pc = "close" /\ t.report = Summed(s, task[r].until)
      /\ t.user = task[r].user /\ t.shift = s
  BY RowType DEF Inv, TaskRow
<1>2. Become(r, t) /\ At(r, "sum") /\ UNCHANGED <<shift, sale, crossed>>
  BY DEF Sum
<1> HIDE DEF t
<1>3. ~At(r, "idle") /\ ~At(r, "open")
  BY <1>2 DEF At
<1>4. Alone'
  BY <1>1, <1>2, <1>3, AloneStep
<1>5. \A v \in t.report : Belongs(v, s)
  BY <1>1 DEF Summed, Belongs
<1>6. \A v \in Sales : sale[v].status = "PAID" /\ sale[v].during = s => v \in t.report
  BY <1>1, <1>2, <1>3 DEF Inv, Counted, Working, Summed, Belongs
<1>7. /\ t.user \in Users /\ s \in Shifts /\ shift[s].user = t.user
      /\ shift[s].status \in {"OPEN", "CLOSED"}
  BY <1>1, <1>3 DEF Inv, Working
<1>8. shift[s].status = "CLOSED" => t.user \in crossed
  BY <1>1, <1>2 DEF Inv, ClosingOpen, At
<1> QED
  BY <1>1, <1>2, <1>3, <1>4, <1>5, <1>6, <1>7, <1>8, TaskOnlyStep

LEMMA OpenStep ==
  ASSUME Inv, NEW r \in Tasks, Open(r), TypeOK'
  PROVE  Inv'
<1> DEFINE s == task[r].shift
<1>1. /\ At(r, "open") /\ Become(r, Idle) /\ UNCHANGED <<sale, crossed>> /\ Idle.pc = "idle"
      /\ ~At(r, "idle")
  BY DEF Open, Finish, Idle, At
<1>2. s \in Shifts /\ shift[s].status = "opening" /\ shift[s].user = task[r].user
  BY <1>1 DEF Inv, Working
<1>3. \A x \in Shifts :
        /\ shift'[x].report = shift[x].report /\ shift'[x].user = shift[x].user
        /\ shift'[x].status = IF x = s THEN "OPEN" ELSE shift[x].status
  BY <1>2 DEF Open, Inv, TypeOK, ShiftRow
<1>4. \A q \in Tasks : task'[q] = IF q = r THEN Idle ELSE task[q]
  BY <1>1, TaskBecomes DEF Inv
<1>5. Alone'
  BY <1>1, AloneStep
<1>6. ASSUME NEW q \in Tasks, q # r, ~At(q, "idle"), task[q].shift = s
      PROVE  FALSE
  BY <1>1, <1>2, <1>6 DEF Inv, Working, Alone
<1>7. Working' /\ ClosingOpen'
  BY <1>1, <1>2, <1>3, <1>4, <1>6 DEF Inv, Working, ClosingOpen, At
<1>8. Opening'
  BY <1>3, <1>4, <1>1 DEF Inv, Opening, At
<1>9. OneUnclosed'
  BY <1>1, <1>2, <1>3 DEF Inv, OneUnclosed, Unclosed
<1>10. SinceThere'
  BY <1>1, <1>3, FieldTypes DEF Inv, SinceThere
<1>11. \A v \in Sales, x \in Shifts : (Belongs(v, x)' <=> Belongs(v, x)) /\ (Live(v, x)' <=> Live(v, x))
  BY <1>1, <1>2, <1>3 DEF Belongs, Live, Unclosed
<1>12. Reported'
  BY <1>1, <1>2, <1>3, <1>4, <1>11, FieldTypes DEF Inv, Reported, Working, At
<1>13. Counted'
  BY <1>1, <1>2, <1>3, <1>4, <1>11 DEF Inv, Counted, At
<1>14. LiveOnce'
  BY <1>1, <1>11 DEF Inv, LiveOnce
<1> QED
  BY <1>5, <1>7, <1>8, <1>9, <1>10, <1>12, <1>13, <1>14 DEF Inv

LEMMA CloseStep ==
  ASSUME Inv, NEW r \in Tasks, Close(r), TypeOK'
  PROVE  Inv'
<1> DEFINE s == task[r].shift
<1>1. /\ At(r, "close") /\ Become(r, Idle) /\ UNCHANGED <<sale, crossed>> /\ Idle.pc = "idle"
      /\ ~At(r, "idle") /\ ~At(r, "open")
  BY DEF Close, Finish, Idle, At
<1>2. /\ s \in Shifts /\ shift[s].status \in {"OPEN", "CLOSED"} /\ shift[s].user = task[r].user
      /\ shift[s].status = "CLOSED" => shift[s].user \in crossed
  BY <1>1 DEF Inv, Working, ClosingOpen, At
<1>3. \A x \in Shifts :
        /\ shift'[x].user = shift[x].user
        /\ shift'[x].status = IF x = s THEN "CLOSED" ELSE shift[x].status
        /\ shift'[x].report = IF x = s THEN task[r].report ELSE shift[x].report
  BY <1>2 DEF Close, Inv, TypeOK, ShiftRow
<1>4. \A q \in Tasks : task'[q] = IF q = r THEN Idle ELSE task[q]
  BY <1>1, TaskBecomes DEF Inv
<1>5. Alone'
  BY <1>1, AloneStep
<1>6. Working'
  BY <1>1, <1>2, <1>3, <1>4 DEF Inv, Working, At
<1>7. ClosingOpen'
  BY <1>1, <1>2, <1>3, <1>4 DEF Inv, Working, ClosingOpen, Alone, At
<1>8. Opening'
  BY <1>1, <1>3, <1>4 DEF Inv, Opening, At
<1>9. OneUnclosed'
  BY <1>1, <1>3 DEF Inv, OneUnclosed, Unclosed
<1>10. SinceThere'
  BY <1>1, <1>3, FieldTypes DEF Inv, SinceThere
<1>11. \A v \in Sales, x \in Shifts : Belongs(v, x)' <=> Belongs(v, x)
  BY <1>1, <1>2, <1>3 DEF Belongs
<1>12. Reported'
  BY <1>1, <1>2, <1>3, <1>4, <1>11, FieldTypes DEF Inv, Reported, Working, At
<1>13. Counted'
  BY <1>1, <1>2, <1>3, <1>4, <1>11 DEF Inv, Counted, At
<1>14. \A v \in Sales, x \in Shifts : sale[v].seller \notin crossed /\ Live(v, x)' => Live(v, x)
  BY <1>1, <1>2, <1>3 DEF Live, Unclosed
<1>15. LiveOnce'
  BY <1>1, <1>14 DEF Inv, LiveOnce
<1> QED
  BY <1>5, <1>6, <1>7, <1>8, <1>9, <1>10, <1>12, <1>13, <1>15 DEF Inv

LEMMA MarkPrintedStep ==
  ASSUME Inv, NEW s \in Shifts, MarkPrinted(s), TypeOK'
  PROVE  Inv'
<1>1. /\ UNCHANGED <<sale, task, crossed>>
      /\ \A x \in Shifts : /\ shift'[x].user = shift[x].user /\ shift'[x].status = shift[x].status
                            /\ shift'[x].report = shift[x].report
  BY DEF MarkPrinted, Inv, TypeOK, ShiftRow
<1>2. \A v \in Sales, x \in Shifts : (Belongs(v, x)' <=> Belongs(v, x)) /\ (Live(v, x)' <=> Live(v, x))
  BY <1>1 DEF Belongs, Live, Unclosed
<1>3. Working' /\ Alone' /\ ClosingOpen' /\ Opening'
  BY <1>1 DEF Inv, Working, Alone, ClosingOpen, Opening, At
<1>4. OneUnclosed' /\ SinceThere' /\ LiveOnce'
  BY <1>1, <1>2, FieldTypes DEF Inv, OneUnclosed, Unclosed, SinceThere, LiveOnce
<1>5. Reported' /\ Counted'
  BY <1>1, <1>2, FieldTypes DEF Inv, Reported, Counted, Working, At
<1> QED
  BY <1>3, <1>4, <1>5 DEF Inv

\* A step that changes one sale and nothing else.
LEMMA SaleStep ==
  ASSUME Inv, TypeOK', UNCHANGED <<shift, task, crossed>>,
         SinceThere', LiveOnce', Counted',
         \A v \in Sales, s \in Shifts : Belongs(v, s) => Belongs(v, s)'
  PROVE  Inv'
<1>1. Working' /\ Alone' /\ ClosingOpen' /\ Opening' /\ OneUnclosed'
  BY DEF Inv, Working, Alone, ClosingOpen, Opening, OneUnclosed, Unclosed, At
<1>2. Reported'
  BY FieldTypes DEF Inv, Reported, Working, At
<1> QED
  BY <1>1, <1>2 DEF Inv

LEMMA StampStep ==
  ASSUME Inv, NEW v \in Sales, NEW u \in Users, Stamp(v, u), TypeOK'
  PROVE  Inv'
<1>1. UNCHANGED <<shift, task, crossed>> /\ sale[v].status = "none"
  BY DEF Stamp
<1>2. \A x \in Sales :
        IF x = v THEN /\ sale'[x].status = "stamped" /\ sale'[x].seller = u
                      /\ sale'[x].since = {s \in Shifts : shift[s].status # "none"}
        ELSE sale'[x] = sale[x]
  BY DEF Stamp, Inv, TypeOK
<1>3. SinceThere'
  BY <1>1, <1>2 DEF Inv, SinceThere
<1>4. \A x \in Sales, s \in Shifts : Belongs(x, s) => x # v /\ Belongs(x, s)'
  BY <1>1, <1>2 DEF Belongs
<1>5. ASSUME NEW s \in Shifts, NEW t \in Shifts, Live(v, s)', Live(v, t)', u \notin crossed
      PROVE  s = t
  <2>1. v \notin shift[s].report /\ v \notin shift[t].report
    BY <1>4 DEF Inv, Reported
  <2>2. Unclosed(s) /\ Unclosed(t) /\ shift[s].user = u /\ shift[t].user = u
    BY <1>1, <1>2, <1>5, <2>1 DEF Live, Unclosed
  <2> QED
    BY <1>5, <2>2 DEF Inv, OneUnclosed
<1>6. LiveOnce'
  <2>1. \A x \in Sales, s \in Shifts : x # v => sale'[x] = sale[x] /\ (Live(x, s)' <=> Live(x, s))
    BY <1>1, <1>2 DEF Live, Unclosed
  <2>2. sale'[v].seller = u
    BY <1>2
  <2> QED
    BY <1>1, <1>5, <2>1, <2>2 DEF Inv, LiveOnce
<1>7. Counted'
  BY <1>1, <1>2, <1>4 DEF Inv, Counted, At
<1> QED
  BY <1>1, <1>3, <1>4, <1>6, <1>7, SaleStep

LEMMA CommitStep ==
  ASSUME Inv, NEW v \in Sales, Commit(v), TypeOK'
  PROVE  Inv'
<1> DEFINE open == {s \in OpenOf(sale[v].seller) \cap sale[v].since : ~Closing(s)}
           d == IF open = {} THEN None ELSE CHOOSE s \in open : TRUE
<1>1. UNCHANGED <<shift, task, crossed>> /\ sale[v].status = "stamped"
  BY DEF Commit
<1>2. sale' = [sale EXCEPT ![v] = [sale[v] EXCEPT !.status = "PAID", !.during = d]]
  BY DEF Commit
<1>3. d = None \/ d \in open
  OBVIOUS
<1> HIDE DEF d
<1>4. \A x \in Sales :
        IF x = v THEN /\ sale'[x].status = "PAID" /\ sale'[x].seller = sale[x].seller
                      /\ sale'[x].since = sale[x].since /\ sale'[x].during = d
        ELSE sale'[x] = sale[x]
  BY <1>2 DEF Inv, TypeOK, SaleRow
<1>5. SinceThere'
  BY <1>1, <1>4 DEF Inv, SinceThere
<1>6. LiveOnce'
  BY <1>1, <1>4 DEF Inv, LiveOnce, Live, Unclosed
<1>7. \A x \in Sales, s \in Shifts : Belongs(x, s) => x # v /\ Belongs(x, s)'
  BY <1>1, <1>4 DEF Belongs
<1>8. ASSUME NEW s \in Shifts, d = s
      PROVE  /\ Belongs(v, s)' /\ shift[s].status = "OPEN"
             /\ \A r \in Tasks : task[r].shift = s => ~At(r, "sum") /\ ~At(r, "close")
  <2>1. s \in open
    BY <1>3, <1>8, CashShiftAssumption
  <2> QED
    BY <1>1, <1>4, <2>1 DEF OpenOf, Closing, Belongs, At
<1>9. Counted'
  BY <1>1, <1>4, <1>7, <1>8 DEF Inv, Counted, At
<1> QED
  BY <1>1, <1>5, <1>6, <1>7, <1>9, SaleStep

LEMMA VoidStep ==
  ASSUME Inv, NEW v \in Sales, Void(v), TypeOK'
  PROVE  Inv'
<1>1. UNCHANGED <<shift, task, crossed>> /\ sale[v].status = "PAID"
  BY DEF Void
<1>2. \A x \in Sales :
        /\ sale'[x].status = IF x = v THEN "CANCELLED" ELSE sale[x].status
        /\ sale'[x].seller = sale[x].seller /\ sale'[x].since = sale[x].since
        /\ sale'[x].during = sale[x].during
  BY DEF Void, Inv, TypeOK, SaleRow
<1>3. SinceThere' /\ LiveOnce'
  BY <1>1, <1>2 DEF Inv, SinceThere, LiveOnce, Live, Unclosed
<1>4. \A x \in Sales, s \in Shifts : Belongs(x, s) => Belongs(x, s)'
  BY <1>1, <1>2 DEF Belongs
<1>5. Counted'
  BY <1>1, <1>2, <1>4 DEF Inv, Counted, At
<1> QED
  BY <1>1, <1>3, <1>4, <1>5, SaleStep

LEMMA NextInv == Inv /\ [Next]_vars => Inv'
<1> SUFFICES ASSUME Inv, [Next]_vars PROVE Inv'
  OBVIOUS
<1>1. TypeOK'
  BY TypeStep DEF Inv
<1>2. Requests \subseteq Tasks /\ Job \in Tasks
  BY DEF Tasks
<1>3. CASE Next
  <2>1. CASE \E r \in Requests, u \in Users, s \in Shifts : BeginOpen(r, u, s) \/ BeginClose(r, u, s)
    <3>1. PICK r \in Requests, u \in Users, s \in Shifts : BeginOpen(r, u, s) \/ BeginClose(r, u, s)
      BY <2>1
    <3>2. CASE BeginOpen(r, u, s)
      BY <1>1, <1>2, <3>2, BeginOpenStep
    <3>3. CASE BeginClose(r, u, s)
      BY <1>1, <1>2, <3>3, BeginCloseStep
    <3> QED
      BY <3>1, <3>2, <3>3
  <2>2. CASE \E r \in Requests : Open(r) \/ Sum(r) \/ Close(r)
    BY <1>1, <1>2, <2>2, OpenStep, SumStep, CloseStep
  <2>3. CASE \E u \in Users, s \in Shifts : BeginAuto(u, s)
    BY <1>1, <1>2, <2>3, BeginCloseStep
  <2>4. CASE JobStep
    BY <1>1, <1>2, <2>4, AgainStep, SumStep, CloseStep DEF JobStep
  <2>5. CASE \E s \in Shifts : MarkPrinted(s)
    BY <1>1, <2>5, MarkPrintedStep
  <2>6. CASE \E v \in Sales : Commit(v) \/ Void(v) \/ \E u \in Users : Stamp(v, u)
    BY <1>1, <2>6, StampStep, CommitStep, VoidStep
  <2> QED
    BY <1>3, <2>1, <2>2, <2>3, <2>4, <2>5, <2>6 DEF Next
<1>4. CASE UNCHANGED vars
  BY <1>1, <1>4 DEF vars, Inv, Working, Alone, ClosingOpen, Opening, OneUnclosed, Unclosed,
     SinceThere, Reported, Belongs, LiveOnce, Live, Counted, At
<1> QED
  BY <1>3, <1>4

LEMMA Invariance == Spec => []Inv
BY InitInv, NextInv, PTL DEF Spec

-----------------------------------------------------------------------------
\* The rows of shifts, sales and requests keep their types.
THEOREM TypeCorrect == Spec => []TypeOK
<1>1. Inv => TypeOK
  BY DEF Inv
<1> QED
  BY <1>1, Invariance, PTL

\* A PAID sale is in one Z report at most, and in that of the shift it was committed in, once
\* the shift is closed, whatever openings, closings, sales and voids interleave, as long as no
\* two requests on the shifts of its cashier cross.
THEOREM SalesReported == Spec => []SaleInItsReport
<1>1. Inv => SaleInItsReport
  <2> SUFFICES ASSUME Inv, NEW v \in Sales, sale[v].status = "PAID", sale[v].seller \notin crossed
               PROVE  /\ Cardinality(Reports(v)) <= 1
                      /\ sale[v].during # None /\ shift[sale[v].during].status = "CLOSED" =>
                           Reports(v) = {sale[v].during}
    BY DEF SaleInItsReport
  <2>1. \A s \in Reports(v) : Live(v, s)
    BY DEF Reports, Inv, Reported, Belongs, Live
  <2>2. \A s, t \in Reports(v) : s = t
    BY <2>1 DEF Reports, Inv, LiveOnce
  <2>3. Reports(v) = {} \/ \E s : Reports(v) = {s}
    BY <2>2
  <2>4. Cardinality(Reports(v)) <= 1
    <3>1. CASE Reports(v) = {}
      <4>1. Cardinality(Reports(v)) = 0
        BY <3>1, FS_EmptySet
      <4> QED
        BY <4>1
    <3>2. ASSUME NEW s, Reports(v) = {s} PROVE Cardinality(Reports(v)) <= 1
      <4>1. Cardinality(Reports(v)) = 1
        BY <3>2, FS_Singleton
      <4> QED
        BY <4>1
    <3> QED
      BY <2>3, <3>1, <3>2
  <2>5. ASSUME sale[v].during # None, shift[sale[v].during].status = "CLOSED"
        PROVE  Reports(v) = {sale[v].during}
    <3>1. sale[v].during \in Shifts
      BY <2>5, RowType DEF Inv, SaleRow
    <3>2. sale[v].during \in Reports(v)
      BY <2>5, <3>1 DEF Inv, Counted, Reports
    <3> QED
      BY <2>2, <3>2
  <2> QED
    BY <2>4, <2>5
<1> QED
  BY <1>1, Invariance, PTL

\* A closed shift stays closed and keeps the sales of its report, as long as no two requests on
\* the shifts of its cashier cross.
THEOREM ClosedShiftsStay == Spec => ClosedStays
<1>1. Inv /\ [Next]_vars =>
        [\A s \in Shifts : shift[s].status = "CLOSED" /\ shift[s].user \notin crossed =>
           shift'[s].status = "CLOSED" /\ shift'[s].report = shift[s].report]_vars
  <2> SUFFICES ASSUME Inv, Next, NEW s \in Shifts, shift[s].status = "CLOSED",
                      shift[s].user \notin crossed
               PROVE  shift'[s].status = "CLOSED" /\ shift'[s].report = shift[s].report
    BY DEF vars
  <2>1. ASSUME NEW r \in Tasks, Close(r) PROVE shift'[s] = shift[s]
    BY <2>1 DEF Close, Inv, Working, ClosingOpen, TypeOK, At
  <2>2. ASSUME NEW r \in Tasks, Open(r) PROVE shift'[s] = shift[s]
    BY <2>2 DEF Open, Inv, Working, TypeOK, At
  <2>3. ASSUME NEW r \in Requests, NEW u \in Users, NEW t \in Shifts, BeginOpen(r, u, t)
        PROVE  shift'[s] = shift[s]
    BY <2>3 DEF BeginOpen, Inv, TypeOK
  <2>4. ASSUME NEW t \in Shifts, MarkPrinted(t)
        PROVE  shift'[s].status = "CLOSED" /\ shift'[s].report = shift[s].report
    BY <2>4 DEF MarkPrinted, Inv, TypeOK, ShiftRow
  <2>5. CASE UNCHANGED shift
    BY <2>5
  <2> QED
    BY <2>1, <2>2, <2>3, <2>4, <2>5
    DEF Next, JobStep, Tasks, BeginClose, BeginAuto, Again, Sum, Stamp, Commit, Void
<1> QED
  BY <1>1, Invariance, PTL DEF Spec, ClosedStays
=============================================================================
