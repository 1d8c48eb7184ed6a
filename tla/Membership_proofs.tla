------------------------- MODULE Membership_proofs -------------------------
(***************************************************************************)
(* Registration leaves no account without a membership, no invitation      *)
(* revives one, and whoever belongs somewhere can log in, for any users,   *)
(* organisations, invitations and requests.                                *)
(***************************************************************************)
EXTENDS Membership, TLAPS

Steps == {"idle", "register", "found", "foundCommit", "cleanup", "provisionNew", "provision",
          "reactivate", "activate", "insert", "raced", "racedUser", "invite", "accept",
          "acceptMark", "suspend", "count", "deactivate", "purge", "purgeUser"}

TaskRow == [pc : Steps, user : Users \cup {None}, org : Organizations \cup {None},
            invitation : Invitations \cup {None}, active : BOOLEAN, new : BOOLEAN,
            rest : SUBSET Users]

\* What a running request is about exists; organisations are never deleted.
Refers(t) ==
  /\ t.pc \notin {"idle", "purge"} => t.user \in Users
  /\ t.pc \notin {"idle", "purge", "purgeUser"} => t.org \in Organizations
  /\ t.pc \notin {"idle", "purge", "purgeUser", "register", "found", "foundCommit", "cleanup"} =>
       t.org \in org
  /\ t.pc = "register" => t.new

\* A request that created an account will give it a membership or delete it.
Founds(t, u) == t.pc \in {"found", "foundCommit", "cleanup"} /\ t.new /\ t.user = u

Kept(u) == u \in purged \/ IsMember(u) \/ \E r \in Requests : Founds(task[r], u)

\* An invitation that is pending is to an organisation that exists.
Invites == \A i \in Invitations : invitation[i].status = "PENDING" =>
  invitation[i].email \in Users /\ invitation[i].org \in org

Inv ==
  /\ TypeOK
  /\ task \in [Requests -> TaskRow]
  /\ \A r \in Requests : Refers(task[r])
  /\ Invites
  /\ \A u \in Users : Exists(u) => Kept(u)

-----------------------------------------------------------------------------
LEMMA InitInv == Init => Inv
<1> SUFFICES ASSUME Init PROVE Inv
  OBVIOUS
<1>1. TypeOK
  BY DEF Init, TypeOK, InvitationRow, BlankInvitation, Exists
<1>2. Idle \in TaskRow /\ Refers(Idle)
  BY DEF Idle, TaskRow, Steps, Refers
<1>4. task \in [Requests -> TaskRow] /\ \A r \in Requests : Refers(task[r])
  BY <1>2 DEF Init
<1>3. Invites /\ \A u \in Users : ~Exists(u)
  BY DEF Init, Invites, BlankInvitation, Exists
<1> QED
  BY <1>1, <1>3, <1>4 DEF Inv

\* A step of one request keeps the invariant if what it writes and what it goes on with do.
LEMMA RequestStep ==
  ASSUME Inv, TypeOK', Invites', NEW r \in Requests, NEW t \in TaskRow, Become(r, t),
         org \subseteq org', Refers(t)',
         \A u \in Users : Exists(u)' =>
           \/ u \in purged' \/ IsMember(u)' \/ Founds(t, u)
           \/ Exists(u) /\ u \notin purged /\ ~IsMember(u) /\ ~Founds(task[r], u)
  PROVE  Inv'
<1>1. \A q \in Requests : task'[q] = IF q = r THEN t ELSE task[q]
  BY DEF Become, Inv
<1>2. task' \in [Requests -> TaskRow]
  BY DEF Become, Inv
<1>3. \A q \in Requests : Refers(task[q])'
  BY <1>1 DEF Inv, Refers
<1>4. ASSUME NEW u \in Users, Exists(u)' PROVE Kept(u)'
  <2>1. CASE u \in purged' \/ IsMember(u)' \/ Founds(t, u)
    BY <1>1, <2>1 DEF Kept
  <2>2. CASE Exists(u) /\ u \notin purged /\ ~IsMember(u) /\ ~Founds(task[r], u)
    <3>1. PICK q \in Requests : Founds(task[q], u)
      BY <2>2 DEF Inv, Kept
    <3>2. task'[q] = task[q]
      BY <1>1, <2>2, <3>1
    <3> QED
      BY <3>1, <3>2 DEF Kept, Founds
  <2> QED
    BY <1>4, <2>1, <2>2
<1> QED
  BY <1>2, <1>3, <1>4 DEF Inv

\* A request decides, and writes no row.
LEMMA DecideStep ==
  ASSUME Inv, NEW r \in Requests, NEW t \in TaskRow, Become(r, t), Refers(t),
         UNCHANGED <<user, org, member, invitation, purged>>, crossed' \subseteq Users,
         \A u \in Users : Founds(task[r], u) /\ Exists(u) => IsMember(u) \/ Founds(t, u)
  PROVE  Inv'
<1>1. TypeOK' /\ Invites'
  BY DEF Inv, TypeOK, Invites, Exists
<1>2. Refers(t)'
  BY DEF Refers
<1>3. \A u : (Exists(u)' <=> Exists(u)) /\ (IsMember(u)' <=> IsMember(u))
  BY DEF Exists, IsMember
<1>4. ASSUME NEW u \in Users, Exists(u)'
      PROVE  \/ u \in purged' \/ IsMember(u)' \/ Founds(t, u)
             \/ Exists(u) /\ u \notin purged /\ ~IsMember(u) /\ ~Founds(task[r], u)
  BY <1>3, <1>4
<1> QED
  BY <1>1, <1>2, <1>4, RequestStep

\* A request writes the status of a membership, of an account that exists.
LEMMA MemberStep ==
  ASSUME Inv, NEW r \in Requests, NEW t \in TaskRow, Become(r, t), Refers(t),
         NEW u \in Users, NEW g \in Organizations, NEW status \in {"ACTIVE", "SUSPENDED"},
         SetMember(u, g, status), UNCHANGED user, Exists(u), g \in org,
         \A x : ~Founds(task[r], x)
  PROVE  Inv'
<1>1. UNCHANGED <<user, org, invitation, crossed, purged>>
  BY DEF SetMember
<1>2. \A x \in Users, h \in Organizations :
        member'[x][h] = IF x = u /\ h = g THEN status ELSE member[x][h]
  BY DEF SetMember, Inv, TypeOK
<1>3. member' \in [Users -> [Organizations -> {"none", "ACTIVE", "SUSPENDED"}]]
  BY DEF SetMember, Inv, TypeOK
<1>4. \A x \in Users : (Exists(x)' <=> Exists(x)) /\ (IsMember(x) => IsMember(x)')
  BY <1>1, <1>2 DEF Exists, IsMember
<1>5. TypeOK'
  BY <1>1, <1>2, <1>3, <1>4 DEF Inv, TypeOK
<1>6. Invites' /\ Refers(t)'
  BY <1>1 DEF Inv, Invites, Refers
<1> QED
  BY <1>1, <1>4, <1>5, <1>6, RequestStep

\* A request writes the status of an account that exists, or creates one and goes on with it.
LEMMA UserStep ==
  ASSUME Inv, NEW r \in Requests, NEW t \in TaskRow, Become(r, t), Refers(t),
         NEW u \in Users, NEW status \in {"active", "inactive", "deleted"}, SetUser(u, status),
         status = "deleted" => ~IsMember(u),
         status # "deleted" => Exists(u) \/ Founds(t, u),
         \A x : Founds(task[r], x) /\ x # u => ~Exists(x) \/ IsMember(x) \/ Founds(t, x),
         status # "deleted" /\ Founds(task[r], u) => Founds(t, u)
  PROVE  Inv'
<1>1. UNCHANGED <<org, member, invitation, crossed, purged>>
  BY DEF SetUser
<1>2. /\ \A x \in Users : user'[x] = IF x = u THEN status ELSE user[x]
      /\ user' \in [Users -> {"none", "active", "inactive", "deleted"}]
  BY DEF SetUser, Inv, TypeOK
<1>3. \A x : IsMember(x)' <=> IsMember(x)
  BY <1>1 DEF IsMember
<1>4. \A x \in Users : Exists(x)' => Exists(x) \/ (x = u /\ Founds(t, u))
  BY <1>2 DEF Exists
<1>5. \A x \in Users : Exists(x) => Exists(x)' \/ (x = u /\ ~IsMember(u))
  BY <1>2 DEF Exists
<1>6. TypeOK'
  BY <1>1, <1>2, <1>5 DEF Inv, TypeOK, IsMember
<1>7. Invites' /\ Refers(t)'
  BY <1>1 DEF Inv, Invites, Refers
<1>8. ASSUME NEW x \in Users, Exists(x)'
      PROVE  \/ x \in purged' \/ IsMember(x)' \/ Founds(t, x)
             \/ Exists(x) /\ x \notin purged /\ ~IsMember(x) /\ ~Founds(task[r], x)
  <2>1. x = u => status # "deleted"
    BY <1>2, <1>8 DEF Exists
  <2> QED
    BY <1>1, <1>3, <1>4, <1>8, <2>1
<1> QED
  BY <1>1, <1>6, <1>7, <1>8, RequestStep

LEMMA Rows ==
  ASSUME Inv, NEW r \in Requests
  PROVE  /\ task[r] \in TaskRow /\ Refers(task[r])
         /\ Idle \in TaskRow /\ Refers(Idle) /\ \A u : ~Founds(Idle, u)
         /\ At(r, "idle") => \A u : ~Founds(task[r], u)
BY DEF Inv, Idle, TaskRow, Steps, Refers, Founds, At

\* A request that goes on with what it has.
LEMMA GoesOn ==
  ASSUME Inv, NEW r \in Requests, NEW pc \in Steps \ {"idle", "register"}, ~At(r, "idle"), ~At(r, "purge"),
         pc \in {"found", "foundCommit", "cleanup"}
           => task[r].pc \in {"register", "found", "foundCommit"},
         pc \notin {"purge", "purgeUser", "found", "foundCommit", "cleanup"}
           => task[r].org \in org
  PROVE  /\ [task[r] EXCEPT !.pc = pc] \in TaskRow /\ Refers([task[r] EXCEPT !.pc = pc])
         /\ \A u : Founds([task[r] EXCEPT !.pc = pc], u) <=>
              pc \in {"found", "foundCommit", "cleanup"} /\ task[r].new /\ task[r].user = u
<1>1. task[r] \in TaskRow /\ Refers(task[r])
  BY Rows
<1>2. [task[r] EXCEPT !.pc = pc] \in TaskRow
  BY <1>1 DEF TaskRow
<1>3. /\ [task[r] EXCEPT !.pc = pc].pc = pc /\ [task[r] EXCEPT !.pc = pc].user = task[r].user
      /\ [task[r] EXCEPT !.pc = pc].org = task[r].org /\ [task[r] EXCEPT !.pc = pc].new = task[r].new
  BY <1>1 DEF TaskRow
<1>4. org \subseteq Organizations
  BY DEF Inv, TypeOK
<1>5. Refers([task[r] EXCEPT !.pc = pc])
  BY <1>1, <1>3, <1>4 DEF Refers, At
<1> QED
  BY <1>2, <1>3, <1>5 DEF Founds

-----------------------------------------------------------------------------
(* register, setupOrganization *)

\* A request begins, and writes no row.
LEMMA BeginsStep ==
  ASSUME Inv, NEW r \in Requests, NEW t \in TaskRow, Refers(t), Become(r, t), At(r, "idle"),
         NEW about \in SUBSET Users, Begins(r, about)
  PROVE  Inv'
<1>1. UNCHANGED <<user, org, member, invitation, purged>> /\ crossed' \subseteq Users
  BY DEF Begins, rows, Inv, TypeOK
<1> QED
  BY <1>1, DecideStep, Rows

LEMMA BeginStep ==
  ASSUME Inv, NEW r \in Requests, NEW u \in Users, NEW g \in Organizations,
         \/ BeginRegister(r, u, g) \/ BeginSetup(r, u, g) \/ BeginProvision(r, u, g)
         \/ BeginInvite(r, u, g) \/ BeginRemove(r, u, g)
  PROVE  Inv'
<1>1. CASE BeginRegister(r, u, g)
  <2> DEFINE t == [Idle EXCEPT !.pc = "register", !.user = u, !.org = g, !.new = TRUE]
  <2>1. t \in TaskRow /\ Refers(t)
    BY DEF Idle, TaskRow, Steps, Refers
  <2> QED
    BY <1>1, <2>1, BeginsStep DEF BeginRegister, Arrives
<1>2. CASE BeginSetup(r, u, g)
  <2> DEFINE t == [Idle EXCEPT !.pc = "found", !.user = u, !.org = g]
  <2>1. t \in TaskRow /\ Refers(t)
    BY DEF Idle, TaskRow, Steps, Refers
  <2> QED
    BY <1>2, <2>1, BeginsStep DEF BeginSetup, Arrives
<1>3. CASE BeginProvision(r, u, g)
  <2> DEFINE pc == IF Exists(u) THEN "provision" ELSE "provisionNew"
             t == [Idle EXCEPT !.pc = pc, !.user = u, !.org = g, !.active = user[u] = "active"]
  <2>1. pc \in Steps /\ pc \notin {"idle", "register", "purge", "purgeUser"}
    BY DEF Steps
  <2>2. Become(r, t) /\ g \in org /\ At(r, "idle") /\ Begins(r, {u})
    BY <1>3 DEF BeginProvision, Arrives
  <2> HIDE DEF pc
  <2>3. t \in TaskRow /\ Refers(t)
    BY <2>1, <2>2 DEF Idle, TaskRow, Refers
  <2> QED
    BY <2>2, <2>3, BeginsStep
<1>4. CASE BeginInvite(r, u, g)
  <2> DEFINE t == [Idle EXCEPT !.pc = "invite", !.user = u, !.org = g]
  <2>1. t \in TaskRow /\ Refers(t)
    BY <1>4 DEF Idle, TaskRow, Steps, Refers, BeginInvite
  <2> QED
    BY <1>4, <2>1, BeginsStep DEF BeginInvite, Arrives
<1>5. CASE BeginRemove(r, u, g)
  <2> DEFINE t == [Idle EXCEPT !.pc = "suspend", !.user = u, !.org = g]
  <2>1. t \in TaskRow /\ Refers(t)
    BY <1>5 DEF Idle, TaskRow, Steps, Refers, BeginRemove, Inv, TypeOK
  <2> QED
    BY <1>5, <2>1, BeginsStep DEF BeginRemove, Arrives
<1> QED
  BY <1>1, <1>2, <1>3, <1>4, <1>5

LEMMA CreateUserStep ==
  ASSUME Inv, NEW r \in Requests, CreateUser(r)
  PROVE  Inv'
<1> DEFINE u == task[r].user
           t == [task[r] EXCEPT !.pc = "found"]
<1>1. At(r, "register") /\ u \in Users /\ task[r].new /\ ~At(r, "idle") /\ ~At(r, "purge")
      /\ \A x : ~Founds(task[r], x)
  BY Rows DEF CreateUser, At, Refers, Founds
<1>2. CASE SetUser(u, "active") /\ Goto(r, "found")
  <2>1. t \in TaskRow /\ Refers(t) /\ Founds(t, u)
    BY <1>1, GoesOn DEF Steps, At
  <2> QED
    BY <1>1, <1>2, <2>1, UserStep DEF Goto
<1>3. CASE Finish(r) /\ Decides
  <2>1. UNCHANGED <<user, org, member, invitation, purged>> /\ crossed' \subseteq Users
    BY <1>3 DEF Decides, rows, Inv, TypeOK
  <2> QED
    BY <1>1, <1>3, <2>1, Rows, DecideStep DEF Finish
<1> QED
  BY <1>2, <1>3 DEF CreateUser

\* AfterFailure goes on to delete the account that the request created.
LEMMA FailureStep ==
  ASSUME Inv, NEW r \in Requests, task[r].pc \in {"found", "foundCommit"}, AfterFailure(r), Decides
  PROVE  Inv'
<1> DEFINE t == [task[r] EXCEPT !.pc = "cleanup"]
<1>1. UNCHANGED <<user, org, member, invitation, purged>> /\ crossed' \subseteq Users
  BY DEF Decides, rows, Inv, TypeOK
<1>2. CASE task[r].new
  <2>1. t \in TaskRow /\ Refers(t) /\ \A x : Founds(task[r], x) => Founds(t, x)
    BY GoesOn DEF Steps, At, Founds
  <2> QED
    BY <1>1, <1>2, <2>1, DecideStep DEF AfterFailure, Goto
<1>3. CASE ~task[r].new
  BY <1>1, <1>3, Rows, DecideStep DEF AfterFailure, Finish, Founds
<1> QED
  BY <1>2, <1>3

LEMMA FoundCheckStep ==
  ASSUME Inv, NEW r \in Requests, FoundCheck(r)
  PROVE  Inv'
<1> DEFINE t == [task[r] EXCEPT !.pc = "foundCommit"]
<1>1. At(r, "found") /\ Decides
  BY DEF FoundCheck
<1>2. CASE Goto(r, "foundCommit")
  <2>1. UNCHANGED <<user, org, member, invitation, purged>> /\ crossed' \subseteq Users
    BY <1>1 DEF Decides, rows, Inv, TypeOK
  <2>2. t \in TaskRow /\ Refers(t) /\ \A x : Founds(task[r], x) => Founds(t, x)
    BY <1>1, GoesOn DEF Steps, At, Founds
  <2> QED
    BY <1>2, <2>1, <2>2, DecideStep DEF Goto
<1>3. CASE AfterFailure(r)
  BY <1>1, <1>3, FailureStep DEF At
<1> QED
  BY <1>2, <1>3 DEF FoundCheck

LEMMA FoundCommitStep ==
  ASSUME Inv, NEW r \in Requests, FoundCommit(r)
  PROVE  Inv'
<1> DEFINE u == task[r].user
           g == task[r].org
<1>1. At(r, "foundCommit") /\ u \in Users /\ g \in Organizations
  BY Rows DEF FoundCommit, At, Refers
<1>2. ASSUME g \notin org, Exists(u), org' = org \cup {g},
             member' = [member EXCEPT ![u][g] = "ACTIVE"], Finish(r),
             UNCHANGED <<user, invitation, crossed, purged>>
      PROVE  Inv'
  <2>1. \A x \in Users, h \in Organizations :
          member'[x][h] = IF x = u /\ h = g THEN "ACTIVE" ELSE member[x][h]
    BY <1>1, <1>2 DEF Inv, TypeOK
  <2>2. member' \in [Users -> [Organizations -> {"none", "ACTIVE", "SUSPENDED"}]]
    BY <1>1, <1>2 DEF Inv, TypeOK
  <2>3. \A x \in Users : Exists(x)' <=> Exists(x)
    BY <1>2 DEF Exists
  <2>4. \A x \in Users : IsMember(x) => IsMember(x)'
    BY <2>1 DEF IsMember
  <2>5. member'[u][g] = "ACTIVE"
    BY <1>1, <2>1
  <2>6. \A x \in Users : x = u => IsMember(x)'
    BY <1>1, <2>5 DEF IsMember
  <2>7. TypeOK'
    BY <1>1, <1>2, <2>1, <2>2, <2>3 DEF Inv, TypeOK
  <2>8. Invites' /\ org \subseteq org'
    BY <1>2 DEF Inv, Invites
  <2>9. Idle \in TaskRow /\ Refers(Idle)'
    BY Rows DEF Refers, Idle
  <2>10. \A x : Founds(task[r], x) => x = u
    BY DEF Founds
  <2>11. ASSUME NEW x \in Users, Exists(x)'
         PROVE  \/ x \in purged' \/ IsMember(x)' \/ Founds(Idle, x)
                \/ Exists(x) /\ x \notin purged /\ ~IsMember(x) /\ ~Founds(task[r], x)
    BY <1>2, <2>6, <2>10, <2>3, <2>4, <2>11
  <2> QED
    BY <1>2, <2>7, <2>8, <2>9, <2>11, RequestStep DEF Finish
<1>3. CASE AfterFailure(r) /\ Decides
  BY <1>1, <1>3, FailureStep DEF At
<1> QED
  BY <1>2, <1>3 DEF FoundCommit

LEMMA CleanupStep ==
  ASSUME Inv, NEW r \in Requests, Cleanup(r)
  PROVE  Inv'
<1> DEFINE u == task[r].user
<1>1. At(r, "cleanup") /\ u \in Users /\ Become(r, Idle) /\ \A x : Founds(task[r], x) => x = u
  BY Rows DEF Cleanup, Finish, At, Refers, Founds
<1>2. CASE ~IsMember(u) /\ SetUser(u, "deleted")
  BY <1>1, <1>2, Rows, UserStep
<1>3. CASE IsMember(u) /\ Decides
  <2>1. UNCHANGED <<user, org, member, invitation, purged>> /\ crossed' \subseteq Users
    BY <1>3 DEF Decides, rows, Inv, TypeOK
  <2> QED
    BY <1>1, <1>3, <2>1, Rows, DecideStep
<1> QED
  BY <1>2, <1>3 DEF Cleanup

LEMMA CreateOrganizationStep ==
  ASSUME Inv, NEW r \in Requests, NEW g \in Organizations, CreateOrganization(r, g)
  PROVE  Inv'
<1>1. UNCHANGED <<user, member, invitation, task, crossed, purged>> /\ org' = org \cup {g}
  BY DEF CreateOrganization
<1>2. TypeOK' /\ Invites'
  BY <1>1 DEF Inv, TypeOK, Invites, Exists
<1>3. \A q \in Requests : Refers(task[q])'
  BY <1>1 DEF Inv, Refers
<1>4. \A u \in Users : (Exists(u)' <=> Exists(u)) /\ (Kept(u)' <=> Kept(u))
  BY <1>1 DEF Exists, Kept, IsMember, Founds
<1> QED
  BY <1>1, <1>2, <1>3, <1>4 DEF Inv

-----------------------------------------------------------------------------
(* provisionMember, inviteMember, acceptInvitation, removal *)

Later == {"provisionNew", "provision", "reactivate", "activate", "insert", "raced", "racedUser",
          "invite", "accept", "acceptMark", "suspend", "count", "deactivate"}

\* A request that is past its first reads, and founds nothing, ends or goes on.
LEMMA LaterRows ==
  ASSUME Inv, NEW r \in Requests, task[r].pc \in Later
  PROVE  /\ task[r].user \in Users /\ task[r].org \in Organizations /\ task[r].org \in org
         /\ \A x : ~Founds(task[r], x)
         /\ \A pc \in Later : /\ [task[r] EXCEPT !.pc = pc] \in TaskRow
                             /\ Refers([task[r] EXCEPT !.pc = pc])
<1>1. Later \subseteq Steps \ {"idle", "register", "found", "foundCommit", "cleanup", "purge", "purgeUser"}
  BY DEF Later, Steps
<1>2. Refers(task[r])
  BY Rows
<1>3. /\ task[r].user \in Users /\ task[r].org \in Organizations /\ task[r].org \in org
      /\ \A x : ~Founds(task[r], x)
  BY <1>2 DEF Refers, Founds, Later
<1>4. ~At(r, "idle") /\ ~At(r, "purge")
  BY DEF At, Later
<1>5. ASSUME NEW pc \in Later
      PROVE  [task[r] EXCEPT !.pc = pc] \in TaskRow /\ Refers([task[r] EXCEPT !.pc = pc])
  BY <1>1, <1>3, <1>4, <1>5, GoesOn
<1> QED
  BY <1>3, <1>5

LEMMA LaterDecides ==
  ASSUME Inv, NEW r \in Requests, task[r].pc \in Later, Decides,
         Finish(r) \/ \E pc \in Later : Goto(r, pc)
  PROVE  Inv'
<1>1. UNCHANGED <<user, org, member, invitation, purged>> /\ crossed' \subseteq Users
  BY DEF Decides, rows, Inv, TypeOK
<1>2. CASE Finish(r)
  BY <1>1, <1>2, Rows, LaterRows, DecideStep DEF Finish
<1>3. ASSUME NEW pc \in Later, Goto(r, pc) PROVE Inv'
  BY <1>1, <1>3, LaterRows, DecideStep DEF Goto
<1> QED
  BY <1>2, <1>3

LEMMA LaterMember ==
  ASSUME Inv, NEW r \in Requests, task[r].pc \in Later, NEW status \in {"ACTIVE", "SUSPENDED"},
         SetMember(task[r].user, task[r].org, status), UNCHANGED user, Exists(task[r].user),
         Finish(r) \/ \E pc \in Later : Goto(r, pc)
  PROVE  Inv'
<1>1. PICK t \in TaskRow : Become(r, t) /\ Refers(t)
  BY Rows, LaterRows DEF Finish, Goto
<1> QED
  BY <1>1, LaterRows, MemberStep

LEMMA LaterUser ==
  ASSUME Inv, NEW r \in Requests, task[r].pc \in Later, NEW status \in {"active", "inactive"},
         SetUser(task[r].user, status), Exists(task[r].user),
         Finish(r) \/ \E pc \in Later : Goto(r, pc)
  PROVE  Inv'
<1>1. PICK t \in TaskRow : Become(r, t) /\ Refers(t)
  BY Rows, LaterRows DEF Finish, Goto
<1> QED
  BY <1>1, LaterRows, UserStep

\* The account and its membership written at once.
LEMMA BothStep ==
  ASSUME Inv, NEW r \in Requests, task[r].pc \in Later, Finish(r),
         NEW u, NEW g, u = task[r].user, g = task[r].org,
         user' = [user EXCEPT ![u] = "active"], member' = [member EXCEPT ![u][g] = "ACTIVE"],
         UNCHANGED <<org, invitation, crossed, purged>>
  PROVE  Inv'
<1>1. u \in Users /\ g \in Organizations /\ g \in org /\ \A x : ~Founds(task[r], x)
  BY LaterRows
<1>2. /\ \A x \in Users : user'[x] = IF x = u THEN "active" ELSE user[x]
      /\ user' \in [Users -> {"none", "active", "inactive", "deleted"}]
  BY <1>1 DEF Inv, TypeOK
<1>3. /\ \A x \in Users, h \in Organizations :
           member'[x][h] = IF x = u /\ h = g THEN "ACTIVE" ELSE member[x][h]
      /\ member' \in [Users -> [Organizations -> {"none", "ACTIVE", "SUSPENDED"}]]
  BY <1>1 DEF Inv, TypeOK
<1>4. \A x \in Users : Exists(x)' <=> Exists(x) \/ x = u
  BY <1>2 DEF Exists
<1>5. TypeOK'
  BY <1>1, <1>2, <1>3, <1>4 DEF Inv, TypeOK
<1>6. Invites' /\ Idle \in TaskRow /\ Refers(Idle)'
  BY Rows DEF Inv, Invites, Refers, Idle
<1>7. IsMember(u)'
  BY <1>1, <1>3 DEF IsMember
<1>8. \A x \in Users : IsMember(x) => IsMember(x)'
  BY <1>3 DEF IsMember
<1> QED
  BY <1>1, <1>4, <1>5, <1>6, <1>7, <1>8, RequestStep DEF Finish

LEMMA ProvisionStep ==
  ASSUME Inv, NEW r \in Requests,
         \/ ProvisionNew(r) \/ ProvisionRead(r) \/ Reactivate(r) \/ Activate(r)
         \/ InsertMember(r) \/ Raced(r) \/ RacedUser(r)
  PROVE  Inv'
<1> DEFINE u == task[r].user
           g == task[r].org
<1>1. task[r].pc \in Later
  BY DEF ProvisionNew, ProvisionRead, Reactivate, Activate, InsertMember, Raced, RacedUser, At, Later
<1>2. u \in Users /\ g \in Organizations /\ g \in org
      /\ (member[u][g] # "none" => Exists(u))
  BY <1>1, LaterRows DEF Inv, TypeOK
<1>3. {"reactivate", "activate", "insert", "raced", "racedUser"} \subseteq Later
  BY DEF Later
<1>4. CASE ProvisionNew(r)
  BY <1>1, <1>4, BothStep, LaterDecides DEF ProvisionNew
<1>5. CASE ProvisionRead(r)
  <2>1. Finish(r) \/ \E pc \in Later : Goto(r, pc)
    BY <1>3, <1>5 DEF ProvisionRead
  <2> QED
    BY <1>1, <1>5, <2>1, LaterDecides DEF ProvisionRead
<1>6. CASE Reactivate(r)
  BY <1>1, <1>6, BothStep, LaterDecides DEF Reactivate
<1>7. CASE Activate(r)
  BY <1>1, <1>3, <1>7, LaterUser, LaterDecides DEF Activate
<1>8. CASE InsertMember(r)
  BY <1>1, <1>3, <1>8, LaterMember, LaterDecides DEF InsertMember
<1>9. CASE Raced(r)
  BY <1>1, <1>2, <1>3, <1>9, LaterMember, LaterDecides DEF Raced
<1>10. CASE RacedUser(r)
  BY <1>1, <1>10, LaterUser, LaterDecides DEF RacedUser
<1> QED
  BY <1>4, <1>5, <1>6, <1>7, <1>8, <1>9, <1>10

LEMMA RemoveStep ==
  ASSUME Inv, NEW r \in Requests, Suspend(r) \/ Count(r) \/ Deactivate(r)
  PROVE  Inv'
<1> DEFINE u == task[r].user
           g == task[r].org
<1>1. task[r].pc \in Later
  BY DEF Suspend, Count, Deactivate, At, Later
<1>2. u \in Users /\ g \in Organizations /\ (member[u][g] # "none" => Exists(u))
  BY <1>1, LaterRows DEF Inv, TypeOK
<1>3. {"count", "deactivate"} \subseteq Later
  BY DEF Later
<1>4. CASE Suspend(r)
  BY <1>1, <1>2, <1>3, <1>4, LaterMember, LaterDecides DEF Suspend
<1>5. CASE Count(r)
  BY <1>1, <1>3, <1>5, LaterDecides DEF Count
<1>6. CASE Deactivate(r)
  BY <1>1, <1>6, LaterUser, LaterDecides DEF Deactivate
<1> QED
  BY <1>4, <1>5, <1>6

\* A step that writes an invitation and no other row.
LEMMA InvitationStep ==
  ASSUME Inv, NEW i, NEW row \in InvitationRow, invitation' = [invitation EXCEPT ![i] = row],
         row.status = "PENDING" => row.email \in Users /\ row.org \in org,
         UNCHANGED <<user, org, member, crossed, purged>>,
         UNCHANGED task \/ \E r \in Requests : task[r].pc \in Later /\ Finish(r)
  PROVE  Inv'
<1>1. TypeOK' /\ Invites'
  BY DEF Inv, TypeOK, Invites, Exists
<1>2. \A u : (Exists(u)' <=> Exists(u)) /\ (IsMember(u)' <=> IsMember(u))
  BY DEF Exists, IsMember
<1>3. CASE UNCHANGED task
  <2>1. \A u : Kept(u)' <=> Kept(u)
    BY <1>2, <1>3 DEF Kept, Founds
  <2>2. \A q \in Requests : Refers(task[q])'
    BY <1>3 DEF Inv, Refers
  <2> QED
    BY <1>1, <1>2, <1>3, <2>1, <2>2 DEF Inv
<1>4. ASSUME NEW r \in Requests, task[r].pc \in Later, Finish(r) PROVE Inv'
  <2>1. Idle \in TaskRow /\ Refers(Idle)' /\ \A x : ~Founds(task[r], x)
    BY <1>4, Rows, LaterRows DEF Refers, Idle
  <2>2. ASSUME NEW u \in Users, Exists(u)'
        PROVE  \/ u \in purged' \/ IsMember(u)' \/ Founds(Idle, u)
               \/ Exists(u) /\ u \notin purged /\ ~IsMember(u) /\ ~Founds(task[r], u)
    BY <1>2, <2>1, <2>2
  <2> QED
    BY <1>1, <1>4, <2>1, <2>2, RequestStep DEF Finish
<1> QED
  BY <1>3, <1>4

LEMMA InviteStep ==
  ASSUME Inv, NEW i \in Invitations, Expire(i) \/ \E r \in Requests : Invite(r, i)
  PROVE  Inv'
<1>1. BlankInvitation("expired") \in InvitationRow
  BY DEF BlankInvitation, InvitationRow
<1>2. CASE Expire(i)
  BY <1>1, <1>2, InvitationStep DEF Expire, BlankInvitation
<1>3. ASSUME NEW r \in Requests, Invite(r, i) PROVE Inv'
  <2> DEFINE row == [status |-> "PENDING", email |-> task[r].user, org |-> task[r].org]
  <2>1. task[r].pc \in Later
    BY <1>3 DEF Invite, At, Later
  <2>2. row \in InvitationRow /\ task[r].user \in Users /\ task[r].org \in org
    BY <2>1, LaterRows DEF InvitationRow
  <2> QED
    BY <1>3, <2>1, <2>2, InvitationStep DEF Invite
<1> QED
  BY <1>2, <1>3

LEMMA AcceptMarkStep ==
  ASSUME Inv, NEW r \in Requests, AcceptMark(r)
  PROVE  Inv'
<1>1. BlankInvitation("ACCEPTED") \in InvitationRow /\ BlankInvitation("ACCEPTED").status # "PENDING"
  BY DEF BlankInvitation, InvitationRow
<1>2. task[r].pc \in Later
  BY DEF AcceptMark, At, Later
<1> QED
  BY <1>1, <1>2, InvitationStep DEF AcceptMark

LEMMA BeginAcceptStep ==
  ASSUME Inv, NEW r \in Requests, NEW i \in Invitations, BeginAccept(r, i)
  PROVE  Inv'
<1> DEFINE u == invitation[i].email
           pc == IF Active(u, invitation[i].org) THEN "acceptMark" ELSE "accept"
           t == [Idle EXCEPT !.pc = pc, !.user = u, !.org = invitation[i].org, !.invitation = i]
<1>1. /\ u \in Users /\ invitation[i].org \in org /\ invitation[i].org \in Organizations
      /\ At(r, "idle") /\ Become(r, t) /\ Begins(r, {u})
  BY DEF BeginAccept, Arrives, Inv, TypeOK, Invites
<1>2. pc \in Steps /\ pc \notin {"idle", "register", "purge", "purgeUser"}
  BY DEF Steps
<1> HIDE DEF pc
<1>3. t \in TaskRow /\ Refers(t)
  BY <1>1, <1>2 DEF Idle, TaskRow, Refers
<1> QED
  BY <1>1, <1>3, BeginsStep

LEMMA AcceptStep ==
  ASSUME Inv, NEW r \in Requests, AcceptInsert(r)
  PROVE  Inv'
<1>1. task[r].pc \in Later /\ "acceptMark" \in Later
  BY DEF AcceptInsert, At, Later
<1> QED
  BY <1>1, LaterMember, LaterDecides DEF AcceptInsert

-----------------------------------------------------------------------------
(* purgeInactiveUsers *)

LEMMA BeginPurgeStep ==
  ASSUME Inv, NEW r \in Requests, NEW old \in SUBSET Users, BeginPurge(r, old)
  PROVE  Inv'
<1> DEFINE t == [Idle EXCEPT !.pc = "purge", !.rest = old]
<1>1. t \in TaskRow /\ Refers(t)
  BY DEF Idle, TaskRow, Steps, Refers
<1> QED
  BY <1>1, BeginsStep DEF BeginPurge, Arrives

LEMMA PurgeMembersStep ==
  ASSUME Inv, NEW r \in Requests, NEW u \in Users, PurgeMembers(r, u)
  PROVE  Inv'
<1>1. PICK t : t = [task[r] EXCEPT !.pc = "purgeUser", !.user = u, !.rest = @ \ {u}]
  OBVIOUS
<1>2. /\ At(r, "purge") /\ Become(r, t) /\ UNCHANGED <<user, org, invitation, crossed>>
      /\ purged' = purged \cup {u} /\ member' = [member EXCEPT ![u] = [g \in Organizations |-> "none"]]
  BY <1>1 DEF PurgeMembers
<1>3. t \in TaskRow /\ Refers(t)
  <2>1. "purgeUser" \in Steps /\ task[r] \in TaskRow
    BY Rows DEF Steps
  <2>2. t \in TaskRow
    BY <1>1, <2>1 DEF TaskRow
  <2>3. t.pc = "purgeUser" /\ t.user = u
    BY <1>1, <2>1 DEF TaskRow
  <2> QED
    BY <2>2, <2>3 DEF Refers
<1>4. /\ \A x \in Users, h \in Organizations : member'[x][h] = IF x = u THEN "none" ELSE member[x][h]
      /\ member' \in [Users -> [Organizations -> {"none", "ACTIVE", "SUSPENDED"}]]
  BY <1>2 DEF Inv, TypeOK
<1>5. \A x \in Users : (Exists(x)' <=> Exists(x)) /\ (x # u => (IsMember(x)' <=> IsMember(x)))
  BY <1>2, <1>4 DEF Exists, IsMember
<1>6. TypeOK'
  BY <1>2, <1>4, <1>5 DEF Inv, TypeOK
<1>7. Invites' /\ Refers(t)'
  BY <1>2, <1>3 DEF Inv, Invites, Refers
<1>8. \A x : ~Founds(task[r], x)
  BY <1>2 DEF Founds, At
<1>9. ASSUME NEW x \in Users, Exists(x)'
      PROVE  \/ x \in purged' \/ IsMember(x)' \/ Founds(t, x)
             \/ Exists(x) /\ x \notin purged /\ ~IsMember(x) /\ ~Founds(task[r], x)
  BY <1>2, <1>5, <1>8, <1>9
<1> QED
  BY <1>2, <1>3, <1>6, <1>7, <1>9, RequestStep

LEMMA PurgeUserStep ==
  ASSUME Inv, NEW r \in Requests, PurgeUser(r) \/ EndPurge(r)
  PROVE  Inv'
<1>1. (At(r, "purgeUser") \/ At(r, "purge")) /\ \A x : ~Founds(task[r], x)
  BY DEF PurgeUser, EndPurge, At, Founds
<1>2. CASE Finish(r) /\ Decides
  <2>1. UNCHANGED <<user, org, member, invitation, purged>> /\ crossed' \subseteq Users
    BY <1>2 DEF Decides, rows, Inv, TypeOK
  <2> QED
    BY <1>1, <1>2, <2>1, Rows, DecideStep DEF Finish
<1>3. ASSUME NEW u \in Users, u = task[r].user, ~IsMember(u), user' = [user EXCEPT ![u] = "deleted"],
             purged' = purged \ {u}, Become(r, [Idle EXCEPT !.pc = "purge", !.rest = task[r].rest]),
             UNCHANGED <<org, member, invitation, crossed>>
      PROVE  Inv'
  <2>1. PICK t : t = [Idle EXCEPT !.pc = "purge", !.rest = task[r].rest]
    OBVIOUS
  <2>2. t \in TaskRow /\ Refers(t) /\ Refers(t)'
    BY <2>1, Rows DEF TaskRow, Steps, Refers, Idle
  <2>3. /\ \A x \in Users : user'[x] = IF x = u THEN "deleted" ELSE user[x]
        /\ user' \in [Users -> {"none", "active", "inactive", "deleted"}]
    BY <1>3 DEF Inv, TypeOK
  <2>4. \A x \in Users : /\ Exists(x)' <=> Exists(x) /\ x # u
                         /\ IsMember(x)' <=> IsMember(x)
    BY <1>3, <2>3 DEF Exists, IsMember
  <2>5. TypeOK'
    BY <1>3, <2>3, <2>4 DEF Inv, TypeOK, IsMember
  <2>6. Invites'
    BY <1>3 DEF Inv, Invites
  <2>7. ASSUME NEW x \in Users, Exists(x)'
        PROVE  \/ x \in purged' \/ IsMember(x)' \/ Founds(t, x)
               \/ Exists(x) /\ x \notin purged /\ ~IsMember(x) /\ ~Founds(task[r], x)
    BY <1>1, <1>3, <2>4, <2>7
  <2> QED
    BY <1>3, <2>2, <2>5, <2>6, <2>7, <2>1, RequestStep
<1>4. At(r, "purgeUser") => task[r].user \in Users
  BY Rows DEF Refers, At
<1> QED
  BY <1>1, <1>2, <1>3, <1>4 DEF PurgeUser, EndPurge

-----------------------------------------------------------------------------
LEMMA NextInv == Inv /\ [Next]_vars => Inv'
<1> SUFFICES ASSUME Inv, [Next]_vars PROVE Inv'
  OBVIOUS
<1>1. ASSUME NEW r \in Requests, Begin(r) PROVE Inv'
  BY <1>1, BeginStep, CreateOrganizationStep, BeginAcceptStep, BeginPurgeStep DEF Begin
<1>2. ASSUME NEW r \in Requests, Step(r) PROVE Inv'
  <2>1. CASE CreateUser(r) \/ FoundCheck(r) \/ FoundCommit(r) \/ Cleanup(r)
    BY <2>1, CreateUserStep, FoundCheckStep, FoundCommitStep, CleanupStep
  <2>2. CASE \/ ProvisionNew(r) \/ ProvisionRead(r) \/ Reactivate(r) \/ Activate(r)
             \/ InsertMember(r) \/ Raced(r) \/ RacedUser(r)
    BY <2>2, ProvisionStep
  <2>3. CASE \E i \in Invitations : Invite(r, i)
    BY <2>3, InviteStep
  <2>4. CASE AcceptInsert(r)
    BY <2>4, AcceptStep
  <2>5. CASE AcceptMark(r)
    BY <2>5, AcceptMarkStep
  <2>6. CASE Suspend(r) \/ Count(r) \/ Deactivate(r)
    BY <2>6, RemoveStep
  <2>7. CASE PurgeUser(r) \/ EndPurge(r) \/ \E u \in Users : PurgeMembers(r, u)
    BY <2>7, PurgeUserStep, PurgeMembersStep
  <2> QED
    BY <1>2, <2>1, <2>2, <2>3, <2>4, <2>5, <2>6, <2>7 DEF Step
<1>3. ASSUME NEW i \in Invitations, Expire(i) PROVE Inv'
  BY <1>3, InviteStep
<1>4. CASE UNCHANGED vars
  BY <1>4 DEF vars, rows, Inv, TypeOK, Refers, Invites, Exists, Kept, IsMember, Founds
<1> QED
  BY <1>1, <1>2, <1>3, <1>4 DEF Next

LEMMA Invariance == Spec => []Inv
BY InitInv, NextInv, PTL DEF Spec

\* Accounts, memberships and invitations keep their types, and a membership is of an account and
\* an organisation that exist.
THEOREM TypeCorrect == Spec => []TypeOK
<1>1. Inv => TypeOK
  BY DEF Inv
<1> QED
  BY <1>1, Invariance, PTL

\* When no request runs, every account has a membership, unless the database has refused to
\* delete it halfway through a purge.
THEOREM NoAccountOrphaned == Spec => []NoOrphan
<1>1. Inv => NoOrphan
  BY DEF Inv, NoOrphan, Quiet, Kept, Founds, At
<1> QED
  BY <1>1, Invariance, PTL

\* A suspended member becomes active through provisioning only.
THEOREM RevivedOnlyByProvision == Spec => RevivedByProvision
<1>1. Inv /\ [Next]_vars =>
        [\A u \in Users, g \in Organizations : member[u][g] = "SUSPENDED" /\ member'[u][g] = "ACTIVE" =>
           \E r \in Requests : task[r].pc \in {"reactivate", "raced"} /\ task[r].user = u /\ task[r].org = g]_vars
  <2> SUFFICES ASSUME Inv, Next, NEW u \in Users, NEW g \in Organizations,
                      member[u][g] = "SUSPENDED", member'[u][g] = "ACTIVE"
               PROVE  \E r \in Requests : /\ task[r].pc \in {"reactivate", "raced"}
                                          /\ task[r].user = u /\ task[r].org = g
    BY DEF vars
  <2>1. Exists(u) /\ g \in org
    BY DEF Inv, TypeOK
  <2>2. PICK r \in Requests : Begin(r) \/ Step(r)
    BY DEF Next, Expire
  <2>3. /\ SetMember(task[r].user, task[r].org, "ACTIVE") => task[r].user = u /\ task[r].org = g
        /\ ~SetMember(task[r].user, task[r].org, "SUSPENDED")
    BY DEF SetMember, Inv, TypeOK
  <2>4. member' = [member EXCEPT ![task[r].user][task[r].org] = "ACTIVE"] =>
           task[r].user = u /\ task[r].org = g
    BY DEF Inv, TypeOK
  <2>5. ~UNCHANGED member
    OBVIOUS
  <2>6. ~Begin(r)
    BY DEF Begin, BeginRegister, BeginSetup, BeginProvision, BeginInvite, BeginRemove, Begins, rows,
       CreateOrganization, BeginAccept, BeginPurge
  <2>7. ~CreateUser(r) /\ ~FoundCheck(r) /\ ~Cleanup(r) /\ ~ProvisionRead(r) /\ ~Activate(r)
        /\ ~RacedUser(r) /\ ~Count(r) /\ ~Deactivate(r) /\ ~PurgeUser(r) /\ ~EndPurge(r)
    BY DEF CreateUser, FoundCheck, Cleanup, ProvisionRead, Activate, RacedUser, Count, Deactivate,
       PurgeUser, EndPurge, SetUser, Decides, rows
  <2>8. ~FoundCommit(r) /\ ~ProvisionNew(r) /\ ~InsertMember(r) /\ ~AcceptInsert(r)
    <3>1. ~FoundCommit(r)
      BY <2>1, <2>4, <2>5 DEF FoundCommit, Decides, rows
    <3>2. ~ProvisionNew(r)
      BY <2>1, <2>4, <2>5 DEF ProvisionNew, Decides, rows, Exists
    <3>3. ~InsertMember(r)
      BY <2>3, <2>5 DEF InsertMember, Decides, rows
    <3>4. ~AcceptInsert(r)
      BY <2>3, <2>5 DEF AcceptInsert, Decides, rows
    <3> QED
      BY <3>1, <3>2, <3>3, <3>4
  <2>9. ~AcceptMark(r) /\ \A i \in Invitations : ~Invite(r, i)
    BY DEF AcceptMark, Invite
  <2>10. ~Suspend(r) /\ \A x \in Users : ~PurgeMembers(r, x)
    <3>1. ~Suspend(r)
      BY <2>3, <2>5 DEF Suspend, Decides, rows
    <3>2. ASSUME NEW x \in Users, PurgeMembers(r, x) PROVE FALSE
      BY <3>2 DEF PurgeMembers, Inv, TypeOK
    <3> QED
      BY <3>1, <3>2
  <2>11. Reactivate(r) \/ Raced(r)
    BY <2>2, <2>6, <2>7, <2>8, <2>9, <2>10 DEF Step
  <2> QED
    <3>1. CASE Reactivate(r)
      BY <2>4, <2>5, <3>1 DEF Reactivate, Decides, rows, At
    <3>2. CASE Raced(r)
      BY <2>3, <2>5, <3>2 DEF Raced, Decides, rows, At
    <3> QED
      BY <2>11, <3>1, <3>2
<1> QED
  BY <1>1, Invariance, PTL DEF Spec, RevivedByProvision

-----------------------------------------------------------------------------
(* Who belongs somewhere can log in. *)

Outside(memberships) == \A g \in Organizations : memberships[g] = "none"
Nowhere(memberships) == \A g \in Organizations : memberships[g] # "ACTIVE"

\* An account that is there is active when its memberships say so.
Matches(account, memberships) ==
  account \in {"active", "inactive"} => (account = "active" <=> ~Nowhere(memberships))

Founder(t) == t.pc \in {"found", "foundCommit", "cleanup"}

\* What holds of user u while the one request about him runs.  The repairs of the catch in
\* provisionMember, and the set-up of a business for somebody who has none, are not reached:
\* they need another request about the user.
Due(t, u, account, memberships) ==
  /\ u \in t.rest => account = "inactive" /\ Nowhere(memberships)
  /\ t.user = u =>
       /\ t.pc \in {"register", "provisionNew", "provision", "reactivate", "invite", "accept",
                    "acceptMark", "suspend"} => Matches(account, memberships)
       /\ Founder(t) /\ t.new => account = "active" /\ Outside(memberships)
       /\ Founder(t) /\ ~t.new => t.pc = "found" /\ account = "active" /\ ~Nowhere(memberships)
       /\ t.pc = "provision" =>
            account \in {"active", "inactive"} /\ (t.active <=> account = "active")
       /\ t.pc = "activate" => account \in {"active", "inactive"} /\ memberships[t.org] = "none"
       /\ t.pc = "insert" => account = "active" /\ memberships[t.org] = "none"
       /\ t.pc \notin {"raced", "racedUser", "purge"}
       /\ t.pc = "accept" => account = "active"
       /\ t.pc = "count" => Nowhere(memberships) \/ account = "active"
       /\ t.pc = "deactivate" => Nowhere(memberships)
       /\ t.pc = "purgeUser" => account = "inactive" /\ Nowhere(memberships)

\* A user whose requests never overlapped has one request, or matches.
Sound(u) ==
  /\ (\A r \in Requests : ~Concerns(r, u)) => Matches(user[u], member[u])
  /\ \A r, q \in Requests : Concerns(r, u) /\ Concerns(q, u) => r = q
  /\ \A r \in Requests : Concerns(r, u) => Due(task[r], u, user[u], member[u])

Logins ==
  /\ \A r \in Requests : (At(r, "idle") => task[r] = Idle) /\ task[r].user \notin task[r].rest
  /\ \A u \in Users \ crossed : Sound(u)

LEMMA LoginsInit == Init => Logins
<1> SUFFICES ASSUME Init PROVE Logins
  OBVIOUS
<1>1. \A r \in Requests : task[r] = Idle /\ Idle.user = None /\ Idle.rest = {}
  BY DEF Init, Idle
<1>2. \A u \in Users : user[u] = "none" /\ u # None
  BY MembershipAssumption DEF Init
<1>3. \A u \in Users : Sound(u)
  BY <1>1, <1>2 DEF Sound, Concerns, Matches
<1> QED
  BY <1>1, <1>3 DEF Logins

\* A step of request r answers for the users it is about, if nobody crossed them: for those it
\* goes on with, and for those it leaves.
LEMMA LoginMoves ==
  ASSUME Inv, Logins, NEW r \in Requests, NEW t, Become(r, t), UNCHANGED crossed,
         t.user \notin t.rest, t.pc = "idle" => t = Idle,
         \A u \in Users : t.user = u \/ u \in t.rest => Concerns(r, u),
         \A u \in Users : ~Concerns(r, u) => user'[u] = user[u] /\ member'[u] = member[u],
         \A u \in Users \ crossed : Concerns(r, u) /\ Due(task[r], u, user[u], member[u]) =>
           IF t.user = u \/ u \in t.rest THEN Due(t, u, user'[u], member'[u])
           ELSE Matches(user'[u], member'[u])
  PROVE  Logins'
<1>1. \A q \in Requests : task'[q] = IF q = r THEN t ELSE task[q]
  BY DEF Become, Inv
<1>2. \A q \in Requests : (At(q, "idle")' => task'[q] = Idle) /\ task'[q].user \notin task'[q].rest
  BY <1>1 DEF At, Logins
<1>3. ASSUME NEW u \in Users, u \notin crossed PROVE Sound(u)'
  <2>1. Sound(u)
    BY <1>3 DEF Logins
  <2>2. \A q \in Requests : Concerns(q, u)' => Concerns(q, u)
    BY <1>1 DEF Concerns
  <2>3. \A q, p \in Requests : Concerns(q, u)' /\ Concerns(p, u)' => q = p
    BY <2>1, <2>2 DEF Sound
  <2>4. Concerns(r, u)' <=> t.user = u \/ u \in t.rest
    BY <1>1 DEF Concerns
  <2>5. CASE Concerns(r, u)
    <3>1. Due(task[r], u, user[u], member[u])
      BY <2>1, <2>5 DEF Sound
    <3>2. \A q \in Requests : Concerns(q, u)' => q = r
      BY <2>1, <2>2, <2>5 DEF Sound
    <3>3. CASE t.user = u \/ u \in t.rest
      <4>1. Due(task'[r], u, user'[u], member'[u])
        BY <1>1, <1>3, <2>5, <3>1, <3>3
      <4> QED
        BY <2>3, <2>4, <3>2, <3>3, <4>1 DEF Sound
    <3>4. CASE ~(t.user = u \/ u \in t.rest)
      <4>1. Matches(user'[u], member'[u])
        BY <1>3, <2>5, <3>1, <3>4
      <4> QED
        BY <2>3, <2>4, <3>2, <3>4, <4>1 DEF Sound
    <3> QED
      BY <3>3, <3>4
  <2>6. CASE ~Concerns(r, u)
    <3>1. user'[u] = user[u] /\ member'[u] = member[u] /\ ~Concerns(r, u)'
      BY <2>2, <2>6
    <3>2. \A q \in Requests : q # r => task'[q] = task[q] /\ (Concerns(q, u)' <=> Concerns(q, u))
      BY <1>1 DEF Concerns
    <3> QED
      BY <2>1, <2>3, <2>6, <3>1, <3>2 DEF Sound
  <2> QED
    BY <2>5, <2>6
<1> QED
  BY <1>2, <1>3 DEF Logins

\* A request that is about one user, and may have others to purge.
LEMMA LoginStep ==
  ASSUME Inv, Logins, NEW r \in Requests, NEW t, Become(r, t), UNCHANGED crossed,
         NEW w \in Users, task[r].user = w,
         \A u \in Users \ {w} : user'[u] = user[u] /\ member'[u] = member[u],
         t = Idle \/ (t.user = w /\ t.rest = task[r].rest /\ t.pc # "idle"),
         w \notin crossed /\ Due(task[r], w, user[w], member[w]) =>
           IF t = Idle THEN Matches(user'[w], member'[w]) ELSE Due(t, w, user'[w], member'[w])
  PROVE  Logins'
<1>1. Idle.user = None /\ Idle.rest = {} /\ None \notin Users
  BY MembershipAssumption DEF Idle
<1>2. w \notin task[r].rest /\ Concerns(r, w)
  BY DEF Logins, Concerns
<1>3. \A u \in Users \ {w} : Concerns(r, u) <=> u \in task[r].rest
  BY DEF Concerns
<1>4. /\ t.user \notin t.rest /\ (t.pc = "idle" => t = Idle)
      /\ \A u \in Users : t.user = u \/ u \in t.rest => Concerns(r, u)
  BY <1>1, <1>2, <1>3
<1>5. ASSUME NEW u \in Users \ crossed, Concerns(r, u), Due(task[r], u, user[u], member[u])
      PROVE  IF t.user = u \/ u \in t.rest THEN Due(t, u, user'[u], member'[u])
             ELSE Matches(user'[u], member'[u])
  <2>1. CASE u = w
    BY <1>1, <1>5, <2>1
  <2>2. CASE u # w
    <3>1. u \in task[r].rest /\ user[u] = "inactive" /\ Nowhere(member[u])
          /\ user'[u] = user[u] /\ member'[u] = member[u]
      BY <1>3, <1>5, <2>2 DEF Due
    <3>2. CASE t = Idle
      BY <1>1, <3>1, <3>2 DEF Matches
    <3>3. CASE t # Idle
      BY <2>2, <3>1, <3>3 DEF Due
    <3> QED
      BY <3>2, <3>3
  <2> QED
    BY <2>1, <2>2
<1>6. \A u \in Users : ~Concerns(r, u) => user'[u] = user[u] /\ member'[u] = member[u]
  BY <1>2
<1> QED
  BY <1>4, <1>5, <1>6, LoginMoves

\* A request about some users begins: those that nobody else is at match.
LEMMA LoginBegins ==
  ASSUME Inv, Logins, NEW r \in Requests, At(r, "idle"), NEW t \in TaskRow, Become(r, t),
         NEW about \in SUBSET Users, Begins(r, about), t.pc # "idle", t.user \notin t.rest,
         \A u \in Users : u \in about <=> t.user = u \/ u \in t.rest,
         \A u \in about : Matches(user[u], member[u]) => Due(t, u, user[u], member[u])
  PROVE  Logins'
<1>1. \A q \in Requests : task'[q] = IF q = r THEN t ELSE task[q]
  BY DEF Become, Inv
<1>2. UNCHANGED <<user, member>>
  BY DEF Begins, rows
<1>3. crossed' = crossed \cup {u \in about : \E q \in Requests \ {r} : Concerns(q, u)}
  BY DEF Begins
<1>4. \A u \in Users : ~Concerns(r, u)
  BY MembershipAssumption DEF Logins, Concerns, Idle
<1>5. \A q \in Requests : (At(q, "idle")' => task'[q] = Idle) /\ task'[q].user \notin task'[q].rest
  BY <1>1 DEF At, Logins
<1>6. ASSUME NEW u \in Users, u \notin crossed' PROVE Sound(u)'
  <2>1. Sound(u)
    BY <1>3, <1>6 DEF Logins
  <2>2. \A q \in Requests : q # r => (Concerns(q, u)' <=> Concerns(q, u))
    BY <1>1 DEF Concerns
  <2>3. Concerns(r, u)' <=> u \in about
    BY <1>1 DEF Concerns
  <2>4. CASE u \in about
    <3>1. \A q \in Requests \ {r} : ~Concerns(q, u)
      BY <1>3, <1>6, <2>4
    <3>2. Matches(user[u], member[u])
      BY <1>4, <2>1, <3>1 DEF Sound
    <3>3. Due(task'[r], u, user'[u], member'[u])
      BY <1>1, <1>2, <2>4, <3>2
    <3>4. \A q \in Requests : Concerns(q, u)' => q = r
      BY <2>2, <3>1
    <3> QED
      BY <2>3, <2>4, <3>3, <3>4 DEF Sound
  <2>5. CASE u \notin about
    <3>1. \A q \in Requests : Concerns(q, u)' => Concerns(q, u) /\ q # r
      BY <2>2, <2>3, <2>5
    <3>2. \A q \in Requests : Concerns(q, u) => Concerns(q, u)'
      BY <1>4, <2>2
    <3> QED
      BY <1>1, <1>2, <2>1, <3>1, <3>2 DEF Sound
  <2> QED
    BY <2>4, <2>5
<1> QED
  BY <1>5, <1>6 DEF Logins

\* A request that is about a user, and what is left of it when its step changes.
LEMMA Subject ==
  ASSUME Inv, Logins, NEW r \in Requests, ~At(r, "idle"), ~At(r, "purge")
  PROVE  /\ task[r].user \in Users /\ task[r].user \notin task[r].rest
         /\ \A u : IsMember(u) <=> ~Outside(member[u])
         /\ \A u : BelongsNowhere(u) <=> Nowhere(member[u])
         /\ \A u \in Users : user[u] = "none" => Outside(member[u])
         /\ \A u \in Users : user[u] \in {"none", "active", "inactive", "deleted"}
BY DEF Inv, Refers, At, Logins, Outside, Nowhere, IsMember, BelongsNowhere, Active, TypeOK, Exists

\* A request goes on about its user.
LEMMA LoginGoes ==
  ASSUME Inv, Logins, NEW r \in Requests, ~At(r, "idle"), ~At(r, "purge"),
         NEW pc \in Steps \ {"idle"}, Goto(r, pc), UNCHANGED crossed,
         \A u \in Users \ {task[r].user} : user'[u] = user[u] /\ member'[u] = member[u],
         \A t \in TaskRow :
           /\ Due(task[r], task[r].user, user[task[r].user], member[task[r].user])
           /\ t.pc = pc /\ t.user = task[r].user /\ t.user \notin t.rest
           /\ t.org = task[r].org /\ t.new = task[r].new /\ t.active = task[r].active
           => Due(t, task[r].user, user'[task[r].user], member'[task[r].user])
  PROVE  Logins'
<1> DEFINE t == [task[r] EXCEPT !.pc = pc]
           w == task[r].user
<1>1. task[r] \in TaskRow /\ w \in Users /\ w \notin task[r].rest
  BY Subject, Rows
<1>2. /\ t \in TaskRow /\ t.pc = pc /\ t.user = w /\ t.org = task[r].org /\ t.new = task[r].new
      /\ t.active = task[r].active /\ t.rest = task[r].rest
  BY <1>1 DEF TaskRow
<1>3. t # Idle
  BY <1>2 DEF Idle
<1>4. Due(task[r], w, user[w], member[w]) => Due(t, w, user'[w], member'[w])
  BY <1>1, <1>2
<1> QED
  BY <1>1, <1>2, <1>3, <1>4, LoginStep DEF Goto

\* A request ends, and its user matches.
LEMMA LoginEnds ==
  ASSUME Inv, Logins, NEW r \in Requests, ~At(r, "idle"), ~At(r, "purge"),
         Finish(r), UNCHANGED crossed,
         \A u \in Users \ {task[r].user} : user'[u] = user[u] /\ member'[u] = member[u],
         Due(task[r], task[r].user, user[task[r].user], member[task[r].user]) =>
           Matches(user'[task[r].user], member'[task[r].user])
  PROVE  Logins'
BY Subject, LoginStep DEF Finish

-----------------------------------------------------------------------------
LEMMA LoginRegister ==
  ASSUME Inv, Logins, NEW r \in Requests, CreateUser(r)
  PROVE  Logins'
<1> DEFINE w == task[r].user
<1>1. At(r, "register") /\ ~At(r, "idle") /\ ~At(r, "purge") /\ task[r].new
  BY Rows DEF CreateUser, At, Refers
<1>2. CASE user[w] = "none" /\ SetUser(w, "active") /\ Goto(r, "found")
  <2>1. user'[w] = "active" /\ UNCHANGED <<member, crossed>> /\ Outside(member[w])
    BY <1>1, <1>2, Subject DEF SetUser, Inv, TypeOK
  <2>3. \A x \in Users \ {w} : user'[x] = user[x] /\ member'[x] = member[x]
    BY <1>1, <1>2, <2>1, Subject DEF SetUser, Inv, TypeOK
  <2>4. "found" \in Steps \ {"idle"} /\ Goto(r, "found")
    BY <1>2 DEF Steps
  <2>2. \A t : t.pc = "found" /\ t.user = w /\ t.user \notin t.rest /\ t.new = task[r].new =>
                 Due(t, w, user'[w], member'[w])
    BY <1>1, <2>1 DEF Due, Founder
  <2> QED
    BY <1>1, <2>1, <2>2, <2>3, <2>4, LoginGoes
<1>3. CASE Finish(r) /\ Decides
  <2>1. UNCHANGED <<user, member, crossed>>
    BY <1>3 DEF Decides, rows
  <2>2. Due(task[r], w, user[w], member[w]) => Matches(user[w], member[w])
    BY <1>1 DEF Due, At
  <2> QED
    BY <1>1, <1>3, <2>1, <2>2, LoginEnds
<1> QED
  BY <1>2, <1>3 DEF CreateUser

\* A registration or set-up that fails.
LEMMA LoginFailure ==
  ASSUME Inv, Logins, NEW r \in Requests, task[r].pc \in {"found", "foundCommit"},
         AfterFailure(r), Decides
  PROVE  Logins'
<1> DEFINE w == task[r].user
<1>1. ~At(r, "idle") /\ ~At(r, "purge")
  BY DEF At
<1>2. UNCHANGED <<user, member, crossed>>
  BY DEF Decides, rows
<1>3. CASE task[r].new
  <2>1. Goto(r, "cleanup")
    BY <1>3 DEF AfterFailure
  <2>2. \A t : /\ Due(task[r], w, user[w], member[w])
               /\ t.pc = "cleanup" /\ t.user = w /\ t.user \notin t.rest /\ t.new = task[r].new
               => Due(t, w, user'[w], member'[w])
    BY <1>2, <1>3 DEF Due, Founder
  <2> QED
    BY <1>1, <1>2, <2>1, <2>2, LoginGoes DEF Steps
<1>4. CASE ~task[r].new
  <2>1. Finish(r)
    BY <1>4 DEF AfterFailure
  <2>2. Due(task[r], w, user[w], member[w]) => Matches(user[w], member[w])
    BY <1>4 DEF Due, Founder, Matches
  <2> QED
    BY <1>1, <1>2, <2>1, <2>2, LoginEnds
<1> QED
  BY <1>3, <1>4

LEMMA LoginFoundCheck ==
  ASSUME Inv, Logins, NEW r \in Requests, FoundCheck(r)
  PROVE  Logins'
<1> DEFINE w == task[r].user
<1>1. At(r, "found") /\ ~At(r, "idle") /\ ~At(r, "purge") /\ Decides
  BY DEF FoundCheck, At
<1>2. UNCHANGED <<user, member, crossed>>
  BY <1>1 DEF Decides, rows
<1>3. CASE BelongsNowhere(w) /\ Goto(r, "foundCommit")
  <2>1. Nowhere(member[w])
    BY <1>1, <1>3, Subject
  <2>2. \A t : /\ Due(task[r], w, user[w], member[w])
               /\ t.pc = "foundCommit" /\ t.user = w /\ t.user \notin t.rest /\ t.new = task[r].new
               => Due(t, w, user'[w], member'[w])
    BY <1>1, <1>2, <2>1 DEF Due, Founder, At
  <2> QED
    BY <1>1, <1>2, <1>3, <2>2, LoginGoes DEF Steps
<1>4. CASE AfterFailure(r)
  BY <1>1, <1>4, LoginFailure DEF At
<1> QED
  BY <1>3, <1>4 DEF FoundCheck, BelongsNowhere

LEMMA LoginFoundCommit ==
  ASSUME Inv, Logins, NEW r \in Requests, FoundCommit(r)
  PROVE  Logins'
<1> DEFINE w == task[r].user
           g == task[r].org
<1>1. At(r, "foundCommit") /\ ~At(r, "idle") /\ ~At(r, "purge") /\ g \in Organizations /\ w \in Users
  BY Rows DEF FoundCommit, At, Refers
<1>2. CASE /\ member' = [member EXCEPT ![w][g] = "ACTIVE"] /\ Finish(r)
           /\ UNCHANGED <<user, crossed>>
  <2>1. member'[w][g] = "ACTIVE" /\ \A x \in Users \ {w} : member'[x] = member[x]
    BY <1>1, <1>2 DEF Inv, TypeOK
  <2>2. Due(task[r], w, user[w], member[w]) => user[w] = "active"
    BY <1>1 DEF Due, Founder, At
  <2>3. Due(task[r], w, user[w], member[w]) => Matches(user'[w], member'[w])
    BY <1>1, <1>2, <2>1, <2>2 DEF Matches, Nowhere
  <2> QED
    BY <1>1, <1>2, <2>1, <2>3, LoginEnds
<1>3. CASE AfterFailure(r) /\ Decides
  BY <1>1, <1>3, LoginFailure DEF At
<1> QED
  BY <1>2, <1>3 DEF FoundCommit

LEMMA LoginCleanup ==
  ASSUME Inv, Logins, NEW r \in Requests, Cleanup(r)
  PROVE  Logins'
<1> DEFINE w == task[r].user
<1>1. At(r, "cleanup") /\ ~At(r, "idle") /\ ~At(r, "purge") /\ Finish(r)
  BY DEF Cleanup, At
<1>2. CASE SetUser(w, "deleted")
  <2>1. user'[w] = "deleted" /\ member' = member /\ crossed' = crossed
        /\ \A x \in Users \ {w} : user'[x] = user[x]
    BY <1>1, <1>2, Subject DEF SetUser, Inv, TypeOK
  <2>2. Matches(user'[w], member'[w])
    BY <2>1 DEF Matches
  <2> QED
    BY <1>1, <2>1, <2>2, LoginEnds
<1>3. CASE IsMember(w) /\ Decides
  <2>1. UNCHANGED <<user, member, crossed>>
    BY <1>3 DEF Decides, rows
  <2>2. ~Due(task[r], w, user[w], member[w])
    BY <1>1, <1>3, Subject DEF Due, Founder, At
  <2> QED
    BY <1>1, <2>1, <2>2, LoginEnds
<1> QED
  BY <1>2, <1>3 DEF Cleanup

\* A request decides to end, or where to go on.
LEMMA LoginDecides ==
  ASSUME Inv, Logins, NEW r \in Requests, ~At(r, "idle"), ~At(r, "purge"),
         UNCHANGED <<user, member, crossed>>,
         \/ /\ Finish(r)
            /\ Due(task[r], task[r].user, user[task[r].user], member[task[r].user]) =>
                 Matches(user[task[r].user], member[task[r].user])
         \/ \E pc \in Steps \ {"idle"} : Goto(r, pc) /\
              \A t \in TaskRow :
                /\ Due(task[r], task[r].user, user[task[r].user], member[task[r].user])
                /\ t.pc = pc /\ t.user = task[r].user /\ t.user \notin t.rest
                /\ t.org = task[r].org /\ t.new = task[r].new /\ t.active = task[r].active
                => Due(t, task[r].user, user[task[r].user], member[task[r].user])
  PROVE  Logins'
<1>1. CASE /\ Finish(r)
           /\ Due(task[r], task[r].user, user[task[r].user], member[task[r].user]) =>
                Matches(user[task[r].user], member[task[r].user])
  BY <1>1, LoginEnds
<1>2. ASSUME NEW pc \in Steps \ {"idle"}, Goto(r, pc),
             \A t \in TaskRow :
                /\ Due(task[r], task[r].user, user[task[r].user], member[task[r].user])
                /\ t.pc = pc /\ t.user = task[r].user /\ t.user \notin t.rest
                /\ t.org = task[r].org /\ t.new = task[r].new /\ t.active = task[r].active
                => Due(t, task[r].user, user[task[r].user], member[task[r].user])
      PROVE  Logins'
  BY <1>2, LoginGoes
<1> QED
  BY <1>1, <1>2

-----------------------------------------------------------------------------
LEMMA LoginProvisionNew ==
  ASSUME Inv, Logins, NEW r \in Requests, ProvisionNew(r)
  PROVE  Logins'
<1> DEFINE w == task[r].user
           g == task[r].org
<1>1. At(r, "provisionNew") /\ ~At(r, "idle") /\ ~At(r, "purge") /\ g \in Organizations /\ w \in Users
      /\ Finish(r)
  BY Rows DEF ProvisionNew, At, Refers
<1>2. CASE /\ user' = [user EXCEPT ![w] = "active"]
           /\ member' = [member EXCEPT ![w][g] = "ACTIVE"] /\ UNCHANGED crossed
  <2>1. /\ user'[w] = "active" /\ member'[w][g] = "ACTIVE"
        /\ \A x \in Users \ {w} : user'[x] = user[x] /\ member'[x] = member[x]
    BY <1>1, <1>2 DEF Inv, TypeOK
  <2>2. Matches(user'[w], member'[w])
    BY <1>1, <2>1 DEF Matches, Nowhere
  <2> QED
    BY <1>1, <1>2, <2>1, <2>2, LoginEnds
<1>3. CASE Decides
  <2>1. Due(task[r], w, user[w], member[w]) => Matches(user[w], member[w])
    BY <1>1 DEF Due, At
  <2> QED
    BY <1>1, <1>3, <2>1, LoginDecides DEF Decides, rows
<1> QED
  BY <1>2, <1>3 DEF ProvisionNew

LEMMA LoginProvisionRead ==
  ASSUME Inv, Logins, NEW r \in Requests, ProvisionRead(r)
  PROVE  Logins'
<1> DEFINE w == task[r].user
           g == task[r].org
<1>1. At(r, "provision") /\ ~At(r, "idle") /\ ~At(r, "purge") /\ Decides
  BY DEF ProvisionRead, At
<1>2. UNCHANGED <<user, member, crossed>>
  BY <1>1 DEF Decides, rows
<1>3. Due(task[r], w, user[w], member[w]) =>
        /\ Matches(user[w], member[w])
        /\ user[w] \in {"active", "inactive"} /\ (task[r].active <=> user[w] = "active")
  BY <1>1 DEF Due, At
<1>4. CASE Finish(r)
  BY <1>1, <1>2, <1>3, <1>4, LoginDecides
<1>5. CASE Goto(r, "reactivate")
  <2>1. \A t : /\ Due(task[r], w, user[w], member[w])
               /\ t.pc = "reactivate" /\ t.user = w /\ t.user \notin t.rest
               => Due(t, w, user[w], member[w])
    BY <1>3 DEF Due, Founder
  <2>2. "reactivate" \in Steps \ {"idle"}
    BY DEF Steps
  <2> QED
    BY <1>1, <1>2, <1>5, <2>1, <2>2, LoginDecides
<1>6. CASE member[w][g] = "none" /\ task[r].active /\ Goto(r, "insert")
  <2>1. \A t : /\ Due(task[r], w, user[w], member[w])
               /\ t.pc = "insert" /\ t.user = w /\ t.user \notin t.rest /\ t.org = g
               => Due(t, w, user[w], member[w])
    BY <1>3, <1>6 DEF Due, Founder
  <2>2. "insert" \in Steps \ {"idle"}
    BY DEF Steps
  <2> QED
    BY <1>1, <1>2, <1>6, <2>1, <2>2, LoginDecides
<1>7. CASE member[w][g] = "none" /\ Goto(r, "activate")
  <2>1. \A t : /\ Due(task[r], w, user[w], member[w])
               /\ t.pc = "activate" /\ t.user = w /\ t.user \notin t.rest /\ t.org = g
               => Due(t, w, user[w], member[w])
    BY <1>3, <1>7 DEF Due, Founder
  <2>2. "activate" \in Steps \ {"idle"}
    BY DEF Steps
  <2> QED
    BY <1>1, <1>2, <1>7, <2>1, <2>2, LoginDecides
<1> QED
  BY <1>4, <1>5, <1>6, <1>7 DEF ProvisionRead

LEMMA LoginReactivate ==
  ASSUME Inv, Logins, NEW r \in Requests, Reactivate(r)
  PROVE  Logins'
<1> DEFINE w == task[r].user
           g == task[r].org
<1>1. At(r, "reactivate") /\ ~At(r, "idle") /\ ~At(r, "purge") /\ g \in Organizations /\ w \in Users
      /\ Finish(r)
  BY Rows DEF Reactivate, At, Refers, Inv, TypeOK
<1>2. CASE /\ user' = [user EXCEPT ![w] = "active"]
           /\ member' = [member EXCEPT ![w][g] = "ACTIVE"] /\ UNCHANGED crossed
  <2>1. /\ user'[w] = "active" /\ member'[w][g] = "ACTIVE"
        /\ \A x \in Users \ {w} : user'[x] = user[x] /\ member'[x] = member[x]
    BY <1>1, <1>2 DEF Inv, TypeOK
  <2>2. Matches(user'[w], member'[w])
    BY <1>1, <2>1 DEF Matches, Nowhere
  <2> QED
    BY <1>1, <1>2, <2>1, <2>2, LoginEnds
<1>3. CASE Decides
  <2>1. Due(task[r], w, user[w], member[w]) => Matches(user[w], member[w])
    BY <1>1 DEF Due, At
  <2> QED
    BY <1>1, <1>3, <2>1, LoginDecides DEF Decides, rows
<1> QED
  BY <1>2, <1>3 DEF Reactivate

LEMMA LoginActivate ==
  ASSUME Inv, Logins, NEW r \in Requests, Activate(r)
  PROVE  Logins'
<1> DEFINE w == task[r].user
<1>1. At(r, "activate") /\ ~At(r, "idle") /\ ~At(r, "purge")
  BY DEF Activate, At
<1>2. CASE SetUser(w, "active") /\ Goto(r, "insert")
  <2>1. user'[w] = "active" /\ UNCHANGED <<member, crossed>>
    BY <1>1, <1>2, Subject DEF SetUser, Inv, TypeOK
  <2>2. \A x \in Users \ {w} : user'[x] = user[x] /\ member'[x] = member[x]
    BY <1>1, <1>2, <2>1, Subject DEF SetUser, Inv, TypeOK
  <2>3. "insert" \in Steps \ {"idle"} /\ Goto(r, "insert")
    BY <1>2 DEF Steps
  <2>4. \A t : /\ Due(task[r], w, user[w], member[w])
               /\ t.pc = "insert" /\ t.user = w /\ t.user \notin t.rest /\ t.org = task[r].org
               => Due(t, w, user'[w], member'[w])
    BY <1>1, <2>1 DEF Due, Founder, At
  <2> QED
    BY <1>1, <2>1, <2>2, <2>3, <2>4, LoginGoes
<1>3. CASE ~Exists(w) /\ Finish(r) /\ Decides
  <2>1. Due(task[r], w, user[w], member[w]) => Matches(user[w], member[w])
    BY <1>3 DEF Exists, Matches
  <2> QED
    BY <1>1, <1>3, <2>1, LoginDecides DEF Decides, rows
<1> QED
  BY <1>2, <1>3 DEF Activate

LEMMA LoginInsert ==
  ASSUME Inv, Logins, NEW r \in Requests, InsertMember(r)
  PROVE  Logins'
<1> DEFINE w == task[r].user
           g == task[r].org
<1>1. At(r, "insert") /\ ~At(r, "idle") /\ ~At(r, "purge") /\ g \in Organizations /\ w \in Users
  BY Rows DEF InsertMember, At, Refers, Inv, TypeOK
<1>2. Due(task[r], w, user[w], member[w]) => user[w] = "active" /\ member[w][g] = "none"
  BY <1>1 DEF Due, At
<1>3. CASE SetMember(w, g, "ACTIVE") /\ UNCHANGED user /\ Finish(r)
  <2>1. /\ member'[w][g] = "ACTIVE" /\ UNCHANGED <<user, crossed>>
        /\ \A x \in Users \ {w} : member'[x] = member[x]
    BY <1>1, <1>3 DEF SetMember, Inv, TypeOK
  <2>2. Due(task[r], w, user[w], member[w]) => Matches(user'[w], member'[w])
    BY <1>1, <1>2, <2>1 DEF Matches, Nowhere
  <2> QED
    BY <1>1, <1>3, <2>1, <2>2, LoginEnds
<1>4. CASE member[w][g] # "none" /\ Goto(r, "raced") /\ Decides
  <2>1. "raced" \in Steps \ {"idle"}
    BY DEF Steps
  <2> QED
    BY <1>1, <1>2, <1>4, <2>1, LoginDecides DEF Decides, rows
<1>5. CASE ~Exists(w) /\ Finish(r) /\ Decides
  <2>1. Due(task[r], w, user[w], member[w]) => Matches(user[w], member[w])
    BY <1>5 DEF Exists, Matches
  <2> QED
    BY <1>1, <1>5, <2>1, LoginDecides DEF Decides, rows
<1> QED
  BY <1>3, <1>4, <1>5 DEF InsertMember

\* The repair of the catch: the user has crossed.
LEMMA LoginRaced ==
  ASSUME Inv, Logins, NEW r \in Requests, Raced(r) \/ RacedUser(r)
  PROVE  Logins'
<1> DEFINE w == task[r].user
           g == task[r].org
<1>1. task[r].pc \in {"raced", "racedUser"} /\ ~At(r, "idle") /\ ~At(r, "purge") /\ w \in Users
      /\ g \in Organizations
  BY Rows DEF Raced, RacedUser, At, Refers, Inv, TypeOK
<1>2. ~Due(task[r], w, user[w], member[w])
  BY <1>1 DEF Due
<1>3. UNCHANGED crossed /\ \A x \in Users \ {w} : user'[x] = user[x] /\ member'[x] = member[x]
  BY <1>1 DEF Raced, RacedUser, SetMember, SetUser, Decides, rows, Inv, TypeOK
<1>4. CASE Finish(r)
  BY <1>1, <1>2, <1>3, <1>4, LoginEnds
<1>5. CASE Goto(r, "racedUser")
  <2>1. "racedUser" \in Steps \ {"idle"}
    BY DEF Steps
  <2> QED
    BY <1>1, <1>2, <1>3, <1>5, <2>1, LoginGoes
<1> QED
  BY <1>4, <1>5 DEF Raced, RacedUser

LEMMA LoginInvite ==
  ASSUME Inv, Logins, NEW r \in Requests, (\E i \in Invitations : Invite(r, i)) \/ AcceptMark(r)
  PROVE  Logins'
<1> DEFINE w == task[r].user
<1>1. task[r].pc \in {"invite", "acceptMark"} /\ ~At(r, "idle") /\ ~At(r, "purge") /\ Finish(r)
      /\ UNCHANGED <<user, member, crossed>>
  BY DEF Invite, AcceptMark, At
<1>2. Due(task[r], w, user[w], member[w]) => Matches(user[w], member[w])
  BY <1>1 DEF Due
<1> QED
  BY <1>1, <1>2, LoginDecides

LEMMA LoginAccept ==
  ASSUME Inv, Logins, NEW r \in Requests, AcceptInsert(r)
  PROVE  Logins'
<1> DEFINE w == task[r].user
           g == task[r].org
<1>1. At(r, "accept") /\ ~At(r, "idle") /\ ~At(r, "purge") /\ g \in Organizations /\ w \in Users
  BY Rows DEF AcceptInsert, At, Refers, Inv, TypeOK
<1>2. Due(task[r], w, user[w], member[w]) => user[w] = "active" /\ Matches(user[w], member[w])
  BY <1>1 DEF Due, At
<1>3. CASE SetMember(w, g, "ACTIVE") /\ UNCHANGED user /\ Goto(r, "acceptMark")
  <2>1. /\ member'[w][g] = "ACTIVE" /\ UNCHANGED <<user, crossed>>
        /\ \A x \in Users \ {w} : member'[x] = member[x]
    BY <1>1, <1>3 DEF SetMember, Inv, TypeOK
  <2>2. \A t : /\ Due(task[r], w, user[w], member[w])
               /\ t.pc = "acceptMark" /\ t.user = w /\ t.user \notin t.rest
               => Due(t, w, user'[w], member'[w])
    BY <1>1, <1>2, <2>1 DEF Due, Founder, Matches, Nowhere
  <2>3. "acceptMark" \in Steps \ {"idle"}
    BY DEF Steps
  <2> QED
    BY <1>1, <1>3, <2>1, <2>2, <2>3, LoginGoes
<1>4. CASE Finish(r) /\ Decides
  BY <1>1, <1>2, <1>4, LoginDecides DEF Decides, rows
<1> QED
  BY <1>3, <1>4 DEF AcceptInsert

LEMMA LoginSuspend ==
  ASSUME Inv, Logins, NEW r \in Requests, Suspend(r)
  PROVE  Logins'
<1> DEFINE w == task[r].user
           g == task[r].org
<1>1. At(r, "suspend") /\ ~At(r, "idle") /\ ~At(r, "purge") /\ g \in Organizations /\ w \in Users
  BY Rows DEF Suspend, At, Refers, Inv, TypeOK
<1>2. Due(task[r], w, user[w], member[w]) => Matches(user[w], member[w])
  BY <1>1 DEF Due, At
<1>3. CASE member[w][g] # "none" /\ SetMember(w, g, "SUSPENDED") /\ UNCHANGED user /\ Goto(r, "count")
  <2>1. /\ \A h \in Organizations : member'[w][h] = IF h = g THEN "SUSPENDED" ELSE member[w][h]
        /\ UNCHANGED <<user, crossed>>
        /\ \A x \in Users \ {w} : member'[x] = member[x]
    BY <1>1, <1>3 DEF SetMember, Inv, TypeOK
  <2>2. user[w] \in {"active", "inactive"}
    BY <1>1, <1>3 DEF Inv, TypeOK, Exists
  <2>3. Due(task[r], w, user[w], member[w]) => Nowhere(member'[w]) \/ user'[w] = "active"
    BY <1>2, <2>1, <2>2 DEF Matches, Nowhere
  <2>4. \A t : /\ Due(task[r], w, user[w], member[w])
               /\ t.pc = "count" /\ t.user = w /\ t.user \notin t.rest
               => Due(t, w, user'[w], member'[w])
    BY <2>3 DEF Due, Founder
  <2>5. "count" \in Steps \ {"idle"}
    BY DEF Steps
  <2> QED
    BY <1>1, <1>3, <2>1, <2>4, <2>5, LoginGoes
<1>4. CASE Finish(r) /\ Decides
  BY <1>1, <1>2, <1>4, LoginDecides DEF Decides, rows
<1> QED
  BY <1>3, <1>4 DEF Suspend

LEMMA LoginCount ==
  ASSUME Inv, Logins, NEW r \in Requests, Count(r)
  PROVE  Logins'
<1> DEFINE w == task[r].user
<1>1. At(r, "count") /\ ~At(r, "idle") /\ ~At(r, "purge") /\ UNCHANGED <<user, member, crossed>>
  BY DEF Count, At, Decides, rows
<1>2. BelongsNowhere(w) <=> Nowhere(member[w])
  BY <1>1, Subject
<1>3. CASE BelongsNowhere(w) /\ Goto(r, "deactivate")
  <2>1. \A t : /\ Due(task[r], w, user[w], member[w])
               /\ t.pc = "deactivate" /\ t.user = w /\ t.user \notin t.rest
               => Due(t, w, user[w], member[w])
    BY <1>2, <1>3 DEF Due, Founder
  <2>2. "deactivate" \in Steps \ {"idle"}
    BY DEF Steps
  <2> QED
    BY <1>1, <1>3, <2>1, <2>2, LoginDecides
<1>4. CASE ~BelongsNowhere(w) /\ Finish(r)
  <2>1. Due(task[r], w, user[w], member[w]) => Matches(user[w], member[w])
    BY <1>1, <1>2, <1>4 DEF Due, At, Matches
  <2> QED
    BY <1>1, <1>4, <2>1, LoginDecides
<1> QED
  BY <1>3, <1>4 DEF Count

LEMMA LoginDeactivate ==
  ASSUME Inv, Logins, NEW r \in Requests, Deactivate(r)
  PROVE  Logins'
<1> DEFINE w == task[r].user
<1>1. At(r, "deactivate") /\ ~At(r, "idle") /\ ~At(r, "purge") /\ Finish(r)
  BY DEF Deactivate, At
<1>2. Due(task[r], w, user[w], member[w]) => Nowhere(member[w])
  BY <1>1 DEF Due, At
<1>3. CASE SetUser(w, "inactive")
  <2>1. user'[w] = "inactive" /\ UNCHANGED <<member, crossed>>
    BY <1>1, <1>3, Subject DEF SetUser, Inv, TypeOK
  <2>2. \A x \in Users \ {w} : user'[x] = user[x] /\ member'[x] = member[x]
    BY <1>1, <1>3, <2>1, Subject DEF SetUser, Inv, TypeOK
  <2>3. Due(task[r], w, user[w], member[w]) => Matches(user'[w], member'[w])
    BY <1>2, <2>1 DEF Matches
  <2> QED
    BY <1>1, <2>1, <2>2, <2>3, LoginEnds
<1>4. CASE ~Exists(w) /\ Decides
  <2>1. Matches(user[w], member[w])
    BY <1>4 DEF Exists, Matches
  <2> QED
    BY <1>1, <1>4, <2>1, LoginDecides DEF Decides, rows
<1> QED
  BY <1>3, <1>4 DEF Deactivate

-----------------------------------------------------------------------------
LEMMA LoginPurgeMembers ==
  ASSUME Inv, Logins, NEW r \in Requests, NEW u \in Users, PurgeMembers(r, u)
  PROVE  Logins'
<1> DEFINE t == [task[r] EXCEPT !.pc = "purgeUser", !.user = u, !.rest = task[r].rest \ {u}]
<1>1. At(r, "purge") /\ u \in task[r].rest /\ UNCHANGED <<user, crossed>>
  BY DEF PurgeMembers
<1>2. Become(r, t)
  BY DEF PurgeMembers
<1>3. t.pc = "purgeUser" /\ t.user = u /\ t.rest = task[r].rest \ {u} /\ t.pc # "idle"
  BY Rows DEF TaskRow
<1>4. Nowhere(member'[u]) /\ \A x \in Users \ {u} : member'[x] = member[x]
  BY DEF PurgeMembers, Inv, TypeOK, Nowhere
<1>5. ASSUME NEW x \in Users \ crossed, Concerns(r, x), Due(task[r], x, user[x], member[x])
      PROVE  IF t.user = x \/ x \in t.rest THEN Due(t, x, user'[x], member'[x])
             ELSE Matches(user'[x], member'[x])
  <2>1. x \in task[r].rest /\ user[x] = "inactive" /\ Nowhere(member[x])
    BY <1>1, <1>5 DEF Due, At, Concerns
  <2>2. user'[x] = "inactive" /\ Nowhere(member'[x])
    BY <1>1, <1>4, <2>1
  <2> QED
    BY <1>3, <2>1, <2>2 DEF Due, Founder
<1>6. \A x \in Users : t.user = x \/ x \in t.rest => Concerns(r, x)
  BY <1>1, <1>3 DEF Concerns
<1>7. \A x \in Users : ~Concerns(r, x) => user'[x] = user[x] /\ member'[x] = member[x]
  BY <1>1, <1>4 DEF Concerns
<1>8. t.user \notin t.rest /\ (t.pc = "idle" => t = Idle)
  BY <1>3
<1> HIDE DEF t
<1> QED
  BY <1>1, <1>2, <1>5, <1>6, <1>7, <1>8, LoginMoves

\* The purge ends; those it leaves are inactive.
LEMMA LoginEndPurge ==
  ASSUME Inv, Logins, NEW r \in Requests, task[r].pc \in {"purge", "purgeUser"}, Finish(r),
         UNCHANGED <<user, member, crossed>>
  PROVE  Logins'
<1>1. Become(r, Idle) /\ Idle.user = None /\ Idle.rest = {} /\ None \notin Users
  BY MembershipAssumption DEF Idle, Finish
<1>2. ASSUME NEW x \in Users \ crossed, Concerns(r, x), Due(task[r], x, user[x], member[x])
      PROVE  Matches(user'[x], member'[x])
  <2>1. user[x] = "inactive" /\ Nowhere(member[x])
    BY <1>2 DEF Due, Concerns
  <2> QED
    BY <2>1 DEF Matches
<1> QED
  BY <1>1, <1>2, LoginMoves

LEMMA LoginPurgeUser ==
  ASSUME Inv, Logins, NEW r \in Requests, PurgeUser(r)
  PROVE  Logins'
<1> DEFINE w == task[r].user
           t == [Idle EXCEPT !.pc = "purge", !.rest = task[r].rest]
<1>1. At(r, "purgeUser") /\ ~At(r, "idle") /\ ~At(r, "purge") /\ w \in Users /\ w \notin task[r].rest
  BY Subject DEF PurgeUser, At
<1>2. CASE user' = [user EXCEPT ![w] = "deleted"] /\ Become(r, t) /\ UNCHANGED <<member, crossed>>
  <2>1. t.pc = "purge" /\ t.user = None /\ t.rest = task[r].rest /\ None \notin Users
    BY MembershipAssumption DEF Idle
  <2>2. user'[w] = "deleted" /\ \A x \in Users \ {w} : user'[x] = user[x]
    BY <1>1, <1>2 DEF Inv, TypeOK
  <2>3. task[r].rest \subseteq Users
    BY Rows DEF TaskRow
  <2>4. ASSUME NEW x \in Users \ crossed, Concerns(r, x), Due(task[r], x, user[x], member[x])
        PROVE  IF t.user = x \/ x \in t.rest THEN Due(t, x, user'[x], member'[x])
               ELSE Matches(user'[x], member'[x])
    <3>1. CASE x = w
      BY <1>1, <2>1, <2>2, <3>1 DEF Matches
    <3>2. CASE x # w
      <4>1. x \in task[r].rest /\ user'[x] = "inactive" /\ Nowhere(member'[x])
        BY <1>2, <2>2, <2>4, <3>2 DEF Concerns, Due
      <4> QED
        BY <2>1, <4>1 DEF Due
    <3> QED
      BY <3>1, <3>2
  <2>5. \A x \in Users : t.user = x \/ x \in t.rest => Concerns(r, x)
    BY <2>1 DEF Concerns
  <2>6. \A x \in Users : ~Concerns(r, x) => user'[x] = user[x] /\ member'[x] = member[x]
    BY <1>2, <2>2 DEF Concerns
  <2>7. t.user \notin t.rest /\ (t.pc = "idle" => t = Idle)
    BY <2>1, <2>3
  <2> HIDE DEF t
  <2> QED
    BY <1>2, <2>4, <2>5, <2>6, <2>7, LoginMoves
<1>3. CASE Finish(r) /\ Decides
  BY <1>1, <1>3, LoginEndPurge DEF Decides, rows, At
<1> QED
  BY <1>2, <1>3 DEF PurgeUser

-----------------------------------------------------------------------------
\* A request about one user begins.
LEMMA LoginBegin ==
  ASSUME Inv, Logins, NEW r \in Requests, At(r, "idle"), NEW t \in TaskRow, Become(r, t),
         NEW u \in Users, Begins(r, {u}), t.pc # "idle", t.user = u, t.rest = {},
         Matches(user[u], member[u]) => Due(t, u, user[u], member[u])
  PROVE  Logins'
<1>1. /\ {u} \in SUBSET Users /\ t.user \notin t.rest
      /\ \A x \in Users : x \in {u} <=> t.user = x \/ x \in t.rest
      /\ \A x \in {u} : Matches(user[x], member[x]) => Due(t, x, user[x], member[x])
  OBVIOUS
<1> QED
  BY <1>1, LoginBegins

LEMMA LoginBeginUser ==
  ASSUME Inv, Logins, NEW r \in Requests, NEW u \in Users, NEW g \in Organizations,
         \/ BeginRegister(r, u, g) \/ BeginSetup(r, u, g) \/ BeginProvision(r, u, g)
         \/ BeginInvite(r, u, g) \/ BeginRemove(r, u, g)
  PROVE  Logins'
<1>1. CASE BeginRegister(r, u, g)
  <2> DEFINE t == [Idle EXCEPT !.pc = "register", !.user = u, !.org = g, !.new = TRUE]
  <2>1. t \in TaskRow /\ t.pc = "register" /\ t.user = u /\ t.rest = {}
    BY DEF Idle, TaskRow, Steps
  <2>2. Matches(user[u], member[u]) => Due(t, u, user[u], member[u])
    BY <2>1 DEF Due, Founder
  <2>3. At(r, "idle") /\ Become(r, t) /\ Begins(r, {u})
    BY <1>1 DEF BeginRegister, Arrives
  <2> HIDE DEF t
  <2> QED
    BY <2>1, <2>2, <2>3, LoginBegin
<1>2. CASE BeginSetup(r, u, g)
  <2> DEFINE t == [Idle EXCEPT !.pc = "found", !.user = u, !.org = g]
  <2>1. t \in TaskRow /\ t.pc = "found" /\ t.user = u /\ t.rest = {} /\ ~t.new
    BY DEF Idle, TaskRow, Steps
  <2>3. At(r, "idle") /\ Become(r, t) /\ Begins(r, {u}) /\ user[u] = "active"
    BY <1>2 DEF BeginSetup, Arrives
  <2>2. Matches(user[u], member[u]) => Due(t, u, user[u], member[u])
    BY <2>1, <2>3 DEF Due, Founder, Matches
  <2> HIDE DEF t
  <2> QED
    BY <2>1, <2>2, <2>3, LoginBegin
<1>3. CASE BeginProvision(r, u, g)
  <2> DEFINE pc == IF Exists(u) THEN "provision" ELSE "provisionNew"
             a == user[u] = "active"
             t == [Idle EXCEPT !.pc = pc, !.user = u, !.org = g, !.active = a]
  <2>1. pc \in Steps /\ pc \in {"provision", "provisionNew"} /\ a \in BOOLEAN
        /\ (pc = "provision" => user[u] \in {"active", "inactive"})
    BY DEF Steps, Exists
  <2>2. Become(r, t) /\ At(r, "idle") /\ Begins(r, {u})
    BY <1>3 DEF BeginProvision, Arrives
  <2> HIDE DEF pc
  <2>3. t \in TaskRow /\ t.pc = pc /\ t.user = u /\ t.rest = {} /\ t.active = a
    BY <2>1 DEF Idle, TaskRow
  <2>4. Matches(user[u], member[u]) => Due(t, u, user[u], member[u])
    BY <2>1, <2>3 DEF Due, Founder
  <2> HIDE DEF t
  <2> QED
    BY <2>1, <2>2, <2>3, <2>4, LoginBegin
<1>4. CASE BeginInvite(r, u, g)
  <2> DEFINE t == [Idle EXCEPT !.pc = "invite", !.user = u, !.org = g]
  <2>1. t \in TaskRow /\ t.pc = "invite" /\ t.user = u /\ t.rest = {}
    BY DEF Idle, TaskRow, Steps
  <2>2. Matches(user[u], member[u]) => Due(t, u, user[u], member[u])
    BY <2>1 DEF Due, Founder
  <2>3. At(r, "idle") /\ Become(r, t) /\ Begins(r, {u})
    BY <1>4 DEF BeginInvite, Arrives
  <2> HIDE DEF t
  <2> QED
    BY <2>1, <2>2, <2>3, LoginBegin
<1>5. CASE BeginRemove(r, u, g)
  <2> DEFINE t == [Idle EXCEPT !.pc = "suspend", !.user = u, !.org = g]
  <2>1. t \in TaskRow /\ t.pc = "suspend" /\ t.user = u /\ t.rest = {}
    BY DEF Idle, TaskRow, Steps
  <2>2. Matches(user[u], member[u]) => Due(t, u, user[u], member[u])
    BY <2>1 DEF Due, Founder
  <2>3. At(r, "idle") /\ Become(r, t) /\ Begins(r, {u})
    BY <1>5 DEF BeginRemove, Arrives
  <2> HIDE DEF t
  <2> QED
    BY <2>1, <2>2, <2>3, LoginBegin
<1> QED
  BY <1>1, <1>2, <1>3, <1>4, <1>5

LEMMA LoginBeginAccept ==
  ASSUME Inv, Logins, NEW r \in Requests, NEW i \in Invitations, BeginAccept(r, i)
  PROVE  Logins'
<1> DEFINE u == invitation[i].email
           g == invitation[i].org
           pc == IF Active(u, g) THEN "acceptMark" ELSE "accept"
           t == [Idle EXCEPT !.pc = pc, !.user = u, !.org = g, !.invitation = i]
<1>1. /\ u \in Users /\ g \in Organizations /\ user[u] = "active"
      /\ At(r, "idle") /\ Become(r, t) /\ Begins(r, {u})
  BY DEF BeginAccept, Arrives, Inv, TypeOK, Invites
<1>2. pc \in Steps /\ pc \in {"accept", "acceptMark"}
  BY DEF Steps
<1> HIDE DEF pc
<1>3. t \in TaskRow /\ t.pc = pc /\ t.user = u /\ t.rest = {}
  BY <1>1, <1>2 DEF Idle, TaskRow
<1>4. Matches(user[u], member[u]) => Due(t, u, user[u], member[u])
  BY <1>1, <1>2, <1>3 DEF Due, Founder
<1> HIDE DEF t, u
<1> QED
  BY <1>1, <1>2, <1>3, <1>4, LoginBegin

LEMMA LoginBeginPurge ==
  ASSUME Inv, Logins, NEW r \in Requests, NEW old \in SUBSET Users, BeginPurge(r, old)
  PROVE  Logins'
<1> DEFINE t == [Idle EXCEPT !.pc = "purge", !.rest = old]
<1>1. t \in TaskRow /\ t.pc = "purge" /\ t.user = None /\ t.rest = old /\ None \notin Users
  BY MembershipAssumption DEF Idle, TaskRow, Steps
<1>2. /\ At(r, "idle") /\ Become(r, t) /\ Begins(r, old)
      /\ \A u \in old : user[u] = "inactive"
  BY DEF BeginPurge, Arrives
<1> HIDE DEF t
<1>3. \A u \in old : Matches(user[u], member[u]) => Due(t, u, user[u], member[u])
  BY <1>1, <1>2 DEF Due, Matches
<1>4. t.user \notin t.rest /\ \A u \in Users : u \in old <=> t.user = u \/ u \in t.rest
  BY <1>1
<1>5. t.pc # "idle"
  BY <1>1
<1> QED
  BY <1>1, <1>2, <1>3, <1>4, <1>5, LoginBegins

\* Steps that touch neither an account, nor a membership, nor a request.
LEMMA LoginElse ==
  ASSUME Logins, UNCHANGED <<user, member, task, crossed>>
  PROVE  Logins'
BY DEF Logins, Sound, Concerns, At

LEMMA LoginsNext == Inv /\ Logins /\ [Next]_vars => Logins'
<1> SUFFICES ASSUME Inv, Logins, [Next]_vars PROVE Logins'
  OBVIOUS
<1>1. ASSUME NEW r \in Requests, Begin(r) PROVE Logins'
  BY <1>1, LoginBeginUser, LoginElse, LoginBeginAccept, LoginBeginPurge DEF Begin, CreateOrganization
<1>2. ASSUME NEW r \in Requests, Step(r) PROVE Logins'
  <2>1. CASE CreateUser(r) \/ FoundCheck(r) \/ FoundCommit(r) \/ Cleanup(r)
    BY <2>1, LoginRegister, LoginFoundCheck, LoginFoundCommit, LoginCleanup
  <2>2. CASE \/ ProvisionNew(r) \/ ProvisionRead(r) \/ Reactivate(r) \/ Activate(r)
             \/ InsertMember(r) \/ Raced(r) \/ RacedUser(r)
    BY <2>2, LoginProvisionNew, LoginProvisionRead, LoginReactivate, LoginActivate, LoginInsert,
       LoginRaced
  <2>3. CASE (\E i \in Invitations : Invite(r, i)) \/ AcceptInsert(r) \/ AcceptMark(r)
    BY <2>3, LoginInvite, LoginAccept
  <2>4. CASE Suspend(r) \/ Count(r) \/ Deactivate(r)
    BY <2>4, LoginSuspend, LoginCount, LoginDeactivate
  <2>5. CASE PurgeUser(r) \/ \E u \in Users : PurgeMembers(r, u)
    BY <2>5, LoginPurgeUser, LoginPurgeMembers
  <2>6. CASE EndPurge(r)
    BY <2>6, LoginEndPurge DEF EndPurge, Decides, rows, At
  <2> QED
    BY <1>2, <2>1, <2>2, <2>3, <2>4, <2>5, <2>6 DEF Step
<1>3. ASSUME NEW i \in Invitations, Expire(i) PROVE Logins'
  BY <1>3, LoginElse DEF Expire
<1>4. CASE UNCHANGED vars
  BY <1>4, LoginElse DEF vars
<1> QED
  BY <1>1, <1>2, <1>3, <1>4 DEF Next

\* When no request runs, an account whose requests never overlapped is active when it belongs to
\* an organisation, and only then: who was removed everywhere cannot log in, and who was
\* provisioned again can.
THEOREM LoginsMatch == Spec => []LoginMatchesMembership
<1>1. Inv /\ Logins => LoginMatchesMembership
  <2> SUFFICES ASSUME Inv, Logins, Quiet, NEW u \in Users \ crossed, Exists(u)
               PROVE  user[u] = "active" <=> ~BelongsNowhere(u)
    BY DEF LoginMatchesMembership
  <2>1. \A r \in Requests : ~Concerns(r, u)
    BY MembershipAssumption DEF Quiet, Logins, Concerns, Idle
  <2> QED
    BY <2>1 DEF Logins, Sound, Matches, Nowhere, Exists, BelongsNowhere, Active
<1>2. Spec => []Logins
  BY LoginsInit, LoginsNext, Invariance, PTL DEF Spec
<1> QED
  BY <1>1, <1>2, Invariance, PTL

=============================================================================
