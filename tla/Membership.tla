----------------------------- MODULE Membership -----------------------------
(***************************************************************************)
(* Accounts, organisations and who belongs to which: registration and the  *)
(* set-up of a business (auth.service.ts), invitations and the direct      *)
(* provisioning of staff (invitations.service.ts), creation of             *)
(* organisations, removal of staff and purge of old accounts               *)
(* (tenants.service.ts).                                                   *)
(* Every handler reads, decides and writes in statements of their own;     *)
(* what holds it together are the unique keys (email, slug, user and       *)
(* organisation) and the foreign keys.  A user is its email: one whose     *)
(* account was deleted does not come back (bound).  Roles, and what each   *)
(* may do, are left out: a request is made by somebody who may.            *)
(***************************************************************************)
EXTENDS FiniteSets

CONSTANTS
  Users, Organizations, Invitations, Requests,
  Operations,   \* the kinds of request that arrive
  None

ASSUME MembershipAssumption == None \notin Users \cup Organizations \cup Invitations

VARIABLES
  user,        \* users: none yet, active (isActive), inactive, or deleted for good
  org,         \* the organizations that exist
  member,      \* members: the status of each user in each organisation
  invitation,  \* invitations, by id
  task,        \* the request each server task is running
  crossed,     \* ghost: users two of whose requests ran at once
  purged       \* ghost: users that a purge took the memberships of, and could not delete

vars == <<user, org, member, invitation, task, crossed, purged>>
rows == <<user, org, member, invitation>>

\* expired: PENDING, and expiresAt is past.  No handler reads a row that is past or accepted:
\* its other columns are left out.
InvitationRow == [status : {"none", "PENDING", "expired", "ACCEPTED"},
                  email : Users \cup {None}, org : Organizations \cup {None}]

BlankInvitation(status) == [status |-> status, email |-> None, org |-> None]

\* active: the isActive that was read; new: the account was created by this request;
\* rest: what a purge has still to do.
Idle == [pc |-> "idle", user |-> None, org |-> None, invitation |-> None, active |-> FALSE,
         new |-> FALSE, rest |-> {}]

Init ==
  /\ user = [u \in Users |-> "none"]
  /\ org = {}
  /\ member = [u \in Users |-> [g \in Organizations |-> "none"]]
  /\ invitation = [i \in Invitations |-> BlankInvitation("none")]
  /\ task = [r \in Requests |-> Idle]
  /\ crossed = {}
  /\ purged = {}

Exists(u) == user[u] \in {"active", "inactive"}
Active(u, g) == member[u][g] = "ACTIVE"

\* A membership, in any status, refers to the account: it cannot be deleted.
IsMember(u) == \E g \in Organizations : member[u][g] # "none"

At(r, step) == task[r].pc = step
Arrives(r, operation) == At(r, "idle") /\ operation \in Operations
Become(r, t) == task' = [task EXCEPT ![r] = t]
Goto(r, step) == Become(r, [task[r] EXCEPT !.pc = step])
Finish(r) == Become(r, Idle)

Concerns(r, u) == task[r].user = u \/ u \in task[r].rest

\* A request about some users begins.
Begins(r, about) ==
  /\ crossed' = crossed \cup {u \in about : \E q \in Requests \ {r} : Concerns(q, u)}
  /\ UNCHANGED <<rows, purged>>

\* A step of a request that writes nothing.
Decides == UNCHANGED <<rows, crossed, purged>>

SetMember(u, g, status) ==
  /\ member' = [member EXCEPT ![u][g] = status]
  /\ UNCHANGED <<org, invitation, crossed, purged>>

SetUser(u, status) ==
  /\ user' = [user EXCEPT ![u] = status]
  /\ UNCHANGED <<org, member, invitation, crossed, purged>>

-----------------------------------------------------------------------------
(* register, setupOrganization *)

BeginRegister(r, u, g) ==
  /\ Arrives(r, "register")
  /\ user[u] = "none"
  /\ Become(r, [Idle EXCEPT !.pc = "register", !.user = u, !.org = g, !.new = TRUE])
  /\ Begins(r, {u})

\* The email is unique.
CreateUser(r) ==
  LET u == task[r].user IN
  /\ At(r, "register")
  /\ \/ user[u] = "none" /\ SetUser(u, "active") /\ Goto(r, "found")
     \/ user[u] # "none" /\ Finish(r) /\ Decides

BeginSetup(r, u, g) ==
  /\ Arrives(r, "setup")
  /\ user[u] = "active"
  /\ Become(r, [Idle EXCEPT !.pc = "found", !.user = u, !.org = g])
  /\ Begins(r, {u})

\* Mutant of AfterFailure: the account stays.
LeavesAccount(r) == Finish(r)

\* register takes the account back when the organisation cannot be created.
AfterFailure(r) == IF task[r].new THEN Goto(r, "cleanup") ELSE Finish(r)

\* The slug is free (its key says it again) and the user belongs nowhere yet.
FoundCheck(r) ==
  LET free == task[r].org \notin org /\ \A g \in Organizations : ~Active(task[r].user, g) IN
  /\ At(r, "found")
  /\ IF free THEN Goto(r, "foundCommit") ELSE AfterFailure(r)
  /\ Decides

\* The organisation and its administrator, in a transaction that may fail.
FoundCommit(r) ==
  LET u == task[r].user
      g == task[r].org IN
  /\ At(r, "foundCommit")
  /\ \/ /\ g \notin org /\ Exists(u)
        /\ org' = org \cup {g}
        /\ member' = [member EXCEPT ![u][g] = "ACTIVE"]
        /\ Finish(r)
        /\ UNCHANGED <<user, invitation, crossed, purged>>
     \/ AfterFailure(r) /\ Decides

Cleanup(r) ==
  LET u == task[r].user IN
  /\ At(r, "cleanup")
  /\ \/ ~IsMember(u) /\ SetUser(u, "deleted")
     \/ IsMember(u) /\ Decides
  /\ Finish(r)

\* The super administrator creates an organisation, and becomes its member: it is none of
\* Users.
CreateOrganization(r, g) ==
  /\ Arrives(r, "organization")
  /\ g \notin org
  /\ org' = org \cup {g}
  /\ UNCHANGED <<user, member, invitation, task, crossed, purged>>

-----------------------------------------------------------------------------
(* provisionMember *)

BeginProvision(r, u, g) ==
  /\ Arrives(r, "provision")
  /\ g \in org /\ user[u] # "deleted"
  /\ Become(r, [Idle EXCEPT !.pc = IF Exists(u) THEN "provision" ELSE "provisionNew",
                            !.user = u, !.org = g, !.active = user[u] = "active"])
  /\ Begins(r, {u})

\* A new account with its membership, in one transaction; the email is unique.
ProvisionNew(r) ==
  LET u == task[r].user IN
  /\ At(r, "provisionNew")
  /\ \/ /\ user[u] = "none"
        /\ user' = [user EXCEPT ![u] = "active"]
        /\ member' = [member EXCEPT ![u][task[r].org] = "ACTIVE"]
        /\ UNCHANGED <<org, invitation, crossed, purged>>
     \/ user[u] # "none" /\ Decides
  /\ Finish(r)

ProvisionRead(r) ==
  LET status == member[task[r].user][task[r].org] IN
  /\ At(r, "provision")
  /\ \/ status = "ACTIVE" /\ Finish(r)
     \/ status = "SUSPENDED" /\ Goto(r, "reactivate")
     \/ status = "none" /\ Goto(r, IF task[r].active THEN "insert" ELSE "activate")
  /\ Decides

\* Membership and account together; a row that is gone is an error.
Reactivate(r) ==
  LET u == task[r].user
      g == task[r].org IN
  /\ At(r, "reactivate")
  /\ \/ /\ member[u][g] # "none"
        /\ member' = [member EXCEPT ![u][g] = "ACTIVE"]
        /\ user' = [user EXCEPT ![u] = "active"]
        /\ UNCHANGED <<org, invitation, crossed, purged>>
     \/ member[u][g] = "none" /\ Decides
  /\ Finish(r)

Activate(r) ==
  LET u == task[r].user IN
  /\ At(r, "activate")
  /\ \/ Exists(u) /\ SetUser(u, "active") /\ Goto(r, "insert")
     \/ ~Exists(u) /\ Finish(r) /\ Decides

\* A membership that appeared meanwhile violates the key, which is caught.
InsertMember(r) ==
  LET u == task[r].user
      g == task[r].org IN
  /\ At(r, "insert")
  /\ \/ /\ Exists(u) /\ member[u][g] = "none"
        /\ SetMember(u, g, "ACTIVE") /\ UNCHANGED user /\ Finish(r)
     \/ member[u][g] # "none" /\ Goto(r, "raced") /\ Decides
     \/ ~Exists(u) /\ Finish(r) /\ Decides

\* The catch writes the membership, then the account.
Raced(r) ==
  LET u == task[r].user
      g == task[r].org IN
  /\ At(r, "raced")
  /\ \/ /\ member[u][g] # "none"
        /\ SetMember(u, g, "ACTIVE") /\ UNCHANGED user /\ Goto(r, "racedUser")
     \/ member[u][g] = "none" /\ Finish(r) /\ Decides

RacedUser(r) ==
  LET u == task[r].user IN
  /\ At(r, "racedUser")
  /\ \/ Exists(u) /\ SetUser(u, "active")
     \/ ~Exists(u) /\ Decides
  /\ Finish(r)

-----------------------------------------------------------------------------
(* inviteMember, acceptInvitation *)

Invited(u, g) ==
  \E i \in Invitations : /\ invitation[i].email = u /\ invitation[i].org = g
                         /\ invitation[i].status = "PENDING"

BeginInvite(r, u, g) ==
  /\ Arrives(r, "invite")
  /\ g \in org /\ user[u] # "deleted"
  /\ ~Active(u, g) /\ ~Invited(u, g)
  /\ Become(r, [Idle EXCEPT !.pc = "invite", !.user = u, !.org = g])
  /\ Begins(r, {u})

Invite(r, i) ==
  /\ At(r, "invite")
  /\ invitation[i].status = "none"
  /\ invitation' = [invitation EXCEPT ![i] =
       [status |-> "PENDING", email |-> task[r].user, org |-> task[r].org]]
  /\ Finish(r)
  /\ UNCHANGED <<user, org, member, crossed, purged>>

\* Seven days pass.
Expire(i) ==
  /\ invitation[i].status = "PENDING"
  /\ invitation' = [invitation EXCEPT ![i] = BlankInvitation("expired")]
  /\ UNCHANGED <<user, org, member, task, crossed, purged>>

\* The invited user, logged in, reads the invitation, itself and its membership.
BeginAccept(r, i) ==
  LET u == invitation[i].email IN
  /\ Arrives(r, "accept")
  /\ invitation[i].status = "PENDING"
  /\ user[u] = "active"
  /\ Become(r, [Idle EXCEPT !.pc = IF Active(u, invitation[i].org) THEN "acceptMark" ELSE "accept",
                            !.user = u, !.org = invitation[i].org, !.invitation = i])
  /\ Begins(r, {u})

\* Mutant of AcceptInsert: the membership is created or updated.
AcceptUpsert(r) ==
  LET u == task[r].user
      g == task[r].org IN
  /\ At(r, "accept")
  /\ \/ Exists(u) /\ SetMember(u, g, "ACTIVE") /\ UNCHANGED user /\ Goto(r, "acceptMark")
     \/ ~Exists(u) /\ Finish(r) /\ Decides

\* A suspended membership violates the key: the invitation stays as it is.
AcceptInsert(r) ==
  LET u == task[r].user
      g == task[r].org IN
  /\ At(r, "accept")
  /\ \/ /\ Exists(u) /\ member[u][g] = "none"
        /\ SetMember(u, g, "ACTIVE") /\ UNCHANGED user /\ Goto(r, "acceptMark")
     \/ (~Exists(u) \/ member[u][g] # "none") /\ Finish(r) /\ Decides

AcceptMark(r) ==
  /\ At(r, "acceptMark")
  /\ invitation' = [invitation EXCEPT ![task[r].invitation] = BlankInvitation("ACCEPTED")]
  /\ Finish(r)
  /\ UNCHANGED <<user, org, member, crossed, purged>>

-----------------------------------------------------------------------------
(* removeMemberByMemberId, removeUserFromOrganization *)

BeginRemove(r, u, g) ==
  /\ Arrives(r, "remove")
  /\ member[u][g] # "none"
  /\ Become(r, [Idle EXCEPT !.pc = "suspend", !.user = u, !.org = g])
  /\ Begins(r, {u})

Suspend(r) ==
  LET u == task[r].user
      g == task[r].org IN
  /\ At(r, "suspend")
  /\ \/ member[u][g] # "none" /\ SetMember(u, g, "SUSPENDED") /\ UNCHANGED user /\ Goto(r, "count")
     \/ member[u][g] = "none" /\ Finish(r) /\ Decides

\* Mutant of BelongsNowhere: the other organisations are not counted.
IsSuspended(u) == \E g \in Organizations : member[u][g] = "SUSPENDED"

BelongsNowhere(u) == \A g \in Organizations : ~Active(u, g)

\* The other memberships are counted.  The code counts those of company_members too: no
\* handler inserts any, so there are none here.
Count(r) ==
  /\ At(r, "count")
  /\ IF BelongsNowhere(task[r].user) THEN Goto(r, "deactivate") ELSE Finish(r)
  /\ Decides

Deactivate(r) ==
  LET u == task[r].user IN
  /\ At(r, "deactivate")
  /\ \/ Exists(u) /\ SetUser(u, "inactive")
     \/ ~Exists(u) /\ Decides
  /\ Finish(r)

-----------------------------------------------------------------------------
(* purgeInactiveUsers *)

\* The accounts that were inactive for six months: any of those that are inactive.
BeginPurge(r, old) ==
  /\ Arrives(r, "purge")
  /\ old # {} /\ \A u \in old : user[u] = "inactive"
  /\ Become(r, [Idle EXCEPT !.pc = "purge", !.rest = old])
  /\ Begins(r, old)

\* One that sold nothing and has no task loses its memberships, whatever it has become.
PurgeMembers(r, u) ==
  /\ At(r, "purge")
  /\ u \in task[r].rest
  /\ member' = [member EXCEPT ![u] = [g \in Organizations |-> "none"]]
  /\ purged' = purged \cup {u}
  /\ Become(r, [task[r] EXCEPT !.pc = "purgeUser", !.user = u, !.rest = @ \ {u}])
  /\ UNCHANGED <<user, org, invitation, crossed>>

\* Then it is deleted; a new membership, or another row that refers to it (a shift it opened,
\* an invitation it sent), ends the purge.
PurgeUser(r) ==
  LET u == task[r].user IN
  /\ At(r, "purgeUser")
  /\ \/ /\ Exists(u) /\ ~IsMember(u)
        /\ user' = [user EXCEPT ![u] = "deleted"]
        /\ purged' = purged \ {u}
        /\ Become(r, [Idle EXCEPT !.pc = "purge", !.rest = task[r].rest])
        /\ UNCHANGED <<org, member, invitation, crossed>>
     \/ Finish(r) /\ Decides

\* The rest of the accounts have sales or tasks.
EndPurge(r) ==
  /\ At(r, "purge")
  /\ Finish(r)
  /\ Decides

-----------------------------------------------------------------------------
Begin(r) ==
  \/ \E u \in Users, g \in Organizations :
       \/ BeginRegister(r, u, g) \/ BeginSetup(r, u, g) \/ BeginProvision(r, u, g)
       \/ BeginInvite(r, u, g) \/ BeginRemove(r, u, g)
  \/ \E g \in Organizations : CreateOrganization(r, g)
  \/ \E i \in Invitations : BeginAccept(r, i)
  \/ \E old \in SUBSET Users : BeginPurge(r, old)

Step(r) ==
  \/ CreateUser(r) \/ FoundCheck(r) \/ FoundCommit(r) \/ Cleanup(r)
  \/ ProvisionNew(r) \/ ProvisionRead(r) \/ Reactivate(r) \/ Activate(r) \/ InsertMember(r)
  \/ Raced(r) \/ RacedUser(r)
  \/ \E i \in Invitations : Invite(r, i)
  \/ AcceptInsert(r) \/ AcceptMark(r)
  \/ Suspend(r) \/ Count(r) \/ Deactivate(r)
  \/ \E u \in Users : PurgeMembers(r, u)
  \/ PurgeUser(r) \/ EndPurge(r)

Next ==
  \/ \E r \in Requests : Begin(r) \/ Step(r)
  \/ \E i \in Invitations : Expire(i)

Spec == Init /\ [][Next]_vars

-----------------------------------------------------------------------------
TypeOK ==
  /\ user \in [Users -> {"none", "active", "inactive", "deleted"}]
  /\ org \subseteq Organizations
  /\ member \in [Users -> [Organizations -> {"none", "ACTIVE", "SUSPENDED"}]]
  /\ invitation \in [Invitations -> InvitationRow]
  /\ crossed \subseteq Users /\ purged \subseteq Users
  /\ \A u \in Users, g \in Organizations : member[u][g] # "none" => Exists(u) /\ g \in org

Quiet == \A r \in Requests : At(r, "idle")

\* No registration leaves an account without any membership, whatever organisation,
\* membership or account other requests create meanwhile: register deletes the account again,
\* or the foreign key that refuses it says that somebody else has taken it in.  Only a purge
\* that the database refuses halfway leaves such an account.
NoOrphan ==
  Quiet => \A u \in Users : Exists(u) => u \in purged \/ IsMember(u)

\* Whoever belongs to an organisation can log in, and nobody else can: removal from the last
\* organisation deactivates the account, provisioning activates it again; only requests about
\* one user that overlap can take the two apart.
LoginMatchesMembership ==
  Quiet => \A u \in Users \ crossed :
    Exists(u) => (user[u] = "active" <=> ~BelongsNowhere(u))

\* An invitation never brings a suspended member back, however old it is and whoever else
\* invites the same person: only provisioning does, by an administrator.
RevivedByProvision ==
  [][\A u \in Users, g \in Organizations : member[u][g] = "SUSPENDED" /\ member'[u][g] = "ACTIVE" =>
       \E r \in Requests : task[r].pc \in {"reactivate", "raced"} /\ task[r].user = u /\ task[r].org = g]_vars

=============================================================================
