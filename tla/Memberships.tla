---------------------------- MODULE Memberships ----------------------------
(***************************************************************************)
(* The people of one organisation and their roles: registration and        *)
(* approval (OrganizationsService), invitations, changes of role and       *)
(* status, removal, and the appointment of the NGO administrator           *)
(* (UsersService).                                                         *)
(*                                                                         *)
(* The system administrators' handlers read the organisation and the user  *)
(* in transactions of their own and write in another.  Sessions, passwords *)
(* and lockouts are AccountSessions.                                       *)
(***************************************************************************)
EXTENDS FiniteSets

CONSTANTS
    People,      \* accounts the organisation may have
    Admins       \* requests of system administrators in flight

VARIABLES
    org,         \* the organisation: [exists, active, approved]
    member,      \* each account: [role, status], or Absent
    task         \* what each request has read, or Free

memberVars == <<org, member, task>>

Absent == [role |-> "absent", status |-> "absent"]
Free   == [at |-> "free"]
Roles  == {"admin", "officer", "cross"}   \* NGO administrator, any other, cross-entity

MemberTypeOK ==
    /\ org \in [exists : BOOLEAN, active : BOOLEAN, approved : BOOLEAN]
    /\ \A p \in People : member[p] \in {Absent} \cup
           [role : Roles, status : {"invited", "active", "disabled"}]
    /\ \A a \in Admins : task[a].at \in {"free", "approve", "assign", "role", "status"}

MemberInit ==
    /\ org = [exists |-> FALSE, active |-> FALSE, approved |-> FALSE]
    /\ member = [p \in People |-> Absent]
    /\ task = [a \in Admins |-> Free]

Here(p)  == member[p] # Absent
NgoAdmin == {p \in People : member[p].role = "admin"}
Put(p, role, status) == member' = [member EXCEPT ![p] = [role |-> role, status |-> status]]

-----------------------------------------------------------------------------
(***************************************************************************)
(* The organisation                                                        *)
(***************************************************************************)
\* AuthService.signup: inactive until approved, its administrator active.
Signup(p) ==
    /\ ~org.exists
    /\ org' = [exists |-> TRUE, active |-> FALSE, approved |-> FALSE]
    /\ Put(p, "admin", "active")
    /\ UNCHANGED task

\* By a system administrator: approved at once, the first account optional.
CreateWithAdmin(p) ==
    /\ ~org.exists
    /\ org' = [exists |-> TRUE, active |-> TRUE, approved |-> TRUE]
    /\ Put(p, "admin", "invited") \/ UNCHANGED member
    /\ UNCHANGED task

UpdateOrgStatus ==
    /\ org.exists
    /\ org' = [org EXCEPT !.active = ~@]
    /\ UNCHANGED <<member, task>>

\* approve needs an account to send the password to.
BeginApprove(a) ==
    /\ org.exists /\ ~org.approved /\ task[a] = Free
    /\ \E p \in NgoAdmin : task' = [task EXCEPT ![a] = [at |-> "approve", whom |-> p]]
    /\ UNCHANGED <<org, member>>

\* The update of an account that is gone undoes the approval.
Approve(a) ==
    /\ task[a].at = "approve"
    /\ org' = IF Here(task[a].whom) THEN [org EXCEPT !.active = TRUE, !.approved = TRUE] ELSE org
    /\ task' = [task EXCEPT ![a] = Free]
    /\ UNCHANGED member

-----------------------------------------------------------------------------
(***************************************************************************)
(* The organisation's own administration.  A caller is one of its          *)
(* administrators or, in the platform's own organisation, a cross-entity   *)
(* user; only the latter may give a cross-entity role.                     *)
(***************************************************************************)
Callers == {p \in People : member[p].role \in {"admin", "cross"} /\ member[p].status # "disabled"}

MayGrant(caller, role) == role = "cross" => member[caller].role = "cross"

Invite(caller, p, role) ==
    /\ caller \in Callers /\ ~Here(p) /\ MayGrant(caller, role)
    /\ Put(p, role, "invited")
    /\ UNCHANGED <<org, task>>

\* Whose account it is does not matter, only the role that is given.
Update(caller, p, role, status) ==
    /\ caller \in Callers /\ Here(p)
    /\ role = member[p].role \/ MayGrant(caller, role)
    /\ Put(p, role, status)
    /\ UNCHANGED <<org, task>>

Remove(caller, p) ==
    /\ caller \in Callers /\ Here(p) /\ p # caller
    /\ MayGrant(caller, member[p].role)
    /\ member' = [member EXCEPT ![p] = Absent]
    /\ UNCHANGED <<org, task>>

\* The first login of an invited user ends the invitation.
Join(p) ==
    /\ member[p].status = "invited"
    /\ Put(p, member[p].role, "active")
    /\ UNCHANGED <<org, task>>

-----------------------------------------------------------------------------
(***************************************************************************)
(* The system administrators                                               *)
(***************************************************************************)
\* createUserForOrg does not look at the organisation's state.
CreateForOrg(p, role) ==
    /\ org.exists /\ ~Here(p)
    /\ Put(p, role, "invited")
    /\ UNCHANGED <<org, task>>

\* assignNgoAdmin: an account of the organisation, or a new one.
BeginAssign(a, p) ==
    /\ task[a] = Free /\ org.exists /\ org.active
    /\ IF Here(p) THEN UNCHANGED member ELSE Put(p, "admin", "invited")
    /\ task' = [task EXCEPT ![a] =
                 [at |-> "assign", whom |-> p, role |-> IF Here(p) THEN member[p].role ELSE "admin"]]
    /\ UNCHANGED org

\* One transaction: the administrators there are by now become officers, the
\* account is promoted unless it was one when it was read.
AssignAs(a, demoted) ==
    /\ task[a].at = "assign"
    /\ LET p == task[a].whom
           promotes == task[a].role # "admin"
       IN  member' =
             IF promotes /\ ~Here(p) THEN member
             ELSE [q \in People |->
                     IF q = p /\ promotes THEN [member[q] EXCEPT !.role = "admin"]
                     ELSE IF q \in demoted \ {p} THEN [member[q] EXCEPT !.role = "officer"]
                     ELSE member[q]]
    /\ task' = [task EXCEPT ![a] = Free]
    /\ UNCHANGED org

AssignAnother(a) == AssignAs(a, {})         \* faulty: nobody is demoted
Assign(a)        == AssignAs(a, NgoAdmin)

\* updateUserRole (any but the NGO administrator's) and updateUserStatus.
BeginChange(a, p, what, value) ==
    /\ task[a] = Free /\ org.exists /\ Here(p)
    /\ what = "role" => value \in {"officer", "cross"}
    /\ what = "status" => value \in {"active", "disabled"} /\ value # member[p].status
    /\ (what = "status" /\ value = "active") => org.active
    /\ task' = [task EXCEPT ![a] = [at |-> what, whom |-> p, value |-> value]]
    /\ UNCHANGED <<org, member>>

Change(a) ==
    /\ task[a].at \in {"role", "status"}
    /\ LET p == task[a].whom IN
         member' = IF ~Here(p) THEN member
                   ELSE [member EXCEPT ![p][task[a].at] = task[a].value]
    /\ task' = [task EXCEPT ![a] = Free]
    /\ UNCHANGED org

-----------------------------------------------------------------------------
MemberNext ==
    \/ \E p \in People : Signup(p) \/ CreateWithAdmin(p) \/ Join(p)
    \/ UpdateOrgStatus
    \/ \E a \in Admins : BeginApprove(a) \/ Approve(a) \/ Assign(a) \/ Change(a)
    \/ \E c, p \in People :
          \/ \E r \in Roles : Invite(c, p, r)
          \/ \E r \in Roles, s \in {"invited", "active", "disabled"} : Update(c, p, r, s)
          \/ Remove(c, p)
    \/ \E p \in People, r \in Roles : CreateForOrg(p, r)
    \/ \E a \in Admins, p \in People :
          \/ BeginAssign(a, p)
          \/ \E v \in {"officer", "cross"} : BeginChange(a, p, "role", v)
          \/ \E v \in {"active", "disabled"} : BeginChange(a, p, "status", v)

\* An appointment that ends without another change under way leaves the
\* organisation with one NGO administrator, the appointed one.  Two at once may
\* leave it with none: the one whose account was read as the administrator's
\* demotes the other and promotes nobody.  (assignNgoAdmin)
Appoints(a) == task[a].at = "assign" /\ task'[a] = Free
OneAppointed(a) == \E p \in People : p = task[a].whom /\ {q \in People : member'[q].role = "admin"} = {p}

=============================================================================
