----------------------------- MODULE Workspace -----------------------------
(***************************************************************************)
(* The members of a workspace and the invitations to it, internal/         *)
(* workspace.  A handler reads the role of its caller outside any          *)
(* transaction (workspaceActor) and carries it into the store, whose       *)
(* transactions begin by locking the workspace row; between the two the    *)
(* caller may have been demoted or removed.                                *)
(***************************************************************************)
EXTENDS Naturals, FiniteSets

CONSTANTS
    Person,         \* accounts; an account has one address, and invitations name the address
    Founder,        \* who created the workspace
    MaxInvites      \* bound: rows of workspace_invitations

ASSUME WorkspaceAssumption == Founder \in Person /\ MaxInvites \in Nat

VARIABLES
    role,           \* workspace_memberships: "none" is no row
    invites,        \* workspace_invitations, in the order they were sent
    actor           \* the role the request of a person in flight has read; "none" without one

workspaceVars == <<role, invites, actor>>

InviteId == 1 .. MaxInvites
Roles == {"owner", "admin", "member", "viewer"}
InvitedRoles == Roles \ {"owner"}                        \* validInvitationRole
Managers == {"owner", "admin"}                           \* the roles requireRole lets through
NoInvite == [to |-> Founder, role |-> "viewer", status |-> "none", lapsed |-> FALSE]

Open(i) == invites[i].status = "pending" /\ ~invites[i].lapsed

-----------------------------------------------------------------------------
(* Requests of members *)

\* workspaceActor and requireRole: the role is read once, before the body is.
ReadActor(p) ==
    /\ actor[p] = "none"
    /\ role[p] \in Managers
    /\ actor' = [actor EXCEPT ![p] = role[p]]
    /\ UNCHANGED <<role, invites>>

\* Every refusal, every failure and every lost connection ends the request here.
RequestEnds(p) ==
    /\ actor[p] # "none"
    /\ actor' = [actor EXCEPT ![p] = "none"]
    /\ UNCHANGED <<role, invites>>

\* Bug: an admin is not kept off owners.
BugAdminsTouchOwners(p, m) == role[m] # "none"

\* What the role a request has read allows it to do to member m.
MayTouch(p, m) == role[m] # "none" /\ ~(actor[p] = "admin" /\ role[m] = "owner")

\* ownerCount, under the workspace lock: someone else is an owner too.
AnotherOwner(m) == Cardinality({o \in Person : role[o] = "owner"}) > 1

UpdateMemberRole(p, m, to) ==
    /\ actor[p] # "none"
    /\ to = "owner" => actor[p] = "owner"
    /\ MayTouch(p, m)
    /\ role[m] = "owner" /\ to # "owner" => AnotherOwner(m)
    /\ role' = [role EXCEPT ![m] = to]
    /\ actor' = [actor EXCEPT ![p] = "none"]
    /\ UNCHANGED invites

RemoveMember(p, m) ==
    /\ actor[p] # "none"
    /\ MayTouch(p, m)
    /\ role[m] = "owner" => AnotherOwner(m)
    /\ role' = [role EXCEPT ![m] = "none"]
    /\ actor' = [actor EXCEPT ![p] = "none"]
    /\ UNCHANGED invites

-----------------------------------------------------------------------------
(* Invitations *)

\* CreateInvitationForEmail: the workspace lock makes the search and the insert one step.
CreateInvitation(p, to, as) ==
    /\ actor[p] # "none"
    /\ ~\E i \in InviteId : Open(i) /\ invites[i].to = to
    /\ \E i \in InviteId :
           /\ invites[i].status = "none"
           /\ \A j \in InviteId : j < i => invites[j].status # "none"
           /\ invites' = [invites EXCEPT
                  ![i] = [to |-> to, role |-> as, status |-> "pending", lapsed |-> FALSE]]
    /\ actor' = [actor EXCEPT ![p] = "none"]
    /\ UNCHANGED role

\* The time of an invitation runs out; its row says nothing of it yet.
InvitationLapses(i) ==
    /\ Open(i)
    /\ invites' = [invites EXCEPT ![i].lapsed = TRUE]
    /\ UNCHANGED <<role, actor>>

\* A lapsed invitation is marked by the first request that meets it.
MarkExpired(i) ==
    /\ invites[i].status = "pending" /\ invites[i].lapsed
    /\ invites' = [invites EXCEPT ![i].status = "expired"]

RevokeInvitation(p, i) ==
    /\ actor[p] # "none"
    /\ \/ MarkExpired(i)
       \/ Open(i) /\ invites' = [invites EXCEPT ![i].status = "revoked"]
    /\ actor' = [actor EXCEPT ![p] = "none"]
    /\ UNCHANGED role

RejectInvitation(p, i) ==
    /\ \/ MarkExpired(i)
       \/ /\ Open(i) /\ invites[i].to = p
          /\ invites' = [invites EXCEPT ![i].status = "rejected"]
    /\ UNCHANGED <<role, actor>>

\* consumeInvitation holds the invitation's row and then the workspace's.  A member who accepts
\* meets the unique key of workspace_memberships: nothing changes.
AcceptInvitation(p, i) ==
    \/ MarkExpired(i) /\ UNCHANGED <<role, actor>>
    \/ /\ Open(i) /\ invites[i].to = p
       /\ role[p] = "none"
       /\ role' = [role EXCEPT ![p] = invites[i].role]
       /\ invites' = [invites EXCEPT ![i].status = "accepted"]
       /\ UNCHANGED actor

-----------------------------------------------------------------------------
\* CreateWorkspace commits the workspace and the membership of its owner together.
WorkspaceInit ==
    /\ role = [p \in Person |-> IF p = Founder THEN "owner" ELSE "none"]
    /\ invites = [i \in InviteId |-> NoInvite]
    /\ actor = [p \in Person |-> "none"]

WorkspaceNext ==
    \/ \E p \in Person : ReadActor(p) \/ RequestEnds(p)
    \/ \E p, m \in Person : RemoveMember(p, m) \/ \E to \in Roles : UpdateMemberRole(p, m, to)
    \/ \E p, to \in Person, as \in InvitedRoles : CreateInvitation(p, to, as)
    \/ \E i \in InviteId : InvitationLapses(i)
    \/ \E p \in Person, i \in InviteId :
           RevokeInvitation(p, i) \/ RejectInvitation(p, i) \/ AcceptInvitation(p, i)

WorkspaceSpec == WorkspaceInit /\ [][WorkspaceNext]_workspaceVars

-----------------------------------------------------------------------------
(* Properties *)

\* The states of the rows and of the requests in flight.
WorkspaceTypeOK ==
    /\ role \in [Person -> Roles \cup {"none"}]
    /\ invites \in [InviteId -> [to : Person, role : InvitedRoles, lapsed : BOOLEAN,
                                 status : {"none", "pending", "accepted", "rejected", "revoked", "expired"}]]
    /\ actor \in [Person -> Managers \cup {"none"}]

\* No sequence of role changes, removals and late requests leaves the workspace without an owner.
LastOwnerStays == \E p \in Person : role[p] = "owner"

\* An address never holds two invitations it could accept, so revoking the one on the list of
\* pending invitations takes the whole offer back.
OneOpenInvitation ==
    \A i, j \in InviteId : Open(i) /\ Open(j) /\ invites[i].to = invites[j].to => i = j

\* A membership begins with an invitation to that very person, with the role it offered, used up
\* in the same step: a removed member returns only when invited anew.
MembershipByInvitation == [][
    \A p \in Person : role[p] = "none" /\ role'[p] # "none" =>
        \E i \in InviteId : /\ Open(i) /\ invites[i].to = p /\ invites[i].role = role'[p]
                            /\ invites'[i].status = "accepted"]_workspaceVars

\* Ownership is given and taken away only by a request whose caller was read as an owner, whatever
\* was changed between that reading and the write.
OwnersDecideOwnership == [][
    \A p \in Person : (role[p] = "owner") # (role'[p] = "owner") =>
        \E a \in Person : actor[a] = "owner" /\ actor'[a] = "none"]_workspaceVars

\* Membership as a whole: an owner always stays, owners alone decide ownership, and a
\* member comes by the one invitation that is open.
WorkspaceSafety ==
    /\ [](WorkspaceTypeOK /\ LastOwnerStays /\ OneOpenInvitation)
    /\ MembershipByInvitation /\ OwnersDecideOwnership
=============================================================================
