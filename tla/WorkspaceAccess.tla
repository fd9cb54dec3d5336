--------------------------- MODULE WorkspaceAccess ---------------------------
(***************************************************************************)
(* The members of a workspace: invitations, how they are accepted, the     *)
(* roles the owner sets and the members it removes.                        *)
(* Each SQL statement or batch is a step.  An invitation is addressed to   *)
(* the e-mail of one user and its token is known to that user only.  Only  *)
(* the owner changes invitations and roles, and an owner stays one, so a   *)
(* request that was authenticated before is authenticated still.           *)
(***************************************************************************)
EXTENDS Integers, FiniteSets

CONSTANTS
  Guest,        \* the users that do not own the workspace
  Invite,       \* the invitations
  Seats,        \* members other than the owner
  OpenInvites,  \* invitations that can be accepted at a time
  Life,         \* of an invitation, in ticks
  MaxTime,      \* bound of the clock
  None          \* no invitation, no role, nobody

Role == {"viewer", "editor"}

\* A row of workspace_invites; "by" is who accepted it.
Invitation ==
  [email : Guest, role : Role, expires : Nat, revoked : BOOLEAN,
   by : Guest \union {None}]

AccessScale ==
  /\ {Seats, OpenInvites, Life, MaxTime} \subseteq Nat
  /\ None \notin Guest \union Role \union Invitation

VARIABLES
  now,      \* the clock
  members,  \* the role of each guest in workspace_members, or None
  invites,  \* workspace_invites
  granted,  \* the roles each guest was given since it was last removed or set
  spent     \* the invitations each guest had accepted when it was last removed

access == <<now, members, invites, granted, spent>>
-----------------------------------------------------------------------------
Init ==
  /\ now = 0
  /\ members = [u \in Guest |-> None]
  /\ invites = [i \in Invite |-> None]
  /\ granted = [u \in Guest |-> {}] /\ spent = [u \in Guest |-> {}]

\* An invitation that can be accepted.
Pending(i) ==
  /\ invites[i] # None
  /\ invites[i].expires > now /\ ~invites[i].revoked /\ invites[i].by = None

\* The condition of the INSERT in createInvite.
Issuable == Cardinality({i \in Invite : Pending(i)}) < OpenInvites

createInvite(i, u, role) ==
  /\ invites[i] = None /\ Issuable
  /\ invites' = [invites EXCEPT ![i] =
       [email |-> u, role |-> role, expires |-> now + Life, revoked |-> FALSE,
        by |-> None]]
  /\ UNCHANGED <<now, members, granted, spent>>

revokeInvite(i) ==
  /\ invites[i] # None /\ ~invites[i].revoked
  /\ invites' = [invites EXCEPT ![i].revoked = TRUE]
  /\ UNCHANGED <<now, members, granted, spent>>

\* The invitation i may make u a member.
EligibleAgain(i, u) ==
  /\ invites[i] # None /\ invites[i].expires > now /\ ~invites[i].revoked
  /\ invites[i].email = u

Eligible(i, u) == Pending(i) /\ invites[i].email = u

\* A member keeps its seat; another needs one that is free.
Seated(u) ==
  \/ members[u] # None
  \/ Cardinality({v \in Guest : members[v] # None}) < Seats

RoleOfInvite(i, u) == invites[i].role

\* The role after accepting: a member is raised, never lowered.
RoleFrom(i, u) == IF members[u] = "editor" THEN "editor" ELSE invites[i].role

\* One batch adds the member and, now that it is one, marks the invitation.
acceptInvite(i, u) ==
  /\ Eligible(i, u) /\ Seated(u)
  /\ members' = [members EXCEPT ![u] = RoleFrom(i, u)]
  /\ invites' = [invites EXCEPT ![i].by = u]
  /\ granted' = [granted EXCEPT ![u] = @ \union {invites[i].role}]
  /\ UNCHANGED <<now, spent>>

removeMember(u) ==
  /\ members[u] # None
  /\ members' = [members EXCEPT ![u] = None]
  /\ granted' = [granted EXCEPT ![u] = {}]
  /\ spent' = [spent EXCEPT ![u] = {i \in Invite : invites[i] # None /\ invites[i].by = u}]
  /\ UNCHANGED <<now, invites>>

setRole(u, role) ==
  /\ members[u] # None
  /\ members' = [members EXCEPT ![u] = role]
  /\ granted' = [granted EXCEPT ![u] = {role}]
  /\ UNCHANGED <<now, invites, spent>>

Tick ==
  /\ now < MaxTime /\ now' = now + 1
  /\ UNCHANGED <<members, invites, granted, spent>>

Next ==
  \/ \E i \in Invite, u \in Guest :
       \/ \E role \in Role : createInvite(i, u, role)
       \/ acceptInvite(i, u)
  \/ \E i \in Invite : revokeInvite(i)
  \/ \E u \in Guest : removeMember(u) \/ \E role \in Role : setRole(u, role)
  \/ Tick

Spec == Init /\ [][Next]_access
-----------------------------------------------------------------------------
TypeOK == members \in [Guest -> Role \union {None}] /\ now \in 0..MaxTime

\* Invitations within their limit, and members within their seats.
InLimits ==
  /\ Cardinality({i \in Invite : Pending(i)}) <= OpenInvites
  /\ Cardinality({u \in Guest : members[u] # None}) <= Seats

\* A member is in by an invitation to it that it had not used already when the
\* owner last removed it.
Admitted ==
  \A u \in Guest : members[u] # None =>
    \E i \in Invite \ spent[u] :
      invites[i] # None /\ invites[i].by = u /\ invites[i].email = u

\* The role of a member is the highest it was given since the owner last set it
\* or let it in.
RolesGranted ==
  \A u \in Guest : members[u] # None =>
    (members[u] = "editor" <=> "editor" \in granted[u])
=============================================================================
