----------------------------- MODULE UserAccess -----------------------------
(***************************************************************************)
(* Users, the access they hold and the invitations that admit external     *)
(* users (user_administration.py, portal.py, security_admin.py and the     *)
(* guarded database functions the web role calls instead of writing).  A   *)
(* web request decides on what it read when it arrived; the function it    *)
(* calls serializes administrator changes and locks an invitation.         *)
(***************************************************************************)
EXTENDS Naturals, FiniteSets

CONSTANTS
    Users, Customers, Tokens,
    Clients,        \* browsers, each with a request of some user on its way
    None            \* no user

UserAccessAssumption == None \notin Users

VARIABLES
    user,           \* the user and its profile
    member,         \* the membership of a user in a customer
    invitation,     \* the prepared invitations
    request,        \* the request of each client, and the user it came from
    admitted,       \* history: how often an invitation admitted somebody
    serving         \* the active customers, which are not offboarded

vars == <<user, member, invitation, request, admitted, serving>>

User == [exists : BOOLEAN, active : BOOLEAN, superuser : BOOLEAN, portfolio : BOOLEAN, external : BOOLEAN]
Gone == [exists |-> FALSE, active |-> FALSE, superuser |-> FALSE, portfolio |-> FALSE, external |-> FALSE]
MemberRoles == {"operator", "viewer", "customer"}
Member == [role : MemberRoles, active : BOOLEAN, window : {"none", "open", "over"}]
\* Whoever activates a membership sets its role, so an inactive one keeps none.
Inactive(window) == [role |-> "viewer", active |-> FALSE, window |-> window]
NoMember == Inactive("none")
Invitation == [target : Users \cup {None}, customer : Customers,
               state : {"unprepared", "open", "accepted", "revoked", "expired"}]
NoRequest == [kind |-> "idle"]
Request == {NoRequest} \cup [kind : {"administer", "change"}, by : Users]
           \cup [kind : {"accept"}, by : Users, token : Tokens]

TypeOK ==
    /\ user \in [Users -> User]
    /\ member \in [Users \X Customers -> Member]
    /\ invitation \in [Tokens -> Invitation]
    /\ request \in [Clients -> Request]
    /\ admitted \in [Tokens -> 0..2]
    /\ serving \subseteq Customers

(* A superuser of the installation with explicit portfolio access, and a   *)
(* user that exists.                                                       *)
Init ==
    \E a \in Users :
      /\ user = [u \in Users |-> [exists |-> u = a, active |-> u = a, superuser |-> u = a,
                                  portfolio |-> u = a, external |-> FALSE]]
      /\ member = [m \in Users \X Customers |-> NoMember]
      /\ invitation \in [Tokens -> {[target |-> None, customer |-> c, state |-> "unprepared"] : c \in Customers}]
      /\ request = [r \in Clients |-> NoRequest]
      /\ admitted = [t \in Tokens |-> 0]
      /\ serving = Customers

Admin(u) ==
    user[u].active /\ user[u].superuser /\ user[u].portfolio /\ ~user[u].external

(* What for_user resolves for every request. *)
InForce(m) == m.active /\ m.window # "over"
Holds(u, c) ==
    /\ user[u].active /\ c \in serving /\ InForce(member[<<u, c>>])
    /\ user[u].external => member[<<u, c>>].role = "customer"

----------------------------------------------------------------------------
(* Administration of users.  The decorator and the view resolve the        *)
(* actor's access; the function takes its lock and looks again, and writes *)
(* in statements of their own, for as long as which it keeps the lock.     *)
BeginAdminister(r, a) ==
    /\ request[r] = NoRequest /\ Admin(a)
    /\ request' = [request EXCEPT ![r] = [kind |-> "administer", by |-> a]]
    /\ UNCHANGED <<user, member, invitation, admitted, serving>>

Answer(r) == request' = [request EXCEPT ![r] = NoRequest]

\* Mutant: the function trusts the check the view has made.
StillAdmin_Trusting(r) == TRUE

StillAdmin(r) == Admin(request[r].by)

\* Past the function's check, until its transaction ends.
Changes(r) == request[r].kind = "change"

TakeLock(r) ==
    /\ request[r].kind = "administer" /\ StillAdmin(r)
    /\ \A q \in Clients : ~Changes(q)
    /\ request' = [request EXCEPT ![r].kind = "change"]
    /\ UNCHANGED <<user, member, invitation, admitted, serving>>

\* The memberships once user u has the role for the granted customers and no other.
Granted(u, role, granted) ==
    [m \in Users \X Customers |->
       IF m[1] # u THEN member[m]
       ELSE IF m[2] \in granted THEN [role |-> role, active |-> TRUE, window |-> "none"]
       ELSE Inactive(member[m].window)]

\* Creates the user, or replaces its role, its state and all of its grants.
SaveUser(r, u) ==
    /\ Changes(r) /\ Answer(r)
    /\ \E admin \in BOOLEAN, active \in BOOLEAN, role \in {"operator", "viewer"}, granted \in SUBSET serving :
         /\ u = request[r].by => active /\ admin
         /\ admin => granted = {}
         /\ user' = [user EXCEPT ![u] = [exists |-> TRUE, active |-> active, superuser |-> admin,
                                         portfolio |-> admin, external |-> FALSE]]
         /\ member' = Granted(u, role, granted)
    /\ UNCHANGED <<invitation, admitted, serving>>

\* Mutant: the row of an invitation is not locked.
RowFree_Unlocked(t) == TRUE

RowFree(t) == \A r \in Clients : request[r].kind = "accept" => request[r].token # t

\* Deleting revokes the user's invitations: it waits for one being accepted.
DeleteUser(r, u) ==
    /\ Changes(r) /\ Answer(r)
    /\ u # request[r].by /\ user[u].exists
    /\ \A t \in Tokens : invitation[t].target = u => RowFree(t)
    /\ user' = [user EXCEPT ![u] = Gone]
    /\ member' = [m \in Users \X Customers |-> IF m[1] = u THEN NoMember ELSE member[m]]
    /\ invitation' = [t \in Tokens |->
                        IF invitation[t].target # u THEN invitation[t]
                        ELSE [invitation[t] EXCEPT !.target = None,
                                !.state = IF @ = "accepted" THEN @ ELSE "revoked"]]
    /\ UNCHANGED <<admitted, serving>>

\* Refused, or the worker process of the web server dies: nothing is written, and what
\* its transaction has locked is free.
RequestEnds(r) ==
    /\ request[r] # NoRequest /\ Answer(r)
    /\ UNCHANGED <<user, member, invitation, admitted, serving>>

----------------------------------------------------------------------------
(* The administration command: no web request, and no second look. *)
Grant(u, c) ==
    /\ user[u].exists
    /\ \/ \E role \in MemberRoles : member' = [member EXCEPT ![<<u, c>>].role = role, ![<<u, c>>].active = TRUE]
       \/ member' = [member EXCEPT ![<<u, c>>] = Inactive(@.window)]
    /\ UNCHANGED <<user, invitation, request, admitted, serving>>

SupportAccess(u, c) ==
    /\ user[u].exists
    /\ member' = [member EXCEPT ![<<u, c>>] = [role |-> "viewer", active |-> TRUE, window |-> "open"]]
    /\ UNCHANGED <<user, invitation, request, admitted, serving>>

WindowEnds(u, c) ==
    /\ member[<<u, c>>].window = "open"
    /\ member' = [member EXCEPT ![<<u, c>>].window = "over"]
    /\ UNCHANGED <<user, invitation, request, admitted, serving>>

SetPortfolio(u) ==
    /\ user[u].exists
    /\ \E portfolio \in BOOLEAN :
         /\ portfolio => user[u].superuser
         /\ user' = [user EXCEPT ![u].portfolio = portfolio]
    /\ UNCHANGED <<member, invitation, request, admitted, serving>>

----------------------------------------------------------------------------
(* External access: an operator or an administrator prepares an invitation *)
(* for one user, when somebody already has access to the customer; the     *)
(* user presents its token.                                                *)
MayEdit(u, c) == Admin(u) \/ (Holds(u, c) /\ member[<<u, c>>].role = "operator")

\* The part of a customer's readiness that access decides.
HasUsers(c) == \E u \in Users : InForce(member[<<u, c>>])

Invite(t) ==
    /\ invitation[t].state = "unprepared" /\ HasUsers(invitation[t].customer)
    /\ \E u \in Users : MayEdit(u, invitation[t].customer)
    /\ \E u \in Users :
         user[u].active /\ invitation' = [invitation EXCEPT ![t].target = u, ![t].state = "open"]
    /\ UNCHANGED <<user, member, request, admitted, serving>>

InvitationExpires(t) ==
    /\ invitation[t].state = "open"
    /\ invitation' = [invitation EXCEPT ![t].state = "expired"]
    /\ UNCHANGED <<user, member, request, admitted, serving>>

(* The checks are statements of their own, before the writes: only the     *)
(* invitation's row is locked between them.                                *)
BeginAccept(r, u, t) ==
    /\ request[r] = NoRequest /\ user[u].active /\ RowFree(t)
    /\ invitation[t].state = "open" /\ invitation[t].target = u
    /\ invitation[t].customer \in serving /\ HasUsers(invitation[t].customer)
    /\ ~user[u].portfolio
    /\ \A c \in Customers : member[<<u, c>>].active => member[<<u, c>>].role = "customer"
    /\ request' = [request EXCEPT ![r] = [kind |-> "accept", by |-> u, token |-> t]]
    /\ UNCHANGED <<user, member, invitation, admitted, serving>>

Accept(r) ==
    /\ request[r].kind = "accept" /\ Answer(r)
    /\ LET u == request[r].by
           t == request[r].token
       IN  /\ user[u].exists
           /\ member' = [member EXCEPT ![<<u, invitation[t].customer>>] =
                           [role |-> "customer", active |-> TRUE, window |-> "none"]]
           /\ user' = [user EXCEPT ![u].external = TRUE]
           /\ invitation' = [invitation EXCEPT ![t].state = "accepted"]
           /\ admitted' = [admitted EXCEPT ![t] = IF @ = 2 THEN 2 ELSE @ + 1]
    /\ UNCHANGED serving

----------------------------------------------------------------------------
(* Offboarding takes everybody's access away; reactivating gives nobody's  *)
(* back.  Nobody edits an offboarded customer but an administrator.        *)
Offboard(c) ==
    /\ c \in serving /\ \E u \in Users : MayEdit(u, c)
    /\ serving' = serving \ {c}
    /\ member' = [m \in Users \X Customers |-> IF m[2] = c THEN Inactive(member[m].window) ELSE member[m]]
    /\ UNCHANGED <<user, invitation, request, admitted>>

Reactivate(c) ==
    /\ c \in Customers \ serving /\ \E u \in Users : Admin(u)
    /\ serving' = serving \cup {c}
    /\ UNCHANGED <<user, member, invitation, request, admitted>>

Next ==
    \/ \E r \in Clients :
         \/ RequestEnds(r) \/ TakeLock(r) \/ Accept(r)
         \/ \E u \in Users :
              \/ BeginAdminister(r, u) \/ SaveUser(r, u) \/ DeleteUser(r, u)
              \/ \E t \in Tokens : BeginAccept(r, u, t)
    \/ \E u \in Users : SetPortfolio(u) \/ \E c \in Customers : Grant(u, c) \/ SupportAccess(u, c) \/ WindowEnds(u, c)
    \/ \E t \in Tokens : Invite(t) \/ InvitationExpires(t)
    \/ \E c \in Customers : Offboard(c) \/ Reactivate(c)

Spec == Init /\ [][Next]_vars

----------------------------------------------------------------------------
\* A change whose actor is no administrator (any more).
Stripped(r) == Changes(r) /\ ~Admin(request[r].by)

(* The web never leaves the installation without an administrator, whoever *)
(* removes whom at the same time: "Serialize administrator changes so two  *)
(* administrators cannot remove each other." (user-administration.sql:8).  *)
(* Only two steps outside that lock may take the last one's access, or     *)
(* that of an actor past its check, whose change may then remove the last  *)
(* one: the administration command, and an invitation accepted by a user   *)
(* who is made the administrator between its checks and its writes.        *)
AdministratorRemains ==
    LET outside == (\E u \in Users : SetPortfolio(u)) \/ (\E r \in Clients : Accept(r))
    IN  /\ (\E u \in Users : Admin(u)) /\ ~(\E u \in Users : Admin(u))'
             => outside \/ (\E r \in Clients : Stripped(r))
        /\ \A r \in Clients : Stripped(r)' => outside \/ Stripped(r)

(* A one-use token lets its user in once, so access that was withdrawn     *)
(* afterwards does not come back by a second request already on its way    *)
(* (portal-admission.sql:8-11, portal.py:51-61).                           *)
InvitationAdmitsOnce == \A t \in Tokens : admitted[t] <= 1
=============================================================================
