----------------------------- MODULE MCTenancy ------------------------------
(***************************************************************************)
(* Tenancy on small instances: the databases the runs start on.            *)
(***************************************************************************)
EXTENDS Tenancy, TLC

\* A database with the given memberships and current companies; a company
\* exists if it has members, a user whose current company is None does not.
MCDatabase(roles, current) ==
    [r \in Row |->
        IF r \in User THEN current[r]
        ELSE IF r \in Company
        THEN IF \E u \in User : roles[<<u, r>>] # None THEN "ACTIVE" ELSE None
        ELSE IF r \in Invitation THEN None
        ELSE roles[r]]

\* Every company that has members has an OWNER.
MCOwned(roles) ==
    \A c \in Company : (\E u \in User : roles[<<u, c>>] # None)
                       => \E u \in User : roles[<<u, c>>] = "OWNER"

\* The current companies that go with the memberships.
MCCurrents(roles) ==
    {current \in [User -> Company \cup {NoCompany}] : \A u \in User :
        LET joined == {c \in Company : roles[<<u, c>>] # None}
        IN  IF joined = {} THEN current[u] = NoCompany ELSE current[u] \in joined}

\* All databases of registered users that the use cases can leave behind.
MCPopulated ==
    UNION {{MCDatabase(roles, current) : current \in MCCurrents(roles)} :
           roles \in {f \in [Membership -> Role \cup {None}] : MCOwned(f)}}

\* One company to which every user belongs.
MCStaffed ==
    {d \in MCPopulated : \A u \in User, c \in Company : IsMember(d, u, c)}

\* The invitations that may be out: an OWNER's, to somebody who is not a
\* member.
MCPending(d) ==
    {v \in InvitationRecord : /\ v.status = "PENDING" /\ v.role # "ADMIN"
                              /\ IsOwner(d, v.invitedBy, v.company)
                              /\ ~IsMember(d, v.email, v.company)}

\* A populated database with one invitation out.
MCInviting ==
    UNION {{[d EXCEPT ![i] = v] : i \in Invitation, v \in MCPending(d)} :
           d \in MCPopulated}

\* ... to become OWNER.
MCInvitingOwner == {d \in MCInviting : \E i \in Invitation : d[i] # None /\ d[i].role = "OWNER"}

\* A populated database with at most one invitation out, to become MEMBER.
MCSettled ==
    MCPopulated \cup {d \in MCInviting : \A i \in Invitation : d[i].role = "MEMBER"}

\* One user has founded a company, nobody else has signed up yet.
MCFounded ==
    {MCDatabase([m \in Membership |-> IF m = <<u, c>> THEN "OWNER" ELSE None],
                [v \in User |-> IF v = u THEN c ELSE None]) : u \in User, c \in Company}

\* An OWNER's invitation is out, or everybody has still to be invited.
MCGrowing == MCInvitingOwner \cup MCFounded

\* One company, one OWNER, and everybody else is an ADMIN.
MCOneOwner ==
    {d \in MCStaffed : \E u \in User : \A v \in User, c \in Company :
                         d[<<v, c>>] = IF v = u THEN "OWNER" ELSE "ADMIN"}

MCSymmetry == Permutations(User) \cup Permutations(Company)
              \cup Permutations(Invitation) \cup Permutations(Slot)

=============================================================================
