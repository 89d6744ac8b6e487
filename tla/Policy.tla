------------------------------- MODULE Policy -------------------------------
(***************************************************************************)
(* The pure predicates of src/membership/policy.ts and                     *)
(* src/invitation/policy.ts: who may do what to whom, given the roles that *)
(* a guard or a statement has read.                                        *)
(***************************************************************************)
EXTENDS Naturals

\* The three values the CHECK constraints of membership.role and
\* invitation.role admit (db/enums.ts).
Role == {"MEMBER", "ADMIN", "OWNER"}

ROLE_LEVEL == [MEMBER |-> 0, ADMIN |-> 1, OWNER |-> 2]

isAtLeast(role, minRole) == ROLE_LEVEL[role] >= ROLE_LEVEL[minRole]

\* Touching an OWNER, or making one, takes an OWNER.
canChangeRole(actorRole, beforeRole, nextRole) ==
    "OWNER" \in {beforeRole, nextRole} => actorRole = "OWNER"

canInviteRole(actorRole, invitedRole) ==
    invitedRole = "OWNER" => actorRole = "OWNER"

canAttemptRemoval(actorRole, isSelf) == isSelf \/ isAtLeast(actorRole, "ADMIN")

canRemoveTarget(actorRole, isSelf, targetRole) ==
    targetRole = "OWNER" => isSelf \/ actorRole = "OWNER"

=============================================================================
