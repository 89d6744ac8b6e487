------------------------------- MODULE MCMfa --------------------------------
(***************************************************************************)
(* Mfa on small instances.                                                 *)
(***************************************************************************)
EXTENDS Mfa, TLC

MCKey == MfaKey

\* The codes of the first time steps and one recovery code per enrolment.
MCTried == ({"totp"} \X Enrollment \X (1 .. 2))
           \cup ({"recovery_code"} \X Enrollment \X CodeNo)

MCSymmetry == Permutations(Enrollment) \cup Permutations(Challenge)
              \cup Permutations(Session) \cup Permutations(Slot)

=============================================================================
