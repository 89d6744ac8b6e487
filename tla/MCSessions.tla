----------------------------- MODULE MCSessions -----------------------------
(***************************************************************************)
(* Sessions on a small instance.                                           *)
(***************************************************************************)
EXTENDS Sessions

MCKey == Token \cup {index} \cup OwnKey
MCIndexKey == {index}

=============================================================================
