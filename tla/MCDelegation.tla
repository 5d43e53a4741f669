---------------------------- MODULE MCDelegation ----------------------------
(***************************************************************************)
(* Small instances of Delegation for TLC: two jobs and two tool calls, the *)
(* documented lifecycle in the daemon.                                     *)
(***************************************************************************)
EXTENDS DelegationProperties

CONSTANTS j1, j2, c1, c2
=============================================================================
