----------------------------- MODULE MCService -----------------------------
(***************************************************************************)
(* One or two processes of cliostrad, a Go client and the plugin.  In      *)
(* units of 32 KiB: a frame holds 8 with its newline, a result is at most  *)
(* 6 before it is escaped and two to six times that after, the rest is an  *)
(* envelope.                                                               *)
(***************************************************************************)
EXTENDS ServiceProperties

CONSTANTS d1, d2, j1, cli, plugin
=============================================================================
