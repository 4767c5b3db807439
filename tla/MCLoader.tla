------------------------------ MODULE MCLoader ------------------------------
(* Values for the constants of Loader. *)
EXTENDS Loader

\* X87_DISABLE_HOOK and X87_FORCE_ABANDON, programs that do not handshake, and
\* a blocked SIGCONT, each where it matters.
MCConfigs ==
  [cooperative : {TRUE}, handshakes : BOOLEAN, disableHook : {FALSE}, abandon : 0 .. 3,
   sigcontBlocked : {FALSE}]
  \cup
  [cooperative : {TRUE}, handshakes : {TRUE}, disableHook : {TRUE}, abandon : {0},
   sigcontBlocked : {FALSE}]
  \cup
  [cooperative : {FALSE}, handshakes : {FALSE}, disableHook : BOOLEAN, abandon : {0},
   sigcontBlocked : BOOLEAN]
=============================================================================
