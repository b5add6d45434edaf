----------------------------- MODULE MCBootAps ------------------------------
(* BootAps, and with it Spinlock, with three processors. *)
EXTENDS BootAps

CONSTANTS c1, c2, c3
=============================================================================
