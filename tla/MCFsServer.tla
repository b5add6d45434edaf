----------------------------- MODULE MCFsServer -----------------------------
(* FsServer with values for TLC. *)
EXTENDS FsServer

TwoSlots == 0 .. 1
OneWord == {<<"x">>}
TwoWords == {<<"x", "y">>}
=============================================================================
