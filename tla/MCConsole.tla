----------------------------- MODULE MCConsole -----------------------------
(* Values for the constants of Console; with it, the assumptions of        *)
(* Library are evaluated.                                                  *)
EXTENDS Console, Library

SomeKeys == {"a", "rctl", "lshift", "rshift", "caps", "lalt", "delete"}
SomeSerial == {"cr", "bs", "del", "eot"}

(* What the future and the invariants depend on: of the characters that
   have been read only the number counts, and of those that were typed and
   meant whether they agree.                                               *)
Seen == <<held, on, half, port, serial, events, shift, cons, at, got, line, screen, up,
          (Len(fed) - taken) % CONSBUFSIZE,
          [n \in 1 .. CONSBUFSIZE |-> IF n <= Len(fed) THEN fed[Len(fed) - n + 1] ELSE None],
          KeysDecoded>>
=============================================================================
