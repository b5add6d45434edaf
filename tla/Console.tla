------------------------------ MODULE Console ------------------------------
(***************************************************************************)
(* Input and output of the console (kern/console.c, lib/console.c,         *)
(* lib/readline.c): the keyboard sends one byte after the other, an        *)
(* interrupt or a poll turns what has come into characters and puts them   *)
(* into a ring, and a program reads lines from the ring and echoes them    *)
(* on the screen.                                                          *)
(*                                                                         *)
(* Everything the kernel does here it does under the kernel lock, one      *)
(* entry at a time.  Characters are names: "nl" is '\n', "bs" '\b', "eot"  *)
(* control-D, "del" 0x7f, "KEY_DEL" the code of the delete key.  fed,      *)
(* typed, taken, meant and on are history.                                 *)
(***************************************************************************)
EXTENDS Integers, Sequences, SequencesExt

CONSTANTS CONSBUFSIZE, BUFLEN,     \* console.c, readline.c
          CRT_COLS, CRT_SIZE,      \* console.h: the size of the screen
          Keys,                    \* the keys of the keyboard
          SerialChars,             \* what arrives over the serial line
          MaxKeys, MaxSerial, MaxEvents,  \* bounds: events at each device and together
          None

ASSUME SizesAssumption ==
    /\ CONSBUFSIZE \in Nat \ {0} /\ BUFLEN \in Nat \ {0} /\ CRT_COLS \in Nat \ {0}
    /\ CRT_SIZE \in Nat /\ CRT_SIZE % CRT_COLS = 0 /\ CRT_SIZE > CRT_COLS
    /\ BUFLEN - 1 <= CRT_SIZE - CRT_COLS        \* a line stays on the screen
ASSUME DevicesAssumption ==
    /\ Keys \subseteq {"a", "d", "enter", "kpenter", "backspace", "lctl", "rctl", "lshift",
                        "rshift", "lalt", "ralt", "caps", "delete"}
    /\ None \notin SerialChars /\ None \notin 0 .. 255

VARIABLES
    held,       \* keys that are down
    on,         \* modifiers whose last event was a press, and CAPSLOCK if it is on
    half,       \* the byte the keyboard sends after the E0 it has sent, or None
    port,       \* bytes that wait in the keyboard controller
    serial,     \* characters that wait in the serial port
    shift,      \* kbd_proc_data's static variable, as a set of flags
    cons,       \* the ring: buf, rpos and wpos
    at, got,    \* where readline() is, the character it has got
    line,       \* readline's buf[0 .. i-1]
    screen,     \* crt_buf and crt_pos
    up,         \* FALSE when the machine has been told to restart
    fed,        \* every character put into the ring
    typed,      \* those of them that came from the keyboard
    taken,      \* how many characters were taken out of it
    meant,      \* the characters the keys stood for when they were pressed
    events      \* how many there were at each device

device == <<held, on, half, port, serial, meant, events>>
vars == <<device, shift, cons, at, got, line, screen, up, fed, typed, taken>>

(* Keys by their scan code; those in Extended are sent with an E0 before.  *)
Extended(k) == k \in {"rctl", "ralt", "delete", "kpenter"}
Code(k) == [a |-> 30, d |-> 32, enter |-> 28, kpenter |-> 28, backspace |-> 14,
            lctl |-> 29, rctl |-> 29, lshift |-> 42, rshift |-> 54,
            lalt |-> 56, ralt |-> 56, caps |-> 58, delete |-> 83][k]

(* The tables of console.c, for these codes; every other entry is NO.      *)
ShiftCode(data) == CASE data \in {29, 157} -> {"CTL"}
                     [] data \in {42, 54}  -> {"SHIFT"}
                     [] data \in {56, 184} -> {"ALT"}
                     [] OTHER -> {}
ToggleCode(data) == IF data = 58 THEN {"CAPSLOCK"} ELSE {}
NormalMap == [a |-> "a", d |-> "d", backspace |-> "bs", enter |-> "nl", kpenter |-> "nl"]
ShiftMap == [a |-> "A", d |-> "D", backspace |-> "bs", enter |-> "nl", kpenter |-> "nl"]
CtlMap == [a |-> "soh", d |-> "eot", backspace |-> "NO", enter |-> "cr", kpenter |-> "NO"]
CharCode(flags, data) ==
    LET map == IF "CTL" \in flags THEN CtlMap
               ELSE IF "SHIFT" \in flags THEN ShiftMap ELSE NormalMap
    IN  CASE data = 30 -> map.a [] data = 32 -> map.d [] data = 14 -> map.backspace
          [] data = 28 -> map.enter [] data = 156 -> map.kpenter
          [] data = 211 -> "KEY_DEL" [] OTHER -> "NO"
Swapped(c) == CASE c = "a" -> "A" [] c = "A" -> "a" [] c = "d" -> "D"
                [] c = "D" -> "d" [] OTHER -> c

(* kbd_proc_data() on one byte: the new flags and the character or NO.     *)
Pressed(flags, data) ==
    [shift |-> SymDiff(flags \cup ShiftCode(data), ToggleCode(data)),
     c |-> LET new == SymDiff(flags \cup ShiftCode(data), ToggleCode(data))
               c == CharCode(new, data)
           IN  IF "CAPSLOCK" \in new THEN Swapped(c) ELSE c]
(* Mutant: a release leaves the E0 of its key standing.                    *)
ReleasedKeepingE0(flags, data) ==
    LET key == IF "E0ESC" \in flags THEN data ELSE data - 128
    IN  [shift |-> flags \ ShiftCode(key), c |-> "NO"]

Released(flags, data) ==
    LET key == IF "E0ESC" \in flags THEN data ELSE data - 128
    IN  [shift |-> flags \ (ShiftCode(key) \cup {"E0ESC"}), c |-> "NO"]
KbdProcData(flags, data) ==
    IF data = 224 THEN [shift |-> flags \cup {"E0ESC"}, c |-> "NO"]
    ELSE IF data >= 128 THEN Released(flags, data)
    ELSE IF "E0ESC" \in flags THEN Pressed(flags \ {"E0ESC"}, data + 128)
    ELSE Pressed(flags, data)

Reboots(key) == key.c = "KEY_DEL" /\ {"CTL", "ALT"} \subseteq key.shift

(* The keyboard bytes that wait, as flags and characters.                  *)
DecodeByte(st, b) ==
    LET key == KbdProcData(st.shift, b)
    IN  [shift |-> key.shift, chars |-> Append(st.chars, key.c),
         reboot |-> st.reboot \/ Reboots(key)]
Decode(flags, bytes) ==
    FoldLeft(DecodeByte, [shift |-> flags, chars |-> <<>>, reboot |-> FALSE], bytes)

(* Mutant: the position wraps one character late.                          *)
StashWrappingLate(ring, c) ==
    [ring EXCEPT !.buf[ring.wpos] = c, !.wpos = IF @ + 1 > CONSBUFSIZE THEN 0 ELSE @ + 1]
(* cons_intr(): the characters go into the ring, whatever is in it.        *)
Stash(ring, c) ==
    [buf |-> [ring.buf EXCEPT ![ring.wpos] = c], rpos |-> ring.rpos,
     wpos |-> (ring.wpos + 1) % CONSBUFSIZE]
KeepReal(chars, c) == IF c = "NO" THEN chars ELSE Append(chars, c)
Real(chars) == FoldLeft(KeepReal, <<>>, chars)
ConsIntr(ring, chars) == FoldLeft(Stash, ring, Real(chars))

(* cga_putc(): the character at the cursor, and a scroll at the end.       *)
Place(s, c) ==
    CASE c = "bs" /\ s.pos > 0 -> [buf |-> [s.buf EXCEPT ![s.pos - 1] = " "], pos |-> s.pos - 1]
      [] c = "bs" /\ s.pos = 0 -> s
      [] c = "nl" -> [s EXCEPT !.pos = (@ + CRT_COLS) - (@ % CRT_COLS)]
      [] c = "cr" -> [s EXCEPT !.pos = @ - (@ % CRT_COLS)]
      [] OTHER    -> [buf |-> [s.buf EXCEPT ![s.pos] = c], pos |-> s.pos + 1]
(* Mutant: the last row is left as it was after a scroll.                  *)
ScrollDirty(s) ==
    IF s.pos < CRT_SIZE THEN s
    ELSE [buf |-> [n \in DOMAIN s.buf |->
                     IF n < CRT_SIZE - CRT_COLS THEN s.buf[n + CRT_COLS] ELSE s.buf[n]],
          pos |-> s.pos - CRT_COLS]
Scroll(s) ==
    IF s.pos < CRT_SIZE THEN s
    ELSE [buf |-> [n \in DOMAIN s.buf |->
                     IF n < CRT_SIZE - CRT_COLS THEN s.buf[n + CRT_COLS] ELSE " "],
          pos |-> s.pos - CRT_COLS]
CgaPutc(s, c) == Scroll(Place(s, c))
Puts(s, chars) == FoldLeft(CgaPutc, s, chars)

----------------------------------------------------------------------------
(* What a key stands for, without scan codes: the reference.               *)
Modifier(k) == CASE k \in {"lctl", "rctl"} -> {"CTL"}
                 [] k \in {"lshift", "rshift"} -> {"SHIFT"}
                 [] k \in {"lalt", "ralt"} -> {"ALT"}
                 [] OTHER -> {}
Letter(k) == IF k = "a" THEN <<"a", "A", "soh">> ELSE <<"d", "D", "eot">>
Meaning(k, mods) ==
    CASE k \in {"a", "d"} ->
            (IF "CTL" \in mods THEN Letter(k)[3]
             ELSE IF ("SHIFT" \in mods) = ("CAPSLOCK" \in mods) THEN Letter(k)[1]
             ELSE Letter(k)[2])
      [] k = "enter" -> (IF "CTL" \in mods THEN "cr" ELSE "nl")
      [] k = "kpenter" -> (IF "CTL" \in mods THEN "NO" ELSE "nl")
      [] k = "backspace" -> (IF "CTL" \in mods THEN "NO" ELSE "bs")
      [] k = "delete" -> "KEY_DEL"
      [] OTHER -> "NO"

----------------------------------------------------------------------------
Init ==
    /\ held = {} /\ on = {} /\ half = None /\ port = <<>> /\ serial = None
    /\ meant = <<>> /\ events = [keys |-> 0, serial |-> 0]
    /\ shift = {}
    /\ cons = [buf |-> [n \in 0 .. CONSBUFSIZE - 1 |-> "NO"], rpos |-> 0, wpos |-> 0]
    /\ at = "prompt" /\ got = "NO" /\ line = <<>> /\ up = TRUE
    /\ screen = [buf |-> [n \in 0 .. CRT_SIZE - 1 |-> " "], pos |-> 0]
    /\ fed = <<>> /\ typed = <<>> /\ taken = 0

(* The keyboard sends one byte for a key, or E0 and then another.          *)
Sends(k, byte) ==
    /\ half = None /\ events.keys < MaxKeys /\ events.keys + events.serial < MaxEvents
    /\ events' = [events EXCEPT !.keys = @ + 1]
    /\ IF Extended(k) THEN port' = Append(port, 224) /\ half' = byte
       ELSE port' = Append(port, byte) /\ half' = None
    /\ UNCHANGED <<serial, shift, cons, at, got, line, screen, up, fed, typed, taken>>
Press(k) ==
    /\ up /\ k \notin held
    /\ Sends(k, Code(k))
    /\ held' = held \cup {k}
    /\ on' = IF k = "caps" THEN SymDiff(on, {"CAPSLOCK"}) ELSE on \cup Modifier(k)
    /\ meant' = Append(meant, Meaning(k, on))
Release(k) ==
    /\ up /\ k \in held
    /\ Sends(k, Code(k) + 128)
    /\ held' = held \ {k}
    /\ on' = on \ Modifier(k)
    /\ UNCHANGED meant
SecondByte ==
    /\ up /\ half # None
    /\ port' = Append(port, half) /\ half' = None
    /\ UNCHANGED <<held, on, serial, meant, events, shift, cons, at, got, line, screen,
                   up, fed, typed, taken>>
SerialArrives(c) ==
    /\ up /\ serial = None /\ events.serial < MaxSerial /\ events.keys + events.serial < MaxEvents
    /\ serial' = c /\ events' = [events EXCEPT !.serial = @ + 1]
    /\ UNCHANGED <<held, on, half, port, meant, shift, cons, at, got, line, screen,
                   up, fed, typed, taken>>

(* kbd_intr() and serial_intr(): everything that has come, as one loop.    *)
FromKeyboard(keys, first) ==
    /\ shift' = keys.shift /\ port' = <<>> /\ up' = ~ keys.reboot
    /\ cons' = ConsIntr(cons, first \o keys.chars)
    /\ fed' = fed \o Real(first \o keys.chars) /\ typed' = typed \o Real(keys.chars)
KbdIntr ==
    /\ up /\ port # <<>>
    /\ FromKeyboard(Decode(shift, port), <<>>)
    /\ UNCHANGED <<held, on, half, serial, meant, events, at, got, line, screen, taken>>
SerialIntr ==
    /\ up /\ serial # None
    /\ cons' = ConsIntr(cons, <<serial>>)
    /\ fed' = fed \o Real(<<serial>>)
    /\ serial' = None
    /\ UNCHANGED <<held, on, half, port, meant, events, shift, at, got, line, screen, up, typed,
                   taken>>

(* sys_cgetc() through devcons_read(): cons_getc() polls both devices, then
   takes the first character of the ring, or answers 0.                    *)
Waiting == IF serial = None THEN <<>> ELSE <<serial>>
TakeFirst(ring) ==
    IF ring.rpos = ring.wpos THEN UNCHANGED <<at, got, taken>> /\ cons' = ring
    ELSE /\ got' = ring.buf[ring.rpos] /\ at' = "take" /\ taken' = taken + 1
         /\ cons' = [ring EXCEPT !.rpos = (@ + 1) % CONSBUFSIZE]
ConsGetc ==
    /\ up /\ at = "getc"
    /\ \E keys \in {Decode(shift, port)} :
          /\ shift' = keys.shift /\ port' = <<>> /\ up' = ~ keys.reboot
          /\ TakeFirst(ConsIntr(cons, Waiting \o keys.chars))
          /\ fed' = fed \o Real(Waiting \o keys.chars) /\ typed' = typed \o Real(keys.chars)
    /\ serial' = None
    /\ UNCHANGED <<held, on, half, meant, events, line, screen>>

(* readline(), as called in a loop by user/testkbd.c.                      *)
Display(chars) == screen' = Puts(screen, chars)
Quiet == UNCHANGED <<device, shift, cons, up, fed, typed, taken>>
Prompt ==
    /\ up /\ at = "prompt"
    /\ at' = "getc" /\ line' = <<>> /\ Display(<<">">>)
    /\ UNCHANGED got /\ Quiet
Printable(c) == c \notin {"bs", "nl", "cr", "soh", "eot"}
Erase ==
    /\ up /\ at = "take" /\ got \in {"bs", "del"} /\ line # <<>>
    /\ line' = Front(line) /\ Display(<<"bs">>)
    /\ at' = "getc" /\ got' = "NO" /\ Quiet
Insert ==
    /\ up /\ at = "take" /\ Printable(got) /\ ~(got = "del" /\ line # <<>>)
    /\ Len(line) < BUFLEN - 1
    /\ line' = Append(line, got) /\ Display(<<got>>)
    /\ at' = "getc" /\ got' = "NO" /\ Quiet
EndLine ==
    /\ up /\ at = "take" /\ got \in {"nl", "cr"}
    /\ Display(<<"nl">> \o line \o <<"nl">>)
    /\ at' = "prompt" /\ got' = "NO" /\ UNCHANGED line /\ Quiet
EndOfFile ==
    /\ up /\ at = "take" /\ got = "eot"
    /\ Display(<<"nl">>)
    /\ at' = "prompt" /\ got' = "NO" /\ UNCHANGED line /\ Quiet
Ignore ==
    /\ up /\ at = "take"
    /\ \/ got = "soh"
       \/ got = "bs" /\ line = <<>>
       \/ Printable(got) /\ ~(got = "del" /\ line # <<>>) /\ Len(line) >= BUFLEN - 1
    /\ at' = "getc" /\ got' = "NO" /\ UNCHANGED <<line, screen>> /\ Quiet

Next ==
    \/ \E k \in Keys : Press(k) \/ Release(k)
    \/ \E c \in SerialChars : SerialArrives(c)
    \/ SecondByte \/ KbdIntr \/ SerialIntr
    \/ ConsGetc \/ Prompt \/ Erase \/ Insert \/ EndLine \/ EndOfFile \/ Ignore

Spec == Init /\ [][Next]_vars

----------------------------------------------------------------------------
(* The flags and characters kbd_proc_data() gets out of the bytes, split
   between interrupts and polls as they may be, are those the keys stand
   for: no modifier sticks, and none is lost behind an E0.                 *)
KeysDecoded ==
    LET last == Decode(shift, IF half = None THEN port ELSE Append(port, half))
    IN  /\ last.shift = on
        /\ typed \o Real(last.chars) = Real(meant)

(* The ring holds the newest of the characters fed into it, in order, as
   many as were not taken, modulo its size: when it overruns, the oldest
   ringful is lost and nothing is read twice or out of order.              *)
RingIsNewest ==
    LET pending == (cons.wpos - cons.rpos + CONSBUFSIZE) % CONSBUFSIZE
    IN  /\ pending = (Len(fed) - taken) % CONSBUFSIZE
        /\ \A n \in 1 .. pending :
              cons.buf[(cons.rpos + n - 1) % CONSBUFSIZE] = fed[Len(fed) - pending + n]

(* While a line is edited, the screen shows it before the cursor and nothing
   behind the cursor, over the ends of rows and the scroll.                *)
LineOnScreen ==
    /\ screen.pos \in 0 .. CRT_SIZE - 1
    /\ at \in {"getc", "take"} =>
         \A n \in 1 .. Len(line) : screen.buf[screen.pos - Len(line) + n - 1] = line[n]
    /\ \A n \in screen.pos .. CRT_SIZE - 1 : screen.buf[n] = " "
=============================================================================
