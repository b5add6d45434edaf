------------------------------- MODULE Library -------------------------------
(***************************************************************************)
(* Functions of the C library and of the kernel that only compute: memmove,*)
(* printnum and strtol (lib/string.c, lib/printfmt.c), the options of a    *)
(* program (lib/args.c), the search for a stab (kern/kdebug.c).  Each is   *)
(* its loop, step by step; the assumptions compare it with what it should  *)
(* compute, over every input up to a bound.                                *)
(***************************************************************************)
EXTENDS Integers, Sequences, SequencesExt, FiniteSetsExt

------------------------------------------------------------------------------
(* memmove(): from the end when dst lies inside the source; by words (movsl)  *)
(* when the addresses and n are multiples of four, else by bytes (movsb).     *)

Upward(n) == [k \in 1 .. n |-> k - 1]
Moved(m, dst, src, n) == [a \in DOMAIN m |-> IF a \in dst .. dst + n - 1 THEN m[a - dst + src] ELSE m[a]]

\* rep movs: one unit after the other, in this order.
Copied(mem, order, unit, dst, src) ==
    FoldLeft(LAMBDA m, i : Moved(m, dst + i * unit, src + i * unit, unit), mem, order)

Memmove(mem, dst, src, n) ==
    LET unit == IF \A x \in {dst, src, n} : x % 4 = 0 THEN 4 ELSE 1
        order == Upward(n \div unit)
    IN  Copied(mem, IF src < dst /\ src + n > dst THEN Reverse(order) ELSE order, unit, dst, src)

\* memmove() copies as if all bytes were read before the first is written,
\* however the two ranges overlap.
ASSUME MemmoveCopies ==
    \E mem \in {[a \in 0 .. 15 |-> a]} :
       \A dst, src \in 0 .. 15 : \A n \in 0 .. 16 - Max({dst, src}) :
          Memmove(mem, dst, src, n) = Moved(mem, dst, src, n)

------------------------------------------------------------------------------
(* printnum() and strtol().  A character that may be a digit is its value as  *)
(* one ("0" is 0, "a" and "A" are 10, "x" is 33); the others lie above those.  *)

CharX == 33
Space == 36
Minus == 37
Plus == 38

\* The digits of num, the least significant one last, after the padding.
Printnum(num, base, width, padc) ==
    LET digits[m \in 0 .. num] == IF m < base THEN <<m>>
                                  ELSE Append(digits[m \div base], m % base)
        pad == Max({0, width - Len(digits[num])})
    IN  [i \in 1 .. pad |-> padc] \o digits[num]

\* %d: the sign comes before the padding.
PrintSigned(num, base, width, padc) ==
    IF num < 0 THEN <<Minus>> \o Printnum(-num, base, width, padc)
    ELSE Printnum(num, base, width, padc)

Starts(s, c) == s # << >> /\ Head(s) = c
Drop(s, n) == SubSeq(s, n + 1, Len(s))
SkipSpaces(s) == LET n == SelectInSeq(s, LAMBDA c : c # Space) IN IF n = 0 THEN << >> ELSE Drop(s, n - 1)
Unsigned(s) == IF Starts(s, Plus) \/ Starts(s, Minus) THEN Tail(s) ELSE s

\* The base, and what is left once a prefix that tells the base is gone.
Prefixed(s, base) ==
    IF base \in {0, 16} /\ Len(s) > 1 /\ s[1] = 0 /\ s[2] = CharX THEN [base |-> 16, s |-> Drop(s, 2)]
    ELSE IF base = 0 /\ Starts(s, 0) THEN [base |-> 8, s |-> Tail(s)]
    ELSE [base |-> IF base = 0 THEN 10 ELSE base, s |-> s]

Digits(s, base) == LET n == SelectInSeq(s, LAMBDA c : c \notin 0 .. base - 1)
                   IN  IF n = 0 THEN s ELSE SubSeq(s, 1, n - 1)

Strtol(s, base) ==
    LET signed == SkipSpaces(s)
        number == Prefixed(Unsigned(signed), base)
        val == FoldLeft(LAMBDA v, d : v * number.base + d, 0, Digits(number.s, number.base))
    IN  IF Starts(signed, Minus) THEN -val ELSE val

\* What %d, %x or %o prints, padded with spaces or zeroes, strtol() reads back,
\* and with base 0 and the prefix of C it finds the base; text that follows does
\* not matter.  A negative number that is padded with spaces is not read back:
\* its sign stands before the padding.
ASSUME StrtolReadsPrintnum ==
    \A num \in 0 .. 300, base \in {8, 10, 16}, width \in {-1, 4} :
       /\ \A padc \in {Space, 0}, end \in {<< >>, <<CharX>>, <<Space, 1>>} :
             Strtol(PrintSigned(num, base, width, padc) \o end, base) = num
       /\ Strtol(PrintSigned(-num, base, width, 0), base) = -num
       /\ \A prefix \in {<<8, <<0>>>>, <<10, << >>>>, <<16, <<0, CharX>>>>} :
             prefix[1] = base /\ (base = 10 => num > 0 /\ width < 0) =>
                Strtol(prefix[2] \o Printnum(num, base, width, 0), 0) = num

------------------------------------------------------------------------------
(* struct Argstate; a word is a sequence of characters, the null pointer is   *)
(* Null.  argv is the words from argv[1] on, arg what argnext() returns.      *)

Null == <<-1>>
Dash(w) == Len(w) > 1 /\ w[1] = Minus

ArgStart(argv) == [argv |-> argv, curarg |-> IF argv # << >> THEN << >> ELSE Null, arg |-> -1]
EndOfArgs(a) == [a EXCEPT !.curarg = Null, !.arg = -1]
Take(a) == [a EXCEPT !.arg = Head(a.curarg), !.curarg = Tail(@)]

ArgNext(a) ==
    IF a.curarg = Null THEN EndOfArgs(a)
    ELSE IF a.curarg # << >> THEN Take(a)
    ELSE IF a.argv = << >> \/ ~Dash(Head(a.argv)) THEN EndOfArgs(a)
    ELSE IF Head(a.argv) = <<Minus, Minus>> THEN EndOfArgs([a EXCEPT !.argv = Tail(@)])
    ELSE Take([a EXCEPT !.argv = Tail(@), !.curarg = Tail(Head(a.argv))])

\* The options, called until argnext() is negative, and what is left of argv.
AllArgs(argv) ==
    LET n == FoldLeft(LAMBDA k, w : k + Len(w) + 1, 1, argv)
        next(st) == LET a == ArgNext(st.a)
                    IN  [a |-> a, opts |-> IF a.arg = -1 THEN st.opts ELSE Append(st.opts, a.arg)]
        last == FoldLeft(LAMBDA st, i : next(st), [a |-> ArgStart(argv), opts |-> << >>], Upward(n))
    IN  [opts |-> last.opts, argv |-> last.a.argv, curarg |-> last.a.curarg]

\* The reference: the leading words with a dash and something behind it, up to
\* one that is "--".
Option(argv, i) == \A j \in 1 .. i : Dash(argv[j]) /\ argv[j] # <<Minus, Minus>>
Options(argv) == Cardinality({i \in DOMAIN argv : Option(argv, i)})
Words == {<<Minus>>, <<Minus, Minus>>, <<Minus, 13>>, <<Minus, 13, 18>>, <<Minus, Minus, 33>>, <<15>>, << >>}

\* argnext() gives every character of every option word once, in order, leaves
\* the other words as they were, and once at the end stays there.
ASSUME ArgNextTakesOptions ==
    \A argv \in UNION {[1 .. n -> Words] : n \in 0 .. 3} :
       LET k == Options(argv)
           rest == Drop(argv, k)
           all == AllArgs(argv)
       IN  /\ all.curarg = Null
           /\ all.opts = FoldLeft(LAMBDA s, w : s \o Tail(w), << >>, SubSeq(argv, 1, k))
           /\ all.argv = IF Starts(rest, <<Minus, Minus>>) THEN Tail(rest) ELSE rest

------------------------------------------------------------------------------
(* stab_binsearch() for the stabs of one type: a stab is its n_value, or      *)
(* Other when it has another type.                                            *)

Other == -1

Below(stabs, m, l) == LET those == {i \in l .. m : stabs[i] # Other}
                      IN  IF those = {} THEN l - 1 ELSE Max(those)

\* One round of the while loop.
Round(stabs, st) ==
    LET mid == (st.l + st.r) \div 2
        m == Below(stabs, mid, st.l)
    IN  IF st.l > st.r THEN st
        ELSE IF m < st.l THEN [st EXCEPT !.l = mid + 1]
        ELSE IF stabs[m] < st.addr THEN [st EXCEPT !.any = TRUE, !.left = m, !.l = mid + 1]
        ELSE IF stabs[m] > st.addr THEN [st EXCEPT !.any = TRUE, !.right = m - 1, !.r = m - 1]
        ELSE [st EXCEPT !.any = TRUE, !.left = m, !.l = m, !.addr = @ + 1]

\* The loop as often as it can go round, then region_left and region_right.
StabBinsearch(stabs, left, right, addr) ==
    LET st == FoldLeft(LAMBDA s, i : Round(stabs, s),
                       [l |-> left, r |-> right, any |-> FALSE, left |-> left, right |-> right,
                        addr |-> addr],
                       Upward(3 * (right - left + 2)))
        found == {i \in st.left + 1 .. st.right : stabs[i] # Other}
    IN  IF st.l <= st.r THEN << >>
        ELSE IF ~st.any THEN <<st.left, st.left - 1>>
        ELSE IF found # {} THEN <<Max(found), st.right>>
        ELSE <<IF st.right < st.left THEN st.right ELSE st.left, st.right>>

Sorted(stabs) == \A i, j \in DOMAIN stabs :
                    i < j /\ stabs[i] # Other /\ stabs[j] # Other => stabs[i] <= stabs[j]

\* The search ends, at the last stab that is not above addr and before the next
\* one.  When every stab is above addr it does not answer left > right, as the
\* comment at kern/kdebug.c:41 has it, but a region without a stab that
\* contains addr: from where the search began, or from just before that.
\* No two stabs of the type may be one byte apart: after an exact match the loop
\* goes on with addr + 1, and a stab there would be taken for a match as well.
ASSUME StabBinsearchFinds ==
    \A stabs \in {s \in [0 .. 4 -> {1, 3, 5, Other}] : Sorted(s)} : \A left \in 0 .. 4 :
       \A right \in left .. 4 : \A addr \in 0 .. 6 :
          LET those == {i \in left .. right : stabs[i] # Other}
              low == {i \in those : stabs[i] <= addr}
              above(i) == {j \in those : j > i}
          IN  StabBinsearch(stabs, left, right, addr) =
                 IF those = {} THEN <<left, left - 1>>
                 ELSE IF low = {}
                 THEN <<IF Min(those) = left THEN left - 1 ELSE left, Min(those) - 1>>
                 ELSE <<Max(low), IF above(Max(low)) = {} THEN right
                                  ELSE Min(above(Max(low))) - 1>>
=============================================================================
