--------------------------- MODULE ConsoleProofs ---------------------------
(***************************************************************************)
(* Proofs about Console: the ring, the decoding of keys and the screen,    *)
(* for rings, lines and screens of any size, any keys and any number of    *)
(* events.                                                                 *)
(*                                                                         *)
(* What an interrupt does is a fold over the bytes that wait.  FoldExists  *)
(* shows that the function a fold is defined by exists; with it each fold  *)
(* of Console is what a loop computes, one element after the other.        *)
(***************************************************************************)
EXTENDS Console, SequenceTheorems, WellFoundedInduction, TLAPS

------------------------------------------------------------------------------
(* Induction, from the least counterexample.                               *)
LEMMA NatMin == ASSUME NEW T, T \subseteq Nat, T # {} PROVE \E x \in T : \A y \in T : x <= y
<1> DEFINE R == OpToRel(<, Nat)
<1>1. PICK x \in T : \A y \in T : <<y, x>> \notin R
  BY NatLessThanWellFounded, WFMin
<1>2. \A y \in T : ~(y < x)
  BY <1>1 DEF OpToRel
<1> QED
  BY <1>2

\* What holds at the start of a loop and is kept by each pass holds at the end.
LEMMA Loop ==
    ASSUME NEW n \in Nat, NEW Good, 0 \in Good, \A i \in 1 .. n : i - 1 \in Good => i \in Good
    PROVE  0 .. n \subseteq Good
<1> DEFINE Bad == (0 .. n) \ Good
<1>1. SUFFICES ASSUME Bad # {} PROVE FALSE
  OBVIOUS
<1>2. PICK x \in Bad : \A y \in Bad : x <= y
  <2>1. Bad \subseteq Nat
    OBVIOUS
  <2> HIDE DEF Bad
  <2> QED
    BY <1>1, <2>1, NatMin
<1>3. x \in 1 .. n /\ x - 1 \in 0 .. n /\ x - 1 \notin Bad
  BY <1>2
<1> QED
  BY <1>2, <1>3

LEMMA MaxIn ==
    ASSUME NEW n \in Nat, NEW S \in SUBSET (1 .. n), S # {}
    PROVE  Max(S) \in S /\ \A y \in S : y <= Max(S)
<1> DEFINE Above == {k \in Nat : \A y \in S : y <= k}
<1>1. PICK m \in Above : \A k \in Above : m <= k
  <2>1. n \in Above
    OBVIOUS
  <2> QED
    BY <2>1, NatMin
<1>2. m \in S
  <2>1. SUFFICES ASSUME m \notin S PROVE FALSE
    OBVIOUS
  <2>2. \A y \in S : y <= m - 1 /\ m - 1 \in Nat
    BY <1>1, <2>1
  <2>3. m - 1 \in Above
    BY <1>1, <2>2
  <2> QED
    BY <1>1, <2>3
<1> QED
  BY <1>1, <1>2 DEF Max

LEMMA LastIsMax ==
    ASSUME NEW n \in Nat, NEW k \in 1 .. n, NEW S \in SUBSET (1 .. k), k \in S PROVE Max(S) = k
<1>1. S \in SUBSET (1 .. n) /\ S # {} /\ \A y \in S : y <= k /\ y \in Nat
  OBVIOUS
<1>2. Max(S) \in S /\ \A y \in S : y <= Max(S)
  BY <1>1, MaxIn
<1>3. Max(S) <= k /\ k <= Max(S) /\ Max(S) \in Nat
  BY <1>1, <1>2
<1> QED
  BY <1>3

------------------------------------------------------------------------------
(* A fold applies its operator to the elements of a sequence in order: the  *)
(* library defines it by a function on the sets of positions.               *)
\* The function of a fold from a over positions 1 .. n.
Folds(g, n, a, step) ==
    /\ g[{}] = a
    /\ \A t \in SUBSET (1 .. n) : t # {} => g[t] = step[<<g[t \ {Max(t)}], Max(t)>>]

LEMMA FoldExists ==
    ASSUME NEW A, NEW a \in A, NEW n \in Nat, NEW step \in [A \X (1 .. n) -> A]
    PROVE  \E g \in [SUBSET (1 .. n) -> A] : Folds(g, n, a, step)
<1> DEFINE Is(k, g) == \A t \in SUBSET (1 .. k) :
                          g[t] = IF t = {} THEN a ELSE step[<<g[t \ {Max(t)}], Max(t)>>]
           Good == {k \in 0 .. n : \E g \in [SUBSET (1 .. k) -> A] : Is(k, g)}
<1>1. 0 \in Good
  <2>1. SUBSET (1 .. 0) = {{}}
    OBVIOUS
  <2> DEFINE h == [t \in SUBSET (1 .. 0) |-> a]
  <2>2. h \in [SUBSET (1 .. 0) -> A] /\ Is(0, h)
    BY <2>1
  <2>3. 0 \in 0 .. n
    OBVIOUS
  <2> HIDE DEF h, Is
  <2> QED
    BY <2>2, <2>3
<1>2. ASSUME NEW k \in 1 .. n, k - 1 \in Good PROVE k \in Good
  <2>1. PICK g \in [SUBSET (1 .. k - 1) -> A] : Is(k - 1, g)
    BY <1>2
  <2> DEFINE h == [t \in SUBSET (1 .. k) |-> IF k \in t THEN step[<<g[t \ {k}], k>>] ELSE g[t]]
  <2>2. \A t \in SUBSET (1 .. k) : t \ {k} \in SUBSET (1 .. k - 1) /\ (k \notin t => t = t \ {k})
    OBVIOUS
  <2>3. h \in [SUBSET (1 .. k) -> A]
    BY <2>2
  <2>4. \A t \in SUBSET (1 .. k - 1) : t \in SUBSET (1 .. k) /\ h[t] = g[t]
    OBVIOUS
  <2>5. ASSUME NEW t \in SUBSET (1 .. k)
        PROVE  h[t] = IF t = {} THEN a ELSE step[<<h[t \ {Max(t)}], Max(t)>>]
    <3>1. CASE k \in t
      <4>1. Max(t) = k
        BY <3>1, LastIsMax
      <4>2. h[t \ {k}] = g[t \ {k}]
        BY <2>2, <2>4
      <4> QED
        BY <3>1, <4>1, <4>2
    <3>2. CASE k \notin t
      <4>1. t \in SUBSET (1 .. k - 1) /\ h[t] = g[t]
        BY <2>2, <2>4, <3>2
      <4>2. t \ {Max(t)} \in SUBSET (1 .. k - 1)
        BY <4>1
      <4>3. h[t \ {Max(t)}] = g[t \ {Max(t)}]
        BY <2>4, <4>2
      <4>4. g[t] = IF t = {} THEN a ELSE step[<<g[t \ {Max(t)}], Max(t)>>]
        BY <2>1, <4>1
      <4> QED
        BY <4>1, <4>3, <4>4
    <3> QED
      BY <3>1, <3>2
  <2>6. h \in [SUBSET (1 .. k) -> A] /\ Is(k, h)
    BY <2>3, <2>5
  <2> HIDE DEF h, Is
  <2> QED
    BY <2>6
<1> HIDE DEF Good
<1>3. n \in Good
  BY <1>1, <1>2, Loop
<1>4. PICK g \in [SUBSET (1 .. n) -> A] : Is(n, g)
  BY <1>3 DEF Good
<1>5. {} \in SUBSET (1 .. n)
  OBVIOUS
<1> QED
  BY <1>4, <1>5 DEF Folds

Flags == {"CTL", "SHIFT", "ALT", "CAPSLOCK", "E0ESC"}
Chars == SerialChars \cup {"a", "A", "d", "D", "soh", "eot", "nl", "cr", "bs", "KEY_DEL", "NO", " ", ">"}
Texts == Seq(Chars)
Bytes == 0 .. 255
Slots == 0 .. CONSBUFSIZE - 1
Cells == 0 .. CRT_SIZE - 1
Rings == [buf : [Slots -> Chars], rpos : Slots, wpos : Slots]
Decoded == [shift : SUBSET Flags, chars : Texts, reboot : BOOLEAN]
Screens == [buf : [Cells -> Chars], pos : Cells]

\* The elements of a sequence one by one.
LEMMA Intervals ==
    ASSUME NEW n \in Nat, NEW i \in 1 .. n
    PROVE  /\ 1 .. i \in SUBSET (1 .. n) /\ 1 .. i # {} /\ Max(1 .. i) = i
           /\ (1 .. i) \ {Max(1 .. i)} = 1 .. i - 1
<1>1. 1 .. i \in SUBSET (1 .. i) /\ i \in 1 .. i
  OBVIOUS
<1>2. Max(1 .. i) = i
  BY <1>1, LastIsMax
<1> QED
  BY <1>1, <1>2

LEMMA StashType == ASSUME NEW r \in Rings, NEW c \in Chars PROVE Stash(r, c) \in Rings
<1>1. (r.wpos + 1) % CONSBUFSIZE \in Slots
  BY SizesAssumption DEF Rings, Slots
<1> QED
  BY <1>1 DEF Stash, Rings

LEMMA StashLoop ==
    ASSUME NEW a \in Rings, NEW s \in Seq(Chars)
    PROVE  \E r \in [0 .. Len(s) -> Rings] :
              /\ r[0] = a /\ r[Len(s)] = FoldLeft(Stash, a, s)
              /\ \A i \in 1 .. Len(s) : r[i] = Stash(r[i - 1], s[i])
<1> DEFINE n == Len(s)
           Is(h) == h = [t \in SUBSET (1 .. n) |->
                           IF t = {} THEN a ELSE Stash(h[t \ {Max(t)}], s[Max(t)])]
           H == CHOOSE h : Is(h)
           r == [i \in 0 .. n |-> H[1 .. i]]
<1>1. n \in Nat /\ DOMAIN s = 1 .. n /\ \A i \in 1 .. n : s[i] \in Chars
  OBVIOUS
<1>2. Is(H)
  <2> DEFINE step == [p \in Rings \X (1 .. n) |-> Stash(p[1], s[p[2]])]
  <2>1. step \in [Rings \X (1 .. n) -> Rings]
    BY <1>1, StashType
  <2>2. \A x \in Rings, i \in 1 .. n : step[<<x, i>>] = Stash(x, s[i])
    OBVIOUS
  <2> HIDE DEF step, n
  <2>3. PICK g \in [SUBSET (1 .. n) -> Rings] :
           Folds(g, n, a, step)
    BY <1>1, <2>1, FoldExists
  <2>4. \A t \in SUBSET (1 .. n) : t # {} => Max(t) \in 1 .. n /\ g[t \ {Max(t)}] \in Rings
    BY <1>1, <2>3, MaxIn
  <2>5. \A t \in SUBSET (1 .. n) : g[t] = IF t = {} THEN a ELSE Stash(g[t \ {Max(t)}], s[Max(t)])
    BY <2>2, <2>3, <2>4 DEF Folds
  <2>6. Is(g)
    BY <2>3, <2>5
  <2> HIDE DEF Is
  <2> QED
    BY <2>6
<1>3. FoldLeft(Stash, a, s) = H[1 .. n]
  BY <1>1, Zenon DEF FoldLeft, MapThenFoldSet
<1> HIDE DEF H
<1>4. H[{}] = a /\ \A i \in 1 .. n : H[1 .. i] = Stash(H[1 .. i - 1], s[i])
  <2>1. \A t \in SUBSET (1 .. n) : H[t] = IF t = {} THEN a ELSE Stash(H[t \ {Max(t)}], s[Max(t)])
    BY <1>2
  <2> HIDE DEF n, Is
  <2>2. \A i \in 1 .. n : /\ 1 .. i \in SUBSET (1 .. n) /\ 1 .. i # {} /\ Max(1 .. i) = i
                        /\ (1 .. i) \ {Max(1 .. i)} = 1 .. i - 1
    BY <1>1, Intervals
  <2> QED
    BY <2>1, <2>2
<1>5. 1 .. 0 = {} /\ r[0] = H[1 .. 0] /\ r[n] = H[1 .. n]
  BY <1>1
<1>6. \A i \in 1 .. n : i - 1 \in 0 .. n /\ r[i] = H[1 .. i] /\ r[i - 1] = H[1 .. i - 1]
  BY <1>1
<1> HIDE DEF r
<1>7. r[0] = a /\ \A i \in 1 .. n : r[i] = Stash(r[i - 1], s[i])
  BY <1>4, <1>5, <1>6
<1> DEFINE Good == {i \in 0 .. n : r[i] \in Rings}
<1>8. 0 \in Good /\ \A i \in 1 .. n : i - 1 \in Good => i \in Good
  BY <1>1, <1>7, StashType
<1>9. 0 .. n \subseteq Good
  <2> HIDE DEF Good, n
  <2> QED
    BY <1>1, <1>8, Loop
<1>10. r \in [0 .. n -> Rings]
  BY <1>9 DEF r
<1> QED
  BY <1>3, <1>5, <1>7, <1>10

LEMMA KeepRealType == ASSUME NEW s \in Texts, NEW c \in Chars PROVE KeepReal(s, c) \in Texts
BY DEF KeepReal, Texts

LEMMA KeepRealLoop ==
    ASSUME NEW a \in Texts, NEW s \in Seq(Chars)
    PROVE  \E r \in [0 .. Len(s) -> Texts] :
              /\ r[0] = a /\ r[Len(s)] = FoldLeft(KeepReal, a, s)
              /\ \A i \in 1 .. Len(s) : r[i] = KeepReal(r[i - 1], s[i])
<1> DEFINE n == Len(s)
           Is(h) == h = [t \in SUBSET (1 .. n) |->
                           IF t = {} THEN a ELSE KeepReal(h[t \ {Max(t)}], s[Max(t)])]
           H == CHOOSE h : Is(h)
           r == [i \in 0 .. n |-> H[1 .. i]]
<1>1. n \in Nat /\ DOMAIN s = 1 .. n /\ \A i \in 1 .. n : s[i] \in Chars
  OBVIOUS
<1>2. Is(H)
  <2> DEFINE step == [p \in Texts \X (1 .. n) |-> KeepReal(p[1], s[p[2]])]
  <2>1. step \in [Texts \X (1 .. n) -> Texts]
    BY <1>1, KeepRealType
  <2>2. \A x \in Texts, i \in 1 .. n : step[<<x, i>>] = KeepReal(x, s[i])
    OBVIOUS
  <2> HIDE DEF step, n
  <2>3. PICK g \in [SUBSET (1 .. n) -> Texts] :
           Folds(g, n, a, step)
    BY <1>1, <2>1, FoldExists
  <2>4. \A t \in SUBSET (1 .. n) : t # {} => Max(t) \in 1 .. n /\ g[t \ {Max(t)}] \in Texts
    BY <1>1, <2>3, MaxIn
  <2>5. \A t \in SUBSET (1 .. n) : g[t] = IF t = {} THEN a ELSE KeepReal(g[t \ {Max(t)}], s[Max(t)])
    BY <2>2, <2>3, <2>4 DEF Folds
  <2>6. Is(g)
    BY <2>3, <2>5
  <2> HIDE DEF Is
  <2> QED
    BY <2>6
<1>3. FoldLeft(KeepReal, a, s) = H[1 .. n]
  BY <1>1, Zenon DEF FoldLeft, MapThenFoldSet
<1> HIDE DEF H
<1>4. H[{}] = a /\ \A i \in 1 .. n : H[1 .. i] = KeepReal(H[1 .. i - 1], s[i])
  <2>1. \A t \in SUBSET (1 .. n) : H[t] = IF t = {} THEN a ELSE KeepReal(H[t \ {Max(t)}], s[Max(t)])
    BY <1>2
  <2> HIDE DEF n, Is
  <2>2. \A i \in 1 .. n : /\ 1 .. i \in SUBSET (1 .. n) /\ 1 .. i # {} /\ Max(1 .. i) = i
                        /\ (1 .. i) \ {Max(1 .. i)} = 1 .. i - 1
    BY <1>1, Intervals
  <2> QED
    BY <2>1, <2>2
<1>5. 1 .. 0 = {} /\ r[0] = H[1 .. 0] /\ r[n] = H[1 .. n]
  BY <1>1
<1>6. \A i \in 1 .. n : i - 1 \in 0 .. n /\ r[i] = H[1 .. i] /\ r[i - 1] = H[1 .. i - 1]
  BY <1>1
<1> HIDE DEF r
<1>7. r[0] = a /\ \A i \in 1 .. n : r[i] = KeepReal(r[i - 1], s[i])
  BY <1>4, <1>5, <1>6
<1> DEFINE Good == {i \in 0 .. n : r[i] \in Texts}
<1>8. 0 \in Good /\ \A i \in 1 .. n : i - 1 \in Good => i \in Good
  BY <1>1, <1>7, KeepRealType
<1>9. 0 .. n \subseteq Good
  <2> HIDE DEF Good, n
  <2> QED
    BY <1>1, <1>8, Loop
<1>10. r \in [0 .. n -> Texts]
  BY <1>9 DEF r
<1> QED
  BY <1>3, <1>5, <1>7, <1>10

LEMMA KbdProcDataType ==
    ASSUME NEW f \in SUBSET Flags, NEW b \in Bytes
    PROVE  KbdProcData(f, b).shift \in SUBSET Flags /\ KbdProcData(f, b).c \in Chars
<1>1. \A d \in Int : ShiftCode(d) \subseteq Flags /\ ToggleCode(d) \subseteq Flags
  BY DEF ShiftCode, ToggleCode, Flags
<1>2. \A d \in Int, g \in SUBSET Flags : CharCode(g, d) \in Chars
  BY DEF CharCode, NormalMap, ShiftMap, CtlMap, Chars
<1>3. \A c \in Chars : Swapped(c) \in Chars
  BY DEF Swapped, Chars
<1>4. ASSUME NEW g \in SUBSET Flags, NEW d \in Int
      PROVE  Pressed(g, d).shift \in SUBSET Flags /\ Pressed(g, d).c \in Chars
  <2>1. SymDiff(g \cup ShiftCode(d), ToggleCode(d)) \in SUBSET Flags
    BY <1>1 DEF SymDiff
  <2> QED
    BY <1>2, <1>3, <2>1 DEF Pressed
<1>5. Released(f, b).shift \in SUBSET Flags /\ Released(f, b).c \in Chars
  BY DEF Released, Chars
<1>6. f \cup {"E0ESC"} \in SUBSET Flags /\ f \ {"E0ESC"} \in SUBSET Flags /\ b \in Int /\ b + 128 \in Int
      /\ "NO" \in Chars
  BY DEF Flags, Bytes, Chars
<1> QED
  BY <1>4, <1>5, <1>6 DEF KbdProcData

LEMMA DecodeByteType == ASSUME NEW st \in Decoded, NEW b \in Bytes PROVE DecodeByte(st, b) \in Decoded
<1>1. st.shift \in SUBSET Flags /\ st.chars \in Texts /\ st.reboot \in BOOLEAN
  BY DEF Decoded
<1>2. KbdProcData(st.shift, b).shift \in SUBSET Flags /\ KbdProcData(st.shift, b).c \in Chars
  BY <1>1, KbdProcDataType
<1>3. (st.reboot \/ Reboots(KbdProcData(st.shift, b))) \in BOOLEAN
  OBVIOUS
<1> QED
  BY <1>1, <1>2, <1>3 DEF DecodeByte, Decoded, Texts

LEMMA DecodeByteLoop ==
    ASSUME NEW a \in Decoded, NEW s \in Seq(Bytes)
    PROVE  \E r \in [0 .. Len(s) -> Decoded] :
              /\ r[0] = a /\ r[Len(s)] = FoldLeft(DecodeByte, a, s)
              /\ \A i \in 1 .. Len(s) : r[i] = DecodeByte(r[i - 1], s[i])
<1> DEFINE n == Len(s)
           Is(h) == h = [t \in SUBSET (1 .. n) |->
                           IF t = {} THEN a ELSE DecodeByte(h[t \ {Max(t)}], s[Max(t)])]
           H == CHOOSE h : Is(h)
           r == [i \in 0 .. n |-> H[1 .. i]]
<1>1. n \in Nat /\ DOMAIN s = 1 .. n /\ \A i \in 1 .. n : s[i] \in Bytes
  OBVIOUS
<1>2. Is(H)
  <2> DEFINE step == [p \in Decoded \X (1 .. n) |-> DecodeByte(p[1], s[p[2]])]
  <2>1. step \in [Decoded \X (1 .. n) -> Decoded]
    BY <1>1, DecodeByteType
  <2>2. \A x \in Decoded, i \in 1 .. n : step[<<x, i>>] = DecodeByte(x, s[i])
    OBVIOUS
  <2> HIDE DEF step, n
  <2>3. PICK g \in [SUBSET (1 .. n) -> Decoded] :
           Folds(g, n, a, step)
    BY <1>1, <2>1, FoldExists
  <2>4. \A t \in SUBSET (1 .. n) : t # {} => Max(t) \in 1 .. n /\ g[t \ {Max(t)}] \in Decoded
    BY <1>1, <2>3, MaxIn
  <2>5. \A t \in SUBSET (1 .. n) : g[t] = IF t = {} THEN a ELSE DecodeByte(g[t \ {Max(t)}], s[Max(t)])
    BY <2>2, <2>3, <2>4 DEF Folds
  <2>6. Is(g)
    BY <2>3, <2>5
  <2> HIDE DEF Is
  <2> QED
    BY <2>6
<1>3. FoldLeft(DecodeByte, a, s) = H[1 .. n]
  BY <1>1, Zenon DEF FoldLeft, MapThenFoldSet
<1> HIDE DEF H
<1>4. H[{}] = a /\ \A i \in 1 .. n : H[1 .. i] = DecodeByte(H[1 .. i - 1], s[i])
  <2>1. \A t \in SUBSET (1 .. n) : H[t] = IF t = {} THEN a ELSE DecodeByte(H[t \ {Max(t)}], s[Max(t)])
    BY <1>2
  <2> HIDE DEF n, Is
  <2>2. \A i \in 1 .. n : /\ 1 .. i \in SUBSET (1 .. n) /\ 1 .. i # {} /\ Max(1 .. i) = i
                        /\ (1 .. i) \ {Max(1 .. i)} = 1 .. i - 1
    BY <1>1, Intervals
  <2> QED
    BY <2>1, <2>2
<1>5. 1 .. 0 = {} /\ r[0] = H[1 .. 0] /\ r[n] = H[1 .. n]
  BY <1>1
<1>6. \A i \in 1 .. n : i - 1 \in 0 .. n /\ r[i] = H[1 .. i] /\ r[i - 1] = H[1 .. i - 1]
  BY <1>1
<1> HIDE DEF r
<1>7. r[0] = a /\ \A i \in 1 .. n : r[i] = DecodeByte(r[i - 1], s[i])
  BY <1>4, <1>5, <1>6
<1> DEFINE Good == {i \in 0 .. n : r[i] \in Decoded}
<1>8. 0 \in Good /\ \A i \in 1 .. n : i - 1 \in Good => i \in Good
  BY <1>1, <1>7, DecodeByteType
<1>9. 0 .. n \subseteq Good
  <2> HIDE DEF Good, n
  <2> QED
    BY <1>1, <1>8, Loop
<1>10. r \in [0 .. n -> Decoded]
  BY <1>9 DEF r
<1> QED
  BY <1>3, <1>5, <1>7, <1>10

LEMMA Division ==
    ASSUME NEW B \in Nat \ {0}, NEW a \in Int
    PROVE  a % B \in 0 .. B - 1 /\ a \div B \in Int /\ a = B * (a \div B) + (a % B)
OBVIOUS

LEMMA Multiples ==
    ASSUME NEW B \in Nat \ {0}, NEW k \in Int
    PROVE  (k <= 0 => B * k <= 0) /\ (k >= 1 => B * k >= B) /\ B * k \in Int
OBVIOUS

\* The next row starts on the screen or just behind it.
LEMMA NextRow ==
    ASSUME NEW p \in Cells
    PROVE  (p + CRT_COLS) - (p % CRT_COLS) \in p + 1 .. CRT_SIZE /\ p - (p % CRT_COLS) \in 0 .. p
<1> DEFINE q == CRT_SIZE \div CRT_COLS - p \div CRT_COLS
<1>1. /\ CRT_COLS \in Nat \ {0} /\ CRT_SIZE \in Nat /\ CRT_SIZE % CRT_COLS = 0
      /\ p \in Nat /\ p < CRT_SIZE
  BY SizesAssumption DEF Cells
<1>2. /\ p = CRT_COLS * (p \div CRT_COLS) + (p % CRT_COLS) /\ p % CRT_COLS \in 0 .. CRT_COLS - 1
      /\ CRT_SIZE = CRT_COLS * (CRT_SIZE \div CRT_COLS) /\ p \div CRT_COLS \in Int
      /\ CRT_SIZE \div CRT_COLS \in Int
  BY <1>1, Division
<1>3. CRT_COLS * (CRT_SIZE \div CRT_COLS) - CRT_COLS * (p \div CRT_COLS) = CRT_COLS * q
  BY <1>1, <1>2
<1>4. q \in Int
  BY <1>2
<1>5. CRT_SIZE - p = CRT_COLS * q - (p % CRT_COLS)
  BY <1>1, <1>2, <1>3, <1>4
<1> HIDE DEF q
<1>6. (q <= 0 => CRT_COLS * q <= 0) /\ (q >= 1 => CRT_COLS * q >= CRT_COLS) /\ CRT_COLS * q \in Int
  BY <1>1, <1>4, Multiples
<1>7. CRT_COLS * q >= CRT_COLS
  BY <1>1, <1>2, <1>4, <1>5, <1>6
<1>8. CRT_COLS * (p \div CRT_COLS) >= 0 /\ CRT_COLS * (p \div CRT_COLS) \in Int
  <2>1. p \div CRT_COLS >= 0
    BY <1>1
  <2> QED
    BY <1>1, <1>2, <2>1, Multiples
<1> QED
  BY <1>1, <1>2, <1>5, <1>6, <1>7, <1>8

LEMMA CellFacts ==
    /\ CRT_SIZE \in Nat /\ CRT_COLS \in Nat \ {0} /\ CRT_SIZE - CRT_COLS \in Cells
    /\ \A p \in Cells : /\ p \in Nat /\ p < CRT_SIZE /\ p \in 0 .. CRT_SIZE /\ p + 1 \in 0 .. CRT_SIZE
                        /\ p > 0 => p - 1 \in Cells
                        /\ p < CRT_SIZE - CRT_COLS => p + CRT_COLS \in Cells
    /\ \A p \in 0 .. CRT_SIZE : IF p < CRT_SIZE THEN p \in Cells ELSE p = CRT_SIZE
BY SizesAssumption DEF Cells

LEMMA PlaceType ==
    ASSUME NEW s \in Screens, NEW c \in Chars
    PROVE  Place(s, c) \in [buf : [Cells -> Chars], pos : 0 .. CRT_SIZE]
<1>1. s.pos \in Cells /\ s.buf \in [Cells -> Chars] /\ " " \in Chars
  BY DEF Screens, Chars
<1>2. /\ (s.pos + CRT_COLS) - (s.pos % CRT_COLS) \in s.pos + 1 .. CRT_SIZE
      /\ s.pos - (s.pos % CRT_COLS) \in 0 .. s.pos
  BY <1>1, NextRow
<1>3. /\ CRT_SIZE \in Nat /\ s.pos \in Nat /\ s.pos < CRT_SIZE /\ s.pos \in 0 .. CRT_SIZE
      /\ s.pos + 1 \in 0 .. CRT_SIZE /\ (s.pos > 0 => s.pos - 1 \in Cells)
  BY <1>1, CellFacts
<1>4. /\ (s.pos + CRT_COLS) - (s.pos % CRT_COLS) \in 0 .. CRT_SIZE
      /\ s.pos - (s.pos % CRT_COLS) \in 0 .. CRT_SIZE
      /\ (s.pos > 0 => s.pos - 1 \in 0 .. CRT_SIZE)
  BY <1>2, <1>3
<1>5. s = [buf |-> s.buf, pos |-> s.pos]
  BY DEF Screens
<1>6. \A p \in Cells, d \in Chars : [s.buf EXCEPT ![p] = d] \in [Cells -> Chars]
  BY <1>1
<1> QED
  BY <1>1, <1>3, <1>4, <1>5, <1>6 DEF Place

LEMMA CgaPutcType == ASSUME NEW s \in Screens, NEW c \in Chars PROVE CgaPutc(s, c) \in Screens
<1> DEFINE t == Place(s, c)
           rows == [n \in DOMAIN t.buf |-> IF n < CRT_SIZE - CRT_COLS THEN t.buf[n + CRT_COLS] ELSE " "]
<1>1. t.buf \in [Cells -> Chars] /\ t.pos \in 0 .. CRT_SIZE /\ t = [buf |-> t.buf, pos |-> t.pos]
  BY PlaceType
<1> HIDE DEF t
<1>2. ASSUME t.pos < CRT_SIZE PROVE Scroll(t) \in Screens
  <2>1. t.pos \in Cells
    BY <1>1, <1>2, CellFacts
  <2> QED
    BY <1>1, <1>2, <2>1 DEF Scroll, Screens
<1>3. ASSUME ~(t.pos < CRT_SIZE) PROVE Scroll(t) \in Screens
  <2>1. t.pos - CRT_COLS \in Cells
    BY <1>1, <1>3, CellFacts
  <2>2. rows \in [Cells -> Chars]
    <3>1. " " \in Chars
      BY DEF Chars
    <3>2. \A n \in Cells : n < CRT_SIZE - CRT_COLS => t.buf[n + CRT_COLS] \in Chars
      BY <1>1, CellFacts
    <3> QED
      BY <1>1, <3>1, <3>2
  <2>3. Scroll(t) = [buf |-> rows, pos |-> t.pos - CRT_COLS]
    BY <1>3 DEF Scroll
  <2> HIDE DEF rows
  <2> QED
    BY <2>1, <2>2, <2>3 DEF Screens
<1> QED
  BY <1>2, <1>3 DEF CgaPutc, t

LEMMA CgaPutcLoop ==
    ASSUME NEW a \in Screens, NEW s \in Seq(Chars)
    PROVE  \E r \in [0 .. Len(s) -> Screens] :
              /\ r[0] = a /\ r[Len(s)] = FoldLeft(CgaPutc, a, s)
              /\ \A i \in 1 .. Len(s) : r[i] = CgaPutc(r[i - 1], s[i])
<1> DEFINE n == Len(s)
           Is(h) == h = [t \in SUBSET (1 .. n) |->
                           IF t = {} THEN a ELSE CgaPutc(h[t \ {Max(t)}], s[Max(t)])]
           H == CHOOSE h : Is(h)
           r == [i \in 0 .. n |-> H[1 .. i]]
<1>1. n \in Nat /\ DOMAIN s = 1 .. n /\ \A i \in 1 .. n : s[i] \in Chars
  OBVIOUS
<1>2. Is(H)
  <2> DEFINE step == [p \in Screens \X (1 .. n) |-> CgaPutc(p[1], s[p[2]])]
  <2>1. step \in [Screens \X (1 .. n) -> Screens]
    BY <1>1, CgaPutcType
  <2>2. \A x \in Screens, i \in 1 .. n : step[<<x, i>>] = CgaPutc(x, s[i])
    OBVIOUS
  <2> HIDE DEF step, n
  <2>3. PICK g \in [SUBSET (1 .. n) -> Screens] :
           Folds(g, n, a, step)
    BY <1>1, <2>1, FoldExists
  <2>4. \A t \in SUBSET (1 .. n) : t # {} => Max(t) \in 1 .. n /\ g[t \ {Max(t)}] \in Screens
    BY <1>1, <2>3, MaxIn
  <2>5. \A t \in SUBSET (1 .. n) : g[t] = IF t = {} THEN a ELSE CgaPutc(g[t \ {Max(t)}], s[Max(t)])
    BY <2>2, <2>3, <2>4 DEF Folds
  <2>6. Is(g)
    BY <2>3, <2>5
  <2> HIDE DEF Is
  <2> QED
    BY <2>6
<1>3. FoldLeft(CgaPutc, a, s) = H[1 .. n]
  BY <1>1, Zenon DEF FoldLeft, MapThenFoldSet
<1> HIDE DEF H
<1>4. H[{}] = a /\ \A i \in 1 .. n : H[1 .. i] = CgaPutc(H[1 .. i - 1], s[i])
  <2>1. \A t \in SUBSET (1 .. n) : H[t] = IF t = {} THEN a ELSE CgaPutc(H[t \ {Max(t)}], s[Max(t)])
    BY <1>2
  <2> HIDE DEF n, Is
  <2>2. \A i \in 1 .. n : /\ 1 .. i \in SUBSET (1 .. n) /\ 1 .. i # {} /\ Max(1 .. i) = i
                        /\ (1 .. i) \ {Max(1 .. i)} = 1 .. i - 1
    BY <1>1, Intervals
  <2> QED
    BY <2>1, <2>2
<1>5. 1 .. 0 = {} /\ r[0] = H[1 .. 0] /\ r[n] = H[1 .. n]
  BY <1>1
<1>6. \A i \in 1 .. n : i - 1 \in 0 .. n /\ r[i] = H[1 .. i] /\ r[i - 1] = H[1 .. i - 1]
  BY <1>1
<1> HIDE DEF r
<1>7. r[0] = a /\ \A i \in 1 .. n : r[i] = CgaPutc(r[i - 1], s[i])
  BY <1>4, <1>5, <1>6
<1> DEFINE Good == {i \in 0 .. n : r[i] \in Screens}
<1>8. 0 \in Good /\ \A i \in 1 .. n : i - 1 \in Good => i \in Good
  BY <1>1, <1>7, CgaPutcType
<1>9. 0 .. n \subseteq Good
  <2> HIDE DEF Good, n
  <2> QED
    BY <1>1, <1>8, Loop
<1>10. r \in [0 .. n -> Screens]
  BY <1>9 DEF r
<1> QED
  BY <1>3, <1>5, <1>7, <1>10

------------------------------------------------------------------------------
(* Folds over a sequence and one more element.                              *)
LEMMA RealFacts ==
    /\ Real(<<>>) = <<>>
    /\ \A s \in Texts : Real(s) \in Texts
<1>1. <<>> \in Texts
  BY DEF Texts
<1>2. ASSUME NEW s \in Texts PROVE Real(s) \in Texts /\ (s = <<>> => Real(s) = <<>>)
  <2>1. s \in Seq(Chars) /\ Len(s) \in Nat
    BY DEF Texts
  <2>2. PICK r \in [0 .. Len(s) -> Texts] : r[0] = <<>> /\ r[Len(s)] = FoldLeft(KeepReal, <<>>, s)
    BY <1>1, <2>1, KeepRealLoop
  <2> QED
    BY <2>1, <2>2 DEF Real
<1> QED
  BY <1>1, <1>2

LEMMA RealAppend ==
    ASSUME NEW s \in Texts, NEW c \in Chars PROVE Real(Append(s, c)) = KeepReal(Real(s), c)
<1> DEFINE n == Len(s)
           z == Append(s, c)
<1>1. /\ s \in Seq(Chars) /\ z \in Seq(Chars) /\ n \in Nat /\ Len(z) = n + 1 /\ z[n + 1] = c
      /\ \A i \in 1 .. n : z[i] = s[i]
  BY DEF Texts
<1>2. <<>> \in Texts
  BY DEF Texts
<1>3. PICK r \in [0 .. n -> Texts] : /\ r[0] = <<>> /\ r[n] = FoldLeft(KeepReal, <<>>, s)
                                     /\ \A i \in 1 .. n : r[i] = KeepReal(r[i - 1], s[i])
  BY <1>1, <1>2, KeepRealLoop
<1> HIDE DEF z, n
<1>4. PICK x \in [0 .. Len(z) -> Texts] :
         /\ x[0] = <<>> /\ x[Len(z)] = FoldLeft(KeepReal, <<>>, z)
         /\ \A i \in 1 .. Len(z) : x[i] = KeepReal(x[i - 1], z[i])
  BY <1>1, <1>2, KeepRealLoop
<1> DEFINE Good == {i \in 0 .. n : x[i] = r[i]}
<1>5. 0 \in Good /\ \A i \in 1 .. n : i - 1 \in Good => i \in Good
  BY <1>1, <1>3, <1>4
<1>6. n \in Good
  <2> HIDE DEF Good
  <2> QED
    BY <1>1, <1>5, Loop
<1>7. x[n + 1] = KeepReal(x[n], c)
  <2>1. n + 1 \in 1 .. Len(z) /\ (n + 1) - 1 = n
    BY <1>1
  <2> QED
    BY <1>1, <1>4, <2>1
<1> QED
  BY <1>1, <1>3, <1>4, <1>6, <1>7 DEF Real, z

Start(f) == [shift |-> f, chars |-> <<>>, reboot |-> FALSE]

LEMMA DecodeFacts ==
    ASSUME NEW f \in SUBSET Flags
    PROVE  /\ Start(f) \in Decoded /\ Decode(f, <<>>) = Start(f)
           /\ \A s \in Seq(Bytes) : Decode(f, s) \in Decoded
<1>1. Start(f) \in Decoded /\ <<>> \in Seq(Bytes)
  BY DEF Start, Decoded, Texts
<1>2. ASSUME NEW s \in Seq(Bytes) PROVE Decode(f, s) \in Decoded /\ (s = <<>> => Decode(f, s) = Start(f))
  <2>1. Len(s) \in Nat
    OBVIOUS
  <2>2. PICK r \in [0 .. Len(s) -> Decoded] : r[0] = Start(f) /\ r[Len(s)] = FoldLeft(DecodeByte, Start(f), s)
    BY <1>1, DecodeByteLoop
  <2>3. Decode(f, s) = FoldLeft(DecodeByte, Start(f), s)
    BY DEF Decode, Start
  <2> QED
    BY <2>1, <2>2, <2>3
<1> QED
  BY <1>1, <1>2

LEMMA DecodeAppend ==
    ASSUME NEW f \in SUBSET Flags, NEW s \in Seq(Bytes), NEW b \in Bytes
    PROVE  Decode(f, Append(s, b)) = DecodeByte(Decode(f, s), b)
<1> DEFINE n == Len(s)
           z == Append(s, b)
           a == Start(f)
<1>1. /\ z \in Seq(Bytes) /\ n \in Nat /\ Len(z) = n + 1 /\ z[n + 1] = b
      /\ \A i \in 1 .. n : z[i] = s[i]
  OBVIOUS
<1>2. a \in Decoded
  BY DecodeFacts
<1> HIDE DEF a
<1>3. PICK r \in [0 .. n -> Decoded] : /\ r[0] = a /\ r[n] = FoldLeft(DecodeByte, a, s)
                                       /\ \A i \in 1 .. n : r[i] = DecodeByte(r[i - 1], s[i])
  BY <1>1, <1>2, DecodeByteLoop
<1> HIDE DEF z, n
<1>4. PICK x \in [0 .. Len(z) -> Decoded] :
         /\ x[0] = a /\ x[Len(z)] = FoldLeft(DecodeByte, a, z)
         /\ \A i \in 1 .. Len(z) : x[i] = DecodeByte(x[i - 1], z[i])
  BY <1>1, <1>2, DecodeByteLoop
<1> DEFINE Good == {i \in 0 .. n : x[i] = r[i]}
<1>5. 0 \in Good /\ \A i \in 1 .. n : i - 1 \in Good => i \in Good
  <2>1. \A i \in 1 .. n : i \in 1 .. Len(z) /\ i \in 0 .. n /\ z[i] = s[i]
    BY <1>1
  <2>2. \A i \in 1 .. n : x[i] = DecodeByte(x[i - 1], s[i]) /\ r[i] = DecodeByte(r[i - 1], s[i])
    BY <1>3, <1>4, <2>1
  <2>3. x[0] = r[0] /\ 0 \in 0 .. n
    BY <1>1, <1>3, <1>4
  <2> QED
    BY <2>1, <2>2, <2>3
<1>6. n \in Good
  <2> HIDE DEF Good
  <2> QED
    BY <1>1, <1>5, Loop
<1>7. x[n + 1] = DecodeByte(x[n], b)
  <2>1. n + 1 \in 1 .. Len(z) /\ (n + 1) - 1 = n
    BY <1>1
  <2> QED
    BY <1>1, <1>4, <2>1
<1> QED
  BY <1>1, <1>3, <1>4, <1>6, <1>7 DEF Decode, Start, a, z

------------------------------------------------------------------------------
(* Arithmetic modulo the size of the ring.                                  *)
LEMMA SameRemainder ==
    ASSUME NEW B \in Nat \ {0}, NEW a \in 0 .. B - 1, NEW b \in 0 .. B - 1, NEW m \in Int, b - a = B * m
    PROVE  b = a
<1>1. B * (-m) = -(B * m) /\ -m \in Int
  OBVIOUS
<1>2. (m >= 1 => B * m >= B) /\ (-m >= 1 => B * (-m) >= B) /\ (m = 0 => B * m = 0) /\ B * m \in Int
  BY <1>1, Multiples
<1>3. m = 0
  BY <1>1, <1>2
<1> QED
  BY <1>2, <1>3

LEMMA SameClass ==
    ASSUME NEW B \in Nat \ {0}, NEW a \in 0 .. B - 1, NEW b \in 0 .. B - 1,
           NEW p \in Int, NEW q \in Int, NEW k \in Int, B * q + b = (B * p + a) + B * k
    PROVE  b = a
<1>1. B * (k - q + p) = B * k - B * q + B * p /\ k - q + p \in Int
  OBVIOUS
<1>2. b - a = B * (k - q + p)
  BY <1>1
<1> QED
  BY <1>1, <1>2, SameRemainder

LEMMA ModShift ==
    ASSUME NEW B \in Nat \ {0}, NEW x \in Int, NEW k \in Int PROVE (x + B * k) % B = x % B
<1>1. \A y \in Int : /\ y = B * (y \div B) + (y % B) /\ y % B \in 0 .. B - 1 /\ y \div B \in Int
  BY Division
<1>2. x + B * k \in Int
  OBVIOUS
<1>3. \A y \in Int : y = x + B * k => B * (y \div B) + (y % B) = (B * (x \div B) + (x % B)) + B * k
  BY <1>1, Zenon
<1>4. ASSUME NEW y \in Int, y = x + B * k PROVE y % B = x % B
  <2>1. B * (y \div B) + (y % B) = (B * (x \div B) + (x % B)) + B * k
    BY <1>3, <1>4
  <2>2. /\ x % B \in 0 .. B - 1 /\ x \div B \in Int /\ y % B \in 0 .. B - 1 /\ y \div B \in Int
    BY <1>1
  <2> QED
    BY <2>1, <2>2, SameClass
<1> QED
  BY <1>2, <1>4, Zenon

LEMMA ModNext == ASSUME NEW B \in Nat \ {0}, NEW x \in Nat PROVE ((x % B) + 1) % B = (x + 1) % B
<1>1. x = B * (x \div B) + (x % B) /\ x % B \in 0 .. B - 1 /\ x \div B \in Int
  BY Division
<1>2. B * (-(x \div B)) = -(B * (x \div B)) /\ B * (x \div B) \in Int
  BY <1>1
<1>3. (x % B) + 1 = (x + 1) + B * (-(x \div B))
  BY <1>1, <1>2
<1>4. x + 1 \in Int /\ -(x \div B) \in Int
  BY <1>1
<1> QED
  BY <1>3, <1>4, ModShift

LEMMA SlotsDiffer ==
    ASSUME NEW B \in Nat \ {0}, NEW a \in Nat, NEW b \in Nat, a < b, b < a + B PROVE a % B # b % B
<1> SUFFICES ASSUME a % B = b % B PROVE FALSE
  OBVIOUS
<1> DEFINE q == b \div B - a \div B
<1>1. /\ b = B * (b \div B) + (b % B) /\ a = B * (a \div B) + (a % B)
      /\ a \div B \in Int /\ b \div B \in Int /\ a % B \in Int
  BY Division
<1>2. B * q = B * (b \div B) - B * (a \div B) /\ q \in Int
  BY <1>1
<1>3. b - a = B * q
  BY <1>1, <1>2
<1> HIDE DEF q
<1>4. (q <= 0 => B * q <= 0) /\ (q >= 1 => B * q >= B)
  BY <1>2, Multiples
<1> QED
  BY <1>2, <1>3, <1>4

------------------------------------------------------------------------------
(* The ring holds the characters of G at the last of the positions up to w,   *)
(* as many as it has room for.                                                *)
RingHolds(ring, G, w) ==
    /\ ring.wpos = w % CONSBUFSIZE
    /\ \A k \in 1 .. w : k > w - CONSBUFSIZE => ring.buf[(k - 1) % CONSBUFSIZE] = G[k]

LEMMA StashHolds ==
    ASSUME NEW ring \in Rings, NEW G \in Texts, NEW w \in 0 .. Len(G) - 1, RingHolds(ring, G, w)
    PROVE  RingHolds(Stash(ring, G[w + 1]), G, w + 1) /\ Stash(ring, G[w + 1]).rpos = ring.rpos
<1> DEFINE r == Stash(ring, G[w + 1])
<1>1. CONSBUFSIZE \in Nat \ {0} /\ w \in Nat
  <2>1. Len(G) \in Nat
    BY DEF Texts
  <2> QED
    BY <2>1, SizesAssumption
<1>2. r = [buf |-> [ring.buf EXCEPT ![ring.wpos] = G[w + 1]], rpos |-> ring.rpos,
           wpos |-> (ring.wpos + 1) % CONSBUFSIZE]
  BY DEF Stash
<1>3. ring.buf \in [Slots -> Chars] /\ ring.wpos = w % CONSBUFSIZE /\ ring.wpos \in Slots
  BY DEF Rings, RingHolds
<1> HIDE DEF r
<1>4. r.wpos = (w + 1) % CONSBUFSIZE
  BY <1>1, <1>2, <1>3, ModNext
<1>5. ASSUME NEW k \in 1 .. w + 1, k > (w + 1) - CONSBUFSIZE
      PROVE  r.buf[(k - 1) % CONSBUFSIZE] = G[k]
  <2>1. CASE k = w + 1
    <3>1. k - 1 = w
      BY <1>1, <2>1
    <3> QED
      BY <1>2, <1>3, <2>1, <3>1
  <2>2. CASE k # w + 1
    <3>1. /\ k \in 1 .. w /\ k > w - CONSBUFSIZE /\ k - 1 \in Nat /\ k - 1 < w
          /\ w < (k - 1) + CONSBUFSIZE
      BY <1>1, <1>5, <2>2
    <3>2. (k - 1) % CONSBUFSIZE # w % CONSBUFSIZE
      BY <1>1, <3>1, SlotsDiffer
    <3>3. (k - 1) % CONSBUFSIZE \in Slots
      BY <1>1, <3>1 DEF Slots
    <3>4. ring.buf[(k - 1) % CONSBUFSIZE] = G[k]
      BY <3>1 DEF RingHolds
    <3> QED
      BY <1>2, <1>3, <3>2, <3>3, <3>4
  <2> QED
    BY <2>1, <2>2
<1> QED
  BY <1>2, <1>4, <1>5 DEF RingHolds, r

LEMMA ConsIntrHolds ==
    ASSUME NEW ring \in Rings, NEW F \in Texts, NEW chars \in Texts, RingHolds(ring, F, Len(F))
    PROVE  /\ RingHolds(ConsIntr(ring, chars), F \o Real(chars), Len(F \o Real(chars)))
           /\ ConsIntr(ring, chars).rpos = ring.rpos /\ ConsIntr(ring, chars) \in Rings
           /\ F \o Real(chars) \in Texts /\ Len(F \o Real(chars)) >= Len(F)
<1> DEFINE R == Real(chars)
           G == F \o R
           m == Len(F)
           n == Len(R)
<1>1. R \in Seq(Chars) /\ F \in Seq(Chars) /\ R \in Texts
  BY RealFacts DEF Texts
<1> HIDE DEF R
<1>2. /\ m \in Nat /\ n \in Nat /\ Len(G) = m + n /\ G \in Texts
      /\ \A i \in 1 .. m : G[i] = F[i]
      /\ \A i \in 1 .. n : G[m + i] = R[i]
  BY <1>1 DEF Texts
<1>3. PICK r \in [0 .. n -> Rings] : /\ r[0] = ring /\ r[n] = FoldLeft(Stash, ring, R)
                                     /\ \A i \in 1 .. n : r[i] = Stash(r[i - 1], R[i])
  BY <1>1, StashLoop
<1> HIDE DEF G, m, n
<1> DEFINE Good == {i \in 0 .. n : RingHolds(r[i], G, m + i) /\ r[i].rpos = ring.rpos}
<1>4. 0 \in Good
  <2>1. RingHolds(ring, F, m)
    BY DEF m
  <2>2. RingHolds(ring, G, m)
    BY <1>2, <2>1 DEF RingHolds
  <2>3. m + 0 = m /\ 0 \in 0 .. n
    BY <1>2
  <2> QED
    BY <1>3, <2>2, <2>3
<1>5. ASSUME NEW i \in 1 .. n, i - 1 \in Good PROVE i \in Good
  <2>1. RingHolds(r[i - 1], G, m + (i - 1)) /\ r[i - 1].rpos = ring.rpos
    BY <1>5
  <2>2. /\ m + (i - 1) \in 0 .. Len(G) - 1 /\ (m + (i - 1)) + 1 = m + i /\ i - 1 \in 0 .. n
        /\ i \in 0 .. n
    BY <1>2
  <2>3. r[i - 1] \in Rings /\ r[i] = Stash(r[i - 1], G[m + i])
    BY <1>2, <1>3, <2>2
  <2>4. RingHolds(Stash(r[i - 1], G[m + i]), G, m + i) /\ Stash(r[i - 1], G[m + i]).rpos = r[i - 1].rpos
    <3> DEFINE w == m + (i - 1)
    <3>1. w + 1 = m + i /\ w \in 0 .. Len(G) - 1 /\ RingHolds(r[i - 1], G, w)
      BY <2>1, <2>2
    <3> HIDE DEF w
    <3>2. RingHolds(Stash(r[i - 1], G[w + 1]), G, w + 1) /\ Stash(r[i - 1], G[w + 1]).rpos = r[i - 1].rpos
      BY <1>2, <2>3, <3>1, StashHolds
    <3> QED
      BY <3>1, <3>2
  <2> QED
    BY <2>1, <2>2, <2>3, <2>4
<1>6. n \in Good
  <2>1. \A i \in 1 .. n : i - 1 \in Good => i \in Good
    BY <1>5
  <2> HIDE DEF Good
  <2>2. 0 .. n \subseteq Good
    BY <1>2, <1>4, <2>1, Loop
  <2> QED
    BY <1>2, <2>2
<1>7. ConsIntr(ring, chars) = r[n] /\ r[n] \in Rings
  BY <1>2, <1>3 DEF ConsIntr, R
<1> QED
  BY <1>2, <1>6, <1>7 DEF G, R, m

(* The positions of the ring count the characters fed and taken.              *)
RingInv ==
    /\ RingHolds(cons, fed, Len(fed))
    /\ taken \in 0 .. Len(fed) /\ cons.rpos = taken % CONSBUFSIZE

LEMMA RingInvSuffices == ASSUME RingInv, fed \in Texts PROVE RingIsNewest
<1> DEFINE C == CONSBUFSIZE
           f == Len(fed)
           pending == (cons.wpos - cons.rpos + C) % C
<1>1. C \in Nat \ {0} /\ f \in Nat /\ taken \in Nat /\ taken <= f /\ f - taken \in Nat
  BY SizesAssumption DEF RingInv, Texts
<1>2. cons.wpos = f % C /\ cons.rpos = taken % C
      /\ \A k \in 1 .. f : k > f - C => cons.buf[(k - 1) % C] = fed[k]
  BY DEF RingInv, RingHolds
<1> HIDE DEF C, f
<1> DEFINE q == f \div C
           t == taken \div C
           j == (f - taken) \div C
<1>3. /\ f = C * q + cons.wpos /\ cons.wpos \in 0 .. C - 1 /\ q \in Int
      /\ taken = C * t + cons.rpos /\ cons.rpos \in 0 .. C - 1 /\ t \in Int
      /\ f - taken = C * j + ((f - taken) % C) /\ (f - taken) % C \in 0 .. C - 1 /\ j \in Int /\ j >= 0
  <2>1. \A a \in Nat : /\ a = C * (a \div C) + (a % C) /\ a % C \in 0 .. C - 1 /\ a \div C \in Int
                      /\ a \div C >= 0
    <3> TAKE a \in Nat
    <3>1. /\ a = C * (a \div C) + (a % C) /\ a % C \in 0 .. C - 1 /\ a \div C \in Int
      BY <1>1, Division
    <3>2. a \div C >= 0
      BY <1>1
    <3> QED
      BY <3>1, <3>2
  <2> QED
    BY <1>1, <1>2, <2>1, Zenon
<1> HIDE DEF q, t, j
<1>4. pending = (f - taken) % C
  <2>1. C * (1 - q + t) = C - C * q + C * t /\ 1 - q + t \in Int /\ C * q \in Int /\ C * t \in Int
    BY <1>1, <1>3
  <2>2. cons.wpos - cons.rpos + C = (f - taken) + C * (1 - q + t)
    BY <1>1, <1>3, <2>1
  <2>3. ((f - taken) + C * (1 - q + t)) % C = (f - taken) % C
    <3>1. \A x, k \in Int : (x + C * k) % C = x % C
      BY <1>1, ModShift
    <3>2. f - taken \in Int
      BY <1>1
    <3> QED
      BY <2>1, <3>1, <3>2, Zenon
  <2> QED
    BY <2>2, <2>3, Zenon
<1> HIDE DEF pending
<1>5. ASSUME NEW n \in 1 .. pending PROVE cons.buf[(cons.rpos + n - 1) % C] = fed[f - pending + n]
  <2> DEFINE k == f - pending + n
  <2>1. C * j >= 0 /\ C * j \in Int /\ C * t \in Int
    BY <1>1, <1>3
  <2>2. pending \in 0 .. C - 1 /\ pending <= f
    BY <1>1, <1>3, <1>4, <2>1
  <2>3. k \in 1 .. f /\ k > f - C
    BY <1>1, <2>2
  <2>4. C * (t + j) = C * t + C * j /\ t + j \in Int
    BY <1>1, <1>3
  <2>5. k - 1 = (cons.rpos + n - 1) + C * (t + j)
    BY <1>1, <1>3, <1>4, <2>1, <2>2, <2>4
  <2>6. cons.rpos + n - 1 \in Int
    BY <1>3, <2>2
  <2> HIDE DEF k
  <2>7. (k - 1) % C = (cons.rpos + n - 1) % C
    BY <1>1, <2>4, <2>5, <2>6, ModShift
  <2>8. cons.buf[(k - 1) % C] = fed[k]
    BY <1>2, <2>3
  <2> QED
    BY <2>7, <2>8 DEF k
<1> QED
  BY <1>4, <1>5 DEF RingIsNewest, pending, C, f

------------------------------------------------------------------------------
(* The bytes of a key, decoded where no E0 waits.                             *)
Mods == {"CTL", "SHIFT", "ALT", "CAPSLOCK"}

LEMMA CodeTable ==
    ASSUME NEW k \in Keys
    PROVE  \/ k = "a" /\ Code(k) = 30
           \/ k = "d" /\ Code(k) = 32
           \/ k \in {"enter", "kpenter"} /\ Code(k) = 28
           \/ k = "backspace" /\ Code(k) = 14
           \/ k \in {"lctl", "rctl"} /\ Code(k) = 29
           \/ k = "lshift" /\ Code(k) = 42
           \/ k = "rshift" /\ Code(k) = 54
           \/ k \in {"lalt", "ralt"} /\ Code(k) = 56
           \/ k = "caps" /\ Code(k) = 58
           \/ k = "delete" /\ Code(k) = 83
<1>1. k \in {"a", "d", "enter", "kpenter", "backspace", "lctl", "rctl", "lshift", "rshift",
             "lalt", "ralt", "caps", "delete"}
  BY DevicesAssumption
<1> QED
  BY <1>1 DEF Code

\* kbd_proc_data() adds 128 to the code of a key with an E0 before.
Data(k) == IF Extended(k) THEN Code(k) + 128 ELSE Code(k)

LEMMA DataTable ==
    ASSUME NEW k \in Keys
    PROVE  /\ \/ k = "a" /\ Data(k) = 30
              \/ k = "d" /\ Data(k) = 32
              \/ k = "enter" /\ Data(k) = 28
              \/ k = "kpenter" /\ Data(k) = 156
              \/ k = "backspace" /\ Data(k) = 14
              \/ k = "lctl" /\ Data(k) = 29
              \/ k = "rctl" /\ Data(k) = 157
              \/ k = "lshift" /\ Data(k) = 42
              \/ k = "rshift" /\ Data(k) = 54
              \/ k = "lalt" /\ Data(k) = 56
              \/ k = "ralt" /\ Data(k) = 184
              \/ k = "caps" /\ Data(k) = 58
              \/ k = "delete" /\ Data(k) = 211
           /\ Code(k) \in 14 .. 83 /\ Data(k) \in Nat
BY CodeTable DEF Data, Extended

LEMMA ModifierIs ==
    ASSUME NEW k \in Keys
    PROVE  /\ Modifier(k) = ShiftCode(Data(k)) /\ Modifier(k) \subseteq Mods
           /\ ToggleCode(Data(k)) = IF k = "caps" THEN {"CAPSLOCK"} ELSE {}
           /\ k = "caps" => Modifier(k) = {}
<1>1. ToggleCode(Data(k)) = IF k = "caps" THEN {"CAPSLOCK"} ELSE {}
  BY DataTable DEF ToggleCode
<1>2. Modifier(k) = ShiftCode(Data(k))
  BY DataTable DEF Modifier, ShiftCode
<1>3. Modifier(k) \subseteq Mods /\ (k = "caps" => Modifier(k) = {})
  BY DEF Modifier, Mods
<1> QED
  BY <1>1, <1>2, <1>3

LEMMA PressedMeans ==
    ASSUME NEW k \in Keys, NEW f \in SUBSET Mods
    PROVE  /\ Pressed(f, Data(k)).shift = IF k = "caps" THEN SymDiff(f, {"CAPSLOCK"}) ELSE f \cup Modifier(k)
           /\ Pressed(f, Data(k)).c = Meaning(k, f)
<1> DEFINE d == Data(k)
           new == SymDiff(f \cup ShiftCode(d), ToggleCode(d))
           c == CharCode(new, d)
<1>1. new = IF k = "caps" THEN SymDiff(f, {"CAPSLOCK"}) ELSE f \cup Modifier(k)
  BY ModifierIs DEF SymDiff
<1>2. Pressed(f, d).shift = new /\ Pressed(f, d).c = IF "CAPSLOCK" \in new THEN Swapped(c) ELSE c
  BY DEF Pressed
<1>3. CASE k \in {"a", "d", "enter", "kpenter", "backspace", "delete"}
  <2>1. Modifier(k) = {} /\ k # "caps"
    BY <1>3 DEF Modifier
  <2>2. new = f
    BY <1>1, <2>1
  <2> HIDE DEF new
  <2>3. (IF "CAPSLOCK" \in f THEN Swapped(CharCode(f, d)) ELSE CharCode(f, d)) = Meaning(k, f)
    <3>1. CASE k = "a"
      BY <3>1, DataTable DEF CharCode, NormalMap, ShiftMap, CtlMap, Swapped, Meaning, Letter
    <3>2. CASE k = "d"
      BY <3>2, DataTable DEF CharCode, NormalMap, ShiftMap, CtlMap, Swapped, Meaning, Letter
    <3>3. CASE k = "enter"
      BY <3>3, DataTable DEF CharCode, NormalMap, ShiftMap, CtlMap, Swapped, Meaning
    <3>4. CASE k = "kpenter"
      BY <3>4, DataTable DEF CharCode, NormalMap, ShiftMap, CtlMap, Swapped, Meaning
    <3>5. CASE k = "backspace"
      BY <3>5, DataTable DEF CharCode, NormalMap, ShiftMap, CtlMap, Swapped, Meaning
    <3>6. CASE k = "delete"
      BY <3>6, DataTable DEF CharCode, NormalMap, ShiftMap, CtlMap, Swapped, Meaning
    <3> QED
      BY <1>3, <3>1, <3>2, <3>3, <3>4, <3>5, <3>6
  <2> QED
    BY <1>1, <1>2, <2>2, <2>3
<1>4. CASE k \notin {"a", "d", "enter", "kpenter", "backspace", "delete"}
  <2>1. Meaning(k, f) = "NO"
    BY <1>4 DEF Meaning
  <2> HIDE DEF new
  <2>2. d \in {29, 157, 42, 54, 56, 184, 58}
    BY <1>4, DataTable
  <2>3. c = "NO"
    BY <2>2 DEF CharCode
  <2> QED
    BY <1>1, <1>2, <2>1, <2>3 DEF Swapped
<1> QED
  BY <1>3, <1>4

\* A key that goes down, and one that comes up.
LEMMA PressDecoded ==
    ASSUME NEW k \in Keys, NEW f \in SUBSET Mods, NEW g, g = IF Extended(k) THEN f \cup {"E0ESC"} ELSE f
    PROVE  /\ KbdProcData(g, Code(k)).shift = IF k = "caps" THEN SymDiff(f, {"CAPSLOCK"}) ELSE f \cup Modifier(k)
           /\ KbdProcData(g, Code(k)).c = Meaning(k, f)
<1>1. Code(k) \in 14 .. 83 /\ Code(k) # 224 /\ ~(Code(k) >= 128)
  BY DataTable
<1>2. "E0ESC" \notin f /\ (Extended(k) => g \ {"E0ESC"} = f)
  BY DEF Mods
<1>3. KbdProcData(g, Code(k)) = Pressed(f, Data(k))
  BY <1>1, <1>2 DEF KbdProcData, Data
<1> QED
  BY <1>3, PressedMeans

LEMMA ReleaseDecoded ==
    ASSUME NEW k \in Keys, NEW f \in SUBSET Mods, NEW g, g = IF Extended(k) THEN f \cup {"E0ESC"} ELSE f
    PROVE  /\ KbdProcData(g, Code(k) + 128).shift = f \ Modifier(k)
           /\ KbdProcData(g, Code(k) + 128).c = "NO"
<1>1. Code(k) \in 14 .. 83 /\ Code(k) + 128 # 224 /\ Code(k) + 128 >= 128 /\ (Code(k) + 128) - 128 = Code(k)
  BY CodeTable, DataTable
<1>2. "E0ESC" \notin f
  BY DEF Mods
<1>3. KbdProcData(g, Code(k) + 128) = [shift |-> g \ (ShiftCode(Data(k)) \cup {"E0ESC"}), c |-> "NO"]
  BY <1>1, <1>2 DEF KbdProcData, Released, Data
<1>4. g \ (ShiftCode(Data(k)) \cup {"E0ESC"}) = f \ Modifier(k)
  BY <1>2, ModifierIs
<1> QED
  BY <1>3, <1>4

------------------------------------------------------------------------------
TypeOK ==
    /\ on \subseteq Mods /\ half \in Bytes \cup {None} /\ port \in Seq(Bytes)
    /\ serial \in SerialChars \cup {None} /\ shift \in SUBSET Flags
    /\ cons \in Rings /\ fed \in Texts /\ typed \in Texts /\ meant \in Texts

InputInv == TypeOK /\ KeysDecoded /\ RingInv

\* Everything the keyboard has sent or is about to send.
Sent == IF half = None THEN port ELSE Append(port, half)

LEMMA OneMoreByte ==
    ASSUME NEW f \in SUBSET Flags, NEW s \in Seq(Bytes), NEW b \in Bytes
    PROVE  /\ Decode(f, Append(s, b)).shift = KbdProcData(Decode(f, s).shift, b).shift
           /\ Real(Decode(f, Append(s, b)).chars)
                = KeepReal(Real(Decode(f, s).chars), KbdProcData(Decode(f, s).shift, b).c)
<1> DEFINE st == Decode(f, s)
           key == KbdProcData(st.shift, b)
<1>1. st \in Decoded /\ st.chars \in Texts /\ st.shift \in SUBSET Flags
  BY DecodeFacts DEF Decoded
<1> HIDE DEF st
<1>2. key.shift \in SUBSET Flags /\ key.c \in Chars
  BY <1>1, KbdProcDataType
<1>3. Decode(f, Append(s, b)) = DecodeByte(st, b)
  BY DecodeAppend DEF st
<1>4. DecodeByte(st, b).shift = key.shift /\ DecodeByte(st, b).chars = Append(st.chars, key.c)
  BY DEF DecodeByte
<1> HIDE DEF key
<1>5. Real(Append(st.chars, key.c)) = KeepReal(Real(st.chars), key.c)
  BY <1>1, <1>2, RealAppend
<1> QED
  BY <1>2, <1>3, <1>4, <1>5 DEF st, key

LEMMA KeepRealLater ==
    ASSUME NEW s \in Texts, NEW t \in Texts, NEW c \in Chars
    PROVE  s \o KeepReal(t, c) = KeepReal(s \o t, c)
<1>1. s \o Append(t, c) = Append(s \o t, c)
  BY DEF Texts
<1> QED
  BY <1>1 DEF KeepReal

\* A key sends its bytes: c is what they stand for.
LEMMA KeySends ==
    ASSUME TypeOK, KeysDecoded, half = None, NEW k \in Keys, NEW byte \in Bytes, NEW c \in Chars,
           NEW g, g = IF Extended(k) THEN on \cup {"E0ESC"} ELSE on,
           on' = KbdProcData(g, byte).shift, c = KbdProcData(g, byte).c,
           IF Extended(k) THEN port' = Append(port, 224) /\ half' = byte
           ELSE port' = Append(port, byte) /\ half' = None,
           shift' = shift, typed' = typed, Real(meant') = KeepReal(Real(meant), c)
    PROVE  KeysDecoded'
<1> DEFINE st == Decode(shift, port)
<1>1. st.shift = on /\ typed \o Real(st.chars) = Real(meant)
  BY DEF KeysDecoded
<1>2. /\ shift \in SUBSET Flags /\ port \in Seq(Bytes) /\ st \in Decoded /\ st.chars \in Texts
      /\ 224 \in Bytes /\ byte # None /\ Real(st.chars) \in Texts /\ typed \in Texts
  <2>1. shift \in SUBSET Flags /\ port \in Seq(Bytes) /\ typed \in Texts
    BY DEF TypeOK
  <2>2. st \in Decoded /\ st.chars \in Texts
    BY <2>1, DecodeFacts DEF Decoded
  <2>3. 224 \in Bytes /\ byte # None
    <3>1. 224 \in Bytes
      BY DEF Bytes
    <3>2. byte # None
      BY DevicesAssumption, Zenon DEF Bytes
    <3> QED
      BY <3>1, <3>2
  <2> QED
    BY <2>1, <2>2, <2>3, RealFacts
<1>3. PICK s \in Seq(Bytes) :
         /\ Sent' = Append(s, byte)
         /\ Decode(shift, s).shift = g /\ Real(Decode(shift, s).chars) = Real(st.chars)
  <2>1. CASE ~Extended(k)
    <3>1. Sent' = Append(port, byte)
      BY <2>1 DEF Sent
    <3> QED
      BY <1>1, <1>2, <2>1, <3>1
  <2>2. CASE Extended(k)
    <3>1. Sent' = Append(Append(port, 224), byte)
      BY <1>2, <2>2 DEF Sent
    <3>2. KbdProcData(on, 224).shift = on \cup {"E0ESC"} /\ KbdProcData(on, 224).c = "NO"
      BY DEF KbdProcData
    <3>3. /\ Decode(shift, Append(port, 224)).shift = on \cup {"E0ESC"}
          /\ Real(Decode(shift, Append(port, 224)).chars) = KeepReal(Real(st.chars), "NO")
      <4>1. /\ Decode(shift, Append(port, 224)).shift = KbdProcData(Decode(shift, port).shift, 224).shift
            /\ Real(Decode(shift, Append(port, 224)).chars)
                 = KeepReal(Real(Decode(shift, port).chars), KbdProcData(Decode(shift, port).shift, 224).c)
        BY <1>2, OneMoreByte
      <4> QED
        BY <1>1, <3>2, <4>1
    <3>4. KeepReal(Real(st.chars), "NO") = Real(st.chars) /\ Append(port, 224) \in Seq(Bytes)
      BY <1>2 DEF KeepReal
    <3> QED
      BY <2>2, <3>1, <3>3, <3>4
  <2> QED
    BY <2>1, <2>2
<1>4. /\ Decode(shift, Sent').shift = on'
      /\ Real(Decode(shift, Sent').chars) = KeepReal(Real(st.chars), c)
  <2>1. /\ Decode(shift, Append(s, byte)).shift = KbdProcData(Decode(shift, s).shift, byte).shift
        /\ Real(Decode(shift, Append(s, byte)).chars)
             = KeepReal(Real(Decode(shift, s).chars), KbdProcData(Decode(shift, s).shift, byte).c)
    BY <1>2, OneMoreByte
  <2> QED
    BY <1>3, <2>1
<1> HIDE DEF st
<1>5. typed \o KeepReal(Real(st.chars), c) = KeepReal(typed \o Real(st.chars), c)
  BY <1>2, KeepRealLater
<1> QED
  BY <1>1, <1>4, <1>5 DEF KeysDecoded, Sent

\* An interrupt or a poll decodes what has come.
LEMMA BytesTaken ==
    ASSUME TypeOK, KeysDecoded, NEW keys, keys = Decode(shift, port),
           shift' = keys.shift, port' = <<>>, typed' = typed \o Real(keys.chars),
           UNCHANGED <<half, on, meant>>
    PROVE  /\ KeysDecoded' /\ shift' \in SUBSET Flags /\ typed' \in Texts /\ keys.chars \in Texts
           /\ port' \in Seq(Bytes)
<1>1. /\ shift \in SUBSET Flags /\ port \in Seq(Bytes) /\ typed \in Texts /\ half \in Bytes \cup {None}
  BY DEF TypeOK
<1>2. keys \in Decoded /\ keys.chars \in Texts /\ keys.shift \in SUBSET Flags
  BY <1>1, DecodeFacts DEF Decoded
<1>3. Real(keys.chars) \in Texts
  BY <1>2, RealFacts
<1>4. typed' \in Texts /\ typed' \o <<>> = typed'
  BY <1>1, <1>3 DEF Texts
<1>5. Decode(shift', <<>>).shift = keys.shift /\ Real(Decode(shift', <<>>).chars) = <<>>
  <2>1. Decode(keys.shift, <<>>) = Start(keys.shift)
    BY <1>2, DecodeFacts
  <2>2. Start(keys.shift).shift = keys.shift /\ Start(keys.shift).chars = <<>>
    BY DEF Start
  <2> QED
    BY <2>1, <2>2, RealFacts
<1>6. KeysDecoded'
  <2>1. CASE half = None
    <3>1. keys.shift = on /\ typed' = Real(meant)
      BY <2>1 DEF KeysDecoded
    <3> QED
      BY <1>4, <1>5, <2>1, <3>1 DEF KeysDecoded
  <2>2. CASE half # None
    <3> DEFINE key == KbdProcData(keys.shift, half)
    <3>1. half \in Bytes /\ key.c \in Chars
      BY <1>1, <1>2, <2>2, KbdProcDataType
    <3>2. /\ Decode(shift, Append(port, half)).shift = key.shift
          /\ Real(Decode(shift, Append(port, half)).chars) = KeepReal(Real(keys.chars), key.c)
      BY <1>1, <3>1, OneMoreByte
    <3>3. <<>> \in Seq(Bytes) /\ <<>> \in Texts
      BY DEF Texts
    <3>4. /\ Decode(shift', Append(<<>>, half)).shift = key.shift
          /\ Real(Decode(shift', Append(<<>>, half)).chars) = KeepReal(<<>>, key.c)
      <4>1. /\ Decode(shift', Append(<<>>, half)).shift = KbdProcData(Decode(shift', <<>>).shift, half).shift
            /\ Real(Decode(shift', Append(<<>>, half)).chars)
                 = KeepReal(Real(Decode(shift', <<>>).chars), KbdProcData(Decode(shift', <<>>).shift, half).c)
        BY <1>2, <3>1, <3>3, OneMoreByte
      <4> QED
        BY <1>5, <4>1
    <3> HIDE DEF key
    <3>5. typed' \o KeepReal(<<>>, key.c) = KeepReal(typed', key.c)
      <4>1. typed' \o KeepReal(<<>>, key.c) = KeepReal(typed' \o <<>>, key.c)
        BY <1>4, <3>1, <3>3, KeepRealLater
      <4> QED
        BY <1>4, <4>1
    <3>6. typed \o KeepReal(Real(keys.chars), key.c) = KeepReal(typed', key.c)
      BY <1>1, <1>3, <3>1, KeepRealLater
    <3>7. key.shift = on /\ typed \o KeepReal(Real(keys.chars), key.c) = Real(meant)
      BY <2>2, <3>2 DEF KeysDecoded
    <3> QED
      BY <2>2, <3>4, <3>5, <3>6, <3>7 DEF KeysDecoded
  <2> QED
    BY <2>1, <2>2
<1> QED
  BY <1>2, <1>4, <1>6

LEMMA InitInput == Init => InputInv
<1> SUFFICES ASSUME Init PROVE InputInv
  OBVIOUS
<1>1. CONSBUFSIZE \in Nat \ {0} /\ 0 % CONSBUFSIZE = 0 /\ 0 \in Slots
  BY SizesAssumption DEF Slots
<1>2. cons \in Rings
  BY <1>1 DEF Init, Rings, Slots, Chars
<1>3. <<>> \in Seq(Bytes) /\ <<>> \in Texts /\ Len(<<>>) = 0 /\ 1 .. 0 = {}
  BY DEF Texts
<1>4. /\ on = {} /\ half = None /\ port = <<>> /\ serial = None /\ shift = {} /\ meant = <<>>
      /\ fed = <<>> /\ typed = <<>> /\ taken = 0 /\ cons.rpos = 0 /\ cons.wpos = 0
  BY DEF Init
<1>5. TypeOK
  BY <1>2, <1>3, <1>4 DEF TypeOK
<1>6. RingInv
  <2>1. Len(fed) = 0
    BY <1>3, <1>4
  <2>2. 1 .. Len(fed) = {} /\ 0 \in 0 .. 0
    BY <1>3, <2>1
  <2>3. RingHolds(cons, fed, Len(fed))
    BY <1>1, <1>4, <2>1, <2>2 DEF RingHolds
  <2> QED
    BY <1>1, <1>4, <2>1, <2>2, <2>3 DEF RingInv
<1>7. KeysDecoded
  <2>1. Decode({}, <<>>) = Start({}) /\ Real(<<>>) = <<>>
    BY DecodeFacts, RealFacts
  <2>2. Start({}).shift = {} /\ Start({}).chars = <<>> /\ <<>> \o <<>> = <<>>
    BY DEF Start
  <2>3. Decode({}, <<>>).shift = {} /\ Real(Decode({}, <<>>).chars) = <<>>
    BY <2>1, <2>2
  <2> QED
    BY <1>4, <2>1, <2>2, <2>3 DEF KeysDecoded
<1> QED
  BY <1>5, <1>6, <1>7 DEF InputInv

\* Steps that leave what has come alone.
LEMMA QuietInput == ASSUME InputInv, UNCHANGED <<device, shift, cons, fed, typed, taken>> PROVE InputInv'
<1>1. TypeOK'
  BY DEF InputInv, TypeOK, device
<1>2. KeysDecoded'
  BY DEF InputInv, KeysDecoded, device
<1>3. RingInv'
  BY DEF InputInv, RingInv, RingHolds
<1> QED
  BY <1>1, <1>2, <1>3 DEF InputInv

LEMMA PressInput == ASSUME InputInv, NEW k \in Keys, Press(k) PROVE InputInv'
<1> DEFINE g == IF Extended(k) THEN on \cup {"E0ESC"} ELSE on
           new == IF k = "caps" THEN SymDiff(on, {"CAPSLOCK"}) ELSE on \cup Modifier(k)
           c == Meaning(k, on)
<1>1. /\ half = None /\ on' = new /\ meant' = Append(meant, c)
      /\ IF Extended(k) THEN port' = Append(port, 224) /\ half' = Code(k)
         ELSE port' = Append(port, Code(k)) /\ half' = None
      /\ UNCHANGED <<serial, shift, cons, fed, typed, taken>>
  BY DEF Press, Sends
<1>2. on \in SUBSET Mods /\ meant \in Texts /\ port \in Seq(Bytes) /\ TypeOK /\ KeysDecoded
  BY DEF InputInv, TypeOK
<1>3. KbdProcData(g, Code(k)).shift = new /\ KbdProcData(g, Code(k)).c = c
  BY <1>2, PressDecoded
<1>4. new \subseteq Mods /\ g \in SUBSET Flags /\ Code(k) \in Bytes /\ 224 \in Bytes
  <2>1. Modifier(k) \subseteq Mods
    BY ModifierIs
  <2>2. new \subseteq Mods /\ g \in SUBSET Flags
    BY <1>2, <2>1 DEF SymDiff, Mods, Flags
  <2>3. Code(k) \in Bytes /\ 224 \in Bytes
    BY DataTable DEF Bytes
  <2> QED
    BY <2>2, <2>3
<1>5. c \in Chars
  BY <1>3, <1>4, KbdProcDataType
<1>6. Real(meant') = KeepReal(Real(meant), c)
  BY <1>1, <1>2, <1>5, RealAppend
<1>7. KeysDecoded'
  <2> HIDE DEF g, new, c
  <2>1. g = IF Extended(k) THEN on \cup {"E0ESC"} ELSE on
    BY DEF g
  <2> QED
    BY <1>1, <1>2, <1>3, <1>4, <1>5, <1>6, <2>1, KeySends
<1>8. TypeOK'
  <2>1. meant' \in Texts
    BY <1>1, <1>2, <1>5 DEF Texts
  <2>2. port' \in Seq(Bytes) /\ half' \in Bytes \cup {None}
    <3> DEFINE byte == Code(k)
    <3>1. IF Extended(k) THEN port' = Append(port, 224) /\ half' = byte
          ELSE port' = Append(port, byte) /\ half' = None
      BY <1>1
    <3>2. byte \in Bytes
      BY <1>4
    <3> HIDE DEF g, new, c, byte
    <3>3. Append(port, 224) \in Seq(Bytes) /\ Append(port, byte) \in Seq(Bytes)
      BY <1>2, <1>4, <3>2
    <3> QED
      BY <3>1, <3>2, <3>3
  <2> HIDE DEF g, new, c
  <2> QED
    BY <1>1, <1>2, <1>4, <2>1, <2>2 DEF TypeOK
<1>9. RingInv'
  BY <1>1 DEF InputInv, RingInv, RingHolds
<1> QED
  BY <1>7, <1>8, <1>9 DEF InputInv

LEMMA ReleaseInput == ASSUME InputInv, NEW k \in Keys, Release(k) PROVE InputInv'
<1> DEFINE g == IF Extended(k) THEN on \cup {"E0ESC"} ELSE on
           byte == Code(k) + 128
           new == on \ Modifier(k)
<1>1. /\ half = None /\ on' = new /\ meant' = meant
      /\ IF Extended(k) THEN port' = Append(port, 224) /\ half' = byte
         ELSE port' = Append(port, byte) /\ half' = None
      /\ UNCHANGED <<serial, shift, cons, fed, typed, taken>>
  BY DEF Release, Sends
<1>2. on \in SUBSET Mods /\ meant \in Texts /\ port \in Seq(Bytes) /\ TypeOK /\ KeysDecoded
  BY DEF InputInv, TypeOK
<1>3. KbdProcData(g, byte).shift = new /\ KbdProcData(g, byte).c = "NO"
  BY <1>2, ReleaseDecoded
<1>4. byte \in Bytes /\ 224 \in Bytes /\ "NO" \in Chars
  BY DataTable DEF Bytes, Chars
<1>5. Real(meant') = KeepReal(Real(meant), "NO")
  BY <1>1 DEF KeepReal
<1>6. KeysDecoded'
  <2> HIDE DEF g, new, byte
  <2>1. g = IF Extended(k) THEN on \cup {"E0ESC"} ELSE on
    BY DEF g
  <2> QED
    BY <1>1, <1>2, <1>3, <1>4, <1>5, <2>1, KeySends
<1>7. TypeOK'
  <2>1. port' \in Seq(Bytes) /\ half' \in Bytes \cup {None}
    <3> HIDE DEF byte
    <3> QED
      BY <1>1, <1>2, <1>4
  <2> HIDE DEF g, byte
  <2> QED
    BY <1>1, <1>2, <2>1 DEF TypeOK
<1>8. RingInv'
  BY <1>1 DEF InputInv, RingInv, RingHolds
<1> QED
  BY <1>6, <1>7, <1>8 DEF InputInv

LEMMA SecondByteInput == ASSUME InputInv, SecondByte PROVE InputInv'
<1>1. /\ half # None /\ port' = Append(port, half) /\ half' = None
      /\ UNCHANGED <<on, serial, meant, shift, cons, fed, typed, taken>>
  BY DEF SecondByte
<1>2. TypeOK'
  BY <1>1 DEF InputInv, TypeOK
<1>3. KeysDecoded'
  BY <1>1 DEF InputInv, KeysDecoded
<1>4. RingInv'
  BY <1>1 DEF InputInv, RingInv, RingHolds
<1> QED
  BY <1>2, <1>3, <1>4 DEF InputInv

LEMMA SerialArrivesInput == ASSUME InputInv, NEW c \in SerialChars, SerialArrives(c) PROVE InputInv'
<1>1. serial' = c /\ UNCHANGED <<on, half, port, meant, shift, cons, fed, typed, taken>>
  BY DEF SerialArrives
<1>2. TypeOK'
  BY <1>1 DEF InputInv, TypeOK
<1>3. KeysDecoded'
  BY <1>1 DEF InputInv, KeysDecoded
<1>4. RingInv'
  BY <1>1 DEF InputInv, RingInv, RingHolds
<1> QED
  BY <1>2, <1>3, <1>4 DEF InputInv

\* What has come is put into the ring.
LEMMA RingFed ==
    ASSUME InputInv, NEW chars \in Texts, cons' = ConsIntr(cons, chars), fed' = fed \o Real(chars),
           taken' = taken
    PROVE  RingInv' /\ cons' \in Rings /\ fed' \in Texts
<1>1. cons \in Rings /\ fed \in Texts /\ RingHolds(cons, fed, Len(fed))
  BY DEF InputInv, TypeOK, RingInv
<1>2. /\ RingHolds(cons', fed', Len(fed')) /\ cons'.rpos = cons.rpos /\ cons' \in Rings
      /\ fed' \in Texts /\ Len(fed') >= Len(fed)
  BY <1>1, ConsIntrHolds
<1>3. taken \in 0 .. Len(fed) /\ cons.rpos = taken % CONSBUFSIZE
  BY DEF InputInv, RingInv
<1>4. Len(fed) \in Nat /\ Len(fed') \in Nat
  BY <1>1, <1>2 DEF Texts
<1>5. taken' \in 0 .. Len(fed')
  BY <1>2, <1>3, <1>4
<1> QED
  BY <1>2, <1>3, <1>5 DEF RingInv, RingHolds

LEMMA KbdIntrInput == ASSUME InputInv, KbdIntr PROVE InputInv'
<1> DEFINE keys == Decode(shift, port)
<1>1. /\ shift' = keys.shift /\ port' = <<>> /\ typed' = typed \o Real(keys.chars)
      /\ cons' = ConsIntr(cons, <<>> \o keys.chars) /\ fed' = fed \o Real(<<>> \o keys.chars)
      /\ UNCHANGED <<on, half, serial, meant, taken>>
  BY DEF KbdIntr, FromKeyboard
<1> HIDE DEF keys
<1>2. TypeOK /\ KeysDecoded
  BY DEF InputInv
<1>3. /\ KeysDecoded' /\ shift' \in SUBSET Flags /\ typed' \in Texts /\ keys.chars \in Texts
      /\ port' \in Seq(Bytes)
  BY <1>1, <1>2, BytesTaken DEF keys
<1>4. <<>> \o keys.chars = keys.chars
  BY <1>3 DEF Texts
<1>5. RingInv' /\ cons' \in Rings /\ fed' \in Texts
  BY <1>1, <1>3, <1>4, RingFed
<1>6. TypeOK'
  BY <1>1, <1>2, <1>3, <1>5 DEF TypeOK
<1> QED
  BY <1>3, <1>5, <1>6 DEF InputInv

LEMMA SerialIntrInput == ASSUME InputInv, SerialIntr PROVE InputInv'
<1>1. /\ serial # None /\ cons' = ConsIntr(cons, <<serial>>) /\ fed' = fed \o Real(<<serial>>)
      /\ serial' = None /\ UNCHANGED <<on, half, port, meant, shift, typed, taken>>
  BY DEF SerialIntr
<1>2. TypeOK /\ KeysDecoded /\ <<serial>> \in Texts
  <2>1. TypeOK /\ KeysDecoded /\ serial \in Chars
    BY <1>1 DEF InputInv, TypeOK, Chars
  <2> QED
    BY <2>1 DEF Texts
<1>3. RingInv' /\ cons' \in Rings /\ fed' \in Texts
  BY <1>1, <1>2, RingFed
<1>4. TypeOK'
  BY <1>1, <1>2, <1>3 DEF TypeOK
<1>5. KeysDecoded'
  BY <1>1, <1>2 DEF KeysDecoded
<1> QED
  BY <1>3, <1>4, <1>5 DEF InputInv

\* A character is taken out of the ring: ring is what it is after the poll.
LEMMA RingTaken ==
    ASSUME NEW ring \in Rings, NEW F \in Texts, NEW t \in 0 .. Len(F), ring.rpos = t % CONSBUFSIZE,
           RingHolds(ring, F, Len(F)), ring.rpos # ring.wpos
    PROVE  LET next == [ring EXCEPT !.rpos = (@ + 1) % CONSBUFSIZE]
           IN  /\ next \in Rings /\ t + 1 \in 0 .. Len(F) /\ next.rpos = (t + 1) % CONSBUFSIZE
               /\ RingHolds(next, F, Len(F))
<1> DEFINE next == [ring EXCEPT !.rpos = (@ + 1) % CONSBUFSIZE]
<1>1. CONSBUFSIZE \in Nat \ {0} /\ Len(F) \in Nat /\ t \in Nat
  BY SizesAssumption DEF Texts
<1>2. ring.rpos \in Slots /\ (ring.rpos + 1) % CONSBUFSIZE = (t + 1) % CONSBUFSIZE
  BY <1>1, ModNext DEF Rings
<1>3. (ring.rpos + 1) % CONSBUFSIZE \in Slots
  BY <1>1, <1>2 DEF Slots
<1>4. /\ next \in Rings /\ next.buf = ring.buf /\ next.wpos = ring.wpos
      /\ next.rpos = (ring.rpos + 1) % CONSBUFSIZE
  BY <1>3 DEF Rings
<1>5. t # Len(F)
  BY DEF RingHolds
<1> HIDE DEF next
<1>6. t + 1 \in 0 .. Len(F)
  BY <1>1, <1>5
<1> QED
  BY <1>2, <1>4, <1>6 DEF RingHolds, next

LEMMA WaitingType == ASSUME TypeOK PROVE Waiting \in Seq(Chars)
<1>1. CASE serial = None
  BY <1>1 DEF Waiting
<1>2. CASE serial # None
  <2>1. serial \in Chars
    BY <1>2 DEF TypeOK, Chars
  <2> QED
    BY <1>2, <2>1 DEF Waiting
<1> QED
  BY <1>1, <1>2

LEMMA ConsGetcInput == ASSUME InputInv, ConsGetc PROVE InputInv'
<1> DEFINE keys == Decode(shift, port)
           chars == Waiting \o keys.chars
           ring == ConsIntr(cons, chars)
<1>1. /\ shift' = keys.shift /\ port' = <<>> /\ typed' = typed \o Real(keys.chars)
      /\ TakeFirst(ring) /\ fed' = fed \o Real(chars) /\ serial' = None
      /\ UNCHANGED <<on, half, meant>>
  BY DEF ConsGetc
<1> HIDE DEF keys
<1>2. TypeOK /\ KeysDecoded
  BY DEF InputInv
<1>3. /\ KeysDecoded' /\ shift' \in SUBSET Flags /\ typed' \in Texts /\ keys.chars \in Texts
      /\ port' \in Seq(Bytes)
  BY <1>1, <1>2, BytesTaken DEF keys
<1>4. chars \in Texts
  BY <1>2, <1>3, WaitingType DEF Texts
<1> HIDE DEF chars
<1>5. cons \in Rings /\ fed \in Texts /\ RingHolds(cons, fed, Len(fed))
      /\ taken \in 0 .. Len(fed) /\ cons.rpos = taken % CONSBUFSIZE
  BY DEF InputInv, TypeOK, RingInv
<1>6. /\ RingHolds(ring, fed', Len(fed')) /\ ring.rpos = cons.rpos /\ ring \in Rings
      /\ fed' \in Texts /\ Len(fed') >= Len(fed)
  BY <1>1, <1>4, <1>5, ConsIntrHolds
<1> HIDE DEF ring
<1>7. taken \in 0 .. Len(fed')
  <2>1. Len(fed) \in Nat /\ Len(fed') \in Nat
    BY <1>5, <1>6 DEF Texts
  <2> QED
    BY <1>5, <1>6, <2>1
<1>8. RingInv' /\ cons' \in Rings
  <2>1. CASE ring.rpos = ring.wpos
    <3>1. taken' = taken /\ cons' = ring
      BY <1>1, <2>1 DEF TakeFirst
    <3> QED
      BY <1>5, <1>6, <1>7, <3>1 DEF RingInv, RingHolds
  <2>2. CASE ring.rpos # ring.wpos
    <3> DEFINE next == [ring EXCEPT !.rpos = (@ + 1) % CONSBUFSIZE]
    <3>1. taken' = taken + 1 /\ cons' = next
      BY <1>1, <2>2 DEF TakeFirst
    <3>2. /\ next \in Rings /\ taken + 1 \in 0 .. Len(fed') /\ next.rpos = (taken + 1) % CONSBUFSIZE
          /\ RingHolds(next, fed', Len(fed'))
      BY <1>5, <1>6, <1>7, <2>2, RingTaken
    <3> HIDE DEF next
    <3> QED
      BY <3>1, <3>2 DEF RingInv, RingHolds
  <2> QED
    BY <2>1, <2>2
<1>9. TypeOK'
  BY <1>1, <1>2, <1>3, <1>6, <1>8 DEF TypeOK
<1> QED
  BY <1>3, <1>8, <1>9 DEF InputInv

LEMMA NextInput == InputInv /\ [Next]_vars => InputInv'
<1> SUFFICES ASSUME InputInv, [Next]_vars PROVE InputInv'
  OBVIOUS
<1>1. CASE Prompt \/ Erase \/ Insert \/ EndLine \/ EndOfFile \/ Ignore \/ UNCHANGED vars
  <2>1. UNCHANGED <<device, shift, cons, fed, typed, taken>>
    BY <1>1 DEF Prompt, Erase, Insert, EndLine, EndOfFile, Ignore, Quiet, vars, device
  <2> QED
    BY <2>1, QuietInput
<1> QED
  BY <1>1, PressInput, ReleaseInput, SecondByteInput, SerialArrivesInput, KbdIntrInput, SerialIntrInput,
     ConsGetcInput DEF Next

(* The characters that were decoded, and those that will be when what the     *)
(* keyboard has sent is, are those the keys stand for; no modifier sticks:    *)
(* for any keys pressed and released at any time, and interrupts and polls at *)
(* any byte, between an E0 and the byte after it too.                         *)
THEOREM KeysAreDecoded == Spec => []KeysDecoded
<1>1. InputInv => KeysDecoded
  BY DEF InputInv
<1> QED
  BY <1>1, InitInput, NextInput, PTL DEF Spec

(* The ring holds the newest characters in order, however many come before    *)
(* they are taken, for a ring of any size.                                    *)
THEOREM RingHoldsTheNewest == Spec => []RingIsNewest
<1>1. InputInv => RingIsNewest
  BY RingInvSuffices DEF InputInv, TypeOK
<1> QED
  BY <1>1, InitInput, NextInput, PTL DEF Spec
------------------------------------------------------------------------------
(* The screen: nothing stands behind the cursor, and the line that is        *)
(* edited stands before it.                                                  *)
Printed == Chars \ {"bs", "nl", "cr"}
Lines == {l \in Texts : Len(l) <= BUFLEN - 1 /\ \A n \in 1 .. Len(l) : l[n] \in Printed}
\* The screen between the character and the scroll.
Placed == [buf : [Cells -> Chars], pos : 0 .. CRT_SIZE]
Clean(s) == \A n \in Cells : n >= s.pos => s.buf[n] = " "
Shows(s, l) == Len(l) <= s.pos /\ \A n \in 1 .. Len(l) : s.buf[s.pos - Len(l) + n - 1] = l[n]

LEMMA ScrollIs ==
    ASSUME NEW t \in Placed
    PROVE  IF t.pos < CRT_SIZE THEN Scroll(t) = t
           ELSE /\ t.pos = CRT_SIZE /\ Scroll(t).pos = CRT_SIZE - CRT_COLS
                /\ \A n \in Cells : Scroll(t).buf[n] = IF n < CRT_SIZE - CRT_COLS
                                                       THEN t.buf[n + CRT_COLS] ELSE " "
<1>1. t.buf \in [Cells -> Chars] /\ t.pos \in 0 .. CRT_SIZE
  BY DEF Placed
<1>2. DOMAIN t.buf = Cells
  BY <1>1
<1>3. ASSUME ~(t.pos < CRT_SIZE) PROVE t.pos = CRT_SIZE
  BY <1>1, <1>3, CellFacts
<1> QED
  BY <1>2, <1>3 DEF Scroll

LEMMA ScrollClean == ASSUME NEW t \in Placed, Clean(t) PROVE Clean(Scroll(t))
<1>1. CASE t.pos < CRT_SIZE
  BY <1>1, ScrollIs
<1>2. CASE ~(t.pos < CRT_SIZE)
  <2>1. SUFFICES ASSUME NEW n \in Cells, n >= CRT_SIZE - CRT_COLS PROVE Scroll(t).buf[n] = " "
    BY <1>2, ScrollIs DEF Clean
  <2>2. ~(n < CRT_SIZE - CRT_COLS)
    BY <2>1, CellFacts
  <2> QED
    BY <1>2, <2>2, ScrollIs
<1> QED
  BY <1>1, <1>2

\* A line that fits the rows that stay is still there after a scroll.
LEMMA ScrollShows ==
    ASSUME NEW t \in Placed, NEW l \in Texts, Shows(t, l), Len(l) <= CRT_SIZE - CRT_COLS
    PROVE  Shows(Scroll(t), l)
<1>1. CASE t.pos < CRT_SIZE
  BY <1>1, ScrollIs
<1>2. CASE ~(t.pos < CRT_SIZE)
  <2>1. /\ t.pos = CRT_SIZE /\ Scroll(t).pos = CRT_SIZE - CRT_COLS
        /\ \A n \in Cells : n < CRT_SIZE - CRT_COLS => Scroll(t).buf[n] = t.buf[n + CRT_COLS]
    BY <1>2, ScrollIs
  <2>2. /\ CRT_SIZE \in Nat /\ CRT_COLS \in Nat \ {0} /\ Len(l) \in Nat
        /\ \A n \in 1 .. Len(l) : t.buf[CRT_SIZE - Len(l) + n - 1] = l[n]
    BY <2>1, SizesAssumption DEF Shows, Texts
  <2>3. ASSUME NEW n \in 1 .. Len(l)
        PROVE  Scroll(t).buf[(CRT_SIZE - CRT_COLS) - Len(l) + n - 1] = l[n]
    <3> DEFINE i == (CRT_SIZE - CRT_COLS) - Len(l) + n - 1
    <3>1. i \in Cells /\ i < CRT_SIZE - CRT_COLS /\ i + CRT_COLS = CRT_SIZE - Len(l) + n - 1
      BY <2>2, <2>3 DEF Cells
    <3> HIDE DEF i
    <3>2. Scroll(t).buf[i] = t.buf[i + CRT_COLS]
      BY <2>1, <3>1
    <3>3. t.buf[i + CRT_COLS] = l[n]
      BY <2>2, <3>1
    <3> QED
      BY <3>2, <3>3 DEF i
  <2> QED
    BY <2>1, <2>3 DEF Shows
<1> QED
  BY <1>1, <1>2

\* A backspace takes the character before the cursor from the screen.
LEMMA PlaceBack ==
    ASSUME NEW s \in Screens, s.pos > 0
    PROVE  Place(s, "bs").buf = [s.buf EXCEPT ![s.pos - 1] = " "] /\ Place(s, "bs").pos = s.pos - 1
<1> DEFINE b == [s.buf EXCEPT ![s.pos - 1] = " "]
           p == s.pos - 1
           c == "bs"
<1>1. c = "bs" /\ c # "nl" /\ c # "cr" /\ s.pos > 0 /\ s.pos # 0
  OBVIOUS
<1>2. Place(s, c) = [buf |-> b, pos |-> p]
  <2> HIDE DEF c
  <2> QED
    BY <1>1, Zenon DEF Place
<1> HIDE DEF b, p
<1>3. Place(s, c).buf = b /\ Place(s, c).pos = p
  BY <1>2
<1> QED
  BY <1>3 DEF b, p

LEMMA PlaceClean ==
    ASSUME NEW s \in Screens, NEW c \in Chars, c # "cr", Clean(s) PROVE Clean(Place(s, c))
<1>1. s.pos \in Cells /\ s.buf \in [Cells -> Chars] /\ s.pos \in Nat
  BY CellFacts DEF Screens
<1>2. ASSUME NEW n \in Cells PROVE n \in Nat /\ (n >= s.pos => s.buf[n] = " ")
  BY CellFacts DEF Clean
<1>3. CASE c = "bs" /\ s.pos > 0
  <2>1. Place(s, c).buf = [s.buf EXCEPT ![s.pos - 1] = " "] /\ Place(s, c).pos = s.pos - 1
    BY <1>3, PlaceBack
  <2>2. ASSUME NEW n \in Cells, n >= s.pos - 1 PROVE [s.buf EXCEPT ![s.pos - 1] = " "][n] = " "
    <3>1. n = s.pos - 1 \/ n >= s.pos
      <4>1. s.pos \in Nat /\ n \in Nat
        BY <1>1, <1>2
      <4> QED
        BY <2>2, <4>1
    <3> DEFINE p == s.pos - 1
    <3>2. n = p \/ s.buf[n] = " "
      BY <1>2, <2>2, <3>1
    <3> HIDE DEF p
    <3>3. [s.buf EXCEPT ![p] = " "][n] = " "
      BY <1>1, <3>2
    <3> QED
      BY <3>3 DEF p
  <2> QED
    BY <2>1, <2>2 DEF Clean
<1>4. CASE c = "bs" /\ ~(s.pos > 0)
  <2>1. s.pos = 0
    BY <1>1, <1>4
  <2>2. Place(s, c) = s
    BY <1>4, <2>1 DEF Place
  <2> QED
    BY <2>2
<1>5. CASE c = "nl"
  <2>1. /\ Place(s, c).buf = s.buf
        /\ Place(s, c).pos = (s.pos + CRT_COLS) - (s.pos % CRT_COLS)
    BY <1>5 DEF Place, Screens
  <2>2. Place(s, c).pos \in s.pos + 1 .. CRT_SIZE
    BY <1>1, <2>1, NextRow
  <2> DEFINE q == Place(s, c).pos
  <2>3. q >= s.pos /\ q \in Nat
    BY <1>1, <2>2
  <2> HIDE DEF q
  <2>4. ASSUME NEW n \in Cells, n >= q PROVE s.buf[n] = " "
    <3>1. s.pos \in Nat /\ n \in Nat
      BY <1>1, <1>2
    <3>2. n >= s.pos
      BY <2>3, <2>4, <3>1
    <3> QED
      BY <1>2, <3>2
  <2> QED
    BY <2>1, <2>4 DEF Clean, q
<1>6. CASE c \notin {"bs", "nl"}
  <2>1. Place(s, c) = [buf |-> [s.buf EXCEPT ![s.pos] = c], pos |-> s.pos + 1]
    BY <1>6 DEF Place
  <2>2. ASSUME NEW n \in Cells, n >= s.pos + 1 PROVE [s.buf EXCEPT ![s.pos] = c][n] = " "
    <3>1. n # s.pos /\ n >= s.pos
      <4>1. s.pos \in Nat /\ n \in Nat
        BY <1>1, <1>2
      <4> QED
        BY <2>2, <4>1
    <3> QED
      BY <1>1, <1>2, <3>1
  <2>3. Place(s, c).buf = [s.buf EXCEPT ![s.pos] = c] /\ Place(s, c).pos = s.pos + 1
    BY <2>1
  <2> QED
    BY <2>2, <2>3 DEF Clean
<1> QED
  BY <1>3, <1>4, <1>5, <1>6

\* cga_putc() of anything but a carriage return leaves nothing behind the cursor.
LEMMA PutcClean ==
    ASSUME NEW s \in Screens, NEW c \in Chars, c # "cr", Clean(s)
    PROVE  CgaPutc(s, c) \in Screens /\ Clean(CgaPutc(s, c))
<1>1. Place(s, c) \in Placed /\ Clean(Place(s, c))
  BY PlaceType, PlaceClean DEF Placed
<1> QED
  BY <1>1, CgaPutcType, ScrollClean DEF CgaPutc

LEMMA PutsClean ==
    ASSUME NEW s \in Screens, Clean(s), NEW l \in Texts, \A n \in 1 .. Len(l) : l[n] # "cr"
    PROVE  Puts(s, l) \in Screens /\ Clean(Puts(s, l))
<1>1. l \in Seq(Chars) /\ Len(l) \in Nat /\ \A n \in 1 .. Len(l) : l[n] \in Chars
  BY DEF Texts
<1>2. PICK r \in [0 .. Len(l) -> Screens] :
         /\ r[0] = s /\ r[Len(l)] = FoldLeft(CgaPutc, s, l)
         /\ \A i \in 1 .. Len(l) : r[i] = CgaPutc(r[i - 1], l[i])
  BY <1>1, CgaPutcLoop
<1> DEFINE Good == {i \in 0 .. Len(l) : Clean(r[i])}
<1>3. 0 \in Good
  BY <1>1, <1>2
<1>4. ASSUME NEW i \in 1 .. Len(l), i - 1 \in Good PROVE i \in Good
  <2>1. r[i - 1] \in Screens /\ Clean(r[i - 1]) /\ l[i] \in Chars /\ l[i] # "cr"
    BY <1>1, <1>2, <1>4
  <2>2. Clean(CgaPutc(r[i - 1], l[i]))
    BY <2>1, PutcClean
  <2>3. Clean(r[i])
    BY <1>2, <2>2
  <2> QED
    BY <1>1, <2>3
<1>5. Len(l) \in Good
  <2> HIDE DEF Good
  <2>1. 0 .. Len(l) \subseteq Good
    BY <1>1, <1>3, <1>4, Loop
  <2> QED
    BY <1>1, <2>1
<1>6. r[Len(l)] \in Screens /\ Clean(r[Len(l)])
  BY <1>1, <1>2, <1>5
<1> QED
  BY <1>2, <1>6 DEF Puts

LEMMA PutsOne == ASSUME NEW s \in Screens, NEW c \in Chars PROVE Puts(s, <<c>>) = CgaPutc(s, c)
<1> DEFINE l == <<c>>
<1>1. l \in Seq(Chars) /\ Len(l) = 1 /\ l[1] = c
  OBVIOUS
<1> HIDE DEF l
<1>2. PICK r \in [0 .. Len(l) -> Screens] :
         /\ r[0] = s /\ r[Len(l)] = FoldLeft(CgaPutc, s, l)
         /\ \A i \in 1 .. Len(l) : r[i] = CgaPutc(r[i - 1], l[i])
  BY <1>1, CgaPutcLoop
<1>3. 1 \in 1 .. Len(l) /\ 1 - 1 = 0
  BY <1>1
<1>4. r[1] = CgaPutc(s, c)
  BY <1>1, <1>2, <1>3
<1> QED
  BY <1>1, <1>2, <1>4 DEF Puts, l

\* One more character of a line that still fits.
LEMMA PutcShows ==
    ASSUME NEW s \in Screens, NEW l \in Texts, NEW c \in Printed, Shows(s, l),
           Len(l) + 1 <= CRT_SIZE - CRT_COLS
    PROVE  Shows(CgaPutc(s, c), Append(l, c))
<1> DEFINE t == Place(s, c)
           m == Append(l, c)
<1>1. s.pos \in Cells /\ s.buf \in [Cells -> Chars] /\ s.pos \in Nat /\ s.pos < CRT_SIZE /\ c \in Chars
  BY CellFacts DEF Screens, Printed
<1>2. /\ Len(l) \in Nat /\ m \in Texts /\ Len(m) = Len(l) + 1 /\ m[Len(l) + 1] = c
      /\ \A n \in 1 .. Len(l) : m[n] = l[n]
  BY <1>1 DEF Texts
<1>3. t = [buf |-> [s.buf EXCEPT ![s.pos] = c], pos |-> s.pos + 1] /\ t \in Placed
  BY <1>1, PlaceType DEF Place, Printed, Placed
<1>4. t.buf = [s.buf EXCEPT ![s.pos] = c] /\ t.pos = s.pos + 1
  BY <1>3
<1> HIDE DEF t, m
<1>5. Len(l) <= s.pos /\ \A n \in 1 .. Len(l) : s.buf[s.pos - Len(l) + n - 1] = l[n]
  BY DEF Shows
<1>6. ASSUME NEW n \in 1 .. Len(m) PROVE t.buf[t.pos - Len(m) + n - 1] = m[n]
  <2> DEFINE i == s.pos - Len(l) + n - 1
  <2>1. t.pos - Len(m) + n - 1 = i
    BY <1>1, <1>2, <1>4, <1>6
  <2>2. CASE n = Len(l) + 1
    <3>1. i = s.pos
      BY <1>1, <1>2, <2>2
    <3> HIDE DEF i
    <3> QED
      BY <1>1, <1>2, <1>4, <2>1, <2>2, <3>1
  <2>3. CASE n # Len(l) + 1
    <3>1. n \in 1 .. Len(l)
      BY <1>2, <1>6, <2>3
    <3>2. i \in Cells /\ i # s.pos
      <4>1. /\ s.pos \in Nat /\ s.pos < CRT_SIZE /\ CRT_SIZE \in Nat /\ Len(l) \in Nat
            /\ Len(l) <= s.pos /\ n \in 1 .. Len(l)
        BY <1>1, <1>2, <1>5, <3>1, CellFacts
      <4> QED
        BY <4>1 DEF Cells
    <3>3. s.buf[i] = l[n]
      BY <1>5, <3>1
    <3> HIDE DEF i
    <3> QED
      BY <1>1, <1>2, <1>4, <2>1, <3>1, <3>2, <3>3
  <2> QED
    BY <2>2, <2>3
<1>7. Len(m) <= t.pos
  BY <1>1, <1>2, <1>4, <1>5
<1>8. Shows(t, m) /\ Len(m) <= CRT_SIZE - CRT_COLS
  BY <1>2, <1>6, <1>7 DEF Shows
<1> QED
  BY <1>2, <1>3, <1>8, ScrollShows DEF CgaPutc, t, m

LEMMA FrontIs ==
    ASSUME NEW l \in Texts, l # <<>>
    PROVE  /\ Front(l) \in Seq(Chars) /\ Len(l) \in Nat \ {0} /\ Len(Front(l)) = Len(l) - 1
           /\ \A n \in 1 .. Len(l) - 1 : Front(l)[n] = l[n]
<1>1. l \in Seq(Chars) /\ Front(l) = SubSeq(l, 1, Len(l) - 1)
  BY DEF Texts, Front
<1>2. Len(l) \in Nat \ {0}
  BY <1>1, EmptySeq
<1> DEFINE k == Len(l) - 1
           z == SubSeq(l, 1, k)
<1>3. k \in Nat /\ \A i \in 1 .. k : l[i] \in Chars
  BY <1>1, <1>2
<1> HIDE DEF k
<1>4. /\ z \in Seq(Chars) /\ Len(z) = IF 1 <= k THEN k - 1 + 1 ELSE 0
      /\ \A i \in 1 .. k - 1 + 1 : z[i] = l[1 + i - 1]
  BY <1>3, SubSeqProperties
<1> HIDE DEF z
<1>5. Len(z) = k /\ \A i \in 1 .. k : z[i] = l[i]
  <2>1. k - 1 + 1 = k /\ \A i \in 1 .. k : 1 + i - 1 = i
    BY <1>3
  <2> QED
    BY <1>3, <1>4, <2>1
<1>6. Front(l) = z
  BY <1>1 DEF k, z
<1> QED
  BY <1>2, <1>4, <1>5, <1>6 DEF k

\* The last character of a line is taken back.
LEMMA BackShows ==
    ASSUME NEW s \in Screens, NEW l \in Texts, l # <<>>, Shows(s, l)
    PROVE  Shows(CgaPutc(s, "bs"), Front(l))
<1> DEFINE t == Place(s, "bs")
           m == Front(l)
<1>1. s.pos \in Cells /\ s.buf \in [Cells -> Chars] /\ s.pos \in Nat /\ s.pos < CRT_SIZE /\ "bs" \in Chars
  BY CellFacts DEF Screens, Chars
<1>2. Len(l) \in Nat \ {0} /\ Len(m) = Len(l) - 1 /\ \A n \in 1 .. Len(l) - 1 : m[n] = l[n]
  BY FrontIs
<1>3. Len(l) <= s.pos /\ \A n \in 1 .. Len(l) : s.buf[s.pos - Len(l) + n - 1] = l[n]
  BY DEF Shows
<1>4. s.pos > 0
  BY <1>1, <1>2, <1>3
<1>5. t \in Placed
  BY <1>1, PlaceType DEF Placed
<1>6. t.buf = [s.buf EXCEPT ![s.pos - 1] = " "] /\ t.pos = s.pos - 1
  BY <1>4, PlaceBack
<1> HIDE DEF t, m
<1>7. Scroll(t) = t
  <2>1. s.pos \in Nat /\ s.pos < CRT_SIZE /\ CRT_SIZE \in Nat /\ t.pos = s.pos - 1
    BY <1>1, <1>6, CellFacts
  <2>2. t.pos < CRT_SIZE
    BY <2>1
  <2> QED
    BY <1>5, <2>2, ScrollIs
<1>8. ASSUME NEW n \in 1 .. Len(m) PROVE t.buf[t.pos - Len(m) + n - 1] = m[n]
  <2> DEFINE i == s.pos - Len(l) + n - 1
  <2>0. /\ s.pos \in Nat /\ s.pos < CRT_SIZE /\ CRT_SIZE \in Nat /\ Len(l) \in Nat \ {0}
        /\ Len(m) = Len(l) - 1 /\ Len(l) <= s.pos /\ t.pos = s.pos - 1
    BY <1>1, <1>2, <1>3, <1>6, CellFacts
  <2>1. n \in 1 .. Len(l) /\ n \in 1 .. Len(l) - 1 /\ t.pos - Len(m) + n - 1 = i
    BY <2>0, <1>8
  <2>2. i \in Cells /\ i # s.pos - 1
    BY <2>0, <2>1 DEF Cells
  <2>3. s.buf[i] = l[n]
    BY <1>3, <2>1
  <2> HIDE DEF i
  <2> QED
    BY <1>1, <1>2, <1>6, <2>1, <2>2, <2>3
<1>9. Len(m) <= t.pos
  <2>1. s.pos \in Nat /\ Len(l) \in Nat /\ Len(m) = Len(l) - 1 /\ Len(l) <= s.pos /\ t.pos = s.pos - 1
    BY <1>1, <1>2, <1>3, <1>6
  <2> QED
    BY <2>1
<1> QED
  BY <1>7, <1>8, <1>9 DEF CgaPutc, Shows, t, m
ScreenInv ==
    /\ screen \in Screens /\ Clean(screen) /\ got \in Chars /\ line \in Lines
    /\ at \in {"getc", "take"} => Shows(screen, line)
    /\ cons \in Rings

LEMMA ScreenInvSuffices == ASSUME ScreenInv PROVE LineOnScreen
<1>1. screen.pos \in Cells /\ CRT_SIZE \in Nat
  BY CellFacts DEF ScreenInv, Screens
<1>2. \A n \in screen.pos .. CRT_SIZE - 1 : screen.buf[n] = " "
  <2>1. ASSUME NEW n \in screen.pos .. CRT_SIZE - 1 PROVE screen.buf[n] = " "
    <3>1. n \in Cells /\ n >= screen.pos
      BY <1>1, <2>1 DEF Cells
    <3> QED
      BY <3>1 DEF ScreenInv, Clean
  <2> QED
    BY <2>1
<1>3. at \in {"getc", "take"} =>
         \A n \in 1 .. Len(line) : screen.buf[screen.pos - Len(line) + n - 1] = line[n]
  BY DEF ScreenInv, Shows
<1> QED
  BY <1>1, <1>2, <1>3 DEF LineOnScreen, Cells

LEMMA LineFacts ==
    /\ BUFLEN - 1 <= CRT_SIZE - CRT_COLS /\ BUFLEN \in Nat \ {0}
    /\ <<>> \in Lines
    /\ \A l \in Lines : /\ l \in Texts /\ Len(l) \in Nat /\ Len(l) <= BUFLEN - 1
                        /\ Len(l) <= CRT_SIZE - CRT_COLS
<1>1. BUFLEN - 1 <= CRT_SIZE - CRT_COLS /\ BUFLEN \in Nat \ {0} /\ CRT_SIZE \in Nat /\ CRT_COLS \in Nat
  BY SizesAssumption
<1>2. <<>> \in Texts /\ Len(<<>>) = 0 /\ 1 .. 0 = {}
  BY DEF Texts
<1>3. <<>> \in Lines
  BY <1>1, <1>2 DEF Lines
<1>4. ASSUME NEW l \in Lines
      PROVE  l \in Texts /\ Len(l) \in Nat /\ Len(l) <= BUFLEN - 1 /\ Len(l) <= CRT_SIZE - CRT_COLS
  <2>1. l \in Texts /\ Len(l) \in Nat /\ Len(l) <= BUFLEN - 1
    BY <1>4 DEF Lines, Texts
  <2> QED
    BY <1>1, <2>1
<1> QED
  BY <1>1, <1>3, <1>4

LEMMA InitScreen == Init => ScreenInv
<1> SUFFICES ASSUME Init PROVE ScreenInv
  OBVIOUS
<1> DEFINE blank == [n \in Cells |-> " "]
<1>1. screen = [buf |-> blank, pos |-> 0] /\ got = "NO" /\ line = <<>> /\ at = "prompt"
  BY DEF Init, Cells
<1>2. 0 \in Cells /\ blank \in [Cells -> Chars] /\ "NO" \in Chars /\ \A n \in Cells : blank[n] = " "
  BY SizesAssumption DEF Cells, Chars
<1> HIDE DEF blank
<1>3. screen \in Screens /\ Clean(screen)
  BY <1>1, <1>2 DEF Screens, Clean
<1>4. cons \in Rings
  BY InitInput DEF InputInv, TypeOK
<1> QED
  BY <1>1, <1>2, <1>3, <1>4, LineFacts DEF ScreenInv

LEMMA ScreenQuiet ==
    ASSUME ScreenInv, UNCHANGED <<screen, got, line, at>>, cons' \in Rings PROVE ScreenInv'
BY DEF ScreenInv

LEMMA ConsGetcScreen == ASSUME InputInv, ScreenInv, ConsGetc PROVE ScreenInv'
<1>1. cons' \in Rings
  BY ConsGetcInput DEF InputInv, TypeOK
<1> DEFINE keys == Decode(shift, port)
           chars == Waiting \o keys.chars
           ring == ConsIntr(cons, chars)
<1>2. at = "getc" /\ TakeFirst(ring) /\ UNCHANGED <<line, screen>>
  BY DEF ConsGetc
<1> HIDE DEF ring
<1>3. CASE ring.rpos = ring.wpos
  BY <1>1, <1>2, <1>3, ScreenQuiet DEF TakeFirst
<1>4. CASE ring.rpos # ring.wpos
  <2>1. /\ got' = ring.buf[ring.rpos] /\ at' = "take"
        /\ cons' = [ring EXCEPT !.rpos = (@ + 1) % CONSBUFSIZE]
    BY <1>2, <1>4 DEF TakeFirst
  <2>2. ring \in Rings
    <3>1. TypeOK /\ RingInv
      BY DEF InputInv
    <3>2. keys.chars \in Texts
      BY <3>1, DecodeFacts DEF TypeOK, Decoded
    <3>3. Waiting \in Seq(Chars)
      BY <3>1, WaitingType
    <3>4. chars \in Texts
      BY <3>2, <3>3 DEF Texts
    <3> HIDE DEF chars
    <3>5. cons \in Rings /\ fed \in Texts /\ RingHolds(cons, fed, Len(fed))
      BY <3>1 DEF TypeOK, RingInv
    <3> QED
      BY <3>4, <3>5, ConsIntrHolds DEF ring
  <2>3. got' \in Chars
    BY <2>1, <2>2 DEF Rings
  <2> QED
    BY <1>1, <1>2, <2>1, <2>3 DEF ScreenInv
<1> QED
  BY <1>3, <1>4

LEMMA PromptScreen == ASSUME ScreenInv, Prompt PROVE ScreenInv'
<1>1. /\ at' = "getc" /\ line' = <<>> /\ screen' = Puts(screen, <<">">>) /\ UNCHANGED <<got, cons>>
  BY DEF Prompt, Display, Quiet
<1>2. screen \in Screens /\ Clean(screen) /\ ">" \in Chars /\ ">" # "cr"
  BY DEF ScreenInv, Chars
<1>3. screen' \in Screens /\ Clean(screen')
  BY <1>1, <1>2, PutsOne, PutcClean
<1>4. Shows(screen', <<>>)
  <2>1. screen'.pos \in Cells
    BY <1>3 DEF Screens
  <2>2. Len(<<>>) = 0 /\ 1 .. 0 = {}
    OBVIOUS
  <2>3. \A p \in Cells : p >= 0
    BY DEF Cells
  <2> QED
    BY <2>1, <2>2, <2>3 DEF Shows
<1> QED
  BY <1>1, <1>3, <1>4, LineFacts DEF ScreenInv

LEMMA EraseScreen == ASSUME ScreenInv, Erase PROVE ScreenInv'
<1>1. /\ at = "take" /\ line # <<>> /\ at' = "getc" /\ got' = "NO" /\ line' = Front(line)
      /\ screen' = Puts(screen, <<"bs">>) /\ cons' = cons
  BY DEF Erase, Display, Quiet
<1>2. /\ screen \in Screens /\ Clean(screen) /\ "bs" \in Chars /\ "NO" \in Chars
      /\ line \in Lines /\ line \in Texts /\ Shows(screen, line)
  BY <1>1, LineFacts DEF ScreenInv, Chars
<1>3. screen' = CgaPutc(screen, "bs")
  BY <1>1, <1>2, PutsOne
<1>4. screen' \in Screens /\ Clean(screen') /\ Shows(screen', line')
  BY <1>1, <1>2, <1>3, PutcClean, BackShows
<1>5. line' \in Lines
  <2> DEFINE m == Front(line)
  <2>1. m \in Seq(Chars) /\ Len(m) = Len(line) - 1 /\ \A n \in 1 .. Len(line) - 1 : m[n] = line[n]
    BY <1>1, <1>2, FrontIs
  <2> HIDE DEF m
  <2>2. Len(line) \in Nat /\ Len(line) <= BUFLEN - 1 /\ BUFLEN \in Nat
        /\ \A n \in 1 .. Len(line) : line[n] \in Printed
    BY <1>2, LineFacts DEF Lines
  <2>3. Len(m) <= BUFLEN - 1 /\ 1 .. Len(m) \subseteq 1 .. Len(line)
    BY <2>1, <2>2
  <2>4. m \in Lines
    BY <2>1, <2>2, <2>3 DEF Lines, Texts
  <2> QED
    BY <1>1, <2>4 DEF m
<1> QED
  BY <1>1, <1>2, <1>4, <1>5 DEF ScreenInv

LEMMA InsertScreen == ASSUME ScreenInv, Insert PROVE ScreenInv'
<1>1. /\ at = "take" /\ Printable(got) /\ Len(line) < BUFLEN - 1
      /\ at' = "getc" /\ got' = "NO" /\ line' = Append(line, got)
      /\ screen' = Puts(screen, <<got>>) /\ cons' = cons
  BY DEF Insert, Display, Quiet
<1>2. /\ screen \in Screens /\ Clean(screen) /\ got \in Chars /\ got \in Printed /\ "NO" \in Chars
      /\ line \in Lines /\ line \in Texts /\ Shows(screen, line) /\ got # "cr"
  BY <1>1, LineFacts DEF ScreenInv, Chars, Printed, Printable
<1>3. screen' = CgaPutc(screen, got)
  BY <1>1, <1>2, PutsOne
<1>4. /\ Len(line) \in Nat /\ Len(line) + 1 <= BUFLEN - 1 /\ Len(line) + 1 <= CRT_SIZE - CRT_COLS
  <2>1. /\ Len(line) \in Nat /\ BUFLEN \in Nat /\ CRT_SIZE \in Nat /\ CRT_COLS \in Nat
        /\ BUFLEN - 1 <= CRT_SIZE - CRT_COLS
    BY <1>2, LineFacts, CellFacts
  <2> QED
    BY <1>1, <2>1
<1>5. screen' \in Screens /\ Clean(screen') /\ Shows(screen', line')
  BY <1>1, <1>2, <1>3, <1>4, PutcClean, PutcShows
<1>6. line' \in Lines
  <2> DEFINE m == Append(line, got)
  <2>1. /\ m \in Texts /\ Len(m) = Len(line) + 1 /\ m[Len(line) + 1] = got
        /\ \A n \in 1 .. Len(line) : m[n] = line[n]
    BY <1>2 DEF Texts
  <2> HIDE DEF m
  <2>2. \A n \in 1 .. Len(line) : line[n] \in Printed
    BY <1>2 DEF Lines
  <2>3. \A n \in 1 .. Len(m) : n = Len(line) + 1 \/ n \in 1 .. Len(line)
    BY <1>4, <2>1
  <2>4. m \in Lines
    BY <1>2, <1>4, <2>1, <2>2, <2>3 DEF Lines
  <2> QED
    BY <1>1, <2>4 DEF m
<1> QED
  BY <1>1, <1>2, <1>5, <1>6 DEF ScreenInv

LEMMA EndLineScreen == ASSUME ScreenInv, EndLine PROVE ScreenInv'
<1> DEFINE s == <<"nl">> \o line \o <<"nl">>
<1>1. /\ at' = "prompt" /\ got' = "NO" /\ UNCHANGED <<line, cons>> /\ screen' = Puts(screen, s)
  BY DEF EndLine, Display, Quiet
<1>2. screen \in Screens /\ Clean(screen) /\ line \in Lines /\ "NO" \in Chars /\ "nl" \in Chars
  BY DEF ScreenInv, Chars
<1>3. line \in Seq(Chars) /\ Len(line) \in Nat /\ \A n \in 1 .. Len(line) : line[n] # "cr"
  BY <1>2, LineFacts DEF Lines, Texts, Printed
<1>4. s \in Seq(Chars) /\ \A n \in 1 .. Len(s) : s[n] # "cr"
  <2>1. /\ s \in Seq(Chars) /\ Len(s) = Len(line) + 2 /\ s[1] = "nl" /\ s[Len(line) + 2] = "nl"
        /\ \A n \in 2 .. Len(line) + 1 : s[n] = line[n - 1]
    BY <1>2, <1>3
  <2> HIDE DEF s
  <2>2. ASSUME NEW n \in 1 .. Len(s) PROVE s[n] # "cr"
    <3>1. n = 1 \/ n = Len(line) + 2 \/ (n \in 2 .. Len(line) + 1 /\ n - 1 \in 1 .. Len(line))
      BY <1>3, <2>1, <2>2
    <3> QED
      BY <1>3, <2>1, <3>1
  <2> QED
    BY <2>1, <2>2
<1> HIDE DEF s
<1>5. screen' \in Screens /\ Clean(screen')
  BY <1>1, <1>2, <1>4, PutsClean DEF Texts
<1> QED
  BY <1>1, <1>2, <1>5 DEF ScreenInv

LEMMA EndOfFileScreen == ASSUME ScreenInv, EndOfFile PROVE ScreenInv'
<1>1. /\ at' = "prompt" /\ got' = "NO" /\ UNCHANGED <<line, cons>> /\ screen' = Puts(screen, <<"nl">>)
  BY DEF EndOfFile, Display, Quiet
<1>2. screen \in Screens /\ Clean(screen) /\ "NO" \in Chars /\ "nl" \in Chars /\ "nl" # "cr"
  BY DEF ScreenInv, Chars
<1>3. screen' \in Screens /\ Clean(screen')
  BY <1>1, <1>2, PutsOne, PutcClean
<1> QED
  BY <1>1, <1>2, <1>3 DEF ScreenInv

LEMMA IgnoreScreen == ASSUME ScreenInv, Ignore PROVE ScreenInv'
<1>1. at = "take" /\ at' = "getc" /\ got' = "NO" /\ UNCHANGED <<line, screen, cons>>
  BY DEF Ignore, Quiet
<1>2. "NO" \in Chars
  BY DEF Chars
<1> QED
  BY <1>1, <1>2 DEF ScreenInv

LEMMA NextScreen == InputInv /\ ScreenInv /\ [Next]_vars => ScreenInv'
<1> SUFFICES ASSUME InputInv, ScreenInv, [Next]_vars PROVE ScreenInv'
  OBVIOUS
<1>1. cons' \in Rings
  BY NextInput DEF InputInv, TypeOK
<1>2. CASE \E k \in Keys : Press(k) \/ Release(k)
  BY <1>1, <1>2, ScreenQuiet DEF Press, Release, Sends
<1>3. CASE \E c \in SerialChars : SerialArrives(c)
  BY <1>1, <1>3, ScreenQuiet DEF SerialArrives
<1>4. CASE SecondByte \/ KbdIntr \/ SerialIntr
  BY <1>1, <1>4, ScreenQuiet DEF SecondByte, KbdIntr, SerialIntr
<1>5. CASE UNCHANGED vars
  BY <1>1, <1>5, ScreenQuiet DEF vars
<1> QED
  BY <1>2, <1>3, <1>4, <1>5, ConsGetcScreen, PromptScreen, EraseScreen, InsertScreen, EndLineScreen,
     EndOfFileScreen, IgnoreScreen DEF Next

(* While a line is edited the screen shows it right before the cursor, and    *)
(* nothing behind the cursor, over the ends of rows and the scroll: for a     *)
(* screen and a line buffer of any size, if the line fits the rows a scroll   *)
(* leaves.                                                                    *)
THEOREM LineStaysOnScreen == Spec => []LineOnScreen
<1>1. InputInv /\ ScreenInv => LineOnScreen
  BY ScreenInvSuffices
<1>2. Init => InputInv /\ ScreenInv
  BY InitInput, InitScreen
<1>3. InputInv /\ ScreenInv /\ [Next]_vars => InputInv' /\ ScreenInv'
  BY NextInput, NextScreen
<1> QED
  BY <1>1, <1>2, <1>3, PTL DEF Spec
=============================================================================
