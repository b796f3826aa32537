---------------------------- MODULE PacketProofs ----------------------------
(***************************************************************************)
(* Proofs about Packet.  The loops of packet.c and crc16.c are recursive   *)
(* functions of the round; that such a function exists, and what it holds  *)
(* after every round, rests on induction over the natural numbers in a     *)
(* form without operator parameters: a set that contains 0 and with n also *)
(* n + 1 contains every natural number.                                    *)
(***************************************************************************)
EXTENDS Packet, WellFoundedInduction, TLAPS

Byte == 0 .. 255
Word == {w \in Nat : w <= 65535}

LEMMA WordIntro ==
  ASSUME NEW c \in Int, 0 <= c, c <= 65535 PROVE c \in Word
BY DEF Word

LEMMA WordElim ==
  ASSUME NEW c \in Word PROVE c \in Int /\ 0 <= c /\ c <= 65535
BY DEF Word

LEMMA ByteElim ==
  ASSUME NEW c \in Byte PROVE c \in Int /\ 0 <= c /\ c <= 255
BY DEF Byte

-----------------------------------------------------------------------------
(* Induction and recursion.                                                *)

\* Induction over the natural numbers, from the well-foundedness of <.
LEMMA SetInduction ==
  ASSUME NEW S, 0 \in S, \A n \in Nat : n \in S => n + 1 \in S
  PROVE  Nat \subseteq S
<1> DEFINE T == Nat \ S
           R == OpToRel(<, Nat)
<1> SUFFICES ASSUME T # {} PROVE FALSE
  OBVIOUS
<1>1. \E x \in T : \A y \in T : ~ (<<y, x>> \in R)
  <2>1. IsWellFoundedOn(R, Nat)
    BY NatLessThanWellFounded
  <2>2. T \subseteq Nat
    OBVIOUS
  <2> HIDE DEF T, R
  <2> QED
    BY <2>1, <2>2, WFMin
<1>2. PICK x \in T : \A y \in T : ~ (<<y, x>> \in R)
  BY <1>1
<1>3. x \in Nat /\ x # 0
  OBVIOUS
<1>4. x - 1 \in Nat
  BY <1>3
<1>5. <<x - 1, x>> \in R
  BY <1>3, <1>4 DEF OpToRel
<1>6. x - 1 \in S
  BY <1>2, <1>4, <1>5
<1> QED
  BY <1>3, <1>4, <1>6

\* Induction up to a bound: what holds of 0 and passes from each round of a
\* loop of N rounds to the next holds after every round.
LEMMA LoopInduction ==
  ASSUME NEW N \in Nat, NEW S, 0 \in S, \A n \in 1 .. N : n - 1 \in S => n \in S
  PROVE  0 .. N \subseteq S
<1> DEFINE T == {n \in Nat : n <= N => n \in S}
<1>1. 0 \in T
  OBVIOUS
<1>2. ASSUME NEW n \in Nat, n \in T PROVE n + 1 \in T
  <2> SUFFICES ASSUME n + 1 <= N PROVE n + 1 \in S
    OBVIOUS
  <2>1. n \in S /\ n + 1 \in 1 .. N /\ (n + 1) - 1 = n
    BY <1>2
  <2> QED
    BY <2>1
<1>3. Nat \subseteq T
  <2> HIDE DEF T
  <2> QED
    BY <1>1, <1>2, SetInduction
<1> QED
  BY <1>3

\* The values in V of a variable that is b before a loop of N rounds and
\* changed by step in each.
IsLoop(g, V, b, N, step) ==
  g \in [0 .. N -> V] /\ g[0] = b /\ \A n \in 1 .. N : g[n] = step[<<g[n - 1], n>>]

\* Such a variable has a value after each round.
LEMMA Recursion ==
  ASSUME NEW V, NEW b \in V, NEW N \in Nat, NEW step \in [V \X (1 .. N) -> V]
  PROVE  \E g : IsLoop(g, V, b, N, step)
<1> DEFINE Upto(m) == \E g \in [0 .. m -> V] :
             g[0] = b /\ \A n \in 1 .. m : g[n] = step[<<g[n - 1], n>>]
           S == {m \in Nat : m <= N => Upto(m)}
<1>1. 0 \in S
  <2> DEFINE g == [n \in 0 .. 0 |-> b]
  <2>1. g \in [0 .. 0 -> V] /\ g[0] = b /\ \A n \in 1 .. 0 : g[n] = step[<<g[n - 1], n>>]
    OBVIOUS
  <2>2. Upto(0)
    BY <2>1
  <2> QED
    BY <2>2
<1>2. ASSUME NEW m \in Nat, m \in S PROVE m + 1 \in S
  <2> SUFFICES ASSUME m + 1 <= N PROVE Upto(m + 1)
    OBVIOUS
  <2>1. PICK g \in [0 .. m -> V] :
             g[0] = b /\ \A n \in 1 .. m : g[n] = step[<<g[n - 1], n>>]
    BY <1>2
  <2> DEFINE h == [n \in 0 .. m + 1 |-> IF n = m + 1 THEN step[<<g[m], m + 1>>] ELSE g[n]]
  <2>2. step[<<g[m], m + 1>>] \in V
    OBVIOUS
  <2>3. h \in [0 .. m + 1 -> V]
    BY <2>2
  <2>4. h[0] = b
    BY <2>1
  <2>5. ASSUME NEW n \in 1 .. m + 1 PROVE h[n] = step[<<h[n - 1], n>>]
    <3>1. h[n - 1] = g[n - 1]
      OBVIOUS
    <3>2. CASE n = m + 1
      <4>1. h[n] = step[<<g[m], n>>] /\ n - 1 = m
        BY <3>2
      <4> QED
        BY <3>1, <4>1
    <3>3. CASE n # m + 1
      <4>1. n \in 1 .. m /\ h[n] = g[n]
        BY <3>3
      <4> HIDE DEF h
      <4> QED
        BY <2>1, <3>1, <4>1
    <3> QED
      BY <3>2, <3>3
  <2> HIDE DEF h
  <2> QED
    BY <2>3, <2>4, <2>5
<1>3. N \in S
  <2> HIDE DEF S
  <2> QED
    BY <1>1, <1>2, SetInduction
<1> QED
  BY <1>3 DEF IsLoop

-----------------------------------------------------------------------------
(* The recursive functions of Packet have the values their definitions say. *)

LEMMA EscapedType ==
  ASSUME NEW b \in Byte PROVE Escaped(b) \in Seq(Byte)
<1>1. <<b>> \in Seq(Byte) /\ <<Escape, 94>> \in Seq(Byte) /\ <<Escape, 93>> \in Seq(Byte)
  BY DEF Byte, Escape
<1> QED
  BY <1>1 DEF Escaped

LEMMA TranslatedDef ==
  ASSUME NEW src \in Seq(Byte)
  PROVE  /\ Translated(src) \in [0 .. Len(src) -> Seq(Byte)]
         /\ Translated(src)[0] = <<Flag>>
         /\ \A n \in 1 .. Len(src) : Translated(src)[n] = Translated(src)[n - 1] \o Escaped(src[n])
<1> DEFINE V == Seq(Byte)
           N == Len(src)
           b == <<Flag>>
           Step(x, n) == x \o Escaped(src[n])
           F(g) == [n \in 0 .. N |-> IF n = 0 THEN b ELSE Step(g[n - 1], n)]
           step == [p \in V \X (1 .. N) |-> Step(p[1], p[2])]
           f == Translated(src)
<1>1. N \in Nat /\ b \in V
  BY DEF Flag, Byte
<1>2. \A x \in V, n \in 1 .. N : Step(x, n) \in V
  <2>1. \A n \in 1 .. N : src[n] \in Byte
    OBVIOUS
  <2> QED
    BY <2>1, EscapedType
<1>3. f = CHOOSE g : g = F(g)
  BY DEF Translated
<1> HIDE DEF N, V, b, f, Step
<1>4. step \in [V \X (1 .. N) -> V]
  BY <1>2
<1>5. PICK g : IsLoop(g, V, b, N, step)
  <2> HIDE DEF step
  <2> QED
    BY <1>1, <1>4, Recursion
<1>6. ASSUME NEW n \in 1 .. N PROVE g[n] = Step(g[n - 1], n)
  <2>1. n - 1 \in 0 .. N /\ <<g[n - 1], n>> \in V \X (1 .. N)
    BY <1>1, <1>5 DEF IsLoop
  <2> QED
    BY <1>5, <2>1 DEF IsLoop
<1>7. g = F(g)
  BY <1>1, <1>5, <1>6 DEF IsLoop
<1>8. f = F(f)
  <2> HIDE DEF F
  <2> QED
    BY <1>3, <1>7
<1>9. f[0] = b /\ \A n \in 1 .. N : f[n] = Step(f[n - 1], n)
  BY <1>1, <1>8
<1>10. f = [n \in 0 .. N |-> f[n]]
  BY <1>8
<1> DEFINE S == {n \in 0 .. N : f[n] \in V}
<1>11. 0 \in S
  BY <1>1, <1>9
<1>12. ASSUME NEW n \in 1 .. N, n - 1 \in S PROVE n \in S
  BY <1>1, <1>2, <1>9, <1>12
<1>13. 0 .. N \subseteq S
  <2> HIDE DEF S
  <2> QED
    BY <1>1, <1>11, <1>12, LoopInduction
<1>14. f \in [0 .. N -> V]
  BY <1>10, <1>13
<1> QED
  BY <1>9, <1>14 DEF f, N, V, b, Step

\* CrcBit keeps to 16 bits.
LEMMA FlipType ==
  ASSUME NEW w \in Int, 0 <= w, w <= 65535, w % 2 = 0
  PROVE  /\ Flip(32, w) \in Int /\ 0 <= Flip(32, w) /\ Flip(32, w) <= 65535
         /\ Flip(32, w) % 2 = 0
         /\ Flip(4096, w) \in Int /\ 0 <= Flip(4096, w) /\ Flip(4096, w) <= 65535
         /\ Flip(4096, w) % 2 = 0
<1>1. Flip(32, w) \in Int /\ 0 <= Flip(32, w) /\ Flip(32, w) <= 65535 /\ Flip(32, w) % 2 = 0
  BY DEF Flip
<1>2. /\ Flip(4096, w) \in Int /\ 0 <= Flip(4096, w) /\ Flip(4096, w) <= 65535
      /\ Flip(4096, w) % 2 = 0
  BY DEF Flip
<1> QED
  BY <1>1, <1>2

LEMMA CrcBitType ==
  ASSUME NEW crc \in Word, NEW bit \in Int PROVE CrcBit(crc, bit) \in Word
<1> DEFINE shifted == (crc * 2) % 65536
<1>1. crc \in Int /\ 0 <= crc /\ crc <= 65535
  BY WordElim
<1>2. shifted \in Int /\ 0 <= shifted /\ shifted <= 65535 /\ shifted % 2 = 0
  BY <1>1
<1> HIDE DEF shifted
<1> DEFINE once == Flip(32, shifted)
           twice == Flip(4096, once)
<1>3. once \in Int /\ 0 <= once /\ once <= 65535 /\ once % 2 = 0
  BY <1>2, FlipType
<1>4. twice \in Int /\ 0 <= twice /\ twice <= 65535 /\ twice % 2 = 0
  <2> HIDE DEF once
  <2> QED
    BY <1>3, FlipType
<1>5. AddPolynomial(shifted) = twice + 1
  BY DEF AddPolynomial
<1>6. twice + 1 \in Word
  <2> HIDE DEF twice
  <2>1. twice # 65535
    BY <1>4
  <2> QED
    BY <1>4, <2>1, WordIntro
<1>7. shifted \in Word
  BY <1>2, WordIntro
<1> QED
  BY <1>5, <1>6, <1>7 DEF CrcBit, shifted

\* CrcByte's eight rounds, one after the other.
CrcAfter(crc, byte) ==
  CHOOSE g : g = [i \in 0 .. 8 |-> IF i = 0 THEN crc
                                   ELSE CrcBit(g[i - 1], (byte \div Masks[i]) % 2)]

LEMMA CrcAfterDef ==
  ASSUME NEW crc \in Word, NEW byte \in Byte
  PROVE  /\ CrcAfter(crc, byte) \in [0 .. 8 -> Word]
         /\ CrcAfter(crc, byte)[0] = crc
         /\ \A i \in 1 .. 8 : CrcAfter(crc, byte)[i]
                              = CrcBit(CrcAfter(crc, byte)[i - 1], (byte \div Masks[i]) % 2)
         /\ CrcByte(crc, byte) = CrcAfter(crc, byte)[8]
<1> DEFINE V == Word
           N == 8
           b == crc
           Step(x, n) == CrcBit(x, (byte \div Masks[n]) % 2)
           F(g) == [n \in 0 .. N |-> IF n = 0 THEN b ELSE Step(g[n - 1], n)]
           step == [p \in V \X (1 .. N) |-> Step(p[1], p[2])]
           f == CrcAfter(crc, byte)
<1>1. N \in Nat /\ b \in V
  OBVIOUS
<1>2. \A x \in V, n \in 1 .. N : Step(x, n) \in V
  <2>1. \A n \in 1 .. 8 : Masks[n] \in 1 .. 128
    BY DEF Masks
  <2>2. \A n \in 1 .. 8 : (byte \div Masks[n]) % 2 \in Int
    BY <2>1 DEF Byte
  <2> QED
    BY <2>2, CrcBitType
<1>3. f = CHOOSE g : g = F(g)
  BY DEF CrcAfter
<1> HIDE DEF N, V, b, f, Step
<1>4. step \in [V \X (1 .. N) -> V]
  BY <1>2
<1>5. PICK g : IsLoop(g, V, b, N, step)
  <2> HIDE DEF step
  <2> QED
    BY <1>1, <1>4, Recursion
<1>6. ASSUME NEW n \in 1 .. N PROVE g[n] = Step(g[n - 1], n)
  <2>1. n - 1 \in 0 .. N /\ <<g[n - 1], n>> \in V \X (1 .. N)
    BY <1>1, <1>5 DEF IsLoop
  <2> QED
    BY <1>5, <2>1 DEF IsLoop
<1>7. g = F(g)
  BY <1>1, <1>5, <1>6 DEF IsLoop
<1>8. f = F(f)
  <2> HIDE DEF F
  <2> QED
    BY <1>3, <1>7
<1>9. f[0] = b /\ \A n \in 1 .. N : f[n] = Step(f[n - 1], n)
  BY <1>1, <1>8
<1>10. f = [n \in 0 .. N |-> f[n]]
  BY <1>8
<1> DEFINE S == {n \in 0 .. N : f[n] \in V}
<1>11. 0 \in S
  BY <1>1, <1>9
<1>12. ASSUME NEW n \in 1 .. N, n - 1 \in S PROVE n \in S
  BY <1>1, <1>2, <1>9, <1>12
<1>13. 0 .. N \subseteq S
  <2> HIDE DEF S
  <2> QED
    BY <1>1, <1>11, <1>12, LoopInduction
<1>14. f \in [0 .. N -> V]
  BY <1>10, <1>13
<1> QED
  BY <1>9, <1>14 DEF f, N, V, b, Step, CrcByte, CrcAfter

LEMMA CrcRoundsDef ==
  ASSUME NEW bytes \in Seq(Byte)
  PROVE  /\ CrcRounds(bytes) \in [0 .. Len(bytes) -> Word]
         /\ CrcRounds(bytes)[0] = 0
         /\ \A n \in 1 .. Len(bytes) :
              CrcRounds(bytes)[n] = CrcByte(CrcRounds(bytes)[n - 1], bytes[n])
<1> DEFINE V == Word
           N == Len(bytes)
           b == 0
           Step(x, n) == CrcByte(x, bytes[n])
           F(g) == [n \in 0 .. N |-> IF n = 0 THEN b ELSE Step(g[n - 1], n)]
           step == [p \in V \X (1 .. N) |-> Step(p[1], p[2])]
           f == CrcRounds(bytes)
<1>1. N \in Nat /\ b \in V
  BY DEF Word
<1>2. \A x \in V, n \in 1 .. N : Step(x, n) \in V
  <2>1. \A n \in 1 .. N : bytes[n] \in Byte
    OBVIOUS
  <2>2. \A x \in Word, y \in Byte : CrcByte(x, y) \in Word
    <3> TAKE x \in Word, y \in Byte
    <3>1. CrcAfter(x, y) \in [0 .. 8 -> Word] /\ CrcByte(x, y) = CrcAfter(x, y)[8]
      BY CrcAfterDef
    <3> QED
      BY <3>1
  <2> QED
    BY <2>1, <2>2
<1>3. f = CHOOSE g : g = F(g)
  BY DEF CrcRounds
<1> HIDE DEF N, V, b, f, Step
<1>4. step \in [V \X (1 .. N) -> V]
  BY <1>2
<1>5. PICK g : IsLoop(g, V, b, N, step)
  <2> HIDE DEF step
  <2> QED
    BY <1>1, <1>4, Recursion
<1>6. ASSUME NEW n \in 1 .. N PROVE g[n] = Step(g[n - 1], n)
  <2>1. n - 1 \in 0 .. N /\ <<g[n - 1], n>> \in V \X (1 .. N)
    BY <1>1, <1>5 DEF IsLoop
  <2> QED
    BY <1>5, <2>1 DEF IsLoop
<1>7. g = F(g)
  BY <1>1, <1>5, <1>6 DEF IsLoop
<1>8. f = F(f)
  <2> HIDE DEF F
  <2> QED
    BY <1>3, <1>7
<1>9. f[0] = b /\ \A n \in 1 .. N : f[n] = Step(f[n - 1], n)
  BY <1>1, <1>8
<1>10. f = [n \in 0 .. N |-> f[n]]
  BY <1>8
<1> DEFINE S == {n \in 0 .. N : f[n] \in V}
<1>11. 0 \in S
  BY <1>1, <1>9
<1>12. ASSUME NEW n \in 1 .. N, n - 1 \in S PROVE n \in S
  BY <1>1, <1>2, <1>9, <1>12
<1>13. 0 .. N \subseteq S
  <2> HIDE DEF S
  <2> QED
    BY <1>1, <1>11, <1>12, LoopInduction
<1>14. f \in [0 .. N -> V]
  BY <1>10, <1>13
<1> QED
  BY <1>9, <1>14 DEF f, N, V, b, Step

LEMMA WordSumsDef ==
  ASSUME NEW bytes \in Seq(Byte)
  PROVE  /\ WordSums(bytes) \in [0 .. Len(bytes) -> Nat]
         /\ WordSums(bytes)[0] = 0
         /\ \A n \in 1 .. Len(bytes) :
              WordSums(bytes)[n] = WordSums(bytes)[n - 1]
                                   + (IF n % 2 = 1 THEN bytes[n] ELSE 256 * bytes[n])
<1> DEFINE V == Nat
           N == Len(bytes)
           b == 0
           Step(x, n) == x + (IF n % 2 = 1 THEN bytes[n] ELSE 256 * bytes[n])
           F(g) == [n \in 0 .. N |-> IF n = 0 THEN b ELSE Step(g[n - 1], n)]
           step == [p \in V \X (1 .. N) |-> Step(p[1], p[2])]
           f == WordSums(bytes)
<1>1. N \in Nat /\ b \in V
  OBVIOUS
<1>2. \A x \in V, n \in 1 .. N : Step(x, n) \in V
  <2>1. \A n \in 1 .. N : bytes[n] \in Byte
    OBVIOUS
  <2>2. \A n \in 1 .. N : bytes[n] \in Nat
    BY <2>1, ByteElim
  <2> QED
    BY <2>2
<1>3. f = CHOOSE g : g = F(g)
  BY DEF WordSums
<1> HIDE DEF N, V, b, f, Step
<1>4. step \in [V \X (1 .. N) -> V]
  BY <1>2
<1>5. PICK g : IsLoop(g, V, b, N, step)
  <2> HIDE DEF step
  <2> QED
    BY <1>1, <1>4, Recursion
<1>6. ASSUME NEW n \in 1 .. N PROVE g[n] = Step(g[n - 1], n)
  <2>1. n - 1 \in 0 .. N /\ <<g[n - 1], n>> \in V \X (1 .. N)
    BY <1>1, <1>5 DEF IsLoop
  <2> QED
    BY <1>5, <2>1 DEF IsLoop
<1>7. g = F(g)
  BY <1>1, <1>5, <1>6 DEF IsLoop
<1>8. f = F(f)
  <2> HIDE DEF F
  <2> QED
    BY <1>3, <1>7
<1>9. f[0] = b /\ \A n \in 1 .. N : f[n] = Step(f[n - 1], n)
  BY <1>1, <1>8
<1>10. f = [n \in 0 .. N |-> f[n]]
  BY <1>8
<1> DEFINE S == {n \in 0 .. N : f[n] \in V}
<1>11. 0 \in S
  BY <1>1, <1>9
<1>12. ASSUME NEW n \in 1 .. N, n - 1 \in S PROVE n \in S
  BY <1>1, <1>2, <1>9, <1>12
<1>13. 0 .. N \subseteq S
  <2> HIDE DEF S
  <2> QED
    BY <1>1, <1>11, <1>12, LoopInduction
<1>14. f \in [0 .. N -> V]
  BY <1>10, <1>13
<1> QED
  BY <1>9, <1>14 DEF f, N, V, b, Step
-----------------------------------------------------------------------------
(* The CRC.                                                                *)

\* A round whose data bit is the bit that falls out adds the polynomial
\* twice or not at all: it only shifts.
LEMMA CrcBitShifts ==
  ASSUME NEW crc \in Int, NEW bit \in Int, (crc >= 32768) <=> (bit = 1)
  PROVE  CrcBit(crc, bit) = (crc * 2) % 65536
BY DEF CrcBit

\* A byte that is the upper half of the CRC is shifted out with it.
LEMMA CrcUpperByte ==
  ASSUME NEW crc \in Word, crc \div 256 \in Byte
  PROVE  CrcByte(crc, crc \div 256) = 256 * (crc % 256)
<1> DEFINE byte == crc \div 256
           after == CrcAfter(crc, byte)
<1>1. crc \in Int /\ 0 <= crc /\ crc <= 65535
  BY WordElim
<1>2. /\ after[0] = crc
      /\ \A i \in 1 .. 8 : after[i] = CrcBit(after[i - 1], (byte \div Masks[i]) % 2)
      /\ CrcByte(crc, byte) = after[8]
  BY CrcAfterDef
<1> HIDE DEF after
<1>3. after[1] = (crc * 2) % 65536
  <2> DEFINE prior == crc
             bit == (byte \div 128) % 2
  <2>1. Masks[1] = 128
    BY DEF Masks
  <2>2. after[1] = CrcBit(prior, bit)
    BY <1>2, <2>1
  <2>3. prior \in Int /\ bit \in Int /\ (prior * 2) % 65536 = (crc * 2) % 65536
    BY <1>1
  <2>4. (prior >= 32768) <=> (bit = 1)
    BY <1>1
  <2> HIDE DEF prior, bit
  <2> QED
    BY <2>2, <2>3, <2>4, CrcBitShifts
<1>4. after[2] = (crc * 4) % 65536
  <2> DEFINE prior == (crc * 2) % 65536
             bit == (byte \div 64) % 2
  <2>1. Masks[2] = 64
    BY DEF Masks
  <2>2. after[2] = CrcBit(prior, bit)
    BY <1>2, <1>3, <2>1
  <2>3. prior \in Int /\ bit \in Int /\ (prior * 2) % 65536 = (crc * 4) % 65536
    BY <1>1
  <2>4. (prior >= 32768) <=> (bit = 1)
    BY <1>1
  <2> HIDE DEF prior, bit
  <2> QED
    BY <2>2, <2>3, <2>4, CrcBitShifts
<1>5. after[3] = (crc * 8) % 65536
  <2> DEFINE prior == (crc * 4) % 65536
             bit == (byte \div 32) % 2
  <2>1. Masks[3] = 32
    BY DEF Masks
  <2>2. after[3] = CrcBit(prior, bit)
    BY <1>2, <1>4, <2>1
  <2>3. prior \in Int /\ bit \in Int /\ (prior * 2) % 65536 = (crc * 8) % 65536
    BY <1>1
  <2>4. (prior >= 32768) <=> (bit = 1)
    BY <1>1
  <2> HIDE DEF prior, bit
  <2> QED
    BY <2>2, <2>3, <2>4, CrcBitShifts
<1>6. after[4] = (crc * 16) % 65536
  <2> DEFINE prior == (crc * 8) % 65536
             bit == (byte \div 16) % 2
  <2>1. Masks[4] = 16
    BY DEF Masks
  <2>2. after[4] = CrcBit(prior, bit)
    BY <1>2, <1>5, <2>1
  <2>3. prior \in Int /\ bit \in Int /\ (prior * 2) % 65536 = (crc * 16) % 65536
    BY <1>1
  <2>4. (prior >= 32768) <=> (bit = 1)
    BY <1>1
  <2> HIDE DEF prior, bit
  <2> QED
    BY <2>2, <2>3, <2>4, CrcBitShifts
<1>7. after[5] = (crc * 32) % 65536
  <2> DEFINE prior == (crc * 16) % 65536
             bit == (byte \div 8) % 2
  <2>1. Masks[5] = 8
    BY DEF Masks
  <2>2. after[5] = CrcBit(prior, bit)
    BY <1>2, <1>6, <2>1
  <2>3. prior \in Int /\ bit \in Int /\ (prior * 2) % 65536 = (crc * 32) % 65536
    BY <1>1
  <2>4. (prior >= 32768) <=> (bit = 1)
    BY <1>1
  <2> HIDE DEF prior, bit
  <2> QED
    BY <2>2, <2>3, <2>4, CrcBitShifts
<1>8. after[6] = (crc * 64) % 65536
  <2> DEFINE prior == (crc * 32) % 65536
             bit == (byte \div 4) % 2
  <2>1. Masks[6] = 4
    BY DEF Masks
  <2>2. after[6] = CrcBit(prior, bit)
    BY <1>2, <1>7, <2>1
  <2>3. prior \in Int /\ bit \in Int /\ (prior * 2) % 65536 = (crc * 64) % 65536
    BY <1>1
  <2>4. (prior >= 32768) <=> (bit = 1)
    BY <1>1
  <2> HIDE DEF prior, bit
  <2> QED
    BY <2>2, <2>3, <2>4, CrcBitShifts
<1>9. after[7] = (crc * 128) % 65536
  <2> DEFINE prior == (crc * 64) % 65536
             bit == (byte \div 2) % 2
  <2>1. Masks[7] = 2
    BY DEF Masks
  <2>2. after[7] = CrcBit(prior, bit)
    BY <1>2, <1>8, <2>1
  <2>3. prior \in Int /\ bit \in Int /\ (prior * 2) % 65536 = (crc * 128) % 65536
    BY <1>1
  <2>4. (prior >= 32768) <=> (bit = 1)
    BY <1>1
  <2> HIDE DEF prior, bit
  <2> QED
    BY <2>2, <2>3, <2>4, CrcBitShifts
<1>10. after[8] = (crc * 256) % 65536
  <2> DEFINE prior == (crc * 128) % 65536
             bit == (byte \div 1) % 2
  <2>1. Masks[8] = 1
    BY DEF Masks
  <2>2. after[8] = CrcBit(prior, bit)
    BY <1>2, <1>9, <2>1
  <2>3. prior \in Int /\ bit \in Int /\ (prior * 2) % 65536 = (crc * 256) % 65536
    BY <1>1
  <2>4. (prior >= 32768) <=> (bit = 1)
    BY <1>1
  <2> HIDE DEF prior, bit
  <2> QED
    BY <2>2, <2>3, <2>4, CrcBitShifts
<1>11. (crc * 256) % 65536 = 256 * (crc % 256)
  BY <1>1
<1> QED
  BY <1>2, <1>10, <1>11

\* Fed with its own two bytes the CRC is 0.
LEMMA CrcOfCrc ==
  ASSUME NEW crc \in Word
  PROVE  /\ crc \div 256 \in Byte /\ crc % 256 \in Byte
         /\ CrcByte(CrcByte(crc, crc \div 256), crc % 256) = 0
<1> DEFINE next == 256 * (crc % 256)
<1>1. crc \in Int /\ 0 <= crc /\ crc <= 65535
  BY WordElim
<1>2. crc \div 256 \in Byte /\ crc % 256 \in Byte
  BY <1>1 DEF Byte
<1>3. CrcByte(crc, crc \div 256) = next
  BY <1>2, CrcUpperByte
<1>4. next \in Int /\ 0 <= next /\ next <= 65535 /\ next \div 256 = crc % 256 /\ next % 256 = 0
  BY <1>1
<1> HIDE DEF next
<1>5. next \in Word
  BY <1>4, WordIntro
<1>6. CrcByte(next, next \div 256) = 0
  BY <1>2, <1>4, <1>5, CrcUpperByte
<1> QED
  BY <1>2, <1>3, <1>4, <1>6

\* The CRC of a packet and what follows it starts with the CRC of the packet.
LEMMA CrcOfPrefix ==
  ASSUME NEW p \in Seq(Byte), NEW q \in Seq(Byte)
  PROVE  \A n \in 0 .. Len(p) : CrcRounds(p \o q)[n] = CrcRounds(p)[n]
<1> DEFINE f == CrcRounds(p)
           g == CrcRounds(p \o q)
           S == {n \in 0 .. Len(p) : g[n] = f[n]}
<1>1. p \o q \in Seq(Byte) /\ Len(p \o q) = Len(p) + Len(q) /\ Len(p) \in Nat /\ Len(q) \in Nat
  OBVIOUS
<1>2. \A n \in 1 .. Len(p) : (p \o q)[n] = p[n]
  OBVIOUS
<1>3. f[0] = 0 /\ \A n \in 1 .. Len(p) : f[n] = CrcByte(f[n - 1], p[n])
  BY CrcRoundsDef
<1>4. g[0] = 0 /\ \A n \in 1 .. Len(p \o q) : g[n] = CrcByte(g[n - 1], (p \o q)[n])
  BY <1>1, CrcRoundsDef
<1> HIDE DEF f, g
<1>5. 0 \in S
  BY <1>1, <1>3, <1>4
<1>6. ASSUME NEW n \in 1 .. Len(p), n - 1 \in S PROVE n \in S
  <2>1. n \in 1 .. Len(p \o q)
    BY <1>1
  <2>2. g[n] = CrcByte(g[n - 1], p[n])
    BY <1>2, <1>4, <2>1
  <2> QED
    BY <1>3, <1>6, <2>2
<1>7. 0 .. Len(p) \subseteq S
  <2> HIDE DEF S
  <2> QED
    BY <1>1, <1>5, <1>6, LoopInduction
<1> QED
  BY <1>7 DEF f, g

\* A packet followed by its CRC, high byte first, has the CRC 0.
LEMMA CrcAppended ==
  ASSUME NEW p \in Seq(Byte)
  PROVE  /\ BigEndian(crc_16_l_calc(p)) \in Seq(Byte)
         /\ crc_16_l_calc(p \o BigEndian(crc_16_l_calc(p))) = 0
<1> DEFINE c == crc_16_l_calc(p)
           q == <<c \div 256, c % 256>>
           g == CrcRounds(p \o q)
           N == Len(p)
<1>1. c \in Word /\ N \in Nat /\ c = CrcRounds(p)[N]
  BY CrcRoundsDef DEF crc_16_l_calc
<1> HIDE DEF c
<1>2. /\ c \div 256 \in Byte /\ c % 256 \in Byte
      /\ CrcByte(CrcByte(c, c \div 256), c % 256) = 0
  BY <1>1, CrcOfCrc
<1>3. q \in Seq(Byte) /\ Len(q) = 2
  BY <1>2
<1>4. /\ p \o q \in Seq(Byte) /\ Len(p \o q) = N + 2
      /\ (p \o q)[N + 1] = c \div 256 /\ (p \o q)[N + 2] = c % 256
  BY <1>3
<1>5. \A n \in 1 .. Len(p \o q) : g[n] = CrcByte(g[n - 1], (p \o q)[n])
  <2> HIDE DEF q
  <2> QED
    BY <1>4, CrcRoundsDef
<1>6. g[N] = c
  <2> HIDE DEF q
  <2> QED
    BY <1>1, <1>3, CrcOfPrefix
<1> HIDE DEF q, g, N
<1>7. /\ N + 1 \in 1 .. Len(p \o q) /\ (N + 1) - 1 = N
      /\ N + 2 \in 1 .. Len(p \o q) /\ (N + 2) - 1 = N + 1
  BY <1>1, <1>4
<1>8. g[N + 1] = CrcByte(c, c \div 256)
  BY <1>4, <1>5, <1>6, <1>7
<1>9. g[N + 2] = 0
  <2>1. g[N + 2] = CrcByte(g[(N + 2) - 1], (p \o q)[N + 2])
    BY <1>5, <1>7
  <2>2. (N + 2) - 1 = N + 1
    BY <1>1
  <2>3. g[(N + 2) - 1] = CrcByte(c, c \div 256)
    BY <1>8, <2>2
  <2> QED
    BY <1>2, <1>4, <2>1, <2>3
<1>10. crc_16_l_calc(p \o q) = 0
  BY <1>4, <1>9 DEF g, crc_16_l_calc
<1> QED
  BY <1>3, <1>10 DEF q, c, BigEndian
-----------------------------------------------------------------------------
(* The sums of words.                                                      *)

LEMMA ComplementType ==
  ASSUME NEW sum \in Nat PROVE Complement(sum) \in Word
<1> DEFINE once == (sum \div 65536) + (sum % 65536)
           twice == once + (once \div 65536)
<1>1. once \in Nat
  OBVIOUS
<1> HIDE DEF once
<1>2. twice \in Nat
  BY <1>1
<1> HIDE DEF twice
<1>3. twice % 65536 \in Int /\ 0 <= twice % 65536 /\ twice % 65536 <= 65535
  BY <1>2
<1>4. Complement(sum) = 65535 - (twice % 65536)
  BY DEF Complement, once, twice
<1> QED
  BY <1>3, <1>4, WordIntro

\* The sum of up to three words and of the complement of their sum is 0.
LEMMA ComplementCancels ==
  ASSUME NEW sum \in Nat, sum <= 196605 PROVE Complement(sum + Complement(sum)) = 0
<1> DEFINE c == Complement(sum)
<1>1. /\ c \in Int /\ 0 <= c /\ c <= 65535
      /\ \E t \in Int : sum + c = 65535 * t /\ 1 <= t /\ t <= 4
  <2> DEFINE q == sum \div 65536
             r == sum % 65536
  <2>1. q \in Int /\ r \in Int /\ sum = 65536 * q + r /\ 0 <= r /\ r <= 65535 /\ 0 <= q /\ q <= 2
    OBVIOUS
  <2>2. c = 65535 - (((q + r) + ((q + r) \div 65536)) % 65536)
    BY DEF Complement
  <2> HIDE DEF q, r, c
  <2>3. CASE q + r <= 65535
    <3>1. c = 65535 - (q + r)
      BY <2>1, <2>2, <2>3
    <3>2. sum + c = 65535 * (q + 1) /\ q + 1 \in Int /\ 1 <= q + 1 /\ q + 1 <= 4
      BY <2>1, <3>1
    <3>3. 0 <= c /\ c <= 65535 /\ c \in Int
      BY <2>1, <2>3, <3>1
    <3> QED
      BY <3>2, <3>3
  <2>4. CASE q + r > 65535
    <3>1. (q + r) \div 65536 = 1
      BY <2>1, <2>4
    <3>2. c = 65535 - (((q + r) + 1) - 65536)
      BY <2>1, <2>2, <2>4, <3>1
    <3>3. sum + c = 65535 * (q + 2) /\ q + 2 \in Int /\ 1 <= q + 2 /\ q + 2 <= 4
      BY <2>1, <3>2
    <3>4. 0 <= c /\ c <= 65535 /\ c \in Int
      BY <2>1, <2>4, <3>2
    <3> QED
      BY <3>3, <3>4
  <2> QED
    BY <2>1, <2>3, <2>4
<1>2. PICK t \in Int : sum + c = 65535 * t /\ 1 <= t /\ t <= 4
  BY <1>1
<1>3. t \in {1, 2, 3, 4}
  BY <1>2
<1> HIDE DEF c
<1>4. Complement(65535) = 0 /\ Complement(131070) = 0 /\ Complement(196605) = 0
      /\ Complement(262140) = 0
  BY DEF Complement
<1>5. sum + c \in {65535, 131070, 196605, 262140}
  BY <1>2, <1>3
<1> QED
  BY <1>4, <1>5 DEF c

\* The sum of the words of two sequences, the first of whole words.
LEMMA WordSumConcat ==
  ASSUME NEW p \in Seq(Byte), NEW q \in Seq(Byte), Len(p) % 2 = 0
  PROVE  WordSum(p \o q) = WordSum(p) + WordSum(q)
<1> DEFINE pq == p \o q
           N == Len(p)
           M == Len(q)
           f == WordSums(p)
           g == WordSums(q)
           h == WordSums(pq)
           W(n, b) == IF n % 2 = 1 THEN b ELSE 256 * b
<1>1. N \in Nat /\ M \in Nat /\ N % 2 = 0
  OBVIOUS
<1>2. pq \in Seq(Byte) /\ Len(pq) = N + M
  OBVIOUS
<1>3. \A n \in 1 .. N : pq[n] = p[n]
  OBVIOUS
<1>4. \A n \in 1 .. M : pq[N + n] = q[n]
  OBVIOUS
<1>5. f \in [0 .. N -> Nat] /\ f[0] = 0 /\ \A n \in 1 .. N : f[n] = f[n - 1] + W(n, p[n])
  BY WordSumsDef
<1>6. g \in [0 .. M -> Nat] /\ g[0] = 0 /\ \A n \in 1 .. M : g[n] = g[n - 1] + W(n, q[n])
  BY WordSumsDef
<1>7. h \in [0 .. N + M -> Nat] /\ h[0] = 0
      /\ \A n \in 1 .. N + M : h[n] = h[n - 1] + W(n, pq[n])
  <2> HIDE DEF pq
  <2>1. h \in [0 .. Len(pq) -> Nat] /\ h[0] = 0
        /\ \A n \in 1 .. Len(pq) : h[n] = h[n - 1] + W(n, pq[n])
    BY <1>2, WordSumsDef
  <2> HIDE DEF h, W, N, M
  <2> QED
    BY <1>2, <2>1
<1>8. WordSum(p) = f[N] /\ WordSum(q) = g[M] /\ WordSum(pq) = h[N + M]
  BY <1>2 DEF WordSum
<1>9. \A n \in 1 .. M : q[n] \in Nat
  <2>1. \A n \in 1 .. M : q[n] \in Byte
    OBVIOUS
  <2> QED
    BY <2>1, ByteElim
<1>10. \A n \in Nat : \A b : W(N + n, b) = W(n, b)
  BY <1>1
<1>11. \A n \in Nat, b \in Nat : W(n, b) \in Nat
  OBVIOUS
<1> HIDE DEF pq, N, M, f, g, h, W
<1>12. h[N] = f[N]
  <2> DEFINE S == {n \in 0 .. N : h[n] = f[n]}
  <2>1. 0 \in S
    BY <1>1, <1>5, <1>7
  <2>2. ASSUME NEW n \in 1 .. N, n - 1 \in S PROVE n \in S
    <3>1. n \in 1 .. N + M
      BY <1>1
    <3> QED
      BY <1>3, <1>5, <1>7, <2>2, <3>1
  <2>3. 0 .. N \subseteq S
    <3> HIDE DEF S
    <3> QED
      BY <1>1, <2>1, <2>2, LoopInduction
  <2>4. N \in 0 .. N
    BY <1>1
  <2> QED
    BY <2>3, <2>4
<1>13. h[N + M] = h[N] + g[M]
  <2> DEFINE S == {n \in 0 .. M : h[N + n] = h[N] + g[n]}
  <2>1. h[N] \in Nat
    <3>1. N \in 0 .. N + M
      BY <1>1
    <3> QED
      BY <1>7, <3>1
  <2>2. 0 \in S
    <3>1. N + 0 = N /\ 0 \in 0 .. M
      BY <1>1
    <3>2. h[N + 0] = h[N] + g[0]
      BY <1>6, <2>1, <3>1
    <3> QED
      BY <3>1, <3>2
  <2>3. ASSUME NEW n \in 1 .. M, n - 1 \in S PROVE n \in S
    <3>1. N + n \in 1 .. N + M /\ (N + n) - 1 = N + (n - 1) /\ n \in Nat /\ n - 1 \in 0 .. M
      BY <1>1
    <3>2. h[N + n] = h[N + (n - 1)] + W(N + n, pq[N + n])
      BY <1>7, <3>1
    <3>3. W(N + n, pq[N + n]) = W(n, q[n])
      BY <1>4, <1>10, <3>1
    <3>4. h[N + (n - 1)] = h[N] + g[n - 1]
      BY <2>3
    <3>5. g[n] = g[n - 1] + W(n, q[n])
      BY <1>6
    <3>6. g[n - 1] \in Nat /\ W(n, q[n]) \in Nat
      BY <1>6, <1>9, <1>11, <3>1
    <3> QED
      BY <2>1, <3>1, <3>2, <3>3, <3>4, <3>5, <3>6
  <2>4. 0 .. M \subseteq S
    <3> HIDE DEF S
    <3> QED
      BY <1>1, <2>2, <2>3, LoopInduction
  <2>5. M \in 0 .. M
    BY <1>1
  <2> QED
    BY <2>4, <2>5
<1> QED
  BY <1>8, <1>12, <1>13 DEF pq

\* The sum of one word is that word.
LEMMA WordSumOfWord ==
  ASSUME NEW w \in Word
  PROVE  LittleEndian(w) \in Seq(Byte) /\ Len(LittleEndian(w)) = 2 /\ WordSum(LittleEndian(w)) = w
         /\ LittleEndian(w)[1] + 256 * LittleEndian(w)[2] = w
<1> DEFINE lo == w % 256
           hi == w \div 256
           p == <<lo, hi>>
           f == WordSums(p)
<1>1. w \in Int /\ 0 <= w /\ w <= 65535
  BY WordElim
<1>2. lo \in Byte /\ hi \in Byte /\ lo \in Int /\ hi \in Int /\ lo + 256 * hi = w
  BY <1>1 DEF Byte
<1> HIDE DEF lo, hi
<1>3. p \in Seq(Byte) /\ Len(p) = 2 /\ p[1] = lo /\ p[2] = hi
  BY <1>2
<1>4. LittleEndian(w) = p
  BY DEF LittleEndian, lo, hi
<1> HIDE DEF p
<1>5. f[0] = 0 /\ \A n \in 1 .. 2 : f[n] = f[n - 1] + (IF n % 2 = 1 THEN p[n] ELSE 256 * p[n])
  BY <1>3, WordSumsDef
<1> HIDE DEF f
<1>6. f[1] = lo
  BY <1>2, <1>3, <1>5
<1>7. f[2] = f[1] + 256 * hi
  BY <1>3, <1>5
<1>8. WordSum(p) = f[2]
  BY <1>3 DEF WordSum, f
<1> QED
  BY <1>2, <1>3, <1>4, <1>6, <1>7, <1>8

LEMMA WordSumOfNothing == WordSum(<<>>) = 0
<1>1. <<>> \in Seq(Byte) /\ Len(<<>>) = 0
  OBVIOUS
<1> QED
  BY <1>1, WordSumsDef DEF WordSum

LEMMA WordSumType ==
  ASSUME NEW p \in Seq(Byte) PROVE WordSum(p) \in Nat
BY WordSumsDef DEF WordSum
-----------------------------------------------------------------------------
(* setup_packet.                                                           *)

\* What the two parts of a concatenation are.
IsParts(r, p, q) == SubSeq(r, 1, Len(p)) = p /\ SubSeq(r, Len(p) + 1, Len(r)) = q

LEMMA ConcatParts == \A p, q \in Seq(Byte) : IsParts(p \o q, p, q)
<1> SUFFICES ASSUME NEW p \in Seq(Byte), NEW q \in Seq(Byte) PROVE IsParts(p \o q, p, q)
  OBVIOUS
<1>1. Len(p) \in Nat /\ Len(q) \in Nat /\ Len(p \o q) = Len(p) + Len(q)
  OBVIOUS
<1>2. SubSeq(p \o q, 1, Len(p)) = p
  BY <1>1
<1>3. SubSeq(p \o q, Len(p) + 1, Len(p \o q)) = q
  BY <1>1
<1> QED
  BY <1>2, <1>3 DEF IsParts

\* Byte by byte.
IsConcat(r, p, q) ==
  /\ r \in Seq(Byte) /\ Len(r) = Len(p) + Len(q)
  /\ \A i \in 1 .. Len(p) : r[i] = p[i]
  /\ \A i \in 1 .. Len(q) : r[Len(p) + i] = q[i]

LEMMA ConcatElements == \A p, q \in Seq(Byte) : IsConcat(p \o q, p, q)
BY DEF IsConcat

LEMMA SameSeq ==
  ASSUME NEW S, NEW p \in Seq(S), NEW q \in Seq(S), Len(p) = Len(q),
         \A i \in 1 .. Len(p) : p[i] = q[i]
  PROVE  p = q
<1>1. p = [i \in 1 .. Len(p) |-> p[i]] /\ q = [i \in 1 .. Len(q) |-> q[i]]
  OBVIOUS
<1> QED
  BY <1>1

\* A sequence is what comes before a place and what comes after it.
LEMMA SplitParts ==
  ASSUME NEW S, NEW p \in Seq(S), NEW n \in 0 .. Len(p)
  PROVE  /\ SubSeq(p, 1, n) \in Seq(S) /\ Len(SubSeq(p, 1, n)) = n
         /\ SubSeq(p, n + 1, Len(p)) \in Seq(S)
         /\ p = SubSeq(p, 1, n) \o SubSeq(p, n + 1, Len(p))
<1> DEFINE a == SubSeq(p, 1, n)
           b == SubSeq(p, n + 1, Len(p))
<1>1. n \in Nat /\ n <= Len(p) /\ Len(p) \in Nat
  OBVIOUS
<1>2. a \in Seq(S) /\ Len(a) = n /\ \A i \in 1 .. n : a[i] = p[i]
  BY <1>1
<1>3. b \in Seq(S) /\ Len(b) = Len(p) - n /\ \A i \in 1 .. Len(p) - n : b[i] = p[n + i]
  BY <1>1
<1> HIDE DEF a, b
<1>4. a \o b \in Seq(S) /\ Len(a \o b) = Len(p)
  BY <1>1, <1>2, <1>3
<1>5. ASSUME NEW i \in 1 .. Len(p) PROVE (a \o b)[i] = p[i]
  <2>1. CASE i <= n
    <3>1. (a \o b)[i] = a[i]
      BY <1>1, <1>2, <1>3, <2>1
    <3> QED
      BY <1>1, <1>2, <2>1, <3>1
  <2>2. CASE i > n
    <3>1. (a \o b)[i] = b[i - n]
      BY <1>1, <1>2, <1>3, <2>2
    <3>2. i - n \in 1 .. Len(p) - n /\ n + (i - n) = i
      BY <1>1, <2>2
    <3> QED
      BY <1>3, <3>1, <3>2
  <2>3. i <= n \/ i > n
    BY <1>1
  <2> QED
    BY <2>1, <2>2, <2>3
<1>6. p = a \o b
  BY <1>4, <1>5, SameSeq
<1> QED
  BY <1>2, <1>3, <1>6 DEF a, b

\* frm_chk and boot_checksum are the same sum.
LEMMA SameSum ==
  ASSUME NEW p \in Seq(Byte) PROVE frm_chk(p) = boot_checksum(p)
<1> DEFINE r == 4 * (Len(p) \div 4)
           a == SubSeq(p, 1, r)
           b == SubSeq(p, r + 1, Len(p))
<1>1. Len(p) \in Nat
  OBVIOUS
<1>2. r \in 0 .. Len(p) /\ r % 2 = 0
  BY <1>1
<1>3. frm_chk(p) = Complement(WordSum(a) + WordSum(b))
  BY DEF frm_chk
<1> HIDE DEF r
<1>4. a \in Seq(Byte) /\ Len(a) = r /\ b \in Seq(Byte) /\ p = a \o b
  BY <1>2, SplitParts
<1> HIDE DEF a, b
<1>5. WordSum(p) = WordSum(a) + WordSum(b)
  BY <1>2, <1>4, WordSumConcat
<1> QED
  BY <1>3, <1>5 DEF boot_checksum

\* The little-endian word at a place.
WordAt(p, i) == p[i] + 256 * p[i + 1]

\* What appending a word to whole words does.
IsAppended(q, p, w) ==
  /\ q \in Seq(Byte) /\ Len(q) = Len(p) + 2 /\ WordSum(q) = WordSum(p) + w
  /\ WordAt(q, Len(p) + 1) = w
  /\ \A i \in 1 .. Len(p) - 1 : WordAt(q, i) = WordAt(p, i)

LEMMA AppendWord ==
  ASSUME NEW p \in Seq(Byte), Len(p) % 2 = 0, NEW w \in Word
  PROVE  IsAppended(p \o LittleEndian(w), p, w)
<1> DEFINE e == LittleEndian(w)
           q == p \o e
<1>1. e \in Seq(Byte)
  BY WordSumOfWord
<1>2. Len(e) = 2
  BY WordSumOfWord
<1>3. WordSum(e) = w /\ e[1] + 256 * e[2] = w
  BY WordSumOfWord
<1> HIDE DEF e
<1>4. Len(p) \in Nat
  OBVIOUS
<1>5. IsConcat(q, p, e)
  BY <1>1, ConcatElements
<1>6. WordSum(q) = WordSum(p) + w
  BY <1>1, <1>3, WordSumConcat
<1> HIDE DEF q
<1>7. q \in Seq(Byte) /\ Len(q) = Len(p) + 2
  BY <1>2, <1>5 DEF IsConcat
<1>8. WordAt(q, Len(p) + 1) = w
  <2>1. \A i \in 1 .. 2 : q[Len(p) + i] = e[i]
    BY <1>2, <1>5 DEF IsConcat
  <2>2. q[Len(p) + 1] = e[1] /\ q[Len(p) + 2] = e[2]
    BY <2>1
  <2>3. (Len(p) + 1) + 1 = Len(p) + 2
    BY <1>4
  <2> QED
    BY <1>3, <2>2, <2>3 DEF WordAt
<1>9. ASSUME NEW i \in 1 .. Len(p) - 1 PROVE WordAt(q, i) = WordAt(p, i)
  <2>1. i \in 1 .. Len(p) /\ i + 1 \in 1 .. Len(p)
    BY <1>4
  <2>2. \A n \in 1 .. Len(p) : q[n] = p[n]
    BY <1>5 DEF IsConcat
  <2> QED
    BY <2>1, <2>2 DEF WordAt
<1>10. IsAppended(q, p, w)
  BY <1>6, <1>7, <1>8, <1>9 DEF IsAppended
<1> QED
  BY <1>10 DEF q, e

\* The header of an SPI packet without its sum, and with it.
SpiHead(length, cmd, sum) == LittleEndian(length) \o LittleEndian(cmd) \o LittleEndian(sum)
SpiHeader(length, cmd, sum) ==
  SpiHead(length, cmd, sum) \o LittleEndian(boot_checksum(SpiHead(length, cmd, sum)))

LEMMA SpiHeadWords ==
  ASSUME NEW length \in Word, NEW cmd \in Word, NEW sum \in Word, NEW head,
         head = SpiHead(length, cmd, sum)
  PROVE  /\ head \in Seq(Byte) /\ Len(head) = 6 /\ WordSum(head) = (length + cmd) + sum
         /\ WordAt(head, 1) = length /\ WordAt(head, 5) = sum
<1> DEFINE a == LittleEndian(length)
           b == a \o LittleEndian(cmd)
<1>1. a \in Seq(Byte) /\ Len(a) = 2 /\ WordSum(a) = length /\ WordAt(a, 1) = length
  BY WordSumOfWord DEF WordAt
<1>2. head = b \o LittleEndian(sum)
  BY DEF SpiHead
<1> HIDE DEF a
<1>3. Len(a) % 2 = 0 /\ 1 \in 1 .. Len(a) - 1
  BY <1>1
<1>4. IsAppended(b, a, cmd)
  BY <1>1, <1>3, AppendWord
<1> HIDE DEF b
<1>5. b \in Seq(Byte) /\ Len(b) = 4
  BY <1>1, <1>4 DEF IsAppended
<1>6. WordSum(b) = length + cmd /\ WordAt(b, 1) = length
  BY <1>1, <1>3, <1>4 DEF IsAppended
<1>7. Len(b) % 2 = 0 /\ 1 \in 1 .. Len(b) - 1 /\ Len(b) + 1 = 5 /\ Len(b) + 2 = 6
  BY <1>5
<1>8. IsAppended(head, b, sum)
  BY <1>2, <1>5, <1>7, AppendWord
<1>9. head \in Seq(Byte) /\ Len(head) = 6 /\ WordSum(head) = (length + cmd) + sum
  BY <1>6, <1>7, <1>8 DEF IsAppended
<1>10. WordAt(head, 1) = length /\ WordAt(head, 5) = sum
  BY <1>6, <1>7, <1>8 DEF IsAppended
<1> QED
  BY <1>9, <1>10

\* The header sums to 0.
LEMMA SpiHeaderWords ==
  ASSUME NEW length \in Word, NEW cmd \in Word, NEW sum \in Word, NEW full,
         full = SpiHeader(length, cmd, sum)
  PROVE  /\ full \in Seq(Byte) /\ Len(full) = 8 /\ boot_checksum(full) = 0
         /\ WordAt(full, 1) = length /\ WordAt(full, 5) = sum
<1> DEFINE head == SpiHead(length, cmd, sum)
           c == boot_checksum(head)
           s == (length + cmd) + sum
<1>1. /\ head \in Seq(Byte) /\ Len(head) = 6 /\ WordSum(head) = s
      /\ WordAt(head, 1) = length /\ WordAt(head, 5) = sum
  BY SpiHeadWords
<1>2. full = head \o LittleEndian(c)
  BY DEF SpiHeader
<1>3. s \in Nat /\ s <= 196605
  BY DEF Word
<1> HIDE DEF head, s
<1>4. c \in Word /\ c = Complement(s)
  BY <1>1, <1>3, ComplementType DEF boot_checksum
<1> HIDE DEF c
<1>5. /\ Len(head) % 2 = 0 /\ 1 \in 1 .. Len(head) - 1 /\ 5 \in 1 .. Len(head) - 1
      /\ Len(head) + 2 = 8
  BY <1>1
<1>6. /\ full \in Seq(Byte) /\ Len(full) = Len(head) + 2 /\ WordSum(full) = WordSum(head) + c
      /\ WordAt(full, 1) = WordAt(head, 1) /\ WordAt(full, 5) = WordAt(head, 5)
  <2>1. IsAppended(full, head, c)
    BY <1>1, <1>2, <1>4, <1>5, AppendWord
  <2> QED
    BY <1>5, <2>1 DEF IsAppended
<1>7. Complement(s + Complement(s)) = 0
  BY <1>3, ComplementCancels
<1>8. boot_checksum(full) = 0
  BY <1>1, <1>4, <1>6, <1>7 DEF boot_checksum
<1> QED
  BY <1>1, <1>5, <1>6, <1>8

\* An SPI packet is such a header and what follows it.
IsSpi(spi, full, tail) ==
  /\ Len(spi) = 8 + Len(tail) /\ SubSeq(spi, 1, 8) = full /\ SubSeq(spi, 9, Len(spi)) = tail
  /\ WordAt(spi, 1) = WordAt(full, 1) /\ WordAt(spi, 5) = WordAt(full, 5)

LEMMA SpiWords ==
  ASSUME NEW full \in Seq(Byte), Len(full) = 8, NEW tail \in Seq(Byte)
  PROVE  IsSpi(full \o tail, full, tail)
<1> DEFINE r == full \o tail
<1>1. IsParts(r, full, tail)
  BY ConcatParts
<1>2. IsConcat(r, full, tail)
  BY ConcatElements
<1> HIDE DEF r
<1>4. WordAt(r, 1) = WordAt(full, 1) /\ WordAt(r, 5) = WordAt(full, 5)
  <2>1. \A i \in 1 .. 8 : r[i] = full[i]
    BY <1>2 DEF IsConcat
  <2>2. r[1] = full[1] /\ r[2] = full[2] /\ r[5] = full[5] /\ r[6] = full[6]
    BY <2>1
  <2>3. 1 + 1 = 2 /\ 5 + 1 = 6
    OBVIOUS
  <2> QED
    BY <2>2, <2>3 DEF WordAt
<1>5. Len(full) + 1 = 9
  OBVIOUS
<1>6. SubSeq(r, 1, 8) = full /\ SubSeq(r, 9, Len(r)) = tail
  BY <1>1, <1>5 DEF IsParts
<1>7. Len(r) = 8 + Len(tail)
  BY <1>2 DEF IsConcat
<1>8. IsSpi(r, full, tail)
  BY <1>4, <1>6, <1>7 DEF IsSpi
<1> QED
  BY <1>8 DEF r

LEMMA FourZeros ==
  <<0, 0, 0, 0>> \in Seq(Byte) /\ Len(<<0, 0, 0, 0>>) = 4 /\ WordSum(<<0, 0, 0, 0>>) = 0
<1> DEFINE z == <<0, 0, 0, 0>>
           f == WordSums(z)
<1>1. /\ z \in Seq(Byte) /\ Len(z) = 4
      /\ z[1] = 0 /\ z[2] = 0 /\ z[3] = 0 /\ z[4] = 0
  BY DEF Byte
<1> HIDE DEF z
<1>2. f[0] = 0 /\ \A n \in 1 .. 4 : f[n] = f[n - 1] + (IF n % 2 = 1 THEN z[n] ELSE 256 * z[n])
  BY <1>1, WordSumsDef
<1>3. WordSum(z) = f[4]
  BY <1>1 DEF WordSum
<1> HIDE DEF f
<1>4. f[1] = 0
  BY <1>1, <1>2
<1>5. f[2] = 0
  BY <1>1, <1>2, <1>4
<1>6. f[3] = 0
  BY <1>1, <1>2, <1>5
<1>7. f[4] = 0
  BY <1>1, <1>2, <1>6
<1> QED
  BY <1>1, <1>3, <1>7 DEF z

\* The sums of every message that is sent.
LEMMA SumsHold ==
  ASSUME NEW cmd \in Commands, NEW data \in Seq(Byte), Len(data) <= HS_PACKET_SIZE,
         cmd \notin {START_DATA, MIDST_DATA, EXEC_DATA} => data = <<>>, NEW spi,
         spi = setup_spi(cmd, data)
  PROVE  /\ boot_checksum(SubSeq(spi, 1, 8)) = 0
         /\ cmd \in {START_DATA, MIDST_DATA, END_DATA, EXEC_DATA}
            /\ (cmd = MIDST_DATA => data # <<>>)
            => /\ Len(spi) = 8 + WordAt(spi, 1)
               /\ WordAt(spi, 5) = boot_checksum(SubSeq(spi, 9, Len(spi)))
<1> DEFINE length == IF cmd \in {END_DATA, SWITCH_MODE} \/ (cmd = MIDST_DATA /\ data = <<>>)
                     THEN 4 ELSE Len(data)
           sum == boot_checksum(data)
           tail == IF cmd \in {CONNECT, END_DATA, SWITCH_MODE} THEN <<0, 0, 0, 0>> ELSE data
           full == SpiHeader(length, cmd, sum)
<1>1. spi = full \o tail
  BY DEF setup_spi, SpiHeader, SpiHead
<1>2. length \in Word
  BY DEF Word, HS_PACKET_SIZE
<1>3. cmd \in Word
  BY DEF Commands, CONNECT, START_DATA, MIDST_DATA, END_DATA, EXEC_DATA, SWITCH_MODE, Word
<1>4. sum \in Word
  BY WordSumType, ComplementType DEF boot_checksum
<1>5. tail \in Seq(Byte)
  BY FourZeros
<1>6. cmd \in {START_DATA, MIDST_DATA, END_DATA, EXEC_DATA} /\ (cmd = MIDST_DATA => data # <<>>)
      => length = Len(tail) /\ sum = boot_checksum(tail)
  <2>1. CASE cmd = END_DATA
    <3>1. length = 4 /\ data = <<>> /\ tail = <<0, 0, 0, 0>>
      BY <2>1 DEF CONNECT, START_DATA, MIDST_DATA, END_DATA, EXEC_DATA, SWITCH_MODE
    <3> HIDE DEF length, tail
    <3> QED
      BY <3>1, FourZeros, WordSumOfNothing DEF boot_checksum
  <2>2. CASE cmd # END_DATA /\ cmd \in {START_DATA, MIDST_DATA, END_DATA, EXEC_DATA}
             /\ (cmd = MIDST_DATA => data # <<>>)
    <3>1. length = Len(data) /\ tail = data
      BY <2>2 DEF CONNECT, START_DATA, MIDST_DATA, END_DATA, EXEC_DATA, SWITCH_MODE
    <3> QED
      BY <3>1
  <2> QED
    BY <2>1, <2>2
<1> HIDE DEF length, sum, tail
<1>7. /\ full \in Seq(Byte) /\ Len(full) = 8 /\ boot_checksum(full) = 0
      /\ WordAt(full, 1) = length /\ WordAt(full, 5) = sum
  BY <1>2, <1>3, <1>4, SpiHeaderWords
<1> HIDE DEF full
<1>8. /\ Len(spi) = 8 + Len(tail) /\ SubSeq(spi, 1, 8) = full
      /\ SubSeq(spi, 9, Len(spi)) = tail
      /\ WordAt(spi, 1) = WordAt(full, 1) /\ WordAt(spi, 5) = WordAt(full, 5)
  <2>1. IsSpi(full \o tail, full, tail)
    BY <1>5, <1>7, SpiWords
  <2> QED
    BY <1>1, <2>1 DEF IsSpi
<1> QED
  BY <1>6, <1>7, <1>8

-----------------------------------------------------------------------------
(* Framing.                                                                *)

Begins(q, p) == Len(p) <= Len(q) /\ \A i \in 1 .. Len(p) : q[i] = p[i]

LEMMA BeginsConcat == \A p, q \in Seq(Byte) : Begins(p \o q, p)
<1> SUFFICES ASSUME NEW p \in Seq(Byte), NEW q \in Seq(Byte) PROVE Begins(p \o q, p)
  OBVIOUS
<1>1. IsConcat(p \o q, p, q)
  BY ConcatElements
<1>2. Len(p) \in Nat /\ Len(q) \in Nat
  OBVIOUS
<1> QED
  BY <1>1, <1>2 DEF IsConcat, Begins

LEMMA BeginsTransitive ==
  ASSUME NEW p \in Seq(Byte), NEW q \in Seq(Byte), NEW r \in Seq(Byte), Begins(q, p), Begins(r, q)
  PROVE  Begins(r, p)
<1>1. Len(p) \in Nat /\ Len(q) \in Nat /\ Len(r) \in Nat
  OBVIOUS
<1>2. Len(p) <= Len(q) /\ Len(q) <= Len(r)
  BY DEF Begins
<1>3. ASSUME NEW i \in 1 .. Len(p) PROVE r[i] = p[i]
  <2>1. i \in 1 .. Len(q)
    BY <1>1, <1>2
  <2> QED
    BY <2>1 DEF Begins
<1> QED
  BY <1>1, <1>2, <1>3 DEF Begins

\* What has been translated stays: dest grows at its end.
LEMMA TranslatedGrows ==
  ASSUME NEW src \in Seq(Byte), NEW n \in 0 .. Len(src), NEW m \in 0 .. n
  PROVE  Begins(Translated(src)[n], Translated(src)[m])
<1> DEFINE out == Translated(src)
           N == Len(src)
           S == {a \in 0 .. N : \A b \in 0 .. a : Begins(out[a], out[b])}
<1>1. N \in Nat /\ out \in [0 .. N -> Seq(Byte)]
  <2>1. out \in [0 .. Len(src) -> Seq(Byte)]
    BY TranslatedDef
  <2>2. N \in Nat
    OBVIOUS
  <2> HIDE DEF out
  <2> QED
    BY <2>1, <2>2
<1>2. \A a \in 1 .. N : out[a] = out[a - 1] \o Escaped(src[a])
  BY TranslatedDef
<1>3. \A a \in 1 .. N : Escaped(src[a]) \in Seq(Byte)
  <2>1. \A a \in 1 .. N : src[a] \in Byte
    OBVIOUS
  <2> QED
    BY <2>1, EscapedType
<1> HIDE DEF out, N
<1>4. \A a \in 0 .. N : Begins(out[a], out[a])
  <2> TAKE a \in 0 .. N
  <2>1. out[a] \in Seq(Byte)
    BY <1>1
  <2>2. Len(out[a]) \in Nat
    BY <2>1
  <2> QED
    BY <2>2 DEF Begins
<1>5. 0 \in S
  <2>1. \A b \in 0 .. 0 : b = 0
    OBVIOUS
  <2>2. 0 \in 0 .. N
    BY <1>1
  <2> QED
    BY <1>4, <2>1, <2>2
<1>6. ASSUME NEW a \in 1 .. N, a - 1 \in S PROVE a \in S
  <2>1. a \in 0 .. N /\ a - 1 \in 0 .. N
    BY <1>1
  <2>2. out[a] \in Seq(Byte) /\ out[a - 1] \in Seq(Byte)
    BY <1>1, <2>1
  <2>3. Begins(out[a], out[a - 1])
    BY <1>2, <1>3, <2>2, BeginsConcat
  <2>4. ASSUME NEW b \in 0 .. a PROVE Begins(out[a], out[b])
    <3>1. CASE b = a
      BY <1>4, <2>1, <3>1
    <3>2. CASE b # a
      <4>1. b \in 0 .. a - 1 /\ b \in 0 .. N
        BY <1>1, <3>2
      <4>2. Begins(out[a - 1], out[b])
        BY <1>6, <4>1
      <4>3. out[b] \in Seq(Byte)
        BY <1>1, <4>1
      <4> QED
        BY <2>2, <2>3, <4>2, <4>3, BeginsTransitive
    <3> QED
      BY <3>1, <3>2
  <2> QED
    BY <2>1, <2>4
<1>7. 0 .. N \subseteq S
  <2> HIDE DEF S
  <2> QED
    BY <1>1, <1>5, <1>6, LoopInduction
<1> QED
  BY <1>7 DEF out, N

\* The place of one byte of a packet in its frame.
IsFramed(fr, out, n, e) ==
  Len(out[n + 1]) = Len(out[n]) + Len(e) /\ \A j \in 1 .. Len(e) : fr[Len(out[n]) + j] = e[j]

\* The frame of a packet, byte by byte: a flag, the escaped bytes, a flag.
LEMMA FrameBytes ==
  ASSUME NEW src \in Seq(Byte), NEW out, out = Translated(src), NEW fr, fr = translate_packet(src)
  PROVE  /\ fr \in Seq(Byte) /\ Len(out[0]) = 1 /\ fr[1] = Flag
         /\ \A n \in 0 .. Len(src) : Len(out[n]) \in Nat /\ Len(out[n]) >= 1
                                     /\ Len(out[n]) < Len(fr)
         /\ \A n \in 0 .. Len(src) - 1 : IsFramed(fr, out, n, Escaped(src[n + 1]))
         /\ Len(fr) = Len(out[Len(src)]) + 1 /\ fr[Len(fr)] = Flag
<1> DEFINE N == Len(src)
           last == out[N]
<1>1. /\ N \in Nat /\ out \in [0 .. N -> Seq(Byte)] /\ out[0] = <<Flag>>
      /\ \A n \in 1 .. N : out[n] = out[n - 1] \o Escaped(src[n])
  <2>1. N \in Nat
    OBVIOUS
  <2>2. Translated(src) \in [0 .. Len(src) -> Seq(Byte)] /\ Translated(src)[0] = <<Flag>>
    BY TranslatedDef
  <2>3. \A n \in 1 .. Len(src) : Translated(src)[n] = Translated(src)[n - 1] \o Escaped(src[n])
    BY TranslatedDef
  <2> QED
    BY <2>1, <2>2, <2>3
<1>2. \A n \in 1 .. N : Escaped(src[n]) \in Seq(Byte)
  <2>1. \A n \in 1 .. N : src[n] \in Byte
    OBVIOUS
  <2> QED
    BY <2>1, EscapedType
<1>3. \A n \in 0 .. N : \A m \in 0 .. n : Begins(out[n], out[m])
  BY TranslatedGrows
<1>4. <<Flag>> \in Seq(Byte) /\ Len(<<Flag>>) = 1 /\ <<Flag>>[1] = Flag
  BY DEF Flag, Byte
<1>5. fr = last \o <<Flag>>
  BY DEF translate_packet
<1> HIDE DEF N
<1>6. N \in 0 .. N /\ 0 \in 0 .. N
  BY <1>1
<1>7. last \in Seq(Byte)
  BY <1>1, <1>6
<1> HIDE DEF last
<1>8. IsConcat(fr, last, <<Flag>>)
  BY <1>4, <1>5, <1>7, ConcatElements
<1>9. Len(last) \in Nat
  BY <1>7
<1>10. fr \in Seq(Byte) /\ Len(fr) = Len(last) + 1
  BY <1>4, <1>8 DEF IsConcat
<1>11. fr[Len(last) + 1] = Flag
  <2>1. 1 \in 1 .. Len(<<Flag>>)
    BY <1>4
  <2>2. fr[Len(last) + 1] = <<Flag>>[1]
    BY <1>8, <2>1 DEF IsConcat
  <2> QED
    BY <1>4, <2>2
<1>12. \A i \in 1 .. Len(last) : fr[i] = last[i]
  BY <1>8 DEF IsConcat
<1>13. ASSUME NEW n \in 0 .. N
       PROVE  /\ Len(out[n]) \in Nat /\ Len(out[n]) >= 1 /\ Len(out[n]) <= Len(last)
              /\ \A i \in 1 .. Len(out[n]) : fr[i] = out[n][i]
  <2>1. n \in 0 .. N /\ 0 \in 0 .. n /\ n \in 0 .. N
    BY <1>1
  <2>2. Begins(out[n], <<Flag>>)
    BY <1>1, <1>3, <2>1
  <2>3. Begins(last, out[n])
    BY <1>3, <1>6 DEF last
  <2>4. out[n] \in Seq(Byte)
    BY <1>1
  <2>5. Len(out[n]) \in Nat
    BY <2>4
  <2>6. Len(out[n]) >= 1
    BY <1>4, <2>2, <2>5 DEF Begins
  <2>7. Len(out[n]) <= Len(last) /\ \A i \in 1 .. Len(out[n]) : last[i] = out[n][i]
    BY <2>3 DEF Begins
  <2>8. ASSUME NEW i \in 1 .. Len(out[n]) PROVE fr[i] = out[n][i]
    <3>1. i \in 1 .. Len(last)
      BY <1>9, <2>5, <2>7
    <3> QED
      BY <1>12, <2>7, <3>1
  <2> QED
    BY <2>5, <2>6, <2>7, <2>8
<1>14. ASSUME NEW n \in 0 .. N - 1 PROVE IsFramed(fr, out, n, Escaped(src[n + 1]))
  <2> DEFINE e == Escaped(src[n + 1])
  <2>1. n + 1 \in 1 .. N /\ n + 1 \in 0 .. N /\ n \in 0 .. N /\ (n + 1) - 1 = n
    BY <1>1
  <2>2. e \in Seq(Byte)
    BY <1>2, <2>1
  <2>3. out[n] \in Seq(Byte)
    BY <1>1, <2>1
  <2>4. out[n + 1] = out[n] \o e
    BY <1>1, <2>1
  <2> HIDE DEF e
  <2>5. IsConcat(out[n + 1], out[n], e)
    BY <2>2, <2>3, <2>4, ConcatElements
  <2>6. Len(out[n]) \in Nat /\ Len(e) \in Nat
    BY <2>2, <2>3
  <2>7. Len(out[n + 1]) = Len(out[n]) + Len(e)
    BY <2>5 DEF IsConcat
  <2>8. ASSUME NEW j \in 1 .. Len(e) PROVE fr[Len(out[n]) + j] = e[j]
    <3>1. Len(out[n]) + j \in 1 .. Len(out[n + 1])
      BY <2>6, <2>7
    <3>2. fr[Len(out[n]) + j] = out[n + 1][Len(out[n]) + j]
      BY <1>13, <2>1, <3>1
    <3> QED
      BY <2>5, <3>2 DEF IsConcat
  <2> QED
    BY <2>7, <2>8 DEF e, IsFramed
<1>15. Len(out[0]) = 1
  BY <1>1, <1>4
<1>16. fr[1] = Flag
  <2>1. 1 \in 1 .. Len(out[0])
    BY <1>15
  <2>2. fr[1] = out[0][1]
    BY <1>6, <1>13, <2>1
  <2> QED
    BY <1>1, <1>4, <2>2
<1>17. \A n \in 0 .. N : Len(out[n]) \in Nat /\ Len(out[n]) >= 1 /\ Len(out[n]) < Len(fr)
  BY <1>9, <1>10, <1>13
<1> QED
  BY <1>10, <1>11, <1>14, <1>15, <1>16, <1>17 DEF N, last

\* The two bytes of an escaped flag; a byte that is neither flag nor escape is
\* sent as it is.
LEMMA EscapedBytes ==
  ASSUME NEW b \in Byte, b # Escape
  PROVE  /\ b = Flag => /\ Len(Escaped(b)) = 2
                        /\ Escaped(b)[1] = Escape /\ Escaped(b)[2] = 94
         /\ b # Flag => Len(Escaped(b)) = 1 /\ Escaped(b)[1] = b
<1>1. CASE b = Flag
  <2>1. Escaped(b) = <<Escape, 94>>
    BY <1>1 DEF Escaped
  <2> QED
    BY <1>1, <2>1
<1>2. CASE b # Flag
  <2>1. Escaped(b) = <<b>>
    BY <1>2 DEF Escaped
  <2> QED
    BY <1>2, <2>1
<1> QED
  BY <1>1, <1>2

\* The last byte and what is before it.
LEMMA LastByte ==
  ASSUME NEW d \in Seq(Byte), NEW b \in Byte
  PROVE  /\ d \o <<b>> \in Seq(Byte) /\ d \o <<b>> # <<>> /\ Append(d, b) = d \o <<b>>
         /\ Last(d \o <<b>>) = b /\ Front(d \o <<b>>) = d
<1> DEFINE e == <<b>>
           r == d \o e
<1>1. e \in Seq(Byte) /\ Len(e) = 1 /\ e[1] = b
  OBVIOUS
<1>2. Append(d, b) = r
  OBVIOUS
<1> HIDE DEF e
<1>3. IsConcat(r, d, e) /\ IsParts(r, d, e)
  BY <1>1, ConcatElements, ConcatParts
<1> HIDE DEF r
<1>4. Len(d) \in Nat
  OBVIOUS
<1>5. r \in Seq(Byte) /\ Len(r) = Len(d) + 1
  BY <1>1, <1>3 DEF IsConcat
<1>6. r # <<>>
  BY <1>4, <1>5
<1>7. r[Len(d) + 1] = b
  <2>1. 1 \in 1 .. Len(e)
    BY <1>1
  <2>2. r[Len(d) + 1] = e[1]
    BY <1>3, <2>1 DEF IsConcat
  <2> QED
    BY <1>1, <2>2
<1>8. Last(r) = b
  BY <1>5, <1>7 DEF Last
<1>9. Front(r) = d
  <2>1. Len(r) - 1 = Len(d)
    BY <1>4, <1>5
  <2> QED
    BY <1>3, <2>1 DEF Front, IsParts
<1> QED
  BY <1>2, <1>5, <1>6, <1>8, <1>9 DEF r, e

\* A prefix and the byte after it.
LEMMA PrefixGrows ==
  ASSUME NEW p \in Seq(Byte), NEW n \in 0 .. Len(p) - 1
  PROVE  /\ SubSeq(p, 1, n) \in Seq(Byte) /\ p[n + 1] \in Byte
         /\ SubSeq(p, 1, n + 1) = SubSeq(p, 1, n) \o <<p[n + 1]>>
<1> DEFINE a == SubSeq(p, 1, n)
           b == SubSeq(p, 1, n + 1)
           e == <<p[n + 1]>>
<1>1. Len(p) \in Nat
  OBVIOUS
<1>2. n \in 0 .. Len(p) /\ n + 1 \in 0 .. Len(p) /\ n + 1 \in 1 .. Len(p) /\ n \in Nat
  BY <1>1
<1>3. p[n + 1] \in Byte
  BY <1>2
<1>4. a \in Seq(Byte) /\ Len(a) = n /\ \A i \in 1 .. n : a[i] = p[i]
  BY <1>1, <1>2
<1>5. b \in Seq(Byte) /\ Len(b) = n + 1 /\ \A i \in 1 .. n + 1 : b[i] = p[i]
  BY <1>1, <1>2
<1>6. e \in Seq(Byte) /\ Len(e) = 1 /\ e[1] = p[n + 1]
  BY <1>3
<1> HIDE DEF a, b, e
<1>7. IsConcat(a \o e, a, e)
  BY <1>4, <1>6, ConcatElements
<1> DEFINE r == a \o e
<1> HIDE DEF r
<1>8. r \in Seq(Byte) /\ Len(r) = n + 1
  BY <1>4, <1>6, <1>7 DEF IsConcat, r
<1>9. ASSUME NEW i \in 1 .. n + 1 PROVE r[i] = b[i]
  <2>1. CASE i = n + 1
    <3>1. 1 \in 1 .. Len(e)
      BY <1>6
    <3>2. r[Len(a) + 1] = e[1]
      BY <1>7, <3>1 DEF IsConcat, r
    <3> QED
      BY <1>4, <1>5, <1>6, <2>1, <3>2
  <2>2. CASE i # n + 1
    <3>1. i \in 1 .. n
      BY <1>2, <2>2
    <3>2. r[i] = a[i]
      BY <1>4, <1>7, <3>1 DEF IsConcat, r
    <3> QED
      BY <1>4, <1>5, <3>1, <3>2
  <2> QED
    BY <2>1, <2>2
<1>10. r = b
  BY <1>5, <1>8, <1>9, SameSeq
<1> QED
  BY <1>3, <1>4, <1>10 DEF a, b, e, r

LEMMA WholePrefix ==
  ASSUME NEW p \in Seq(Byte)
  PROVE  SubSeq(p, 1, Len(p)) = p /\ SubSeq(p, 1, 0) = <<>>
OBVIOUS

LEMMA BigEndianType ==
  ASSUME NEW w \in Word PROVE BigEndian(w) \in Seq(Byte) /\ Len(BigEndian(w)) = 2
<1>1. w \div 256 \in Byte /\ w % 256 \in Byte
  BY CrcOfCrc
<1> QED
  BY <1>1 DEF BigEndian

\* A UART packet is bytes, and a CRC at its end verifies.
LEMMA UartPacket ==
  ASSUME NEW cmd \in Commands, NEW data \in Seq(Byte), Len(data) <= HS_PACKET_SIZE
  PROVE  /\ setup_uart(cmd, data) \in Seq(Byte) /\ Len(setup_uart(cmd, data)) > 0
         /\ cmd \notin {CONNECT, SWITCH_MODE} => crc_16_l_calc(setup_uart(cmd, data)) = 0
<1> DEFINE a == BigEndian(cmd)
           b == BigEndian(Len(data))
           p == a \o b \o data
           sum == CASE cmd = CONNECT -> <<0, 0>>
                    [] cmd = SWITCH_MODE -> LittleEndian(frm_chk(p))
                    [] OTHER -> BigEndian(crc_16_l_calc(p))
           u == setup_uart(cmd, data)
<1>1. cmd \in Word
  BY DEF Commands, CONNECT, START_DATA, MIDST_DATA, END_DATA, EXEC_DATA, SWITCH_MODE, Word
<1>2. Len(data) \in Word
  BY DEF Word, HS_PACKET_SIZE
<1>3. a \in Seq(Byte) /\ Len(a) = 2 /\ b \in Seq(Byte)
  BY <1>1, <1>2, BigEndianType
<1>4. u = p \o sum
  BY DEF setup_uart
<1> HIDE DEF a, b, u
<1>5. p \in Seq(Byte) /\ Len(p) > 0
  <2>1. IsConcat(a \o b, a, b)
    BY <1>3, ConcatElements
  <2>2. a \o b \in Seq(Byte)
    BY <2>1 DEF IsConcat
  <2>3. IsConcat((a \o b) \o data, a \o b, data)
    BY <2>2, ConcatElements
  <2>4. p = (a \o b) \o data
    OBVIOUS
  <2>5. Len(a) \in Nat /\ Len(b) \in Nat /\ Len(data) \in Nat
    BY <1>3
  <2>6. Len(a \o b) = Len(a) + Len(b)
    BY <2>1 DEF IsConcat
  <2> HIDE DEF p
  <2>7. p \in Seq(Byte) /\ Len(p) = Len(a \o b) + Len(data)
    BY <2>3, <2>4 DEF IsConcat
  <2> QED
    BY <1>3, <2>5, <2>6, <2>7
<1> HIDE DEF p
<1>6. frm_chk(p) \in Word
  BY <1>5, SameSum, WordSumType, ComplementType DEF boot_checksum
<1>7. LittleEndian(frm_chk(p)) \in Seq(Byte)
  BY <1>6, WordSumOfWord
<1>8. BigEndian(crc_16_l_calc(p)) \in Seq(Byte)
  BY <1>5, CrcAppended
<1>9. <<0, 0>> \in Seq(Byte)
  BY DEF Byte
<1>10. sum \in Seq(Byte)
  BY <1>7, <1>8, <1>9
<1>11. u \in Seq(Byte) /\ Len(u) > 0
  <2> HIDE DEF sum
  <2>1. IsConcat(p \o sum, p, sum)
    BY <1>5, <1>10, ConcatElements
  <2>2. IsConcat(u, p, sum)
    BY <1>4, <2>1
  <2>3. Len(p) \in Nat /\ Len(sum) \in Nat
    BY <1>5, <1>10
  <2> QED
    BY <1>5, <2>2, <2>3 DEF IsConcat
<1>12. ASSUME cmd \notin {CONNECT, SWITCH_MODE} PROVE crc_16_l_calc(u) = 0
  <2>1. sum = BigEndian(crc_16_l_calc(p))
    BY <1>12
  <2> QED
    BY <1>4, <1>5, <2>1, CrcAppended
<1> QED
  BY <1>11, <1>12 DEF u

-----------------------------------------------------------------------------
(* The inductive invariant.                                                *)

LEMMA BoundedBody ==
  ASSUME NEW b \in BoundedSeq(BodyBytes, MaxBody)
  PROVE  b \in Seq(0 .. 255) /\ Len(b) <= HS_PACKET_SIZE
<1>1. PICK m \in 0 .. MaxBody : b \in [1 .. m -> BodyBytes]
  BY DEF BoundedSeq, SeqOf
<1>2. m \in Nat /\ m <= HS_PACKET_SIZE
  BY PacketAssumption DEF HS_PACKET_SIZE
<1>3. b \in [1 .. m -> 0 .. 255]
  BY <1>1, PacketAssumption
<1> QED
  BY <1>2, <1>3

LEMMA SentFacts ==
  ASSUME Sent
  PROVE  packet \in Seq(Byte) /\ Len(packet) > 0 /\ frame \in Seq(Byte)
<1>1. body \in Seq(Byte)
  BY DEF Sent, Byte
<1>2. packet \in Seq(Byte) /\ Len(packet) > 0
  BY <1>1, UartPacket DEF Sent
<1>3. frame = translate_packet(packet)
  BY DEF Sent
<1>4. translate_packet(packet) \in Seq(Byte)
  BY <1>2, FrameBytes
<1> QED
  BY <1>2, <1>3, <1>4

LEMMA InitInv == Init => PacketInv
<1> SUFFICES ASSUME Init PROVE PacketInv
  OBVIOUS
<1>1. Sent
  <2>1. CASE msg \in {START_DATA, MIDST_DATA, EXEC_DATA}
    <3>1. body \in BoundedSeq(BodyBytes, MaxBody)
      BY <2>1 DEF Init
    <3> QED
      BY <2>1, <3>1, BoundedBody DEF Init, Sent
  <2>2. CASE msg \notin {START_DATA, MIDST_DATA, EXEC_DATA}
    <3>1. body = <<>>
      BY <2>2 DEF Init
    <3>2. body \in Seq(0 .. 255) /\ Len(body) <= HS_PACKET_SIZE
      BY <3>1 DEF HS_PACKET_SIZE
    <3> QED
      BY <3>1, <3>2 DEF Init, Sent
  <2> QED
    BY <2>1, <2>2
<1>2. packet \in Seq(0 .. 255) /\ frame \in Seq(0 .. 255)
  BY <1>1, SentFacts DEF Byte
<1>3. Len(frame) \in Nat
  BY <1>2
<1>4. TypeOK
  <2>1. /\ left = Len(frame) /\ status = 0
        /\ wire = <<>> /\ dest = <<>> /\ k = 1
    BY DEF Init
  <2>2. <<>> \in Seq(0 .. 255) /\ Len(<<>>) = 0
    OBVIOUS
  <2> QED
    BY <1>2, <1>3, <2>1, <2>2 DEF TypeOK
<1>5. Written
  BY DEF Init, Written
<1>6. writes # 1
  BY DEF Init
<1> QED
  BY <1>1, <1>4, <1>5, <1>6 DEF PacketInv

LEMMA WriteInv ==
  ASSUME PacketInv, Write PROVE PacketInv'
<1>1. TypeOK /\ Sent /\ Written
  BY DEF PacketInv
<1>2. UNCHANGED <<msg, body, packet, frame, k, status, dest>>
  BY DEF Write
<1>3. Sent'
  BY <1>1, <1>2 DEF Sent
<1>4. left \in Nat /\ left > 0 /\ left <= Len(frame) /\ Len(frame) \in Nat
      /\ k = 1 /\ status = 0 /\ dest = <<>> /\ writes \in Nat
  BY <1>1 DEF TypeOK, Written, Write
<1>5. PICK n \in 1 .. left : wire' = wire \o SubSeq(frame, 1, n) /\ left' = left - n
  BY <1>4 DEF Write
<1>6. frame \in Seq(0 .. 255) /\ wire \in Seq(0 .. 255)
  BY <1>1 DEF TypeOK
<1>7. wire' \in Seq(0 .. 255)
  <2>1. n \in 0 .. Len(frame)
    BY <1>4
  <2>2. SubSeq(frame, 1, n) \in Seq(0 .. 255)
    BY <1>6, <2>1, SplitParts
  <2> QED
    BY <1>5, <1>6, <2>2
<1>8. left' \in 0 .. Len(frame) /\ (left' = 0 => n = left)
  BY <1>4, <1>5
<1>9. writes' = writes + 1
  BY DEF Write
<1>10. TypeOK'
  <2>1. Len(wire') \in Nat
    BY <1>7
  <2>2. k' = 1 /\ 1 \in 1 .. Len(wire') + 1
    BY <1>2, <1>4, <2>1
  <2> QED
    BY <1>1, <1>2, <1>7, <1>8, <2>2 DEF TypeOK
<1>11. writes' = 1 /\ left' = 0 => wire' = frame'
  <2> SUFFICES ASSUME writes' = 1, left' = 0 PROVE wire' = frame'
    OBVIOUS
  <2>1. writes = 0
    BY <1>4, <1>9
  <2>2. left = Len(frame) /\ wire = <<>>
    BY <1>1, <2>1 DEF Written
  <2>3. wire' = <<>> \o SubSeq(frame, 1, Len(frame))
    BY <1>5, <1>8, <2>2
  <2>4. SubSeq(frame, 1, Len(frame)) = frame /\ <<>> \o frame = frame
    BY <1>6
  <2> QED
    BY <1>2, <2>3, <2>4
<1>12. Written'
  <2>1. writes' \in Nat /\ writes' # 0
    BY <1>4, <1>9
  <2>2. k' = 1 /\ status' = 0 /\ dest' = <<>>
    BY <1>2, <1>4
  <2> QED
    BY <1>11, <2>1, <2>2 DEF Written
<1>13. Unframing'
  BY <1>2, <1>4 DEF Unframing
<1> QED
  BY <1>3, <1>10, <1>12, <1>13 DEF PacketInv

\* The bytes of dest stay bytes, and at status 2 there is a last one.
LEMMA UntranslateType ==
  ASSUME PacketInv, Untranslate
  PROVE  TypeOK' /\ Written'
<1>1. TypeOK /\ Written
  BY DEF PacketInv
<1>2. UNCHANGED <<msg, body, packet, frame, left, writes, wire>> /\ k' = k + 1 /\ left = 0
      /\ k <= Len(wire)
  BY DEF Untranslate
<1>3. wire \in Seq(Byte) /\ dest \in Seq(Byte) /\ k \in 1 .. Len(wire) + 1 /\ Len(wire) \in Nat
  BY <1>1 DEF TypeOK, Byte
<1>4. wire[k] \in Byte /\ k' \in 1 .. Len(wire) + 1
  <2>1. k \in 1 .. Len(wire) /\ k + 1 \in 1 .. Len(wire) + 1
    BY <1>2, <1>3
  <2> QED
    BY <1>2, <1>3, <2>1
<1> DEFINE byte == wire[k]
<1>5. Append(dest, byte) \in Seq(Byte) /\ Append(dest, byte) # <<>>
  BY <1>3, <1>4, LastByte
<1>6. /\ status' \in 0 .. 3 /\ dest' \in Seq(Byte)
      /\ status' = 2 => dest' # <<>>
  <2>1. CASE status = 0
    <3>1. status' \in {0, 1} /\ dest' = dest
      BY <2>1 DEF Untranslate
    <3> QED
      BY <1>3, <3>1
  <2>2. CASE status = 1
    <3>1. \/ status' = 1 /\ dest' = dest
          \/ status' = 2 /\ dest' = Append(dest, byte)
      BY <2>2 DEF Untranslate
    <3>2. CASE status' = 1 /\ dest' = dest
      BY <1>3, <3>2
    <3>3. CASE status' = 2 /\ dest' = Append(dest, byte)
      <4> DEFINE d == Append(dest, byte)
      <4> HIDE DEF d
      <4> QED
        BY <1>5, <3>3 DEF d
    <3> QED
      BY <3>1, <3>2, <3>3
  <2>3. CASE status = 2
    <3>1. \/ status' = 3 /\ dest' = dest
          \/ /\ status' = 2
             /\ \/ dest' = Append(dest, byte)
                \/ dest' = Front(dest) \o <<Flag>>
                \/ dest' = dest
      BY <2>3 DEF Untranslate
    <3>2. dest # <<>>
      BY <1>1, <2>3 DEF Written
    <3>3. Front(dest) \in Seq(Byte)
      <4>1. Len(dest) \in Nat /\ Len(dest) # 0
        BY <1>3, <3>2
      <4>2. Len(dest) - 1 \in 0 .. Len(dest)
        BY <4>1
      <4> QED
        BY <1>3, <4>2, SplitParts DEF Front
    <3>4. Front(dest) \o <<Flag>> \in Seq(Byte) /\ Front(dest) \o <<Flag>> # <<>>
      <4>1. Flag \in Byte
        BY DEF Flag, Byte
      <4> QED
        BY <3>3, <4>1, LastByte
    <3>5. dest' \in Seq(Byte) /\ dest' # <<>>
      BY <1>3, <1>5, <3>1, <3>2, <3>4, Zenon
    <3>6. status' \in 0 .. 3
      BY <3>1
    <3> QED
      BY <3>5, <3>6
  <2>4. status \in 0 .. 3 /\ status < 3
    BY <1>1 DEF TypeOK, Untranslate
  <2> QED
    BY <2>1, <2>2, <2>3, <2>4
<1>7. TypeOK'
  BY <1>1, <1>2, <1>4, <1>6 DEF TypeOK, Byte
<1>8. Written'
  BY <1>1, <1>2, <1>6 DEF Written
<1> QED
  BY <1>7, <1>8

\* The first byte of packet[n + 1] is stored as it is or as an escape.
LEMMA FirstByte ==
  ASSUME Sent, Escape \notin ToSet(packet), NEW n \in 0 .. Len(packet) - 1,
         NEW fr, fr = frame, NEW out, out = Translated(packet)
  PROVE  /\ packet[n + 1] \in Byte /\ packet[n + 1] # Escape
         /\ packet[n + 1] = Flag => /\ fr[Len(out[n]) + 1] = Escape
                                    /\ fr[Len(out[n]) + 2] = 94
                                    /\ Len(out[n + 1]) = Len(out[n]) + 2
         /\ packet[n + 1] # Flag => /\ fr[Len(out[n]) + 1] = packet[n + 1]
                                    /\ Len(out[n + 1]) = Len(out[n]) + 1
<1> DEFINE b == packet[n + 1]
           e == Escaped(b)
<1>1. packet \in Seq(Byte)
  BY SentFacts
<1>2. n + 1 \in 1 .. Len(packet)
  BY <1>1
<1>3. b \in Byte /\ b \in ToSet(packet)
  BY <1>1, <1>2 DEF ToSet
<1>4. b # Escape
  BY <1>3
<1>5. fr = translate_packet(packet)
  BY DEF Sent
<1>6. Len(out[n + 1]) = Len(out[n]) + Len(e) /\ \A j \in 1 .. Len(e) : fr[Len(out[n]) + j] = e[j]
  <2>1. IsFramed(translate_packet(packet), Translated(packet), n, Escaped(packet[n + 1]))
    BY <1>1, FrameBytes
  <2>2. IsFramed(fr, out, n, e)
    BY <1>5, <2>1
  <2> QED
    BY <2>2 DEF IsFramed
<1> HIDE DEF b
<1>7. /\ b = Flag => Len(e) = 2 /\ e[1] = Escape /\ e[2] = 94
      /\ b # Flag => Len(e) = 1 /\ e[1] = b
  BY <1>3, <1>4, EscapedBytes
<1> HIDE DEF e
<1>8. CASE b = Flag
  <2>1. 1 \in 1 .. Len(e) /\ 2 \in 1 .. Len(e)
    BY <1>7, <1>8
  <2>2. fr[Len(out[n]) + 1] = e[1] /\ fr[Len(out[n]) + 2] = e[2]
    BY <1>6, <2>1
  <2> QED
    BY <1>3, <1>4, <1>6, <1>7, <1>8, <2>2 DEF b
<1>9. CASE b # Flag
  <2>1. 1 \in 1 .. Len(e)
    BY <1>7, <1>9
  <2>2. fr[Len(out[n]) + 1] = e[1]
    BY <1>6, <2>1
  <2> QED
    BY <1>3, <1>4, <1>6, <1>7, <1>9, <2>2 DEF b
<1> QED
  BY <1>8, <1>9

\* One round in the frame of a packet without 0x7D, by where it starts.
BehindByte(n) ==
  /\ status = 2 /\ n \in 0 .. Len(packet) /\ n > 0
  /\ k = Len(Translated(packet)[n]) + 1 /\ dest = SubSeq(packet, 1, n)
InEscape(n) ==
  /\ status = 2 /\ n \in 0 .. Len(packet) /\ n < Len(packet) /\ packet[n + 1] = Flag
  /\ k = Len(Translated(packet)[n]) + 2 /\ dest = SubSeq(packet, 1, n) \o <<Escape>>

\* The first byte of packet[n + 1] is read and stored.
LEMMA StoreByte ==
  ASSUME PacketInv, Untranslate, wire = frame, Escape \notin ToSet(packet),
         NEW n \in 0 .. Len(packet) - 1,
         k = Len(Translated(packet)[n]) + 1, dest = SubSeq(packet, 1, n),
         wire[k] # Flag => status' = 2 /\ dest' = Append(dest, wire[k])
  PROVE  BehindByte(n + 1)' \/ InEscape(n)'
<1> DEFINE out == Translated(packet)
           b == packet[n + 1]
<1>1. Sent
  BY DEF PacketInv
<1>2. /\ b \in Byte /\ b # Escape
      /\ b = Flag => wire[k] = Escape /\ Len(out[n + 1]) = Len(out[n]) + 2
      /\ b # Flag => wire[k] = b /\ Len(out[n + 1]) = Len(out[n]) + 1
  BY <1>1, FirstByte
<1>3. packet' = packet /\ k' = k + 1
  BY DEF Untranslate
<1>4. packet \in Seq(Byte) /\ Len(packet) \in Nat
  BY <1>1, SentFacts
<1>5. SubSeq(packet, 1, n) \in Seq(Byte) /\ SubSeq(packet, 1, n + 1) = SubSeq(packet, 1, n) \o <<b>>
  BY <1>4, PrefixGrows
<1>6. n + 1 \in 0 .. Len(packet) /\ n + 1 > 0 /\ n \in 0 .. Len(packet) /\ n < Len(packet)
  BY <1>4
<1>7. out[n] \in Seq(Byte)
  BY <1>4, <1>6, TranslatedDef
<1>8. Len(out[n]) \in Nat
  BY <1>7
<1>9. Escape # Flag /\ Escape \in Byte
  BY DEF Escape, Flag, Byte
<1>10. CASE b = Flag
  <2>1. status' = 2 /\ dest' = Append(dest, Escape)
    BY <1>2, <1>9, <1>10
  <2>2. dest' = SubSeq(packet, 1, n) \o <<Escape>>
    BY <1>5, <1>9, <2>1, LastByte
  <2>3. k' = Len(out[n]) + 2
    BY <1>3, <1>8
  <2> QED
    BY <1>3, <1>6, <1>10, <2>1, <2>2, <2>3 DEF InEscape
<1>11. CASE b # Flag
  <2>1. status' = 2 /\ dest' = Append(dest, b)
    BY <1>2, <1>11
  <2>2. dest' = SubSeq(packet, 1, n + 1)
    BY <1>2, <1>5, <2>1, LastByte
  <2>3. k' = Len(out[n + 1]) + 1
    BY <1>2, <1>3, <1>8, <1>11
  <2> QED
    BY <1>3, <1>6, <2>1, <2>2, <2>3 DEF BehindByte
<1> QED
  BY <1>10, <1>11

LEMMA UnframingStep ==
  ASSUME PacketInv, Untranslate, wire = frame, Escape \notin ToSet(packet), Unframing
  PROVE  Unframing'
<1> DEFINE out == Translated(packet)
<1>1. Sent /\ TypeOK
  BY DEF PacketInv
<1>2. packet' = packet /\ wire' = wire /\ k' = k + 1 /\ status < 3
  BY DEF Untranslate
<1>3. packet \in Seq(Byte) /\ Len(packet) \in Nat /\ Len(packet) > 0
  BY <1>1, SentFacts
<1>4. wire = translate_packet(packet)
  BY <1>1 DEF Sent
<1>5. wire[1] = Flag /\ Len(out[0]) = 1
  BY <1>3, <1>4, FrameBytes
<1>6. Len(wire) = Len(out[Len(packet)]) + 1 /\ wire[Len(wire)] = Flag
  BY <1>3, <1>4, FrameBytes
<1>7. \A n : BehindByte(n)' => Unframing'
  BY DEF BehindByte, Unframing
<1>8. \A n : InEscape(n)' => Unframing'
  BY DEF InEscape, Unframing
<1>9. CASE status = 0 /\ k = 1 /\ dest = <<>>
  <2>1. status' = 1 /\ dest' = dest /\ k' = 2
    BY <1>2, <1>5, <1>9 DEF Untranslate
  <2> QED
    BY <1>9, <2>1 DEF Unframing
<1>10. CASE status = 1 /\ k = 2 /\ dest = <<>>
  <2>1. wire[k] # Flag => status' = 2 /\ dest' = Append(dest, wire[k])
    BY <1>10 DEF Untranslate
  <2>2. 0 \in 0 .. Len(packet) - 1
    BY <1>3
  <2>3. k = Len(out[0]) + 1 /\ dest = SubSeq(packet, 1, 0)
    BY <1>3, <1>5, <1>10, WholePrefix
  <2>4. BehindByte(0 + 1)' \/ InEscape(0)'
    BY <2>1, <2>2, <2>3, StoreByte
  <2> QED
    BY <1>7, <1>8, <2>4
<1>11. ASSUME NEW n \in 0 .. Len(packet), BehindByte(n) PROVE Unframing'
  <2>1. status = 2 /\ n > 0 /\ k = Len(out[n]) + 1 /\ dest = SubSeq(packet, 1, n)
    BY <1>11 DEF BehindByte
  <2>2. CASE n = Len(packet)
    <3>1. k = Len(wire) /\ wire[k] = Flag
      BY <1>6, <2>1, <2>2
    <3>2. status' = 3 /\ dest' = dest
      BY <2>1, <3>1 DEF Untranslate
    <3>3. dest = packet
      BY <1>3, <2>1, <2>2, WholePrefix
    <3> QED
      BY <1>2, <3>1, <3>2, <3>3 DEF Unframing
  <2>3. CASE n # Len(packet)
    <3>1. n \in 0 .. Len(packet) - 1
      BY <1>3, <2>3
    <3>2. Last(dest) # Escape
      <4>1. n - 1 \in 0 .. Len(packet) - 1 /\ (n - 1) + 1 = n /\ n \in 1 .. Len(packet)
        BY <1>3, <2>1
      <4>2. packet[n] \in ToSet(packet)
        BY <1>3, <4>1 DEF ToSet
      <4>3. SubSeq(packet, 1, n - 1) \in Seq(Byte) /\ packet[n] \in Byte
            /\ dest = SubSeq(packet, 1, n - 1) \o <<packet[n]>>
        BY <1>3, <2>1, <4>1, PrefixGrows
      <4>4. Last(dest) = packet[n]
        BY <4>3, LastByte
      <4> QED
        BY <4>2, <4>4
    <3>3. wire[k] # Flag => status' = 2 /\ dest' = Append(dest, wire[k])
      BY <2>1, <3>2 DEF Untranslate
    <3>4. BehindByte(n + 1)' \/ InEscape(n)'
      BY <2>1, <3>1, <3>3, StoreByte
    <3> QED
      BY <1>7, <1>8, <3>4
  <2> QED
    BY <2>2, <2>3
<1>12. ASSUME NEW n \in 0 .. Len(packet), InEscape(n) PROVE Unframing'
  <2>1. /\ status = 2 /\ n < Len(packet) /\ packet[n + 1] = Flag
        /\ k = Len(out[n]) + 2 /\ dest = SubSeq(packet, 1, n) \o <<Escape>>
    BY <1>12 DEF InEscape
  <2>2. n \in 0 .. Len(packet) - 1 /\ n + 1 \in 0 .. Len(packet) /\ n + 1 > 0
    BY <1>3, <2>1
  <2>3. wire[Len(out[n]) + 2] = 94 /\ Len(out[n + 1]) = Len(out[n]) + 2
    BY <1>1, <2>1, <2>2, FirstByte
  <2>4. SubSeq(packet, 1, n) \in Seq(Byte)
        /\ SubSeq(packet, 1, n + 1) = SubSeq(packet, 1, n) \o <<packet[n + 1]>>
    BY <1>3, <2>2, PrefixGrows
  <2>5. Last(dest) = Escape /\ Front(dest) = SubSeq(packet, 1, n)
    <3>1. Escape \in Byte
      BY DEF Escape, Byte
    <3> QED
      BY <2>1, <2>4, <3>1, LastByte
  <2>6. wire[k] = 94 /\ Flag # 94
    BY <2>1, <2>3 DEF Flag
  <2>7. status' = 2 /\ dest' = Front(dest) \o <<Flag>>
    <3>1. status = 2 /\ Last(dest) = Escape
      BY <2>1, <2>5
    <3>2. /\ status' = 2
          /\ dest' = IF Last(dest) # Escape THEN Append(dest, wire[k])
                     ELSE CASE wire[k] = 94 -> Front(dest) \o <<Flag>>
                            [] OTHER -> dest
      BY <2>6, <3>1 DEF Untranslate
    <3> DEFINE d == Front(dest) \o <<Flag>>
    <3>3. dest' = CASE wire[k] = 94 -> d [] OTHER -> dest
      BY <3>1, <3>2
    <3> HIDE DEF d
    <3>4. dest' = d
      BY <2>6, <3>3
    <3> QED
      BY <3>2, <3>4 DEF d
  <2>8. dest' = SubSeq(packet, 1, n + 1)
    BY <2>1, <2>4, <2>5, <2>7
  <2>9. out[n] \in Seq(Byte)
    BY <1>3, TranslatedDef
  <2>10. Len(out[n]) \in Nat
    BY <2>9
  <2>11. k' = Len(out[n + 1]) + 1
    BY <1>2, <2>1, <2>3, <2>10
  <2>12. BehindByte(n + 1)'
    BY <1>2, <2>2, <2>7, <2>8, <2>11 DEF BehindByte
  <2> QED
    BY <1>7, <2>12
<1>13. \/ status = 0 /\ k = 1 /\ dest = <<>>
       \/ status = 1 /\ k = 2 /\ dest = <<>>
       \/ \E n \in 0 .. Len(packet) : BehindByte(n) \/ InEscape(n)
  BY <1>2 DEF Unframing, BehindByte, InEscape
<1> QED
  BY <1>9, <1>10, <1>11, <1>12, <1>13

LEMMA UntranslateInv ==
  ASSUME PacketInv, Untranslate PROVE PacketInv'
<1>1. TypeOK' /\ Written'
  BY UntranslateType
<1>2. UNCHANGED <<msg, body, packet, frame, left, writes, wire>> /\ left = 0
  BY DEF Untranslate
<1>3. Sent'
  BY <1>2 DEF PacketInv, Sent
<1>4. ASSUME (writes = 1 /\ left = 0 /\ Escape \notin ToSet(packet))' PROVE Unframing'
  <2>1. writes = 1 /\ Escape \notin ToSet(packet)
    BY <1>2, <1>4
  <2>2. wire = frame /\ Unframing
    BY <1>2, <2>1 DEF PacketInv, Written
  <2> QED
    BY <2>1, <2>2, UnframingStep
<1> QED
  BY <1>1, <1>3, <1>4 DEF PacketInv

LEMMA NextInv == PacketInv /\ [Next]_vars => PacketInv'
<1> SUFFICES ASSUME PacketInv, [Next]_vars PROVE PacketInv'
  OBVIOUS
<1>1. CASE Write
  BY <1>1, WriteInv
<1>2. CASE Untranslate
  BY <1>2, UntranslateInv
<1>3. CASE UNCHANGED vars
  BY <1>3 DEF vars, PacketInv, TypeOK, Sent, Written, Unframing
<1> QED
  BY <1>1, <1>2, <1>3 DEF Next

\* The inductive invariant, for every length of a body the code sends: the packet
\* is what setup_packet makes of its command and body, the bytes on the wire are
\* its frame as far as it was written, and untranslate_packet holds the bytes
\* that precede its place in the frame (packet.c, translate_packet to the end).
THEOREM Invariance == Spec => []PacketInv
<1> QED
  BY InitInv, NextInv, PTL DEF Spec

-----------------------------------------------------------------------------
(* The properties.                                                         *)

\* The buffers of packet.c hold bytes, the write loop ends where the frame
\* does and untranslate_packet never reads behind what it was given.
THEOREM TypeCorrect == Spec => []TypeOK
<1>1. PacketInv => TypeOK
  BY DEF PacketInv
<1> QED
  BY <1>1, Invariance, PTL

\* For every body: the CRC of a UART packet with its CRC is 0 (crc16.c lines
\* 54-82, packet.c lines 107-222).
THEOREM CrcCorrect == Spec => []CrcVerifies
<1>1. PacketInv => CrcVerifies
  <2> SUFFICES ASSUME PacketInv, msg \notin {CONNECT, SWITCH_MODE}
               PROVE  crc_16_l_calc(packet) = 0
    BY DEF CrcVerifies
  <2>1. Sent
    BY DEF PacketInv
  <2>2. body \in Seq(Byte)
    BY <2>1 DEF Sent, Byte
  <2>3. msg \in Commands /\ Len(body) <= HS_PACKET_SIZE /\ packet = setup_uart(msg, body)
    BY <2>1 DEF Sent
  <2> QED
    BY <2>2, <2>3, UartPacket
<1> QED
  BY <1>1, Invariance, PTL

\* For every body: frm_chk and boot_checksum agree, the header of an SPI
\* packet sums to 0, and what is sent has the length and the sum it announces
\* (crc16.c lines 85-140, packet.c lines 107-222).
THEOREM SumsCorrect == Spec => []SumsVerify
<1>1. PacketInv => SumsVerify
  <2> SUFFICES ASSUME PacketInv PROVE SumsVerify
    OBVIOUS
  <2> DEFINE spi == setup_spi(msg, body)
  <2>1. Sent
    BY DEF PacketInv
  <2>2. body \in Seq(Byte)
    BY <2>1 DEF Sent, Byte
  <2>3. /\ msg \in Commands /\ Len(body) <= HS_PACKET_SIZE
        /\ msg \notin {START_DATA, MIDST_DATA, EXEC_DATA} => body = <<>>
    BY <2>1 DEF Sent
  <2>4. frm_chk(body) = boot_checksum(body)
    BY <2>2, SameSum
  <2>5. /\ boot_checksum(SubSeq(spi, 1, 8)) = 0
        /\ msg \in {START_DATA, MIDST_DATA, END_DATA, EXEC_DATA}
           /\ (msg = MIDST_DATA => body # <<>>)
           => /\ Len(spi) = 8 + WordAt(spi, 1)
              /\ WordAt(spi, 5) = boot_checksum(SubSeq(spi, 9, Len(spi)))
    BY <2>2, <2>3, SumsHold
  <2> HIDE DEF spi
  <2>6. WordAt(spi, 1) = spi[1] + 256 * spi[2] /\ WordAt(spi, 5) = spi[5] + 256 * spi[6]
    BY DEF WordAt
  <2> QED
    BY <2>4, <2>5, <2>6 DEF SumsVerify, SentOverSpi, spi
<1> QED
  BY <1>1, Invariance, PTL

\* For every packet without 0x7D: written in one piece it comes out of
\* untranslate_packet as it was, at the second flag (packet.c lines 30-98).
THEOREM ArrivesCorrect == Spec => []ArrivesWithoutEscape
<1>1. PacketInv => ArrivesWithoutEscape
  <2> SUFFICES ASSUME PacketInv, status = 3, writes = 1, Escape \notin ToSet(packet)
               PROVE  dest = packet /\ k = Len(wire) + 1
    BY DEF ArrivesWithoutEscape
  <2>1. left = 0
    BY DEF PacketInv, TypeOK, Written
  <2>2. Unframing
    BY <2>1 DEF PacketInv
  <2> QED
    BY <2>2 DEF Unframing
<1> QED
  BY <1>1, Invariance, PTL
=============================================================================
