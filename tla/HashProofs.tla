----------------------------- MODULE HashProofs -----------------------------
(***************************************************************************)
(* Proofs about Hash for every block, seed and value, at the full width of *)
(* the words.                                                              *)
(***************************************************************************)
EXTENDS Hash, PositionsProofs

-----------------------------------------------------------------------------
(***************************************************************************)
(* Bytes.  A byte is its eight bits, and exclusive or adds them one by one *)
(* without a carry.                                                        *)
(***************************************************************************)
LEMMA Powers ==
    /\ Power[1] = 1 /\ Power[2] = 2 /\ Power[3] = 4 /\ Power[4] = 8 /\ Power[5] = 16
    /\ Power[6] = 32 /\ Power[7] = 64 /\ Power[8] = 128 /\ Power[9] = 256
BY DEF Power

LEMMA OneToEight ==
    \A i \in 1..8 : i = 1 \/ i = 2 \/ i = 3 \/ i = 4 \/ i = 5 \/ i = 6 \/ i = 7 \/ i = 8
OBVIOUS

LEMMA BitTyped == ASSUME NEW x \in Uint8, NEW i \in 1..8 PROVE Bit(x, i) \in 0..1
BY OneToEight, Powers DEF Uint8, Bit

LEMMA ByteOfBits ==
    ASSUME NEW x \in Uint8
    PROVE  x = Bit(x, 1) + 2 * Bit(x, 2) + 4 * Bit(x, 3) + 8 * Bit(x, 4)
               + 16 * Bit(x, 5) + 32 * Bit(x, 6) + 64 * Bit(x, 7) + 128 * Bit(x, 8)
BY Powers DEF Bit, Uint8

LEMMA BitsOfByte ==
    ASSUME NEW b1 \in 0..1, NEW b2 \in 0..1, NEW b3 \in 0..1, NEW b4 \in 0..1,
           NEW b5 \in 0..1, NEW b6 \in 0..1, NEW b7 \in 0..1, NEW b8 \in 0..1,
           NEW x, x = b1 + 2 * b2 + 4 * b3 + 8 * b4 + 16 * b5 + 32 * b6 + 64 * b7 + 128 * b8
    PROVE  /\ x \in Uint8
           /\ Bit(x, 1) = b1 /\ Bit(x, 2) = b2 /\ Bit(x, 3) = b3 /\ Bit(x, 4) = b4
           /\ Bit(x, 5) = b5 /\ Bit(x, 6) = b6 /\ Bit(x, 7) = b7 /\ Bit(x, 8) = b8
BY Powers DEF Bit, Uint8

\* Bytes with the same bits are the same.
LEMMA SameBits ==
    ASSUME NEW x \in Uint8, NEW y \in Uint8, \A i \in 1..8 : Bit(x, i) = Bit(y, i)
    PROVE  x = y
<1>1. /\ Bit(x, 1) = Bit(y, 1) /\ Bit(x, 2) = Bit(y, 2) /\ Bit(x, 3) = Bit(y, 3)
      /\ Bit(x, 4) = Bit(y, 4) /\ Bit(x, 5) = Bit(y, 5) /\ Bit(x, 6) = Bit(y, 6)
      /\ Bit(x, 7) = Bit(y, 7) /\ Bit(x, 8) = Bit(y, 8)
  OBVIOUS
<1>2. /\ x = Bit(x, 1) + 2 * Bit(x, 2) + 4 * Bit(x, 3) + 8 * Bit(x, 4)
               + 16 * Bit(x, 5) + 32 * Bit(x, 6) + 64 * Bit(x, 7) + 128 * Bit(x, 8)
      /\ y = Bit(y, 1) + 2 * Bit(y, 2) + 4 * Bit(y, 3) + 8 * Bit(y, 4)
               + 16 * Bit(y, 5) + 32 * Bit(y, 6) + 64 * Bit(y, 7) + 128 * Bit(y, 8)
  BY ByteOfBits
<1> QED
  BY <1>1, <1>2

LEMMA XorBits ==
    ASSUME NEW x \in Uint8, NEW y \in Uint8
    PROVE  /\ Xor8(x, y) \in Uint8
           /\ \A i \in 1..8 : Bit(Xor8(x, y), i) = (Bit(x, i) + Bit(y, i)) % 2
<1> DEFINE b(i) == (Bit(x, i) + Bit(y, i)) % 2
<1>1. \A i \in 1..8 : b(i) \in 0..1
  BY BitTyped
<1>2. Xor8(x, y) = b(1) + 2 * b(2) + 4 * b(3) + 8 * b(4) + 16 * b(5)
                     + 32 * b(6) + 64 * b(7) + 128 * b(8)
  <2>1. Xor8(x, y) = b(1) * 1 + b(2) * 2 + b(3) * 4 + b(4) * 8 + b(5) * 16
                       + b(6) * 32 + b(7) * 64 + b(8) * 128
    BY Powers DEF Xor8
  <2>2. /\ b(1) \in 0..1 /\ b(2) \in 0..1 /\ b(3) \in 0..1 /\ b(4) \in 0..1
        /\ b(5) \in 0..1 /\ b(6) \in 0..1 /\ b(7) \in 0..1 /\ b(8) \in 0..1
    BY <1>1
  <2> HIDE DEF b
  <2> QED
    BY <2>1, <2>2
<1>3. /\ b(1) \in 0..1 /\ b(2) \in 0..1 /\ b(3) \in 0..1 /\ b(4) \in 0..1
      /\ b(5) \in 0..1 /\ b(6) \in 0..1 /\ b(7) \in 0..1 /\ b(8) \in 0..1
  BY <1>1
<1> HIDE DEF b
<1>4. /\ Xor8(x, y) \in Uint8
      /\ Bit(Xor8(x, y), 1) = b(1) /\ Bit(Xor8(x, y), 2) = b(2)
      /\ Bit(Xor8(x, y), 3) = b(3) /\ Bit(Xor8(x, y), 4) = b(4)
      /\ Bit(Xor8(x, y), 5) = b(5) /\ Bit(Xor8(x, y), 6) = b(6)
      /\ Bit(Xor8(x, y), 7) = b(7) /\ Bit(Xor8(x, y), 8) = b(8)
  BY <1>2, <1>3, BitsOfByte
<1>5. ASSUME NEW i \in 1..8 PROVE Bit(Xor8(x, y), i) = b(i)
  BY <1>4, OneToEight
<1> QED
  BY <1>4, <1>5 DEF b

LEMMA XorCommutes ==
    ASSUME NEW x \in Uint8, NEW y \in Uint8
    PROVE  Xor8(x, y) = Xor8(y, x)
<1>1. ASSUME NEW i \in 1..8 PROVE Bit(Xor8(x, y), i) = Bit(Xor8(y, x), i)
  <2> DEFINE a == Bit(x, i)
             b == Bit(y, i)
  <2>1. Bit(Xor8(x, y), i) = (a + b) % 2 /\ Bit(Xor8(y, x), i) = (b + a) % 2
    BY XorBits
  <2>2. a \in 0..1 /\ b \in 0..1
    BY BitTyped
  <2> HIDE DEF a, b
  <2> QED
    BY <2>1, <2>2
<1> QED
  BY <1>1, XorBits, SameBits

LEMMA XorAssociates ==
    ASSUME NEW x \in Uint8, NEW y \in Uint8, NEW z \in Uint8
    PROVE  Xor8(Xor8(x, y), z) = Xor8(x, Xor8(y, z))
<1>1. ASSUME NEW i \in 1..8
      PROVE  Bit(Xor8(Xor8(x, y), z), i) = Bit(Xor8(x, Xor8(y, z)), i)
  <2> DEFINE a == Bit(x, i)
             b == Bit(y, i)
             c == Bit(z, i)
  <2>1. /\ Bit(Xor8(Xor8(x, y), z), i) = (((a + b) % 2) + c) % 2
        /\ Bit(Xor8(x, Xor8(y, z)), i) = (a + ((b + c) % 2)) % 2
    BY XorBits
  <2>2. a \in 0..1 /\ b \in 0..1 /\ c \in 0..1
    BY BitTyped
  <2> HIDE DEF a, b, c
  <2> QED
    BY <2>1, <2>2
<1>2. Xor8(Xor8(x, y), z) \in Uint8 /\ Xor8(x, Xor8(y, z)) \in Uint8
  BY XorBits
<1> QED
  BY <1>1, <1>2, SameBits

LEMMA XorZero == ASSUME NEW x \in Uint8 PROVE Xor8(x, 0) = x
<1>1. 0 \in Uint8 /\ \A i \in 1..8 : Bit(0, i) = 0
  BY OneToEight, Powers DEF Bit, Uint8
<1>2. ASSUME NEW i \in 1..8 PROVE Bit(Xor8(x, 0), i) = Bit(x, i)
  <2> DEFINE a == Bit(x, i)
  <2>1. Bit(Xor8(x, 0), i) = (a + 0) % 2
    BY <1>1, XorBits
  <2>2. a \in 0..1 /\ Bit(x, i) = a
    BY BitTyped
  <2> HIDE DEF a
  <2> QED
    BY <2>1, <2>2
<1> QED
  BY <1>1, <1>2, XorBits, SameBits

\* What is put in twice is out again.
LEMMA XorTwice ==
    ASSUME NEW x \in Uint8, NEW y \in Uint8
    PROVE  Xor8(Xor8(x, y), y) = x
<1>1. ASSUME NEW i \in 1..8 PROVE Bit(Xor8(Xor8(x, y), y), i) = Bit(x, i)
  <2> DEFINE a == Bit(x, i)
             b == Bit(y, i)
  <2>1. Bit(Xor8(Xor8(x, y), y), i) = (((a + b) % 2) + b) % 2
    BY XorBits
  <2>2. a \in 0..1 /\ b \in 0..1
    BY BitTyped
  <2>3. Bit(x, i) = a
    OBVIOUS
  <2> HIDE DEF a, b
  <2> QED
    BY <2>1, <2>2, <2>3
<1> QED
  BY <1>1, XorBits, SameBits

-----------------------------------------------------------------------------
(***************************************************************************)
(* Shifts.  Between13 and Between26 are the byte that a shift by 13 or by  *)
(* 26 puts together from two neighbours.                                   *)
(***************************************************************************)
Between13(low, high) == (low \div 32 + high * 8) % 256
Between26(low, high) == (low \div 4 + high * 64) % 256

LEMMA Between13Bits ==
    ASSUME NEW x \in Uint8, NEW y \in Uint8
    PROVE  /\ Between13(x, y) \in Uint8
           /\ Bit(Between13(x, y), 1) = Bit(x, 6) /\ Bit(Between13(x, y), 2) = Bit(x, 7)
           /\ Bit(Between13(x, y), 3) = Bit(x, 8) /\ Bit(Between13(x, y), 4) = Bit(y, 1)
           /\ Bit(Between13(x, y), 5) = Bit(y, 2) /\ Bit(Between13(x, y), 6) = Bit(y, 3)
           /\ Bit(Between13(x, y), 7) = Bit(y, 4) /\ Bit(Between13(x, y), 8) = Bit(y, 5)
<1>1. /\ Bit(x, 1) \in 0..1 /\ Bit(x, 2) \in 0..1 /\ Bit(x, 3) \in 0..1 /\ Bit(x, 4) \in 0..1
      /\ Bit(x, 5) \in 0..1 /\ Bit(x, 6) \in 0..1 /\ Bit(x, 7) \in 0..1 /\ Bit(x, 8) \in 0..1
      /\ Bit(y, 1) \in 0..1 /\ Bit(y, 2) \in 0..1 /\ Bit(y, 3) \in 0..1 /\ Bit(y, 4) \in 0..1
      /\ Bit(y, 5) \in 0..1 /\ Bit(y, 6) \in 0..1 /\ Bit(y, 7) \in 0..1 /\ Bit(y, 8) \in 0..1
  BY BitTyped
<1>2. x \div 32 = Bit(x, 6) + 2 * Bit(x, 7) + 4 * Bit(x, 8)
  BY Powers DEF Bit, Uint8
<1>3. Between13(x, y) = Bit(x, 6) + 2 * Bit(x, 7) + 4 * Bit(x, 8) + 8 * Bit(y, 1)
                          + 16 * Bit(y, 2) + 32 * Bit(y, 3) + 64 * Bit(y, 4) + 128 * Bit(y, 5)
  BY <1>1, <1>2, ByteOfBits DEF Between13
<1> QED
  BY <1>1, <1>3, BitsOfByte

LEMMA Between13Xor ==
    ASSUME NEW x \in Uint8, NEW y \in Uint8, NEW v \in Uint8, NEW w \in Uint8
    PROVE  Between13(Xor8(x, v), Xor8(y, w)) = Xor8(Between13(x, y), Between13(v, w))
<1>1. /\ Xor8(x, v) \in Uint8 /\ Xor8(y, w) \in Uint8
      /\ Between13(x, y) \in Uint8 /\ Between13(v, w) \in Uint8
      /\ Between13(Xor8(x, v), Xor8(y, w)) \in Uint8
      /\ Xor8(Between13(x, y), Between13(v, w)) \in Uint8
  BY XorBits, Between13Bits
<1>2. ASSUME NEW i \in 1..8
      PROVE  Bit(Between13(Xor8(x, v), Xor8(y, w)), i)
               = Bit(Xor8(Between13(x, y), Between13(v, w)), i)
  <2>1. /\ Bit(Xor8(Between13(x, y), Between13(v, w)), i)
             = (Bit(Between13(x, y), i) + Bit(Between13(v, w), i)) % 2
        /\ \A j \in 1..8 : /\ Bit(Xor8(x, v), j) = (Bit(x, j) + Bit(v, j)) % 2
                           /\ Bit(Xor8(y, w), j) = (Bit(y, j) + Bit(w, j)) % 2
    BY <1>1, XorBits
  <2> QED
    BY <1>1, <2>1, Between13Bits, OneToEight
<1> QED
  BY <1>1, <1>2, SameBits

LEMMA Between26Typed ==
    ASSUME NEW x \in Uint8, NEW y \in Uint8
    PROVE  Between26(x, y) \in Uint8
<1>1. \A a, b \in 0..255 : (a \div 4 + b * 64) % 256 \in 0..255
  OBVIOUS
<1> QED
  BY <1>1 DEF Between26, Uint8

-----------------------------------------------------------------------------
(***************************************************************************)
(* Words of four bytes.                                                    *)
(***************************************************************************)
LEMMA SameWord ==
    ASSUME NEW v \in Word(4), NEW w \in Word(4),
           v[1] = w[1], v[2] = w[2], v[3] = w[3], v[4] = w[4]
    PROVE  v = w
<1>1. \A k \in 1..4 : k = 1 \/ k = 2 \/ k = 3 \/ k = 4
  OBVIOUS
<1> QED
  BY <1>1 DEF Word

LEMMA WordTyped ==
    ASSUME NEW n \in Nat, NEW w \in Word(n)
    PROVE  w \in Seq(Uint8) /\ Len(w) = n /\ DOMAIN w = 1..n
BY DEF Word

LEMMA WordBytes ==
    ASSUME NEW n \in Nat, NEW w \in Word(n)
    PROVE  \A i \in 1..n : w[i] \in Uint8 /\ w[i] \in Nat
<1>1. \A i \in 1..n : w[i] \in Uint8
  BY DEF Word
<1> QED
  BY <1>1 DEF Uint8

LEMMA XorWord ==
    ASSUME NEW n \in Nat, NEW v \in Word(n), NEW w \in Word(n)
    PROVE  XorW(v, w) \in Word(n) /\ \A k \in 1..n : XorW(v, w)[k] = Xor8(v[k], w[k])
<1>1. DOMAIN v = 1..n /\ \A k \in 1..n : v[k] \in Uint8 /\ w[k] \in Uint8
  BY DEF Word
<1>2. \A k \in 1..n : Xor8(v[k], w[k]) \in Uint8
  BY <1>1, XorBits
<1> QED
  BY <1>1, <1>2 DEF XorW, Word

LEMMA XorWordTwice ==
    ASSUME NEW v \in Word(4), NEW w \in Word(4)
    PROVE  /\ XorW(XorW(v, w), w) = v
           /\ XorW(XorW(w, v), w) = v
<1>1. \A k \in 1..4 : v[k] \in Uint8 /\ w[k] \in Uint8
  BY DEF Word
<1>2. /\ XorW(v, w) \in Word(4) /\ \A k \in 1..4 : XorW(v, w)[k] = Xor8(v[k], w[k])
      /\ XorW(w, v) \in Word(4) /\ \A k \in 1..4 : XorW(w, v)[k] = Xor8(w[k], v[k])
  BY XorWord
<1>3. \A k \in 1..4 : XorW(w, v)[k] = XorW(v, w)[k]
  BY <1>1, <1>2, XorCommutes
<1>4. XorW(w, v) = XorW(v, w)
  BY <1>2, <1>3, SameWord
<1>5. /\ XorW(XorW(v, w), w) \in Word(4)
      /\ \A k \in 1..4 : XorW(XorW(v, w), w)[k] = Xor8(XorW(v, w)[k], w[k])
  BY <1>2, XorWord
<1>6. \A k \in 1..4 : XorW(XorW(v, w), w)[k] = v[k]
  BY <1>1, <1>2, <1>5, XorTwice
<1> QED
  BY <1>4, <1>5, <1>6, SameWord

LEMMA Shifted ==
    ASSUME NEW w \in Word(4)
    PROVE  /\ ShiftRight(w, 16) \in Word(4) /\ ShiftRight(w, 13) \in Word(4)
           /\ ShiftRight(w, 26) \in Word(4)
           /\ ShiftRight(w, 16)[1] = w[3] /\ ShiftRight(w, 16)[2] = w[4]
           /\ ShiftRight(w, 16)[3] = 0 /\ ShiftRight(w, 16)[4] = 0
           /\ ShiftRight(w, 13)[1] = Between13(w[2], w[3])
           /\ ShiftRight(w, 13)[2] = Between13(w[3], w[4])
           /\ ShiftRight(w, 13)[3] = Between13(w[4], 0)
           /\ ShiftRight(w, 13)[4] = Between13(0, 0)
           /\ ShiftRight(w, 26)[1] = Between26(w[4], 0)
           /\ ShiftRight(w, 26)[2] = Between26(0, 0)
           /\ ShiftRight(w, 26)[3] = Between26(0, 0)
           /\ ShiftRight(w, 26)[4] = Between26(0, 0)
<1> DEFINE byte(k) == IF k \in DOMAIN w THEN w[k] ELSE 0
<1>1. /\ byte(1) = w[1] /\ byte(2) = w[2] /\ byte(3) = w[3] /\ byte(4) = w[4]
      /\ byte(5) = 0 /\ byte(6) = 0 /\ byte(7) = 0 /\ byte(8) = 0
      /\ \A k \in Nat : byte(k) \in Uint8
      /\ DOMAIN w = 1..4
  BY DEF Word, Uint8
<1> HIDE DEF byte
<1>2. /\ 16 \div 8 = 2 /\ 16 % 8 = 0 /\ 13 \div 8 = 1 /\ 13 % 8 = 5 /\ 26 \div 8 = 3 /\ 26 % 8 = 2
  OBVIOUS
<1>3. /\ ShiftRight(w, 16) = [k \in 1..4 |-> (byte(k + 2) \div 1 + byte(k + 2 + 1) * 256) % 256]
      /\ ShiftRight(w, 13) = [k \in 1..4 |-> (byte(k + 1) \div 32 + byte(k + 1 + 1) * 8) % 256]
      /\ ShiftRight(w, 26) = [k \in 1..4 |-> (byte(k + 3) \div 4 + byte(k + 3 + 1) * 64) % 256]
  BY <1>1, <1>2, Powers DEF ShiftRight, byte
<1>4. /\ \A k \in 1..4 : ShiftRight(w, 16)[k] = byte(k + 2)
      /\ \A k \in 1..4 : ShiftRight(w, 13)[k] = Between13(byte(k + 1), byte(k + 1 + 1))
      /\ \A k \in 1..4 : ShiftRight(w, 26)[k] = Between26(byte(k + 3), byte(k + 3 + 1))
  <2>1. ASSUME NEW k \in 1..4 PROVE (byte(k + 2) \div 1 + byte(k + 2 + 1) * 256) % 256 = byte(k + 2)
    <3>1. byte(k + 2) \in 0..255 /\ byte(k + 2 + 1) \in 0..255
      BY <1>1 DEF Uint8
    <3>2. \A a, b \in 0..255 : (a \div 1 + b * 256) % 256 = a
      OBVIOUS
    <3> QED
      BY <3>1, <3>2
  <2> QED
    BY <1>3, <2>1 DEF Between13, Between26
<1>5. /\ \A k \in 1..4 : byte(k + 2) \in Uint8
      /\ \A k \in 1..4 : Between13(byte(k + 1), byte(k + 1 + 1)) \in Uint8
      /\ \A k \in 1..4 : Between26(byte(k + 3), byte(k + 3 + 1)) \in Uint8
  BY <1>1, Between13Bits, Between26Typed
<1>6. /\ ShiftRight(w, 16) \in Word(4) /\ ShiftRight(w, 13) \in Word(4)
      /\ ShiftRight(w, 26) \in Word(4)
  BY <1>3, <1>4, <1>5 DEF Word
<1> QED
  BY <1>1, <1>4, <1>6

\* Two shifts by 13 are one by 26.
LEMMA TwiceBetween13 ==
    ASSUME NEW x \in Uint8, NEW y \in Uint8
    PROVE  /\ Between13(Between13(x, y), Between13(y, 0)) = Between26(y, 0)
           /\ Between13(Between13(y, 0), 0) = 0
<1>1. x \in 0..255 /\ y \in 0..255
  BY DEF Uint8
<1>2. PICK q \in 0..7 : q = x \div 32
  BY <1>1
<1>3. PICK u \in 0..7, v \in 0..7, r \in 0..3 : y = 32 * u + 4 * v + r
  <2>1. /\ y \div 32 \in 0..7 /\ (y % 32) \div 4 \in 0..7 /\ y % 4 \in 0..3
        /\ y = 32 * (y \div 32) + 4 * ((y % 32) \div 4) + (y % 4)
    BY <1>1
  <2> QED
    BY <2>1
<1>4. Between13(x, y) = q + 8 * (4 * v + r)
  BY <1>2, <1>3 DEF Between13
<1>5. Between13(y, 0) = u
  BY <1>3 DEF Between13
<1>6. Between26(y, 0) = 8 * u + v
  BY <1>3 DEF Between26
<1>7. Between13(q + 8 * (4 * v + r), u) = v + 8 * u
  BY <1>2, <1>3 DEF Between13
<1>8. Between13(u, 0) = 0
  BY <1>3 DEF Between13
<1> QED
  BY <1>3, <1>4, <1>5, <1>6, <1>7, <1>8

\* The shifts of fmix32 and what undoes them.
LEMMA Shift16Undone ==
    ASSUME NEW w \in Word(4)
    PROVE  LET x == XorW(w, ShiftRight(w, 16)) IN
           x \in Word(4) /\ XorW(x, ShiftRight(x, 16)) = w
<1> DEFINE x == XorW(w, ShiftRight(w, 16))
           s == ShiftRight(w, 16)
           y == XorW(x, ShiftRight(x, 16))
<1>1. \A k \in 1..4 : w[k] \in Uint8 /\ s[k] \in Uint8
  BY Shifted DEF Word
<1>2. s \in Word(4) /\ s[1] = w[3] /\ s[2] = w[4] /\ s[3] = 0 /\ s[4] = 0
  BY Shifted
<1>3. x \in Word(4) /\ \A k \in 1..4 : x[k] = Xor8(w[k], s[k])
  BY <1>2, XorWord
<1>4. Xor8(w[3], 0) = w[3] /\ Xor8(w[4], 0) = w[4]
  BY <1>1, XorZero
<1>5. /\ ShiftRight(x, 16) \in Word(4)
      /\ ShiftRight(x, 16)[1] = x[3] /\ ShiftRight(x, 16)[2] = x[4]
      /\ ShiftRight(x, 16)[3] = 0 /\ ShiftRight(x, 16)[4] = 0
  BY <1>3, Shifted
<1>6. ShiftRight(x, 16) = s
  <2> HIDE DEF s, x
  <2> QED
    BY <1>2, <1>3, <1>4, <1>5, SameWord
<1>7. XorW(x, s) = w
  BY <1>2, XorWordTwice
<1> QED
  BY <1>3, <1>6, <1>7

LEMMA XorUndone ==
    ASSUME NEW x \in Uint8, NEW s \in Uint8, NEW t \in Uint8
    PROVE  Xor8(Xor8(Xor8(x, s), Xor8(s, t)), t) = x
<1>1. Xor8(s, t) \in Uint8 /\ Xor8(t, s) \in Uint8
  BY XorBits
<1>2. Xor8(s, Xor8(s, t)) = t
  <2>1. Xor8(s, Xor8(s, t)) = Xor8(Xor8(s, t), s) /\ Xor8(s, t) = Xor8(t, s)
    BY <1>1, XorCommutes
  <2>2. Xor8(Xor8(t, s), s) = t
    BY XorTwice
  <2> QED
    BY <2>1, <2>2
<1>3. Xor8(Xor8(x, s), Xor8(s, t)) = Xor8(x, Xor8(s, Xor8(s, t)))
  BY <1>1, XorAssociates
<1>4. Xor8(Xor8(x, t), t) = x
  BY XorTwice
<1> QED
  BY <1>2, <1>3, <1>4

LEMMA Shift13Undone ==
    ASSUME NEW w \in Word(4)
    PROVE  LET x == XorW(w, ShiftRight(w, 13)) IN x \in Word(4) /\ UndoShift13(x) = w
<1> DEFINE s == ShiftRight(w, 13)
           t == ShiftRight(w, 26)
           x == XorW(w, s)
<1>1. s \in Word(4) /\ t \in Word(4)
  BY Shifted
<1>2. /\ s[1] = Between13(w[2], w[3]) /\ s[2] = Between13(w[3], w[4])
      /\ s[3] = Between13(w[4], 0) /\ s[4] = Between13(0, 0)
      /\ t[1] = Between26(w[4], 0) /\ t[2] = Between26(0, 0)
      /\ t[3] = Between26(0, 0) /\ t[4] = Between26(0, 0)
  BY Shifted
<1>3. x \in Word(4) /\ \A k \in 1..4 : x[k] = Xor8(w[k], s[k])
  BY <1>1, XorWord
<1> HIDE DEF s, t
<1>4. /\ w[1] \in Uint8 /\ w[2] \in Uint8 /\ w[3] \in Uint8 /\ w[4] \in Uint8
      /\ s[1] \in Uint8 /\ s[2] \in Uint8 /\ s[3] \in Uint8 /\ s[4] \in Uint8
      /\ t[1] \in Uint8 /\ t[2] \in Uint8 /\ t[3] \in Uint8 /\ t[4] \in Uint8
  BY <1>1 DEF Word
<1>5. /\ x[1] = Xor8(w[1], s[1]) /\ x[2] = Xor8(w[2], s[2])
      /\ x[3] = Xor8(w[3], s[3]) /\ x[4] = Xor8(w[4], s[4])
  BY <1>3
<1>6. /\ Between13(0, 0) = 0 /\ Between26(0, 0) = 0 /\ 0 \in Uint8
      /\ Xor8(0, 0) = 0 /\ Xor8(s[2], 0) = s[2] /\ Xor8(s[3], 0) = s[3] /\ Xor8(w[4], 0) = w[4]
  <2>1. 0 \in Uint8
    BY DEF Uint8
  <2> QED
    BY <1>4, <2>1, XorZero DEF Between13, Between26
<1> HIDE DEF x
<1>7. ShiftRight(x, 13) = XorW(s, t)
  <2>1. /\ ShiftRight(x, 13) \in Word(4)
        /\ ShiftRight(x, 13)[1] = Between13(x[2], x[3])
        /\ ShiftRight(x, 13)[2] = Between13(x[3], x[4])
        /\ ShiftRight(x, 13)[3] = Between13(x[4], 0)
        /\ ShiftRight(x, 13)[4] = Between13(0, 0)
    BY <1>3, Shifted
  <2>2. /\ XorW(s, t) \in Word(4)
        /\ XorW(s, t)[1] = Xor8(s[1], t[1]) /\ XorW(s, t)[2] = Xor8(s[2], t[2])
        /\ XorW(s, t)[3] = Xor8(s[3], t[3]) /\ XorW(s, t)[4] = Xor8(s[4], t[4])
    BY <1>1, XorWord
  <2>3. Between13(x[2], x[3]) = Xor8(s[1], t[1])
    <3>1. Between13(x[2], x[3]) = Xor8(Between13(w[2], w[3]), Between13(s[2], s[3]))
      <4>1. Between13(Xor8(w[2], s[2]), Xor8(w[3], s[3]))
              = Xor8(Between13(w[2], w[3]), Between13(s[2], s[3]))
        BY <1>4, Between13Xor
      <4> QED
        BY <1>5, <4>1
    <3>2. Between13(s[2], s[3]) = t[1]
      BY <1>2, <1>4, TwiceBetween13
    <3> QED
      BY <1>2, <3>1, <3>2
  <2>4. Between13(x[3], x[4]) = Xor8(s[2], t[2])
    <3>1. Between13(x[3], x[4]) = Xor8(Between13(w[3], w[4]), Between13(s[3], s[4]))
      <4>1. Between13(Xor8(w[3], s[3]), Xor8(w[4], s[4]))
              = Xor8(Between13(w[3], w[4]), Between13(s[3], s[4]))
        BY <1>4, Between13Xor
      <4> QED
        BY <1>5, <4>1
    <3>2. Between13(s[3], s[4]) = 0
      BY <1>2, <1>4, <1>6, TwiceBetween13
    <3> QED
      BY <1>2, <1>6, <3>1, <3>2
  <2>5. Between13(x[4], 0) = Xor8(s[3], t[3])
    <3>1. x[4] = w[4]
      BY <1>2, <1>5, <1>6
    <3> QED
      BY <1>2, <1>6, <3>1
  <2> QED
    BY <1>2, <1>6, <2>1, <2>2, <2>3, <2>4, <2>5, SameWord
<1>8. ShiftRight(x, 26) = t
  <2>1. /\ ShiftRight(x, 26) \in Word(4)
        /\ ShiftRight(x, 26)[1] = Between26(x[4], 0) /\ ShiftRight(x, 26)[2] = Between26(0, 0)
        /\ ShiftRight(x, 26)[3] = Between26(0, 0) /\ ShiftRight(x, 26)[4] = Between26(0, 0)
    BY <1>3, Shifted
  <2>2. x[4] = w[4]
    BY <1>2, <1>5, <1>6
  <2> QED
    BY <1>1, <1>2, <2>1, <2>2, SameWord
<1>9. XorW(XorW(x, XorW(s, t)), t) = w
  <2>1. XorW(s, t) \in Word(4) /\ \A k \in 1..4 : XorW(s, t)[k] = Xor8(s[k], t[k])
    BY <1>1, XorWord
  <2> DEFINE a == XorW(s, t)
             b == XorW(x, a)
  <2>2. b \in Word(4) /\ \A k \in 1..4 : b[k] = Xor8(x[k], a[k])
    BY <1>3, <2>1, XorWord
  <2> HIDE DEF b
  <2>3. XorW(b, t) \in Word(4) /\ \A k \in 1..4 : XorW(b, t)[k] = Xor8(b[k], t[k])
    BY <1>1, <2>2, XorWord
  <2>4. ASSUME NEW k \in 1..4 PROVE XorW(b, t)[k] = w[k]
    <3>1. XorW(b, t)[k] = Xor8(Xor8(Xor8(w[k], s[k]), Xor8(s[k], t[k])), t[k])
      BY <1>3, <2>1, <2>2, <2>3
    <3>2. w[k] \in Uint8 /\ s[k] \in Uint8 /\ t[k] \in Uint8
      BY <1>1 DEF Word
    <3> QED
      BY <3>1, <3>2, XorUndone
  <2> QED
    BY <2>3, <2>4, SameWord DEF b
<1>10. UndoShift13(x) = w
  BY <1>7, <1>8, <1>9 DEF UndoShift13
<1> QED
  BY <1>3, <1>10 DEF x, s

-----------------------------------------------------------------------------
(***************************************************************************)
(* Rotations.  Turned is the byte that a rotation puts together from the   *)
(* one before it and the one before that.                                  *)
(***************************************************************************)
Turned(up, down, x, y) == (x * up + y \div down) % 256

LEMMA TurnedTyped ==
    ASSUME NEW x \in Uint8, NEW y \in Uint8
    PROVE  /\ Turned(128, 2, x, y) \in Uint8 /\ Turned(2, 128, x, y) \in Uint8
           /\ Turned(32, 8, x, y) \in Uint8 /\ Turned(8, 32, x, y) \in Uint8
<1>1. x \in 0..255 /\ y \in 0..255
  BY DEF Uint8
<1> QED
  BY <1>1 DEF Turned, Uint8

\* Three and two places on, round the end of four.
LEMMA Around ==
    /\ 1 + ((1 + 4 - 1 - 1) % 4) = 4 /\ 1 + ((2 + 4 - 1 - 1) % 4) = 1
    /\ 1 + ((3 + 4 - 1 - 1) % 4) = 2 /\ 1 + ((4 + 4 - 1 - 1) % 4) = 3
    /\ 1 + ((1 + 4 - 2 - 1) % 4) = 3 /\ 1 + ((2 + 4 - 2 - 1) % 4) = 4
    /\ 1 + ((3 + 4 - 2 - 1) % 4) = 1 /\ 1 + ((4 + 4 - 2 - 1) % 4) = 2
    /\ 1 + ((1 + 4 - 1 - 1 - 1) % 4) = 3 /\ 1 + ((2 + 4 - 1 - 1 - 1) % 4) = 4
    /\ 1 + ((3 + 4 - 1 - 1 - 1) % 4) = 1 /\ 1 + ((4 + 4 - 1 - 1 - 1) % 4) = 2
    /\ 1 + ((1 + 4 - 2 - 1 - 1) % 4) = 2 /\ 1 + ((2 + 4 - 2 - 1 - 1) % 4) = 3
    /\ 1 + ((3 + 4 - 2 - 1 - 1) % 4) = 4 /\ 1 + ((4 + 4 - 2 - 1 - 1) % 4) = 1
OBVIOUS

LEMMA Rotated ==
    ASSUME NEW w \in Word(4)
    PROVE  /\ Rotl(w, 15) \in Word(4)
           /\ Rotl(w, 15)[1] = Turned(128, 2, w[4], w[3])
           /\ Rotl(w, 15)[2] = Turned(128, 2, w[1], w[4])
           /\ Rotl(w, 15)[3] = Turned(128, 2, w[2], w[1])
           /\ Rotl(w, 15)[4] = Turned(128, 2, w[3], w[2])
           /\ Rotl(w, 17) \in Word(4)
           /\ Rotl(w, 17)[1] = Turned(2, 128, w[3], w[2])
           /\ Rotl(w, 17)[2] = Turned(2, 128, w[4], w[3])
           /\ Rotl(w, 17)[3] = Turned(2, 128, w[1], w[4])
           /\ Rotl(w, 17)[4] = Turned(2, 128, w[2], w[1])
           /\ Rotl(w, 13) \in Word(4)
           /\ Rotl(w, 13)[1] = Turned(32, 8, w[4], w[3])
           /\ Rotl(w, 13)[2] = Turned(32, 8, w[1], w[4])
           /\ Rotl(w, 13)[3] = Turned(32, 8, w[2], w[1])
           /\ Rotl(w, 13)[4] = Turned(32, 8, w[3], w[2])
           /\ Rotl(w, 19) \in Word(4)
           /\ Rotl(w, 19)[1] = Turned(8, 32, w[3], w[2])
           /\ Rotl(w, 19)[2] = Turned(8, 32, w[4], w[3])
           /\ Rotl(w, 19)[3] = Turned(8, 32, w[1], w[4])
           /\ Rotl(w, 19)[4] = Turned(8, 32, w[2], w[1])
<1> DEFINE byte(k) == w[1 + ((k - 1) % 4)]
<1>1. Len(w) = 4 /\ DOMAIN w = 1..4
  BY WordTyped
<1>a. \A k \in Nat : k > 0 => byte(k) \in Uint8
  <2>1. \A k \in Nat : k > 0 => 1 + ((k - 1) % 4) \in 1..4
    OBVIOUS
  <2>2. \A i \in 1..4 : w[i] \in Uint8
    BY WordBytes
  <2> QED
    BY <2>1, <2>2
<1>2. /\ Rotl(w, 15) \in Word(4)
      /\ Rotl(w, 15)[1] = Turned(128, 2, w[4], w[3])
      /\ Rotl(w, 15)[2] = Turned(128, 2, w[1], w[4])
      /\ Rotl(w, 15)[3] = Turned(128, 2, w[2], w[1])
      /\ Rotl(w, 15)[4] = Turned(128, 2, w[3], w[2])
  <2>1. 15 \div 8 = 1 /\ 15 % 8 = 7
    OBVIOUS
  <2>2. Rotl(w, 15) = [k \in 1..4 |-> Turned(128, 2, byte(k + 4 - 1), byte(k + 4 - 1 - 1))]
    BY <1>1, <2>1, Powers DEF Rotl, Turned
  <2>3. \A k \in 1..4 : byte(k + 4 - 1) \in Uint8 /\ byte(k + 4 - 1 - 1) \in Uint8
    <3>1. \A k \in 1..4 : /\ k + 4 - 1 \in Nat /\ k + 4 - 1 > 0
                          /\ k + 4 - 1 - 1 \in Nat /\ k + 4 - 1 - 1 > 0
      OBVIOUS
    <3> HIDE DEF byte
    <3> QED
      BY <1>a, <3>1
  <2>4. \A k \in 1..4 : Turned(128, 2, byte(k + 4 - 1), byte(k + 4 - 1 - 1)) \in Uint8
    BY <2>3, TurnedTyped
  <2>5. Rotl(w, 15) \in Word(4)
    BY <2>2, <2>4 DEF Word
  <2>6. /\ byte(1 + 4 - 1) = w[4] /\ byte(1 + 4 - 1 - 1) = w[3]
        /\ byte(2 + 4 - 1) = w[1] /\ byte(2 + 4 - 1 - 1) = w[4]
        /\ byte(3 + 4 - 1) = w[2] /\ byte(3 + 4 - 1 - 1) = w[1]
        /\ byte(4 + 4 - 1) = w[3] /\ byte(4 + 4 - 1 - 1) = w[2]
    BY Around
  <2> QED
    BY <2>2, <2>5, <2>6
<1>3. /\ Rotl(w, 17) \in Word(4)
      /\ Rotl(w, 17)[1] = Turned(2, 128, w[3], w[2])
      /\ Rotl(w, 17)[2] = Turned(2, 128, w[4], w[3])
      /\ Rotl(w, 17)[3] = Turned(2, 128, w[1], w[4])
      /\ Rotl(w, 17)[4] = Turned(2, 128, w[2], w[1])
  <2>1. 17 \div 8 = 2 /\ 17 % 8 = 1
    OBVIOUS
  <2>2. Rotl(w, 17) = [k \in 1..4 |-> Turned(2, 128, byte(k + 4 - 2), byte(k + 4 - 2 - 1))]
    BY <1>1, <2>1, Powers DEF Rotl, Turned
  <2>3. \A k \in 1..4 : byte(k + 4 - 2) \in Uint8 /\ byte(k + 4 - 2 - 1) \in Uint8
    <3>1. \A k \in 1..4 : /\ k + 4 - 2 \in Nat /\ k + 4 - 2 > 0
                          /\ k + 4 - 2 - 1 \in Nat /\ k + 4 - 2 - 1 > 0
      OBVIOUS
    <3> HIDE DEF byte
    <3> QED
      BY <1>a, <3>1
  <2>4. \A k \in 1..4 : Turned(2, 128, byte(k + 4 - 2), byte(k + 4 - 2 - 1)) \in Uint8
    BY <2>3, TurnedTyped
  <2>5. Rotl(w, 17) \in Word(4)
    BY <2>2, <2>4 DEF Word
  <2>6. /\ byte(1 + 4 - 2) = w[3] /\ byte(1 + 4 - 2 - 1) = w[2]
        /\ byte(2 + 4 - 2) = w[4] /\ byte(2 + 4 - 2 - 1) = w[3]
        /\ byte(3 + 4 - 2) = w[1] /\ byte(3 + 4 - 2 - 1) = w[4]
        /\ byte(4 + 4 - 2) = w[2] /\ byte(4 + 4 - 2 - 1) = w[1]
    BY Around
  <2> QED
    BY <2>2, <2>5, <2>6
<1>4. /\ Rotl(w, 13) \in Word(4)
      /\ Rotl(w, 13)[1] = Turned(32, 8, w[4], w[3])
      /\ Rotl(w, 13)[2] = Turned(32, 8, w[1], w[4])
      /\ Rotl(w, 13)[3] = Turned(32, 8, w[2], w[1])
      /\ Rotl(w, 13)[4] = Turned(32, 8, w[3], w[2])
  <2>1. 13 \div 8 = 1 /\ 13 % 8 = 5
    OBVIOUS
  <2>2. Rotl(w, 13) = [k \in 1..4 |-> Turned(32, 8, byte(k + 4 - 1), byte(k + 4 - 1 - 1))]
    BY <1>1, <2>1, Powers DEF Rotl, Turned
  <2>3. \A k \in 1..4 : byte(k + 4 - 1) \in Uint8 /\ byte(k + 4 - 1 - 1) \in Uint8
    <3>1. \A k \in 1..4 : /\ k + 4 - 1 \in Nat /\ k + 4 - 1 > 0
                          /\ k + 4 - 1 - 1 \in Nat /\ k + 4 - 1 - 1 > 0
      OBVIOUS
    <3> HIDE DEF byte
    <3> QED
      BY <1>a, <3>1
  <2>4. \A k \in 1..4 : Turned(32, 8, byte(k + 4 - 1), byte(k + 4 - 1 - 1)) \in Uint8
    BY <2>3, TurnedTyped
  <2>5. Rotl(w, 13) \in Word(4)
    BY <2>2, <2>4 DEF Word
  <2>6. /\ byte(1 + 4 - 1) = w[4] /\ byte(1 + 4 - 1 - 1) = w[3]
        /\ byte(2 + 4 - 1) = w[1] /\ byte(2 + 4 - 1 - 1) = w[4]
        /\ byte(3 + 4 - 1) = w[2] /\ byte(3 + 4 - 1 - 1) = w[1]
        /\ byte(4 + 4 - 1) = w[3] /\ byte(4 + 4 - 1 - 1) = w[2]
    BY Around
  <2> QED
    BY <2>2, <2>5, <2>6
<1>5. /\ Rotl(w, 19) \in Word(4)
      /\ Rotl(w, 19)[1] = Turned(8, 32, w[3], w[2])
      /\ Rotl(w, 19)[2] = Turned(8, 32, w[4], w[3])
      /\ Rotl(w, 19)[3] = Turned(8, 32, w[1], w[4])
      /\ Rotl(w, 19)[4] = Turned(8, 32, w[2], w[1])
  <2>1. 19 \div 8 = 2 /\ 19 % 8 = 3
    OBVIOUS
  <2>2. Rotl(w, 19) = [k \in 1..4 |-> Turned(8, 32, byte(k + 4 - 2), byte(k + 4 - 2 - 1))]
    BY <1>1, <2>1, Powers DEF Rotl, Turned
  <2>3. \A k \in 1..4 : byte(k + 4 - 2) \in Uint8 /\ byte(k + 4 - 2 - 1) \in Uint8
    <3>1. \A k \in 1..4 : /\ k + 4 - 2 \in Nat /\ k + 4 - 2 > 0
                          /\ k + 4 - 2 - 1 \in Nat /\ k + 4 - 2 - 1 > 0
      OBVIOUS
    <3> HIDE DEF byte
    <3> QED
      BY <1>a, <3>1
  <2>4. \A k \in 1..4 : Turned(8, 32, byte(k + 4 - 2), byte(k + 4 - 2 - 1)) \in Uint8
    BY <2>3, TurnedTyped
  <2>5. Rotl(w, 19) \in Word(4)
    BY <2>2, <2>4 DEF Word
  <2>6. /\ byte(1 + 4 - 2) = w[3] /\ byte(1 + 4 - 2 - 1) = w[2]
        /\ byte(2 + 4 - 2) = w[4] /\ byte(2 + 4 - 2 - 1) = w[3]
        /\ byte(3 + 4 - 2) = w[1] /\ byte(3 + 4 - 2 - 1) = w[4]
        /\ byte(4 + 4 - 2) = w[2] /\ byte(4 + 4 - 2 - 1) = w[1]
    BY Around
  <2> QED
    BY <2>2, <2>5, <2>6
<1> QED
  BY <1>2, <1>3, <1>4, <1>5

LEMMA TurnedBack ==
    ASSUME NEW x \in Uint8, NEW y \in Uint8, NEW z \in Uint8
    PROVE  /\ Turned(2, 128, Turned(128, 2, x, y), Turned(128, 2, y, z)) = y
           /\ Turned(8, 32, Turned(32, 8, x, y), Turned(32, 8, y, z)) = y
<1>1. x \in 0..255 /\ y \in 0..255 /\ z \in 0..255
  BY DEF Uint8
<1>2. Turned(2, 128, Turned(128, 2, x, y), Turned(128, 2, y, z)) = y
  <2>1. PICK u \in 0..127, r \in 0..1 : y = 2 * u + r
    <3>1. y \div 2 \in 0..127 /\ y % 2 \in 0..1 /\ y = 2 * (y \div 2) + (y % 2)
      BY <1>1
    <3> QED
      BY <3>1
  <2>2. PICK o \in 0..1, t \in 0..127 : x = 2 * t + o
    <3>1. x \div 2 \in 0..127 /\ x % 2 \in 0..1 /\ x = 2 * (x \div 2) + (x % 2)
      BY <1>1
    <3> QED
      BY <3>1
  <2>3. PICK p \in 0..127 : p = z \div 2
    BY <1>1
  <2>4. Turned(128, 2, x, y) = 128 * o + u
    BY <2>1, <2>2 DEF Turned
  <2>5. Turned(128, 2, y, z) = 128 * r + p
    BY <2>1, <2>3 DEF Turned
  <2>6. Turned(2, 128, 128 * o + u, 128 * r + p) = 2 * u + r
    BY <2>1, <2>2, <2>3 DEF Turned
  <2> QED
    BY <2>1, <2>4, <2>5, <2>6
<1>3. Turned(8, 32, Turned(32, 8, x, y), Turned(32, 8, y, z)) = y
  <2>1. PICK u \in 0..31, r \in 0..7 : y = 8 * u + r
    <3>1. y \div 8 \in 0..31 /\ y % 8 \in 0..7 /\ y = 8 * (y \div 8) + (y % 8)
      BY <1>1
    <3> QED
      BY <3>1
  <2>2. PICK o \in 0..7, t \in 0..31 : x = 8 * t + o
    <3>1. x \div 8 \in 0..31 /\ x % 8 \in 0..7 /\ x = 8 * (x \div 8) + (x % 8)
      BY <1>1
    <3> QED
      BY <3>1
  <2>3. PICK p \in 0..31 : p = z \div 8
    BY <1>1
  <2>4. Turned(32, 8, x, y) = 32 * o + u
    BY <2>1, <2>2 DEF Turned
  <2>5. Turned(32, 8, y, z) = 32 * r + p
    BY <2>1, <2>3 DEF Turned
  <2>6. Turned(8, 32, 32 * o + u, 32 * r + p) = 8 * u + r
    BY <2>1, <2>2, <2>3 DEF Turned
  <2> QED
    BY <2>1, <2>4, <2>5, <2>6
<1> QED
  BY <1>2, <1>3

LEMMA RotlUndone ==
    ASSUME NEW w \in Word(4)
    PROVE  /\ Rotl(w, 15) \in Word(4) /\ Rotl(Rotl(w, 15), 17) = w
           /\ Rotl(w, 13) \in Word(4) /\ Rotl(Rotl(w, 13), 19) = w
<1>1. w[1] \in Uint8 /\ w[2] \in Uint8 /\ w[3] \in Uint8 /\ w[4] \in Uint8
  BY DEF Word
<1>2. Rotl(w, 15) \in Word(4) /\ Rotl(w, 13) \in Word(4)
  BY Rotated
<1>3. /\ Rotl(Rotl(w, 15), 17) \in Word(4)
      /\ Rotl(Rotl(w, 15), 17)[1] = w[1] /\ Rotl(Rotl(w, 15), 17)[2] = w[2]
      /\ Rotl(Rotl(w, 15), 17)[3] = w[3] /\ Rotl(Rotl(w, 15), 17)[4] = w[4]
  BY <1>1, <1>2, Rotated, TurnedBack
<1>4. /\ Rotl(Rotl(w, 13), 19) \in Word(4)
      /\ Rotl(Rotl(w, 13), 19)[1] = w[1] /\ Rotl(Rotl(w, 13), 19)[2] = w[2]
      /\ Rotl(Rotl(w, 13), 19)[3] = w[3] /\ Rotl(Rotl(w, 13), 19)[4] = w[4]
  BY <1>1, <1>2, Rotated, TurnedBack
<1> QED
  BY <1>2, <1>3, <1>4, SameWord

-----------------------------------------------------------------------------
(***************************************************************************)
(* Sums and products.  Their definitions by recursion have functions.      *)
(***************************************************************************)
Carries(g, columns) ==
    g = [k \in 0..Len(columns) |->
            IF k = 0 THEN 0 ELSE (columns[k] + g[k - 1]) \div 256]

LEMMA CarriesExist ==
    ASSUME NEW columns \in Seq(Nat)
    PROVE  \E g : Carries(g, columns)
<1> DEFINE next(n, x) == IF n + 1 \in 1..Len(columns) THEN (columns[n + 1] + x) \div 256 ELSE 0
           step == [p \in Nat \X Nat |-> next(p[1], p[2])]
<1>1. \A n \in Nat, x \in Nat : step[<<n, x>>] = next(n, x) /\ next(n, x) \in Nat
  <2>1. \A k \in 1..Len(columns) : columns[k] \in Nat
    OBVIOUS
  <2>2. \A n, x \in Nat : next(n, x) \in Nat
    BY <2>1
  <2> HIDE DEF next
  <2> QED
    BY <2>2
<1> HIDE DEF step
<1>2. PICK f \in [Nat -> Nat] : Recursive(f, 0, step)
  <2>1. 0 \in Nat /\ \A n \in Nat, x \in Nat : step[<<n, x>>] \in Nat
    <3> HIDE DEF next
    <3> QED
      BY <1>1
  <2> HIDE DEF next
  <2> QED
    BY <2>1, Recursion
<1>3. f[0] = 0 /\ \A n \in Nat : f[n + 1] = next(n, f[n])
  BY <1>1, <1>2 DEF Recursive
<1> DEFINE g == [k \in 0..Len(columns) |-> f[k]]
<1>4. ASSUME NEW k \in 0..Len(columns)
      PROVE  g[k] = IF k = 0 THEN 0 ELSE (columns[k] + g[k - 1]) \div 256
  <2>1. CASE k = 0
    BY <1>3, <2>1
  <2>2. CASE k # 0
    <3>1. k - 1 \in Nat /\ k - 1 + 1 = k /\ k - 1 \in 0..Len(columns) /\ k \in 1..Len(columns)
      BY <2>2
    <3>2. f[k - 1 + 1] = next(k - 1, f[k - 1])
      BY <1>3, <3>1
    <3> QED
      BY <2>2, <3>1, <3>2
  <2> QED
    BY <2>1, <2>2
<1>5. Carries(g, columns)
  BY <1>4 DEF Carries
<1> QED
  BY <1>5

LEMMA CarriedIs ==
    ASSUME NEW columns \in Seq(Nat)
    PROVE  \E g \in [0..Len(columns) -> Nat] :
              /\ g[0] = 0
              /\ \A k \in 1..Len(columns) : g[k] = (columns[k] + g[k - 1]) \div 256
              /\ Carried(columns) = [k \in 1..Len(columns) |-> (columns[k] + g[k - 1]) % 256]
<1> DEFINE g == CHOOSE c : Carries(c, columns)
<1>1. Carries(g, columns)
  BY CarriesExist
<1>2. Carried(columns) = [k \in 1..Len(columns) |-> (columns[k] + g[k - 1]) % 256]
  BY DEF Carried, Carries
<1> HIDE DEF g
<1>3. /\ DOMAIN g = 0..Len(columns) /\ g = [k \in 0..Len(columns) |-> g[k]]
      /\ \A k \in 0..Len(columns) :
            g[k] = IF k = 0 THEN 0 ELSE (columns[k] + g[k - 1]) \div 256
  BY <1>1 DEF Carries
<1>4. g[0] = 0 /\ \A k \in 1..Len(columns) : g[k] = (columns[k] + g[k - 1]) \div 256
  BY <1>3
<1> DEFINE S == {n \in Nat : n \in 0..Len(columns) => g[n] \in Nat}
<1>5. 0 \in S
  BY <1>3
<1>6. ASSUME NEW n \in S PROVE n + 1 \in S
  <2>1. ASSUME n + 1 \in 0..Len(columns) PROVE g[n + 1] \in Nat
    <3>1. n \in 0..Len(columns) /\ n \in Nat /\ n + 1 # 0 /\ n + 1 - 1 = n /\ n + 1 \in 1..Len(columns)
      BY <2>1
    <3>2. columns[n + 1] \in Nat /\ g[n] \in Nat
      BY <3>1
    <3>3. g[n + 1] = (columns[n + 1] + g[n + 1 - 1]) \div 256
      BY <1>4, <2>1, <3>1
    <3> QED
      BY <3>1, <3>2, <3>3
  <2> QED
    BY <2>1
<1>7. S \in SUBSET Nat
  OBVIOUS
<1> HIDE DEF S
<1>8. S = Nat
  BY <1>5, <1>6, <1>7, SetInduction
<1>9. \A k \in 0..Len(columns) : g[k] \in Nat
  BY <1>8 DEF S
<1>10. g \in [0..Len(columns) -> Nat]
  BY <1>3, <1>9
<1> QED
  BY <1>2, <1>10, <1>4

LEMMA CarriedTyped ==
    ASSUME NEW columns \in Seq(Nat)
    PROVE  Carried(columns) \in Word(Len(columns))
<1>1. PICK g \in [0..Len(columns) -> Nat] :
         Carried(columns) = [k \in 1..Len(columns) |-> (columns[k] + g[k - 1]) % 256]
  BY CarriedIs
<1>2. ASSUME NEW k \in 1..Len(columns) PROVE (columns[k] + g[k - 1]) % 256 \in Uint8
  <2>1. columns[k] \in Nat /\ g[k - 1] \in Nat
    OBVIOUS
  <2>2. \A a, b \in Nat : (a + b) % 256 \in 0..255
    OBVIOUS
  <2> QED
    BY <2>1, <2>2 DEF Uint8
<1> QED
  BY <1>1, <1>2 DEF Word

LEMMA WordOfTyped ==
    ASSUME NEW n \in Nat, NEW number \in Nat
    PROVE  WordOf(n, number) \in Word(n)
<1> DEFINE columns == [k \in 1..n |-> IF k = 1 THEN number ELSE 0]
<1>1. columns \in Seq(Nat) /\ Len(columns) = n
  <2>1. \A k \in 1..n : columns[k] \in Nat
    OBVIOUS
  <2>2. DOMAIN columns = 1..n
    OBVIOUS
  <2> QED
    BY <2>1, <2>2
<1>2. WordOf(n, number) = Carried(columns)
  BY DEF WordOf
<1> HIDE DEF columns
<1> QED
  BY <1>1, <1>2, CarriedTyped

Sums(g, v, w, k) ==
    g = [i \in 0..k |-> IF i = 0 THEN 0 ELSE g[i - 1] + v[i] * w[k + 1 - i]]

LEMMA SumsExist ==
    ASSUME NEW n \in Nat, NEW v \in Word(n), NEW w \in Word(n), NEW k \in 1..n
    PROVE  \E g : Sums(g, v, w, k)
<1> DEFINE next(i, x) == IF i + 1 \in 1..k THEN x + v[i + 1] * w[k + 1 - (i + 1)] ELSE 0
           step == [p \in Nat \X Nat |-> next(p[1], p[2])]
<1>1. \A i \in 1..k : v[i] \in Nat /\ w[k + 1 - i] \in Nat
  <2>1. \A i \in 1..k : i \in 1..n /\ k + 1 - i \in 1..n
    OBVIOUS
  <2> QED
    BY <2>1, WordBytes
<1>2. \A i, x \in Nat : step[<<i, x>>] = next(i, x) /\ next(i, x) \in Nat
  <2>1. \A i \in Nat, x \in Nat : next(i, x) \in Nat
    <3>1. \A a, b, x \in Nat : x + a * b \in Nat
      OBVIOUS
    <3> QED
      BY <1>1, <3>1
  <2> HIDE DEF next
  <2> QED
    BY <2>1
<1> HIDE DEF step
<1>3. PICK f \in [Nat -> Nat] : Recursive(f, 0, step)
  <2>1. 0 \in Nat /\ \A i \in Nat, x \in Nat : step[<<i, x>>] \in Nat
    <3> HIDE DEF next
    <3> QED
      BY <1>2
  <2> HIDE DEF next
  <2> QED
    BY <2>1, Recursion
<1>4. f[0] = 0 /\ \A i \in Nat : f[i + 1] = next(i, f[i])
  BY <1>2, <1>3 DEF Recursive
<1> DEFINE g == [i \in 0..k |-> f[i]]
<1>5. ASSUME NEW i \in 0..k
      PROVE  g[i] = IF i = 0 THEN 0 ELSE g[i - 1] + v[i] * w[k + 1 - i]
  <2>1. CASE i = 0
    BY <1>4, <2>1
  <2>2. CASE i # 0
    <3>1. i - 1 \in Nat /\ i - 1 + 1 = i /\ i - 1 \in 0..k /\ i \in 1..k
      BY <2>2
    <3>2. f[i - 1 + 1] = next(i - 1, f[i - 1])
      BY <1>4, <3>1
    <3> QED
      BY <2>2, <3>1, <3>2
  <2> QED
    BY <2>1, <2>2
<1>6. Sums(g, v, w, k)
  BY <1>5 DEF Sums
<1> QED
  BY <1>6

\* The column is the last of the partial sums.
LEMMA ColumnIs ==
    ASSUME NEW n \in Nat, NEW v \in Word(n), NEW w \in Word(n), NEW k \in 1..n
    PROVE  \E g : /\ g[0] = 0 /\ g[k] = Column(v, w, k)
                  /\ \A i \in 1..k : g[i] = g[i - 1] + v[i] * w[k + 1 - i]
<1> DEFINE g == CHOOSE c : Sums(c, v, w, k)
<1>1. Sums(g, v, w, k)
  BY SumsExist
<1>2. Column(v, w, k) = g[k]
  BY DEF Column, Sums
<1> HIDE DEF g
<1>3. g[0] = 0 /\ \A i \in 1..k : g[i] = g[i - 1] + v[i] * w[k + 1 - i]
  BY <1>1 DEF Sums
<1> QED
  BY <1>2, <1>3

LEMMA ColumnTyped ==
    ASSUME NEW n \in Nat, NEW v \in Word(n), NEW w \in Word(n), NEW k \in 1..n
    PROVE  Column(v, w, k) \in Nat
<1>1. PICK g : /\ g[0] = 0 /\ g[k] = Column(v, w, k)
               /\ \A i \in 1..k : g[i] = g[i - 1] + v[i] * w[k + 1 - i]
  BY ColumnIs
<1>2. \A i \in 1..k : v[i] \in Nat /\ w[k + 1 - i] \in Nat
  <2>1. \A i \in 1..k : i \in 1..n /\ k + 1 - i \in 1..n
    OBVIOUS
  <2> QED
    BY <2>1, WordBytes
<1> DEFINE S == {i \in Nat : i \in 0..k => g[i] \in Nat}
<1>3. 0 \in S
  BY <1>1
<1>4. ASSUME NEW i \in S PROVE i + 1 \in S
  <2>1. ASSUME i + 1 \in 0..k PROVE g[i + 1] \in Nat
    <3>1. i \in 0..k /\ i \in Nat /\ i + 1 \in 1..k /\ i + 1 - 1 = i
      BY <2>1
    <3>2. g[i + 1] = g[i + 1 - 1] + v[i + 1] * w[k + 1 - (i + 1)]
      BY <1>1, <3>1
    <3>3. g[i] \in Nat /\ v[i + 1] \in Nat /\ w[k + 1 - (i + 1)] \in Nat
      BY <1>2, <3>1
    <3>4. \A a, b, x \in Nat : x + a * b \in Nat
      OBVIOUS
    <3> QED
      BY <3>1, <3>2, <3>3, <3>4
  <2> QED
    BY <2>1
<1>5. S \in SUBSET Nat
  OBVIOUS
<1> HIDE DEF S
<1>6. S = Nat
  BY <1>3, <1>4, <1>5, SetInduction
<1> QED
  BY <1>1, <1>6 DEF S

LEMMA TimesTyped ==
    ASSUME NEW n \in Nat, NEW v \in Word(n), NEW w \in Word(n)
    PROVE  Times(v, w) \in Word(n)
<1> DEFINE columns == [k \in 1..n |-> Column(v, w, k)]
<1>1. columns \in Seq(Nat) /\ Len(columns) = n
  BY ColumnTyped
<1>2. Times(v, w) = Carried(columns)
  BY WordTyped DEF Times
<1> HIDE DEF columns
<1> QED
  BY <1>1, <1>2, CarriedTyped

LEMMA PlusTyped ==
    ASSUME NEW n \in Nat, NEW v \in Word(n), NEW w \in Word(n)
    PROVE  Plus(v, w) \in Word(n)
<1> DEFINE columns == [k \in 1..n |-> v[k] + w[k]]
<1>1. columns \in Seq(Nat) /\ Len(columns) = n
  <2>1. \A k \in 1..n : v[k] + w[k] \in Nat
    BY WordBytes
  <2> QED
    BY <2>1
<1>2. Plus(v, w) = Carried(columns)
  BY WordTyped DEF Plus
<1> HIDE DEF columns
<1> QED
  BY <1>1, <1>2, CarriedTyped

-----------------------------------------------------------------------------
(***************************************************************************)
(* A word of four bytes as a number, and its arithmetic as arithmetic      *)
(* modulo 2^32.                                                            *)
(***************************************************************************)
Places(a, b, c, d) == a + 256 * (b + 256 * (c + 256 * d))
Number(w) == Places(w[1], w[2], w[3], w[4])
Modulus == 256 * (256 * (256 * 256))

LEMMA PlacesTyped ==
    \A a, b, c, d \in 0..255 :
        Places(a, b, c, d) \in Nat /\ Places(a, b, c, d) < 256 * (256 * (256 * 256))
BY SMT DEF Places

LEMMA NumberTyped ==
    ASSUME NEW w \in Word(4)
    PROVE  Number(w) \in Nat /\ Number(w) < Modulus
<1>1. w[1] \in 0..255 /\ w[2] \in 0..255 /\ w[3] \in 0..255 /\ w[4] \in 0..255
  BY DEF Word, Uint8
<1> QED
  BY <1>1, PlacesTyped DEF Number, Modulus

LEMMA SameNumber ==
    ASSUME NEW v \in Word(4), NEW w \in Word(4), Number(v) = Number(w)
    PROVE  v = w
<1>1. /\ v[1] \in 0..255 /\ v[2] \in 0..255 /\ v[3] \in 0..255 /\ v[4] \in 0..255
      /\ w[1] \in 0..255 /\ w[2] \in 0..255 /\ w[3] \in 0..255 /\ w[4] \in 0..255
  BY DEF Word, Uint8
<1>2. PICK a1, a2, a3, a4 \in 0..255 : a1 = v[1] /\ a2 = v[2] /\ a3 = v[3] /\ a4 = v[4]
  BY <1>1
<1>3. PICK b1, b2, b3, b4 \in 0..255 : b1 = w[1] /\ b2 = w[2] /\ b3 = w[3] /\ b4 = w[4]
  BY <1>1
<1>4. Places(a1, a2, a3, a4) = Places(b1, b2, b3, b4)
  BY <1>2, <1>3 DEF Number
<1>5. a1 = b1 /\ a2 = b2 /\ a3 = b3 /\ a4 = b4
  BY <1>4 DEF Places
<1> QED
  BY <1>2, <1>3, <1>5, SameWord

LEMMA CarriedNumber ==
    ASSUME NEW columns \in Seq(Nat), Len(columns) = 4
    PROVE  \E q \in Nat : Number(Carried(columns)) + Modulus * q
                            = Places(columns[1], columns[2], columns[3], columns[4])
<1>1. PICK g \in [0..Len(columns) -> Nat] :
        /\ g[0] = 0
        /\ \A k \in 1..Len(columns) : g[k] = (columns[k] + g[k - 1]) \div 256
        /\ Carried(columns) = [k \in 1..Len(columns) |-> (columns[k] + g[k - 1]) % 256]
  BY CarriedIs
<1> DEFINE b == Carried(columns)
<1>2. ASSUME NEW k \in 1..4
      PROVE  /\ columns[k] \in Nat /\ g[k] \in Nat /\ g[k - 1] \in Nat /\ b[k] \in Nat
             /\ columns[k] + g[k - 1] = b[k] + 256 * g[k]
  <2>1. columns[k] \in Nat /\ g[k] \in Nat /\ g[k - 1] \in Nat
    <3>1. k \in 1..Len(columns) /\ k \in 0..Len(columns) /\ k - 1 \in 0..Len(columns)
      OBVIOUS
    <3>2. columns[k] \in Nat
      <4>1. \A i \in 1..Len(columns) : columns[i] \in Nat
        BY ElementOfSeq
      <4> QED
        BY <3>1, <4>1
    <3>3. g[k] \in Nat /\ g[k - 1] \in Nat
      BY <1>1, <3>1
    <3> QED
      BY <3>2, <3>3
  <2>2. g[k] = (columns[k] + g[k - 1]) \div 256 /\ b[k] = (columns[k] + g[k - 1]) % 256
    BY <1>1
  <2>3. \A x \in Nat : x % 256 \in Nat /\ x = (x % 256) + 256 * (x \div 256)
    OBVIOUS
  <2> DEFINE x == columns[k] + g[k - 1]
  <2>4. x \in Nat
    BY <2>1
  <2>5. g[k] = x \div 256 /\ b[k] = x % 256
    BY <2>2
  <2>6. x % 256 \in Nat /\ x = (x % 256) + 256 * (x \div 256)
    <3> HIDE DEF x
    <3> QED
      BY <2>3, <2>4
  <2> HIDE DEF b
  <2> QED
    BY <2>1, <2>5, <2>6
<1> HIDE DEF b
<1>3. /\ g[0] = 0
      /\ columns[1] \in Nat /\ g[1] \in Nat /\ b[1] \in Nat /\ columns[1] + g[0] = b[1] + 256 * g[1]
      /\ columns[2] \in Nat /\ g[2] \in Nat /\ b[2] \in Nat /\ columns[2] + g[1] = b[2] + 256 * g[2]
      /\ columns[3] \in Nat /\ g[3] \in Nat /\ b[3] \in Nat /\ columns[3] + g[2] = b[3] + 256 * g[3]
      /\ columns[4] \in Nat /\ g[4] \in Nat /\ b[4] \in Nat /\ columns[4] + g[3] = b[4] + 256 * g[4]
  BY <1>1, <1>2
<1>4. PICK c1, c2, c3, c4 \in Nat :
        c1 = columns[1] /\ c2 = columns[2] /\ c3 = columns[3] /\ c4 = columns[4]
  BY <1>3
<1>5. PICK b1, b2, b3, b4 \in Nat : b1 = b[1] /\ b2 = b[2] /\ b3 = b[3] /\ b4 = b[4]
  BY <1>3
<1>6. PICK g1, g2, g3, g4 \in Nat : g1 = g[1] /\ g2 = g[2] /\ g3 = g[3] /\ g4 = g[4]
  BY <1>3
<1>7. /\ c1 = b1 + 256 * g1 /\ c2 + g1 = b2 + 256 * g2
      /\ c3 + g2 = b3 + 256 * g3 /\ c4 + g3 = b4 + 256 * g4
  BY <1>3, <1>4, <1>5, <1>6
<1>8. Places(b1, b2, b3, b4) + Modulus * g4 = Places(c1, c2, c3, c4)
  BY <1>7 DEF Places, Modulus
<1> QED
  BY <1>4, <1>5, <1>8 DEF b, Number

LEMMA PlusNumber ==
    ASSUME NEW v \in Word(4), NEW w \in Word(4)
    PROVE  \E q \in Nat : Number(Plus(v, w)) + Modulus * q = Number(v) + Number(w)
<1> DEFINE columns == [k \in 1..4 |-> v[k] + w[k]]
<1>1. /\ v[1] \in Nat /\ v[2] \in Nat /\ v[3] \in Nat /\ v[4] \in Nat
      /\ w[1] \in Nat /\ w[2] \in Nat /\ w[3] \in Nat /\ w[4] \in Nat
  BY WordBytes
<1>2. columns \in Seq(Nat) /\ Len(columns) = 4
  <2>1. \A k \in 1..4 : v[k] + w[k] \in Nat
    BY WordBytes
  <2> QED
    BY <2>1
<1>3. Plus(v, w) = Carried(columns)
  BY WordTyped DEF Plus
<1>4. /\ columns[1] = v[1] + w[1] /\ columns[2] = v[2] + w[2]
      /\ columns[3] = v[3] + w[3] /\ columns[4] = v[4] + w[4]
  OBVIOUS
<1> HIDE DEF columns
<1>5. PICK q \in Nat : Number(Plus(v, w)) + Modulus * q
                         = Places(columns[1], columns[2], columns[3], columns[4])
  BY <1>2, <1>3, CarriedNumber
<1>6. Places(columns[1], columns[2], columns[3], columns[4]) = Number(v) + Number(w)
  <2>1. PICK a1, a2, a3, a4 \in Nat : a1 = v[1] /\ a2 = v[2] /\ a3 = v[3] /\ a4 = v[4]
    BY <1>1
  <2>2. PICK b1, b2, b3, b4 \in Nat : b1 = w[1] /\ b2 = w[2] /\ b3 = w[3] /\ b4 = w[4]
    BY <1>1
  <2>3. Places(a1 + b1, a2 + b2, a3 + b3, a4 + b4)
          = Places(a1, a2, a3, a4) + Places(b1, b2, b3, b4)
    BY DEF Places
  <2> QED
    BY <1>4, <2>1, <2>2, <2>3 DEF Number
<1> QED
  BY <1>5, <1>6

LEMMA Columns ==
    ASSUME NEW v \in Word(4), NEW w \in Word(4)
    PROVE  /\ Column(v, w, 1) = v[1] * w[1]
           /\ Column(v, w, 2) = v[1] * w[2] + v[2] * w[1]
           /\ Column(v, w, 3) = v[1] * w[3] + v[2] * w[2] + v[3] * w[1]
           /\ Column(v, w, 4) = v[1] * w[4] + v[2] * w[3] + v[3] * w[2] + v[4] * w[1]
<1>1. /\ v[1] \in Nat /\ v[2] \in Nat /\ v[3] \in Nat /\ v[4] \in Nat
      /\ w[1] \in Nat /\ w[2] \in Nat /\ w[3] \in Nat /\ w[4] \in Nat
  BY WordBytes
<1>2. ASSUME NEW k \in 1..4
      PROVE  \E g : /\ g[0] = 0 /\ g[k] = Column(v, w, k)
                    /\ \A i \in 1..k : g[i] = g[i - 1] + v[i] * w[k + 1 - i]
  BY ColumnIs
<1>3. Column(v, w, 1) = v[1] * w[1]
  <2>1. PICK g : /\ g[0] = 0 /\ g[1] = Column(v, w, 1)
                 /\ \A i \in 1..1 : g[i] = g[i - 1] + v[i] * w[1 + 1 - i]
    BY <1>2
  <2>2. g[1] = g[0] + v[1] * w[1]
    BY <2>1
  <2> QED
    BY <1>1, <2>1, <2>2
<1>4. Column(v, w, 2) = v[1] * w[2] + v[2] * w[1]
  <2>1. PICK g : /\ g[0] = 0 /\ g[2] = Column(v, w, 2)
                 /\ \A i \in 1..2 : g[i] = g[i - 1] + v[i] * w[2 + 1 - i]
    BY <1>2
  <2>2. g[1] = g[0] + v[1] * w[2] /\ g[2] = g[1] + v[2] * w[1]
    BY <2>1
  <2> QED
    BY <1>1, <2>1, <2>2
<1>5. Column(v, w, 3) = v[1] * w[3] + v[2] * w[2] + v[3] * w[1]
  <2>1. PICK g : /\ g[0] = 0 /\ g[3] = Column(v, w, 3)
                 /\ \A i \in 1..3 : g[i] = g[i - 1] + v[i] * w[3 + 1 - i]
    BY <1>2
  <2>2. g[1] = g[0] + v[1] * w[3] /\ g[2] = g[1] + v[2] * w[2] /\ g[3] = g[2] + v[3] * w[1]
    BY <2>1
  <2> QED
    BY <1>1, <2>1, <2>2
<1>6. Column(v, w, 4) = v[1] * w[4] + v[2] * w[3] + v[3] * w[2] + v[4] * w[1]
  <2>1. PICK g : /\ g[0] = 0 /\ g[4] = Column(v, w, 4)
                 /\ \A i \in 1..4 : g[i] = g[i - 1] + v[i] * w[4 + 1 - i]
    BY <1>2
  <2>2. /\ g[1] = g[0] + v[1] * w[4] /\ g[2] = g[1] + v[2] * w[3]
        /\ g[3] = g[2] + v[3] * w[2] /\ g[4] = g[3] + v[4] * w[1]
    BY <2>1
  <2> QED
    BY <1>1, <2>1, <2>2
<1> QED
  BY <1>3, <1>4, <1>5, <1>6

\* What is in the columns past the fourth.
Past(a2, a3, a4, b2, b3, b4) ==
    (a2 * b4 + a3 * b3 + a4 * b2) + 256 * (a3 * b4 + a4 * b3 + 256 * (a4 * b4))

LEMMA TimesNumber ==
    ASSUME NEW v \in Word(4), NEW w \in Word(4)
    PROVE  \E q \in Nat : Number(Times(v, w)) + Modulus * q = Number(v) * Number(w)
<1> DEFINE columns == [k \in 1..4 |-> Column(v, w, k)]
           past == Past(v[2], v[3], v[4], w[2], w[3], w[4])
<1>1. /\ v[1] \in Nat /\ v[2] \in Nat /\ v[3] \in Nat /\ v[4] \in Nat
      /\ w[1] \in Nat /\ w[2] \in Nat /\ w[3] \in Nat /\ w[4] \in Nat
  BY WordBytes
<1>2. columns \in Seq(Nat) /\ Len(columns) = 4
  BY ColumnTyped
<1>3. Times(v, w) = Carried(columns)
  BY WordTyped DEF Times
<1>4. /\ columns[1] = v[1] * w[1]
      /\ columns[2] = v[1] * w[2] + v[2] * w[1]
      /\ columns[3] = v[1] * w[3] + v[2] * w[2] + v[3] * w[1]
      /\ columns[4] = v[1] * w[4] + v[2] * w[3] + v[3] * w[2] + v[4] * w[1]
  BY Columns
<1> HIDE DEF columns
<1>5. PICK q \in Nat : Number(Times(v, w)) + Modulus * q
                         = Places(columns[1], columns[2], columns[3], columns[4])
  BY <1>2, <1>3, CarriedNumber
<1>6. /\ past \in Nat
      /\ Places(columns[1], columns[2], columns[3], columns[4]) + Modulus * past
            = Number(v) * Number(w)
  <2>1. PICK a1, a2, a3, a4 \in Nat : a1 = v[1] /\ a2 = v[2] /\ a3 = v[3] /\ a4 = v[4]
    BY <1>1
  <2>2. PICK b1, b2, b3, b4 \in Nat : b1 = w[1] /\ b2 = w[2] /\ b3 = w[3] /\ b4 = w[4]
    BY <1>1
  <2>3. Past(a2, a3, a4, b2, b3, b4) \in Nat
    BY DEF Past
  <2>4. Places(a1 * b1, a1 * b2 + a2 * b1, a1 * b3 + a2 * b2 + a3 * b1,
               a1 * b4 + a2 * b3 + a3 * b2 + a4 * b1)
              + Modulus * Past(a2, a3, a4, b2, b3, b4)
          = Places(a1, a2, a3, a4) * Places(b1, b2, b3, b4)
    BY SMTT(60) DEF Places, Modulus, Past
  <2> QED
    BY <1>4, <2>1, <2>2, <2>3, <2>4 DEF Number
<1> HIDE DEF past
<1>7. Number(Times(v, w)) \in Nat /\ Modulus \in Nat
  BY TimesTyped, NumberTyped DEF Modulus
<1>8. Number(Times(v, w)) + Modulus * q + Modulus * past = Number(v) * Number(w)
  BY <1>5, <1>6
<1>9. Number(Times(v, w)) + Modulus * (q + past) = Number(v) * Number(w)
  <2>1. \A x, m, a, b \in Nat : x + m * a + m * b = x + m * (a + b)
    OBVIOUS
  <2> QED
    BY <1>6, <1>7, <1>8, <2>1
<1> QED
  BY <1>6, <1>9

LEMMA Remainders ==
    ASSUME NEW mod \in Nat, NEW a \in Nat, NEW b \in Nat, NEW x \in Nat, NEW y \in Nat,
           a < mod, b < mod, a + mod * x = b + mod * y
    PROVE  a = b
<1>1. CASE x < y
  <2>1. PICK d \in Nat : y = x + 1 + d
    <3>1. y - x - 1 \in Nat /\ y = x + 1 + (y - x - 1)
      BY <1>1
    <3> QED
      BY <3>1
  <2>2. mod * (x + 1 + d) = mod * x + mod + mod * d /\ mod * x \in Nat /\ mod * d \in Nat
    OBVIOUS
  <2> QED
    BY <2>1, <2>2
<1>2. CASE y < x
  <2>1. PICK d \in Nat : x = y + 1 + d
    <3>1. x - y - 1 \in Nat /\ x = y + 1 + (x - y - 1)
      BY <1>2
    <3> QED
      BY <3>1
  <2>2. mod * (y + 1 + d) = mod * y + mod + mod * d /\ mod * y \in Nat /\ mod * d \in Nat
    OBVIOUS
  <2> QED
    BY <2>1, <2>2
<1>3. CASE x = y
  BY <1>3
<1> QED
  BY <1>1, <1>2, <1>3

\* Two factors whose product is 1 more than a multiple of 2^32 undo each other.
LEMMA TimesUndone ==
    ASSUME NEW v \in Word(4), NEW c \in Word(4), NEW d \in Word(4), NEW m \in Nat,
           Number(c) * Number(d) = 1 + Modulus * m
    PROVE  Times(Times(v, c), d) = v
<1> DEFINE a == Times(v, c)
           b == Times(a, d)
<1>1. a \in Word(4) /\ b \in Word(4)
  BY TimesTyped
<1>2. PICK p \in Nat : Number(a) + Modulus * p = Number(v) * Number(c)
  BY TimesNumber
<1>3. PICK q \in Nat : Number(b) + Modulus * q = Number(a) * Number(d)
  BY <1>1, TimesNumber
<1> HIDE DEF a, b
<1>4. /\ Number(v) \in Nat /\ Number(v) < Modulus /\ Number(b) \in Nat /\ Number(b) < Modulus
      /\ Number(a) \in Nat /\ Number(c) \in Nat /\ Number(d) \in Nat
  BY <1>1, NumberTyped
<1>5. PICK nv, na, nb, nc, nd \in Nat :
        nv = Number(v) /\ na = Number(a) /\ nb = Number(b) /\ nc = Number(c) /\ nd = Number(d)
  BY <1>4
<1>6. PICK mod \in Nat : mod = Modulus
  <2>1. Modulus \in Nat
    BY DEF Modulus
  <2> QED
    BY <2>1
<1>7. /\ na + mod * p = nv * nc /\ nb + mod * q = na * nd /\ nc * nd = 1 + mod * m
      /\ nv < mod /\ nb < mod
  BY <1>2, <1>3, <1>4, <1>5, <1>6
<1>8. nb + mod * q + mod * (p * nd) = nv + mod * (nv * m)
  <2>1. (na + mod * p) * nd = na * nd + mod * (p * nd)
    OBVIOUS
  <2>2. (nv * nc) * nd = nv * (nc * nd)
    OBVIOUS
  <2>3. nv * (1 + mod * m) = nv + mod * (nv * m)
    OBVIOUS
  <2> QED
    BY <1>7, <2>1, <2>2, <2>3
<1>9. PICK x, y \in Nat : x = q + p * nd /\ y = nv * m
  OBVIOUS
<1>10. nb + mod * x = nv + mod * y
  BY <1>8, <1>9
<1>11. nb = nv
  BY <1>7, <1>10, Remainders
<1> QED
  BY <1>1, <1>5, <1>11, SameNumber DEF a, b

LEMMA FiveIs == WordOf(4, 5) \in Word(4) /\ Number(WordOf(4, 5)) = Places(5, 0, 0, 0)
<1> DEFINE columns == [k \in 1..4 |-> IF k = 1 THEN 5 ELSE 0]
<1>1. columns \in Seq(Nat) /\ Len(columns) = 4
  <2>1. \A k \in 1..4 : columns[k] \in Nat
    OBVIOUS
  <2>2. DOMAIN columns = 1..4
    OBVIOUS
  <2> QED
    BY <2>1, <2>2
<1>2. WordOf(4, 5) = Carried(columns)
  BY DEF WordOf
<1>3. columns[1] = 5 /\ columns[2] = 0 /\ columns[3] = 0 /\ columns[4] = 0
  OBVIOUS
<1> HIDE DEF columns
<1>4. PICK q \in Nat : Number(WordOf(4, 5)) + Modulus * q
                         = Places(columns[1], columns[2], columns[3], columns[4])
  BY <1>1, <1>2, CarriedNumber
<1>5. WordOf(4, 5) \in Word(4) /\ Number(WordOf(4, 5)) \in Nat
  BY WordOfTyped, NumberTyped
<1>6. PICK five \in Nat : five = Number(WordOf(4, 5))
  BY <1>5
<1>7. five + 256 * (256 * (256 * 256)) * q = 5
  BY <1>3, <1>4, <1>6 DEF Places, Modulus
<1>8. five = 5
  BY <1>7
<1>9. Places(5, 0, 0, 0) = 5
  BY DEF Places
<1> QED
  BY <1>5, <1>6, <1>8, <1>9

\* The factors that MurmurHash3 multiplies by are odd: each has an inverse.
LEMMA FactorsUndone ==
    ASSUME NEW v \in Word(4)
    PROVE  /\ FMIX32_C1 \in Word(4) /\ <<67, 146, 203, 165>> \in Word(4)
           /\ Times(Times(v, FMIX32_C1), <<67, 146, 203, 165>>) = v
           /\ FMIX32_C2 \in Word(4) /\ <<29, 180, 209, 126>> \in Word(4)
           /\ Times(Times(v, FMIX32_C2), <<29, 180, 209, 126>>) = v
           /\ C1 \in Word(4) /\ <<177, 59, 225, 222>> \in Word(4)
           /\ Times(Times(v, C1), <<177, 59, 225, 222>>) = v
           /\ C2 \in Word(4) /\ <<155, 48, 237, 86>> \in Word(4)
           /\ Times(Times(v, C2), <<155, 48, 237, 86>>) = v
           /\ WordOf(4, 5) \in Word(4) /\ <<205, 204, 204, 204>> \in Word(4)
           /\ Times(Times(v, WordOf(4, 5)), <<205, 204, 204, 204>>) = v
<1>1. /\ FMIX32_C1 \in Word(4) /\ <<67, 146, 203, 165>> \in Word(4)
      /\ Times(Times(v, FMIX32_C1), <<67, 146, 203, 165>>) = v
  <2>1. /\ FMIX32_C1 \in Word(4) /\ <<67, 146, 203, 165>> \in Word(4)
        /\ Number(FMIX32_C1) = Places(107, 202, 235, 133) /\ Number(<<67, 146, 203, 165>>) = Places(67, 146, 203, 165)
    BY DEF FMIX32_C1, Word, Uint8, Number
  <2>2. /\ Places(107, 202, 235, 133) * Places(67, 146, 203, 165)
             = 1 + Modulus * Places(244, 119, 187, 86)
        /\ Places(244, 119, 187, 86) \in Nat
    BY DEF Places, Modulus
  <2> QED
    BY <2>1, <2>2, TimesUndone
<1>2. /\ FMIX32_C2 \in Word(4) /\ <<29, 180, 209, 126>> \in Word(4)
      /\ Times(Times(v, FMIX32_C2), <<29, 180, 209, 126>>) = v
  <2>1. /\ FMIX32_C2 \in Word(4) /\ <<29, 180, 209, 126>> \in Word(4)
        /\ Number(FMIX32_C2) = Places(53, 174, 178, 194) /\ Number(<<29, 180, 209, 126>>) = Places(29, 180, 209, 126)
    BY DEF FMIX32_C2, Word, Uint8, Number
  <2>2. /\ Places(53, 174, 178, 194) * Places(29, 180, 209, 126)
             = 1 + Modulus * Places(154, 110, 115, 96)
        /\ Places(154, 110, 115, 96) \in Nat
    BY DEF Places, Modulus
  <2> QED
    BY <2>1, <2>2, TimesUndone
<1>3. /\ C1 \in Word(4) /\ <<177, 59, 225, 222>> \in Word(4)
      /\ Times(Times(v, C1), <<177, 59, 225, 222>>) = v
  <2>1. /\ C1 \in Word(4) /\ <<177, 59, 225, 222>> \in Word(4)
        /\ Number(C1) = Places(81, 45, 158, 204) /\ Number(<<177, 59, 225, 222>>) = Places(177, 59, 225, 222)
    BY DEF C1, Word, Uint8, Number
  <2>2. /\ Places(81, 45, 158, 204) * Places(177, 59, 225, 222)
             = 1 + Modulus * Places(8, 50, 37, 178)
        /\ Places(8, 50, 37, 178) \in Nat
    BY DEF Places, Modulus
  <2> QED
    BY <2>1, <2>2, TimesUndone
<1>4. /\ C2 \in Word(4) /\ <<155, 48, 237, 86>> \in Word(4)
      /\ Times(Times(v, C2), <<155, 48, 237, 86>>) = v
  <2>1. /\ C2 \in Word(4) /\ <<155, 48, 237, 86>> \in Word(4)
        /\ Number(C2) = Places(147, 53, 135, 27) /\ Number(<<155, 48, 237, 86>>) = Places(155, 48, 237, 86)
    BY DEF C2, Word, Uint8, Number
  <2>2. /\ Places(147, 53, 135, 27) * Places(155, 48, 237, 86)
             = 1 + Modulus * Places(102, 237, 88, 9)
        /\ Places(102, 237, 88, 9) \in Nat
    BY DEF Places, Modulus
  <2> QED
    BY <2>1, <2>2, TimesUndone
<1>5. /\ WordOf(4, 5) \in Word(4) /\ <<205, 204, 204, 204>> \in Word(4)
      /\ Times(Times(v, WordOf(4, 5)), <<205, 204, 204, 204>>) = v
  <2>1. /\ WordOf(4, 5) \in Word(4) /\ <<205, 204, 204, 204>> \in Word(4)
        /\ Number(WordOf(4, 5)) = Places(5, 0, 0, 0) /\ Number(<<205, 204, 204, 204>>) = Places(205, 204, 204, 204)
    BY FiveIs DEF Word, Uint8, Number
  <2>2. /\ Places(5, 0, 0, 0) * Places(205, 204, 204, 204)
             = 1 + Modulus * Places(4, 0, 0, 0)
        /\ Places(4, 0, 0, 0) \in Nat
    BY DEF Places, Modulus
  <2> QED
    BY <2>1, <2>2, TimesUndone
<1> QED
  BY <1>1, <1>2, <1>3, <1>4, <1>5

LEMMA AddedUndone ==
    ASSUME NEW v \in Word(4)
    PROVE  Added \in Word(4) /\ Plus(Plus(v, Added), <<156, 148, 171, 25>>) = v
<1> DEFINE d == <<156, 148, 171, 25>>
           a == Plus(v, Added)
           b == Plus(a, d)
<1>1. /\ Added \in Word(4) /\ d \in Word(4)
      /\ Number(Added) = Places(100, 107, 84, 230) /\ Number(d) = Places(156, 148, 171, 25)
  BY DEF Added, Word, Uint8, Number
<1>2. Places(100, 107, 84, 230) + Places(156, 148, 171, 25) = Modulus
  BY DEF Places, Modulus
<1>3. a \in Word(4) /\ b \in Word(4)
  BY <1>1, PlusTyped
<1>4. PICK p \in Nat : Number(a) + Modulus * p = Number(v) + Number(Added)
  BY <1>1, PlusNumber
<1>5. PICK q \in Nat : Number(b) + Modulus * q = Number(a) + Number(d)
  BY <1>1, <1>3, PlusNumber
<1>6. Number(Added) + Number(d) = Modulus
  BY <1>1, <1>2
<1> HIDE DEF a, b, d
<1>7. /\ Number(v) \in Nat /\ Number(v) < Modulus /\ Number(b) \in Nat /\ Number(b) < Modulus
      /\ Number(a) \in Nat /\ Number(Added) \in Nat /\ Number(d) \in Nat
  BY <1>1, <1>3, NumberTyped
<1>8. PICK nv, na, nb, nc, nd \in Nat :
        /\ nv = Number(v) /\ na = Number(a) /\ nb = Number(b)
        /\ nc = Number(Added) /\ nd = Number(d)
  BY <1>7
<1>9. PICK mod \in Nat : mod = Modulus
  <2>1. Modulus \in Nat
    BY DEF Modulus
  <2> QED
    BY <2>1
<1>10. /\ na + mod * p = nv + nc /\ nb + mod * q = na + nd /\ nc + nd = mod
       /\ nv < mod /\ nb < mod
  BY <1>4, <1>5, <1>6, <1>7, <1>8, <1>9
<1>11. nb + mod * (q + p) = nv + mod * 1
  <2>1. mod * (q + p) = mod * q + mod * p
    OBVIOUS
  <2> QED
    BY <1>10, <2>1
<1>12. PICK x \in Nat : x = q + p
  OBVIOUS
<1>13. nb + mod * x = nv + mod * 1
  BY <1>11, <1>12
<1>14. nb = nv
  BY <1>10, <1>13, Remainders
<1> QED
  BY <1>1, <1>3, <1>8, <1>14, SameNumber DEF a, b, d

-----------------------------------------------------------------------------
(***************************************************************************)
(* What MurmurHash3 is made of, undone: the finalizer, the scrambling of a *)
(* block and a round.                                                      *)
(***************************************************************************)
LEMMA Fmix32Undone ==
    ASSUME NEW w \in Word(4)
    PROVE  fmix32(w) \in Word(4) /\ UndoFmix32(fmix32(w)) = w
<1> DEFINE x == XorW(w, ShiftRight(w, 16))
           a == Times(x, FMIX32_C1)
           y == XorW(a, ShiftRight(a, 13))
           b == Times(y, FMIX32_C2)
           z == XorW(b, ShiftRight(b, 16))
<1>1. x \in Word(4) /\ XorW(x, ShiftRight(x, 16)) = w
  BY Shift16Undone
<1>2. a \in Word(4) /\ Times(a, <<67, 146, 203, 165>>) = x
  <2> HIDE DEF x
  <2> QED
    BY <1>1, FactorsUndone, TimesTyped
<1>3. y \in Word(4) /\ UndoShift13(y) = a
  <2> HIDE DEF a
  <2> QED
    BY <1>2, Shift13Undone
<1>4. b \in Word(4) /\ Times(b, <<29, 180, 209, 126>>) = y
  <2> HIDE DEF y
  <2> QED
    BY <1>3, FactorsUndone, TimesTyped
<1>5. z \in Word(4) /\ XorW(z, ShiftRight(z, 16)) = b
  <2> HIDE DEF b
  <2> QED
    BY <1>4, Shift16Undone
<1>6. fmix32(w) = z
  BY DEF fmix32
<1> HIDE DEF x, a, y, b, z
<1>7. UndoFmix32(z) = w
  BY <1>1, <1>2, <1>3, <1>4, <1>5 DEF UndoFmix32
<1> QED
  BY <1>5, <1>6, <1>7

LEMMA ScrambledUndone ==
    ASSUME NEW k1 \in Word(4)
    PROVE  Scrambled(k1) \in Word(4) /\ UndoScrambled(Scrambled(k1)) = k1
<1> DEFINE a == Times(k1, C1)
           b == Rotl(a, 15)
           c == Times(b, C2)
<1>1. a \in Word(4) /\ Times(a, <<177, 59, 225, 222>>) = k1
  BY FactorsUndone, TimesTyped
<1>2. b \in Word(4) /\ Rotl(b, 17) = a
  <2> HIDE DEF a
  <2> QED
    BY <1>1, RotlUndone
<1>3. c \in Word(4) /\ Times(c, <<155, 48, 237, 86>>) = b
  <2> HIDE DEF b
  <2> QED
    BY <1>2, FactorsUndone, TimesTyped
<1>4. Scrambled(k1) = c
  BY DEF Scrambled
<1> HIDE DEF a, b, c
<1>5. UndoScrambled(c) = k1
  BY <1>1, <1>2, <1>3 DEF UndoScrambled
<1> QED
  BY <1>3, <1>4, <1>5

LEMMA RoundUndone ==
    ASSUME NEW w \in Word(4), NEW k1 \in Word(4)
    PROVE  Round(w, k1) \in Word(4) /\ UndoRound(Round(w, k1), w) = k1
<1> DEFINE s == Scrambled(k1)
           a == XorW(w, s)
           b == Rotl(a, 13)
           c == Times(b, WordOf(4, 5))
           d == Plus(c, Added)
<1>1. s \in Word(4) /\ UndoScrambled(s) = k1
  BY ScrambledUndone
<1>2. a \in Word(4) /\ XorW(a, w) = s
  <2> HIDE DEF s
  <2> QED
    BY <1>1, XorWord, XorWordTwice
<1>3. b \in Word(4) /\ Rotl(b, 19) = a
  <2> HIDE DEF a
  <2> QED
    BY <1>2, RotlUndone
<1>4. c \in Word(4) /\ Times(c, <<205, 204, 204, 204>>) = b
  <2> HIDE DEF b
  <2> QED
    BY <1>3, FactorsUndone, TimesTyped
<1>5. d \in Word(4) /\ Plus(d, <<156, 148, 171, 25>>) = c
  <2> HIDE DEF c
  <2> QED
    BY <1>4, AddedUndone, PlusTyped
<1>6. Round(w, k1) = d
  BY DEF Round
<1> HIDE DEF s, a, b, c, d
<1>7. UndoRound(d, w) = k1
  BY <1>1, <1>2, <1>3, <1>4, <1>5 DEF UndoRound
<1> QED
  BY <1>5, <1>6, <1>7

-----------------------------------------------------------------------------
(***************************************************************************)
(* The calls.                                                              *)
(***************************************************************************)
\* A terminated string has a first 0.
LEMMA FirstZero ==
    ASSUME NEW s \in Seq(Uint8), NEW last \in DOMAIN s, s[last] = 0
    PROVE  \E i \in DOMAIN s : s[i] = 0 /\ \A j \in 1..(i - 1) : s[j] # 0
<1>1. SUFFICES ASSUME \A i \in DOMAIN s : s[i] = 0 => \E j \in 1..(i - 1) : s[j] = 0
               PROVE  FALSE
  OBVIOUS
<1>2. DOMAIN s = 1..Len(s) /\ Len(s) \in Nat /\ last \in 1..Len(s)
  OBVIOUS
<1> DEFINE S == {n \in Nat : \A j \in 1..Len(s) : j <= n => s[j] # 0}
<1>3. 0 \in S
  BY <1>2
<1>4. ASSUME NEW n \in S PROVE n + 1 \in S
  <2>1. ASSUME NEW j \in 1..Len(s), j <= n + 1, s[j] = 0 PROVE FALSE
    <3>1. n \in Nat /\ \A i \in 1..Len(s) : i <= n => s[i] # 0
      OBVIOUS
    <3>2. PICK i \in 1..(j - 1) : s[i] = 0
      BY <1>1, <1>2, <2>1
    <3>3. i \in 1..Len(s) /\ i <= n
      BY <1>2, <2>1, <3>1
    <3> QED
      BY <3>1, <3>2, <3>3
  <2> QED
    BY <2>1
<1>5. S \in SUBSET Nat
  OBVIOUS
<1> HIDE DEF S
<1>6. S = Nat
  BY <1>3, <1>4, <1>5, SetInduction
<1> QED
  BY <1>2, <1>6 DEF S

LEMMA CStringIs ==
    ASSUME NEW s \in Terminated, Block \subseteq Seq(Uint8)
    PROVE  \E end \in 1..Len(s) :
              /\ s[end] = 0 /\ \A j \in 1..(end - 1) : s[j] # 0
              /\ CString(s) = SubSeq(s, 1, end - 1)
<1>1. s \in Seq(Uint8) /\ Len(s) \in DOMAIN s /\ s[Len(s)] = 0 /\ DOMAIN s = 1..Len(s)
  BY EmptySeq, LenProperties DEF Terminated
<1>2. s # NullString
  BY <1>1, HashAssumption
<1>3. \E i \in DOMAIN s : s[i] = 0 /\ \A j \in 1..(i - 1) : s[j] # 0
  BY <1>1, FirstZero
<1> QED
  BY <1>1, <1>2, <1>3 DEF CString

LEMMA FourBytes == ASSUME NEW s \in Seq(Uint8), Len(s) = 4 PROVE s \in Word(4)
<1>1. \A i \in 1..4 : s[i] \in Uint8
  BY ElementOfSeq
<1>2. s = [i \in 1..4 |-> s[i]]
  OBVIOUS
<1> QED
  BY <1>1, <1>2 DEF Word

LEMMA InputTyped ==
    ASSUME NEW call \in Asked
    PROVE  /\ Input(call) \in Seq(Uint8)
           /\ call.of = "hash_u32" => call.arg \in Word(4) /\ Input(call) = call.arg
           /\ call.of = "fnv1a_64_string" =>
                  Input(call) # <<>> /\ Input(call)[Len(Input(call))] = 0
<1>1. Block \subseteq Seq(Uint8) /\ NullString \notin Seq(Uint8)
  BY HashAssumption
<1>2. \A b \in Terminated : b \in Block /\ b # <<>> /\ b[Len(b)] = 0
  BY DEF Terminated
<1>3. CASE call.of = "hash_string"
  <2>1. call.arg \in Terminated \cup {NullString} /\ Input(call) = CString(call.arg)
    BY <1>3 DEF Asked, Input
  <2>2. CASE call.arg = NullString
    BY <1>3, <2>1, <2>2 DEF CString
  <2>3. CASE call.arg \in Terminated
    <3>1. PICK end \in 1..Len(call.arg) : CString(call.arg) = SubSeq(call.arg, 1, end - 1)
      BY <1>1, <2>3, CStringIs
    <3>2. call.arg \in Seq(Uint8) /\ end - 1 \in 0..Len(call.arg)
      BY <1>1, <1>2, <2>3
    <3>3. SubSeq(call.arg, 1, end - 1) \in Seq(Uint8)
      <4>1. \A i \in 1..(end - 1) : call.arg[i] \in Uint8
        BY <3>2
      <4> QED
        BY <3>2, <4>1, SubSeqProperties
    <3> QED
      BY <1>3, <2>1, <3>1, <3>3
  <2> QED
    BY <2>1, <2>2, <2>3
<1>4. CASE call.of = "fnv1a_64_string"
  <2>1. CASE call.arg = NullString
    BY <1>4, <2>1 DEF Input, Uint8
  <2>2. CASE call.arg # NullString
    <3>1. call.arg \in Terminated /\ Input(call) = call.arg
      BY <1>4, <2>2 DEF Asked, Input
    <3> QED
      BY <1>1, <1>2, <1>4, <3>1
  <2> QED
    BY <2>1, <2>2
<1>5. CASE call.of \notin {"hash_string", "fnv1a_64_string"}
  <2>1. call.arg \in Block /\ Input(call) = call.arg
    BY <1>5 DEF Asked, Input
  <2>2. call.of = "hash_u32" => Len(call.arg) = 4
    BY DEF Asked
  <2> QED
    BY <1>1, <1>5, <2>1, <2>2, FourBytes
<1> QED
  BY <1>3, <1>4, <1>5

\* Where each call is: how far it has read, and in which phase.
HashInv ==
    /\ asking \in Asked
    /\ bytes = Input(asking)
    /\ HashTypeOK
    /\ phase \in {"tail", "final"} => asking.of \in Mixers
    /\ phase = "final" => at = Len(bytes)
    /\ asking.of = "fnv1a_64_string" => at < Len(bytes) /\ \A i \in 1..at : bytes[i] # 0
    /\ phase = "done" =>
          IF asking.of = "fnv1a_64_string" THEN bytes[at + 1] = 0 ELSE at = Len(bytes)

LEMMA Seeded ==
    ASSUME NEW call \in Asked
    PROVE  call.seed \in Word(IF call.of \in Mixers THEN 4 ELSE 8)
<1>1. Seed \subseteq Word(4)
  BY HashAssumption
<1>2. FNV_OFFSET_BASIS_64 \in Word(8)
  BY DEF FNV_OFFSET_BASIS_64, Word, Uint8
<1>3. IF call.of \in Mixers THEN call.seed \in Seed ELSE call.seed = FNV_OFFSET_BASIS_64
  BY DEF Asked, Mixers
<1> QED
  BY <1>1, <1>2, <1>3

LEMMA InitHashInv == ASSUME HashInit PROVE HashInv
<1>1. /\ asking \in Asked /\ bytes = Input(asking) /\ at = 0 /\ h = asking.seed
      /\ phase = "bytes"
  BY DEF HashInit
<1>2. bytes \in Seq(Uint8) /\ (asking.of = "fnv1a_64_string" => bytes # <<>>)
  BY <1>1, InputTyped
<1>3. Len(bytes) \in Nat /\ (bytes # <<>> => Len(bytes) > 0)
  BY <1>2, EmptySeq, LenProperties
<1> QED
  BY <1>1, <1>2, <1>3, Seeded DEF HashInv, HashTypeOK

\* A part of what is read is a sequence of bytes.
LEMMA PartTyped ==
    ASSUME NEW s \in Seq(Uint8), NEW from \in Nat, NEW to \in 0..Len(s), from <= to
    PROVE  /\ SubSeq(s, from + 1, to) \in Seq(Uint8)
           /\ Len(SubSeq(s, from + 1, to)) = to - from
<1>1. from + 1 \in Nat /\ from + 1 \in 1..(Len(s) + 1) /\ to \in Nat /\ Len(s) \in Nat
  OBVIOUS
<1>2. \A i \in (from + 1)..to : s[i] \in Uint8
  <2>1. \A i \in (from + 1)..to : i \in 1..Len(s)
    BY <1>1
  <2> QED
    BY <2>1, ElementOfSeq
<1> DEFINE part == [i \in 1..(to - from) |-> s[from + i]]
<1>3. \A i \in 1..(to - from) : from + i \in (from + 1)..to
  BY <1>1
<1>4. part \in Seq(Uint8) /\ Len(part) = to - from
  <2>1. to - from \in Nat
    BY <1>1
  <2> QED
    BY <1>2, <1>3, <2>1
<1>5. SubSeq(s, from + 1, to) = part
  BY <1>1
<1> QED
  BY <1>4, <1>5

LEMMA TailWordTyped == ASSUME NEW tail \in Seq(Uint8) PROVE TailWord(tail) \in Word(4)
<1>1. \A k \in 1..4 : k <= Len(tail) => tail[k] \in Uint8
  <2>1. \A k \in 1..4 : k <= Len(tail) => k \in 1..Len(tail)
    OBVIOUS
  <2> QED
    BY <2>1, ElementOfSeq
<1> QED
  BY <1>1 DEF TailWord, Word, Uint8

LEMMA KeepHashInv == ASSUME HashInv, [HashNext]_hashVars PROVE HashInv'
<1>1. /\ asking \in Asked /\ bytes = Input(asking) /\ bytes \in Seq(Uint8)
      /\ at \in 0..Len(bytes) /\ Len(bytes) \in Nat
  BY InputTyped, LenProperties DEF HashInv, HashTypeOK
<1>2. /\ asking.of \in Mixers => h \in Word(4)
      /\ asking.of \notin Mixers => h \in Word(8)
      /\ "fnv1a_64_string" \notin Mixers
  BY DEF HashInv, HashTypeOK, Mixers
<1>3. CASE FnvByte
  <2>1. /\ asking' = asking /\ bytes' = bytes /\ phase' = phase /\ at' = at + 1
        /\ asking.of \notin Mixers /\ phase = "bytes" /\ ~FnvEnd
        /\ h' = Times(XorW(h, WordOf(8, bytes[at + 1])), FNV_PRIME_64)
    BY <1>3 DEF FnvByte
  <2>2. asking.of \in {"fnv1a_64", "fnv1a_64_string"}
    BY <1>1, <2>1 DEF Asked, Mixers
  <2>3. at + 1 \in 1..Len(bytes)
    BY <1>1, <2>1, <2>2 DEF HashInv, FnvEnd
  <2>4. h' \in Word(8)
    <3>1. bytes[at + 1] \in Nat
      <4>1. bytes[at + 1] \in Uint8
        BY <1>1, <2>3, ElementOfSeq
      <4> QED
        BY <4>1 DEF Uint8
    <3>2. WordOf(8, bytes[at + 1]) \in Word(8)
      BY <3>1, WordOfTyped
    <3>3. XorW(h, WordOf(8, bytes[at + 1])) \in Word(8)
      BY <1>2, <2>1, <3>2, XorWord
    <3>4. FNV_PRIME_64 \in Word(8)
      BY DEF FNV_PRIME_64, Word, Uint8
    <3> QED
      BY <2>1, <3>3, <3>4, TimesTyped
  <2>5. asking.of = "fnv1a_64_string" =>
          at + 1 < Len(bytes) /\ \A i \in 1..(at + 1) : bytes[i] # 0
    <3>1. SUFFICES ASSUME asking.of = "fnv1a_64_string"
                   PROVE  at + 1 < Len(bytes) /\ \A i \in 1..(at + 1) : bytes[i] # 0
      OBVIOUS
    <3>2. bytes[at + 1] # 0 /\ bytes[Len(bytes)] = 0 /\ \A i \in 1..at : bytes[i] # 0
      BY <1>1, <2>1, <3>1, InputTyped DEF FnvEnd, HashInv
    <3>3. at + 1 # Len(bytes)
      BY <3>2
    <3>4. \A i \in 1..(at + 1) : i \in 1..at \/ i = at + 1
      BY <1>1
    <3> QED
      BY <1>1, <2>3, <3>2, <3>3, <3>4
  <2> QED
    BY <1>1, <2>1, <2>3, <2>4, <2>5 DEF HashInv, HashTypeOK
<1>4. CASE FnvReturn
  BY <1>1, <1>4 DEF FnvReturn, FnvEnd, HashInv, HashTypeOK
<1>5. CASE MurmurBlock
  <2>1. /\ asking' = asking /\ bytes' = bytes /\ phase' = phase /\ at' = at + 4
        /\ asking.of \in Mixers /\ phase = "bytes" /\ at + 4 <= Len(bytes)
        /\ h' = Round(h, SubSeq(bytes, at + 1, at + 4))
    BY <1>5 DEF MurmurBlock
  <2>2. SubSeq(bytes, at + 1, at + 4) \in Word(4)
    <3>1. at \in Nat /\ at + 4 \in 0..Len(bytes) /\ at <= at + 4 /\ at + 4 - at = 4
      BY <1>1, <2>1
    <3>2. /\ SubSeq(bytes, at + 1, at + 4) \in Seq(Uint8)
          /\ Len(SubSeq(bytes, at + 1, at + 4)) = at + 4 - at
      BY <1>1, <3>1, PartTyped
    <3> QED
      BY <3>1, <3>2, FourBytes
  <2>3. h' \in Word(4)
    BY <1>2, <2>1, <2>2, RoundUndone
  <2>4. at + 4 \in 0..Len(bytes) /\ asking.of # "fnv1a_64_string"
    BY <1>1, <1>2, <2>1
  <2> QED
    BY <2>1, <2>3, <2>4 DEF HashInv, HashTypeOK
<1>6. CASE BlocksDone
  BY <1>6 DEF BlocksDone, HashInv, HashTypeOK
<1>7. CASE MurmurTail
  <2> DEFINE tail == SubSeq(bytes, at + 1, Len(bytes))
  <2>1. /\ asking' = asking /\ bytes' = bytes /\ phase' = "final" /\ at' = Len(bytes)
        /\ asking.of \in Mixers
        /\ h' = IF tail = <<>> THEN h ELSE XorW(h, Scrambled(TailWord(tail)))
    BY <1>7 DEF MurmurTail, HashInv
  <2>2. tail \in Seq(Uint8)
    BY <1>1, PartTyped
  <2>3. h' \in Word(4)
    <3> HIDE DEF tail
    <3> QED
      BY <1>2, <2>1, <2>2, TailWordTyped, ScrambledUndone, XorWord
  <2>4. asking.of # "fnv1a_64_string"
    BY <1>2, <2>1
  <2> QED
    BY <1>1, <2>1, <2>3, <2>4 DEF HashInv, HashTypeOK
<1>8. CASE MurmurReturn
  <2>1. /\ asking' = asking /\ bytes' = bytes /\ at' = at /\ phase' = "done"
        /\ asking.of \in Mixers /\ at = Len(bytes)
        /\ h' = fmix32(XorW(h, WordOf(4, Len(bytes))))
    BY <1>8 DEF MurmurReturn, HashInv
  <2>2. h' \in Word(4)
    <3>1. XorW(h, WordOf(4, Len(bytes))) \in Word(4)
      BY <1>1, <1>2, <2>1, WordOfTyped, XorWord
    <3> QED
      BY <2>1, <3>1, Fmix32Undone
  <2>3. asking.of # "fnv1a_64_string"
    BY <1>2, <2>1
  <2> QED
    BY <1>1, <2>1, <2>2, <2>3 DEF HashInv, HashTypeOK
<1>9. CASE UNCHANGED hashVars
  BY <1>9 DEF hashVars, HashInv, HashTypeOK
<1> QED
  BY <1>3, <1>4, <1>5, <1>6, <1>7, <1>8, <1>9 DEF HashNext

(***************************************************************************)
(* No call of the hash functions reads past the bytes it is given, or past *)
(* the 0 that ends a string, and the word stays a word of its width        *)
(* (src/src/util/hash.cpp:45-130), for blocks of any length.               *)
(***************************************************************************)
THEOREM HashTypeCorrect == HashSpec => []HashTypeOK
<1>1. HashInit => HashInv
  BY InitHashInv
<1>2. HashInv /\ [HashNext]_hashVars => HashInv'
  BY KeepHashInv
<1>3. HashInv => HashTypeOK
  BY DEF HashInv
<1> QED
  BY <1>1, <1>2, <1>3, PTL DEF HashSpec


(***************************************************************************)
(* What is returned is the hash of the whole input: all the bytes given,   *)
(* or those before the 0 that ends a string, and none behind a null        *)
(* pointer (src/src/util/hash.cpp:44-68, 70-134).                          *)
(***************************************************************************)
WholeInput == phase = "done" => at = Len(Hashed)

LEMMA HashesWhole == ASSUME HashInv PROVE WholeInput
<1>1. SUFFICES ASSUME phase = "done" PROVE at = Len(Hashed)
  BY DEF WholeInput
<1>2. /\ asking \in Asked /\ bytes = Input(asking) /\ bytes \in Seq(Uint8)
      /\ at \in 0..Len(bytes) /\ Len(bytes) \in Nat
  BY InputTyped, LenProperties DEF HashInv, HashTypeOK
<1>3. CASE asking.of \notin {"fnv1a_64_string", "hash_string"}
  BY <1>1, <1>2, <1>3 DEF HashInv, Hashed, Input
<1>4. CASE asking.of = "hash_string"
  BY <1>1, <1>2, <1>4 DEF HashInv, Hashed, Input
<1>5. CASE asking.of = "fnv1a_64_string"
  <2>1. /\ bytes[at + 1] = 0 /\ at < Len(bytes) /\ \A i \in 1..at : bytes[i] # 0
        /\ Hashed = CString(asking.arg)
    BY <1>1, <1>5 DEF HashInv, Hashed
  <2>2. asking.arg \in Terminated \cup {NullString}
    BY <1>2, <1>5 DEF Asked
  <2>3. CASE asking.arg = NullString
    <3>1. bytes = <<0>> /\ Hashed = <<>>
      BY <1>2, <1>5, <2>1, <2>3 DEF Input, CString
    <3> QED
      BY <1>2, <2>1, <3>1
  <2>4. CASE asking.arg # NullString
    <3>1. asking.arg \in Terminated /\ bytes = asking.arg
      BY <1>2, <1>5, <2>2, <2>4 DEF Input
    <3>2. PICK end \in 1..Len(bytes) :
             /\ bytes[end] = 0 /\ \A j \in 1..(end - 1) : bytes[j] # 0
             /\ CString(bytes) = SubSeq(bytes, 1, end - 1)
      BY <3>1, CStringIs, HashAssumption
    <3>3. ~(end <= at)
      BY <1>2, <2>1, <3>2
    <3>4. ~(at + 1 <= end - 1)
      BY <1>2, <2>1, <3>2
    <3>5. end - 1 = at /\ 0 + 1 = 1 /\ at - 0 = at
      BY <1>2, <3>2, <3>3, <3>4
    <3>6. Len(SubSeq(bytes, 0 + 1, at)) = at - 0
      BY <1>2, PartTyped
    <3> QED
      BY <2>1, <3>1, <3>2, <3>5, <3>6
  <2> QED
    BY <2>3, <2>4
<1> QED
  BY <1>3, <1>4, <1>5

THEOREM WholeInputHashed == HashSpec => []WholeInput
<1>1. HashInit => HashInv
  BY InitHashInv
<1>2. HashInv /\ [HashNext]_hashVars => HashInv'
  BY KeepHashInv
<1>3. HashInv => WholeInput
  BY HashesWhole
<1> QED
  BY <1>1, <1>2, <1>3, PTL DEF HashSpec

\* hash_u32 runs one round on its value, finds no tail, and finishes.
U32Inv ==
    asking.of = "hash_u32" =>
        LET mixed == Round(asking.seed, asking.arg)
        IN  /\ phase = "bytes" =>
                  \/ at = 0 /\ h = asking.seed
                  \/ at = 4 /\ h = mixed
            /\ phase \in {"tail", "final"} => at = 4 /\ h = mixed
            /\ phase = "done" => h = fmix32(XorW(mixed, WordOf(4, 4)))

LEMMA InitU32Inv == ASSUME HashInit PROVE U32Inv
<1> DEFINE mixed == Round(asking.seed, asking.arg)
<1>1. phase = "bytes" /\ at = 0 /\ h = asking.seed
  BY DEF HashInit
<1> HIDE DEF mixed
<1>2. asking.of = "hash_u32" =>
        /\ phase = "bytes" =>
              \/ at = 0 /\ h = asking.seed
              \/ at = 4 /\ h = mixed
        /\ phase \in {"tail", "final"} => at = 4 /\ h = mixed
        /\ phase = "done" => h = fmix32(XorW(mixed, WordOf(4, 4)))
  BY <1>1
<1> USE DEF mixed
<1> QED
  BY <1>2 DEF U32Inv

LEMMA KeepU32Inv == ASSUME HashInv, U32Inv, [HashNext]_hashVars PROVE U32Inv'
<1>1. asking' = asking
  BY DEF HashNext, FnvByte, FnvReturn, MurmurBlock, BlocksDone, MurmurTail, MurmurReturn,
         hashVars
<1> DEFINE mixed == Round(asking.seed, asking.arg)
<1>2. SUFFICES ASSUME asking.of = "hash_u32"
               PROVE  /\ phase' = "bytes" =>
                            \/ at' = 0 /\ h' = asking.seed
                            \/ at' = 4 /\ h' = mixed
                      /\ phase' \in {"tail", "final"} => at' = 4 /\ h' = mixed
                      /\ phase' = "done" => h' = fmix32(XorW(mixed, WordOf(4, 4)))
  BY <1>1 DEF U32Inv
<1>3. /\ phase = "bytes" =>
            \/ at = 0 /\ h = asking.seed
            \/ at = 4 /\ h = mixed
      /\ phase \in {"tail", "final"} => at = 4 /\ h = mixed
      /\ phase = "done" => h = fmix32(XorW(mixed, WordOf(4, 4)))
  BY <1>2 DEF U32Inv
<1>4. bytes = asking.arg /\ bytes \in Word(4) /\ asking.of \in Mixers
  BY <1>2, InputTyped DEF HashInv, Mixers
<1>5. Len(bytes) = 4 /\ SubSeq(bytes, 1, 4) = bytes /\ SubSeq(bytes, 5, 4) = <<>>
  <2>1. bytes = [i \in 1..4 |-> bytes[i]]
    BY <1>4 DEF Word
  <2>2. bytes \in Seq(Uint8) /\ Len(bytes) = 4
    BY <1>4, WordTyped
  <2> QED
    BY <2>1, <2>2
<1>6. CASE MurmurBlock
  <2>1. /\ phase = "bytes" /\ phase' = phase /\ at + 4 <= Len(bytes) /\ at' = at + 4
        /\ h' = Round(h, SubSeq(bytes, at + 1, at + 4))
    BY <1>6 DEF MurmurBlock
  <2>2. at = 0 /\ h = asking.seed
    BY <1>3, <1>5, <2>1
  <2>3. at + 1 = 1 /\ at + 4 = 4
    BY <2>2
  <2>4. h' = mixed /\ at' = 4
    BY <1>4, <1>5, <2>1, <2>2, <2>3
  <2> HIDE DEF mixed
  <2> QED
    BY <2>1, <2>4
<1> HIDE DEF mixed
<1>7. CASE BlocksDone
  BY <1>3, <1>5, <1>7 DEF BlocksDone
<1>8. CASE MurmurTail
  <2>1. /\ phase = "tail" /\ phase' = "final" /\ at' = Len(bytes)
        /\ h' = IF SubSeq(bytes, at + 1, Len(bytes)) = <<>> THEN h
                ELSE XorW(h, Scrambled(TailWord(SubSeq(bytes, at + 1, Len(bytes)))))
    BY <1>8 DEF MurmurTail
  <2>2. at + 1 = 5 /\ h = mixed
    BY <1>3, <2>1
  <2> QED
    BY <1>5, <2>1, <2>2
<1>9. CASE MurmurReturn
  BY <1>3, <1>5, <1>9 DEF MurmurReturn
<1>10. CASE UNCHANGED hashVars
  BY <1>3, <1>10 DEF hashVars
<1> QED
  BY <1>4, <1>6, <1>7, <1>8, <1>9, <1>10 DEF HashNext, FnvByte, FnvReturn

LEMMA U32IsRecovered == ASSUME HashInv, U32Inv PROVE U32Recovered
<1>1. SUFFICES ASSUME phase = "done", asking.of = "hash_u32"
               PROVE  UndoRound(XorW(UndoFmix32(h), WordOf(4, 4)), asking.seed) = asking.arg
  BY DEF U32Recovered
<1> DEFINE mixed == Round(asking.seed, asking.arg)
           sized == XorW(mixed, WordOf(4, 4))
<1>2. asking.arg \in Word(4) /\ asking.seed \in Word(4)
  BY <1>1, InputTyped, Seeded DEF HashInv, Mixers
<1>3. h = fmix32(sized)
  BY <1>1 DEF U32Inv
<1>4. mixed \in Word(4) /\ UndoRound(mixed, asking.seed) = asking.arg
  BY <1>2, RoundUndone
<1> HIDE DEF mixed
<1>5. WordOf(4, 4) \in Word(4)
  BY WordOfTyped
<1>6. sized \in Word(4) /\ XorW(sized, WordOf(4, 4)) = mixed
  BY <1>4, <1>5, XorWord, XorWordTwice
<1> HIDE DEF sized
<1>7. UndoFmix32(h) = sized
  BY <1>3, <1>6, Fmix32Undone
<1> QED
  BY <1>4, <1>6, <1>7

(***************************************************************************)
(* hash_u32 is a permutation of the 32-bit words under every seed: its     *)
(* value is computed back from the hash, for each of the 2^32 values       *)
(* (src/src/util/hash.cpp:128-130, 33-40, 79-89).                          *)
(***************************************************************************)
THEOREM U32Permutes == HashSpec => []U32Recovered
<1>1. HashInit => HashInv /\ U32Inv
  BY InitHashInv, InitU32Inv
<1>2. HashInv /\ U32Inv /\ [HashNext]_hashVars => (HashInv /\ U32Inv)'
  BY KeepHashInv, KeepU32Inv
<1>3. HashInv /\ U32Inv => U32Recovered
  BY U32IsRecovered
<1> QED
  BY <1>1, <1>2, <1>3, PTL DEF HashSpec

=============================================================================
