-------------------------------- MODULE Hash --------------------------------
(***************************************************************************)
(* The hash utilities (src/util/hash.cpp): FNV-1a with 64 bits and the     *)
(* 32-bit MurmurHash3, and the functions that call it.                     *)
(*                                                                         *)
(* A word is the sequence of its bytes, the lowest first, which is how the *)
(* code reads words from memory on the little-endian machines it is built  *)
(* for.  Arithmetic is modulo 2^(8 n) for a word of n bytes.               *)
(***************************************************************************)
EXTENDS Naturals, Sequences

CONSTANTS
    Block,      \* what data or s points to; a C string ends with a 0 byte
    Seed,       \* words of four bytes
    NullString,
    Vectors     \* published answers: the algorithm, bytes, seed and hash

Uint8 == 0..255
Word(n) == [1..n -> Uint8]

ASSUME HashAssumption ==
    /\ Block \subseteq Seq(Uint8)
    /\ Seed \subseteq Word(4)
    /\ NullString \notin Seq(Uint8)

Mixers == {"murmur3_32", "hash_bytes", "hash_string", "hash_u32", "hash_u64"}

VARIABLES
    asking,     \* the function called, and its arguments
    bytes,      \* the bytes it hashes
    at,         \* how many of them are hashed
    h,          \* the word so far
    phase       \* "bytes", then for MurmurHash3 "tail" and "final", then "done"

hashVars == <<asking, bytes, at, h, phase>>

-----------------------------------------------------------------------------
(***************************************************************************)
(* Words.  Power[i] is the i-th bit on its own, Bit(x, i) is whether x has *)
(* it, and a byte is the sum of the bits it has.                           *)
(***************************************************************************)
Power == <<1, 2, 4, 8, 16, 32, 64, 128, 256>>
Bit(x, i) == (x \div Power[i]) % 2

Xor8(x, y) ==
    LET bit(i) == ((Bit(x, i) + Bit(y, i)) % 2) * Power[i]
    IN  bit(1) + bit(2) + bit(3) + bit(4) + bit(5) + bit(6) + bit(7) + bit(8)

XorW(v, w) == [k \in DOMAIN v |-> Xor8(v[k], w[k])]

\* A right shift by r puts byte k together from the two above it that it gets
\* bits of, a rotation to the left from the two below it, round the end.
ShiftRight(w, r) ==
    LET byte(k) == IF k \in DOMAIN w THEN w[k] ELSE 0
    IN  [k \in DOMAIN w |->
            (byte(k + (r \div 8)) \div Power[1 + (r % 8)]
                + byte(k + (r \div 8) + 1) * Power[9 - (r % 8)]) % 256]

Rotl(w, r) ==
    LET byte(k) == w[1 + ((k - 1) % Len(w))]
    IN  [k \in DOMAIN w |->
            (byte(k + Len(w) - (r \div 8)) * Power[1 + (r % 8)]
                + byte(k + Len(w) - (r \div 8) - 1) \div Power[9 - (r % 8)]) % 256]

\* From columns of any size to bytes; what is carried out of the last is lost.
Carried(columns) ==
    LET carry[k \in 0..Len(columns)] ==
            IF k = 0 THEN 0 ELSE (columns[k] + carry[k - 1]) \div 256
    IN  [k \in DOMAIN columns |-> (columns[k] + carry[k - 1]) % 256]

Plus(v, w) == Carried([k \in DOMAIN v |-> v[k] + w[k]])

\* The products that meet in column k.
Column(v, w, k) ==
    LET sum[i \in 0..k] == IF i = 0 THEN 0 ELSE sum[i - 1] + v[i] * w[k + 1 - i]
    IN  sum[k]

Times(v, w) == Carried([k \in DOMAIN v |-> Column(v, w, k)])

\* A number as a word of n bytes, what is above them cut off.
WordOf(n, number) == Carried([k \in 1..n |-> IF k = 1 THEN number ELSE 0])

-----------------------------------------------------------------------------
FNV_OFFSET_BASIS_64 == <<37, 35, 34, 132, 228, 156, 242, 203>>
FNV_PRIME_64 == <<179, 1, 0, 0, 0, 1, 0, 0>>
FMIX32_C1 == <<107, 202, 235, 133>>
FMIX32_C2 == <<53, 174, 178, 194>>
C1 == <<81, 45, 158, 204>>
C2 == <<147, 53, 135, 27>>
Added == <<100, 107, 84, 230>>

\* The bytes before the first 0, or none behind a null pointer.
CString(s) ==
    IF s = NullString THEN <<>>
    ELSE LET end == CHOOSE i \in DOMAIN s : s[i] = 0 /\ \A j \in 1..(i - 1) : s[j] # 0
         IN  SubSeq(s, 1, end - 1)

Terminated == {b \in Block : b # <<>> /\ b[Len(b)] = 0}

\* The calls: a string is terminated, a value has the bytes of its type.
Asked ==
    [of : {"fnv1a_64"}, arg : Block, seed : {FNV_OFFSET_BASIS_64}]
    \cup [of : {"fnv1a_64_string"}, arg : Terminated \cup {NullString},
          seed : {FNV_OFFSET_BASIS_64}]
    \cup [of : {"murmur3_32", "hash_bytes"}, arg : Block, seed : Seed]
    \cup [of : {"hash_string"}, arg : Terminated \cup {NullString}, seed : Seed]
    \cup [of : {"hash_u32"}, arg : {b \in Block : Len(b) = 4}, seed : Seed]
    \cup [of : {"hash_u64"}, arg : {b \in Block : Len(b) = 8}, seed : Seed]

\* The string form of FNV-1a finds the end of the string as it goes.
Input(call) ==
    CASE call.of = "hash_string"                             -> CString(call.arg)
      [] call.of = "fnv1a_64_string" /\ call.arg = NullString -> <<0>>
      [] OTHER                                               -> call.arg

HashInit ==
    /\ asking \in Asked
    /\ bytes = Input(asking)
    /\ at = 0
    /\ h = asking.seed
    /\ phase = "bytes"

HashTypeOK ==
    /\ at \in 0..Len(bytes)
    /\ h \in Word(IF asking.of \in Mixers THEN 4 ELSE 8)
    /\ phase \in {"bytes", "tail", "final", "done"}

-----------------------------------------------------------------------------
\* Both forms of fnv1a_64: to the size given, or to the 0 byte.
FnvEnd ==
    \/ asking.of = "fnv1a_64" /\ at = Len(bytes)
    \/ asking.of = "fnv1a_64_string" /\ bytes[at + 1] = 0

FnvByte ==
    /\ asking.of \notin Mixers /\ phase = "bytes" /\ ~FnvEnd
    /\ h' = Times(XorW(h, WordOf(8, bytes[at + 1])), FNV_PRIME_64)
    /\ at' = at + 1
    /\ UNCHANGED <<asking, bytes, phase>>

FnvReturn ==
    /\ asking.of \notin Mixers /\ phase = "bytes" /\ FnvEnd
    /\ phase' = "done"
    /\ UNCHANGED <<asking, bytes, at, h>>

Scrambled(k1) == Times(Rotl(Times(k1, C1), 15), C2)

Round(w, k1) == Plus(Times(Rotl(XorW(w, Scrambled(k1)), 13), WordOf(4, 5)), Added)

\* read_u32_le at the block's place, and one round.
MurmurBlock ==
    /\ asking.of \in Mixers /\ phase = "bytes" /\ at + 4 <= Len(bytes)
    /\ h' = Round(h, SubSeq(bytes, at + 1, at + 4))
    /\ at' = at + 4
    /\ UNCHANGED <<asking, bytes, phase>>

BlocksDone ==
    /\ asking.of \in Mixers /\ phase = "bytes" /\ at + 4 > Len(bytes)
    /\ phase' = "tail"
    /\ UNCHANGED <<asking, bytes, at, h>>

\* Defect: a case of the switch does not fall through to the next.
TailBroken(tail) ==
    [k \in 1..4 |-> IF k = Len(tail) THEN tail[k] ELSE 0]

\* The switch on size & 3, from the case of the tail's length down: each case
\* puts its byte in.
TailWord(tail) == [k \in 1..4 |-> IF k <= Len(tail) THEN tail[k] ELSE 0]

MurmurTail ==
    /\ phase = "tail"
    /\ LET tail == SubSeq(bytes, at + 1, Len(bytes))
       IN  h' = IF tail = <<>> THEN h ELSE XorW(h, Scrambled(TailWord(tail)))
    /\ at' = Len(bytes)
    /\ phase' = "final"
    /\ UNCHANGED <<asking, bytes>>

\* Defect: the second shift is that of the first.
fmix32Shifts(w) ==
    LET a == Times(XorW(w, ShiftRight(w, 16)), FMIX32_C1)
        b == Times(XorW(a, ShiftRight(a, 16)), FMIX32_C2)
    IN  XorW(b, ShiftRight(b, 16))

fmix32(w) ==
    LET a == Times(XorW(w, ShiftRight(w, 16)), FMIX32_C1)
        b == Times(XorW(a, ShiftRight(a, 13)), FMIX32_C2)
    IN  XorW(b, ShiftRight(b, 16))

MurmurReturn ==
    /\ phase = "final"
    /\ h' = fmix32(XorW(h, WordOf(4, Len(bytes))))
    /\ phase' = "done"
    /\ UNCHANGED <<asking, bytes, at>>

HashNext == FnvByte \/ FnvReturn \/ MurmurBlock \/ BlocksDone \/ MurmurTail \/ MurmurReturn

HashSpec == HashInit /\ [][HashNext]_hashVars

-----------------------------------------------------------------------------
(***************************************************************************)
(* The published test vectors of FNV-1a and MurmurHash3 come out, for the  *)
(* bytes as for the C strings that hold them: constants, shifts, the order *)
(* of the steps, the tail and the end of a string are those of the         *)
(* algorithms the functions are named for.                                 *)
(***************************************************************************)
Family == IF asking.of \in Mixers THEN "murmur3" ELSE "fnv1a"

Hashed ==
    IF asking.of \in {"fnv1a_64_string", "hash_string"} THEN CString(asking.arg)
    ELSE asking.arg

KnownAnswers ==
    phase = "done" =>
        \A vector \in Vectors :
            vector.of = Family /\ vector.bytes = Hashed /\ vector.seed = asking.seed
                => h = vector.is

(***************************************************************************)
(* hash_u32 loses nothing: under each seed it is a permutation of the      *)
(* words, since the value can be computed back from the hash, every step   *)
(* of which is undone here in turn (lines 128-130, 33-40, 79-89).          *)
(***************************************************************************)
UndoShift13(w) == XorW(XorW(w, ShiftRight(w, 13)), ShiftRight(w, 26))

UndoFmix32(w) ==
    LET a == Times(XorW(w, ShiftRight(w, 16)), <<29, 180, 209, 126>>)
        b == Times(UndoShift13(a), <<67, 146, 203, 165>>)
    IN  XorW(b, ShiftRight(b, 16))

UndoScrambled(k1) ==
    Times(Rotl(Times(k1, <<155, 48, 237, 86>>), 17), <<177, 59, 225, 222>>)

UndoRound(w, seed) ==
    LET mixed == Times(Plus(w, <<156, 148, 171, 25>>), <<205, 204, 204, 204>>)
    IN  UndoScrambled(XorW(Rotl(mixed, 19), seed))

U32Recovered ==
    phase = "done" /\ asking.of = "hash_u32" =>
        UndoRound(XorW(UndoFmix32(h), WordOf(4, 4)), asking.seed) = asking.arg

=============================================================================
