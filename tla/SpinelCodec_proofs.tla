-------------------------- MODULE SpinelCodec_proofs --------------------------
(***************************************************************************)
(* Theorems about SpinelCodec, for every payload and every stream: what a  *)
(* peer frames is decoded, an answer that arrives whole is read, and a     *)
(* frame with two changed neighbouring bytes never passes the check.       *)
(*                                                                         *)
(* A function defined by recursion over a sequence is reached through      *)
(* Iteration: such functions exist, and one with the defining equation is  *)
(* what CHOOSE gives.  What they compute is then proved by Induction, which*)
(* takes the set of the numbers for which a formula holds.                 *)
(***************************************************************************)
EXTENDS SpinelCodec, SequenceTheorems, WellFoundedInduction, TLAPS

-----------------------------------------------------------------------------
(***************************************************************************)
(* Induction and recursion.                                                *)
(***************************************************************************)
\* A set of numbers that has 0 and the successors of its members has all.
LEMMA Induction ==
  ASSUME NEW N \in Nat, NEW S, 0 \in S, \A n \in 0..(N - 1) : n \in S => n + 1 \in S
  PROVE  0..N \subseteq S
  <1> DEFINE I == (0..N) \ S
  <1> SUFFICES ASSUME I # {} PROVE FALSE
    OBVIOUS
  <1>1. I \in SUBSET Nat
    OBVIOUS
  <1>2. PICK x \in I : \A y \in I : ~(<<y, x>> \in OpToRel(<, Nat))
    BY <1>1, WFMin, NatLessThanWellFounded, Zenon
  <1>3. \A y \in I : ~(y < x)
    <2>1. \A y \in I : <<y, x>> \in OpToRel(<, Nat) <=> y < x
      BY <1>1, Zenon DEF OpToRel
    <2> QED
      BY <1>2, <2>1, Zenon
  <1>4. x \in 0..N /\ x # 0 /\ x \notin S
    OBVIOUS
  <1>5. x - 1 \in 0..(N - 1) /\ x - 1 < x /\ (x - 1) + 1 = x /\ x - 1 \in 0..N
    BY <1>4
  <1>6. x - 1 \in S
    BY <1>3, <1>5
  <1> QED
    BY <1>4, <1>5, <1>6

\* A state machine over a sequence runs: there is a function that begins with
\* x and takes one step at each element.
IsRun(f, X, step, x, data) ==
  /\ f \in [0..Len(data) -> X]
  /\ f[0] = x /\ \A n \in 1..Len(data) : f[n] = step[<<f[n - 1], data[n]>>]

LEMMA Iteration ==
  ASSUME NEW X, NEW B, NEW step \in [X \X B -> X], NEW x \in X, NEW data \in Seq(B)
  PROVE  \E f : IsRun(f, X, step, x, data)
  <1> DEFINE Runs(k) == {f \in [0..k -> X] :
               f[0] = x /\ \A n \in 1..k : f[n] = step[<<f[n - 1], data[n]>>]}
             S == {k \in 0..Len(data) : Runs(k) # {}}
  <1>1. Len(data) \in Nat
    OBVIOUS
  <1>2. 0 \in S
    <2>1. [i \in 0..0 |-> x] \in Runs(0)
      OBVIOUS
    <2> QED
      BY <1>1, <2>1
  <1>3. \A k \in 0..(Len(data) - 1) : k \in S => k + 1 \in S
    <2> SUFFICES ASSUME NEW k \in 0..(Len(data) - 1), k \in S PROVE k + 1 \in S
      OBVIOUS
    <2>1. PICK f \in Runs(k) : TRUE
      OBVIOUS
    <2>2. k \in Nat /\ k + 1 \in 1..Len(data) /\ f \in [0..k -> X]
      BY <1>1
    <2>3. data[k + 1] \in B
      BY <2>2, ElementOfSeq
    <2> DEFINE g == [i \in 0..(k + 1) |-> IF i = k + 1 THEN step[<<f[k], data[k + 1]>>] ELSE f[i]]
    <2>4. f[k] \in X
      BY <2>2
    <2>5. step[<<f[k], data[k + 1]>>] \in X
      BY <2>3, <2>4
    <2>6. g \in [0..(k + 1) -> X]
      BY <2>2, <2>5
    <2>7. g[0] = x
      BY <2>1, <2>2
    <2>8. \A n \in 1..(k + 1) : g[n] = step[<<g[n - 1], data[n]>>]
      <3> SUFFICES ASSUME NEW n \in 1..(k + 1) PROVE g[n] = step[<<g[n - 1], data[n]>>]
        OBVIOUS
      <3>1. g[n - 1] = f[n - 1]
        BY <2>2
      <3>2. CASE n = k + 1
        <4>1. g[n] = step[<<f[k], data[n]>>] /\ n - 1 = k
          BY <2>2, <3>2
        <4> QED
          BY <3>1, <4>1, Zenon
      <3>3. CASE n # k + 1
        <4>1. n \in 1..k /\ g[n] = f[n]
          BY <2>2, <3>3
        <4> QED
          BY <2>1, <3>1, <4>1
      <3> QED
        BY <3>2, <3>3
    <2>9. g \in Runs(k + 1)
      BY <2>6, <2>7, <2>8
    <2>10. k + 1 \in 0..Len(data)
      BY <2>2
    <2> HIDE DEF Runs, g
    <2> QED
      BY <2>9, <2>10
  <1>4. 0..Len(data) \subseteq S
    <2> HIDE DEF S
    <2> QED
      BY <1>1, <1>2, <1>3, Induction, Zenon
  <1>5. Len(data) \in S
    BY <1>1, <1>4
  <1> QED
    BY <1>5 DEF IsRun

-----------------------------------------------------------------------------
(***************************************************************************)
(* Bytes and their bits.                                                   *)
(***************************************************************************)
\* The bits of a byte, one by one.
LEMMA BitsOfByte ==
  ASSUME NEW b \in Byte
  PROVE  /\ Bits[b] \subseteq 0..7
         /\ 0 \in Bits[b] <=> b % 2 = 1
         /\ 1 \in Bits[b] <=> (b \div 2) % 2 = 1
         /\ 2 \in Bits[b] <=> (b \div 4) % 2 = 1
         /\ 3 \in Bits[b] <=> (b \div 8) % 2 = 1
         /\ 4 \in Bits[b] <=> (b \div 16) % 2 = 1
         /\ 5 \in Bits[b] <=> (b \div 32) % 2 = 1
         /\ 6 \in Bits[b] <=> (b \div 64) % 2 = 1
         /\ 7 \in Bits[b] <=> (b \div 128) % 2 = 1
  <1>1. Bits[b] = {i \in 0..7 : (b \div 2^i) % 2 = 1}
    BY Zenon DEF Bits
  <1>2. /\ 2^0 = 1 /\ 2^1 = 2 /\ 2^2 = 4 /\ 2^3 = 8
        /\ 2^4 = 16 /\ 2^5 = 32 /\ 2^6 = 64 /\ 2^7 = 128
    OBVIOUS
  <1>3. b \div 1 = b
    BY DEF Byte
  <1>4. \A i \in 0..7 : i \in Bits[b] <=> (b \div 2^i) % 2 = 1
    BY <1>1
  <1>5. 0 \in Bits[b] <=> b % 2 = 1
    BY <1>2, <1>3, <1>4
  <1>6. 1 \in Bits[b] <=> (b \div 2) % 2 = 1
    BY <1>2, <1>4
  <1>7. 2 \in Bits[b] <=> (b \div 4) % 2 = 1
    BY <1>2, <1>4
  <1>8. 3 \in Bits[b] <=> (b \div 8) % 2 = 1
    BY <1>2, <1>4
  <1>9. 4 \in Bits[b] <=> (b \div 16) % 2 = 1
    BY <1>2, <1>4
  <1>10. 5 \in Bits[b] <=> (b \div 32) % 2 = 1
    BY <1>2, <1>4
  <1>11. 6 \in Bits[b] <=> (b \div 64) % 2 = 1
    BY <1>2, <1>4
  <1>12. 7 \in Bits[b] <=> (b \div 128) % 2 = 1
    BY <1>2, <1>4
  <1> QED
    BY <1>1, <1>5, <1>6, <1>7, <1>8, <1>9, <1>10, <1>11, <1>12

\* A byte is the sum of its bits, so its bits determine it.
LEMMA BitsDetermine ==
  ASSUME NEW a \in Byte, NEW b \in Byte, Bits[a] = Bits[b]
  PROVE  a = b
  <1>1. \A c \in Byte :
          /\ c = (c % 2) + 2 * ((c \div 2) % 2) + 4 * ((c \div 4) % 2) + 8 * ((c \div 8) % 2)
                 + 16 * ((c \div 16) % 2) + 32 * ((c \div 32) % 2) + 64 * ((c \div 64) % 2)
                 + 128 * ((c \div 128) % 2)
          /\ c % 2 \in 0..1 /\ (c \div 2) % 2 \in 0..1 /\ (c \div 4) % 2 \in 0..1
          /\ (c \div 8) % 2 \in 0..1 /\ (c \div 16) % 2 \in 0..1 /\ (c \div 32) % 2 \in 0..1
          /\ (c \div 64) % 2 \in 0..1 /\ (c \div 128) % 2 \in 0..1
    BY DEF Byte
  <1>2. /\ a % 2 = 1 <=> b % 2 = 1
        /\ (a \div 2) % 2 = 1 <=> (b \div 2) % 2 = 1
        /\ (a \div 4) % 2 = 1 <=> (b \div 4) % 2 = 1
        /\ (a \div 8) % 2 = 1 <=> (b \div 8) % 2 = 1
        /\ (a \div 16) % 2 = 1 <=> (b \div 16) % 2 = 1
        /\ (a \div 32) % 2 = 1 <=> (b \div 32) % 2 = 1
        /\ (a \div 64) % 2 = 1 <=> (b \div 64) % 2 = 1
        /\ (a \div 128) % 2 = 1 <=> (b \div 128) % 2 = 1
    BY BitsOfByte
  <1>3. /\ a % 2 = b % 2 /\ (a \div 2) % 2 = (b \div 2) % 2
        /\ (a \div 4) % 2 = (b \div 4) % 2 /\ (a \div 8) % 2 = (b \div 8) % 2
        /\ (a \div 16) % 2 = (b \div 16) % 2 /\ (a \div 32) % 2 = (b \div 32) % 2
        /\ (a \div 64) % 2 = (b \div 64) % 2 /\ (a \div 128) % 2 = (b \div 128) % 2
    BY <1>1, <1>2
  <1> QED
    BY <1>1, <1>3

\* Every set of bits is a byte.
LEMMA BitsAreAByte ==
  ASSUME NEW S \in SUBSET (0..7)
  PROVE  \E b \in Byte : Bits[b] = S
  <1> DEFINE v(i) == IF i \in S THEN 1 ELSE 0
             b == v(0) + 2 * v(1) + 4 * v(2) + 8 * v(3) + 16 * v(4) + 32 * v(5) + 64 * v(6) + 128 * v(7)
  <1>1. \A i \in 0..7 : v(i) \in 0..1 /\ (v(i) = 1 <=> i \in S)
    OBVIOUS
  <1>2. /\ v(0) \in 0..1 /\ v(1) \in 0..1 /\ v(2) \in 0..1 /\ v(3) \in 0..1
        /\ v(4) \in 0..1 /\ v(5) \in 0..1 /\ v(6) \in 0..1 /\ v(7) \in 0..1
    BY <1>1
  <1> HIDE DEF v
  <1>3. b \in Byte
    BY <1>2 DEF Byte
  <1>4. b % 2 = v(0)
    BY <1>2
  <1>5. (b \div 2) % 2 = v(1)
    BY <1>2
  <1>6. (b \div 4) % 2 = v(2)
    BY <1>2
  <1>7. (b \div 8) % 2 = v(3)
    BY <1>2
  <1>8. (b \div 16) % 2 = v(4)
    BY <1>2
  <1>9. (b \div 32) % 2 = v(5)
    BY <1>2
  <1>10. (b \div 64) % 2 = v(6)
    BY <1>2
  <1>11. (b \div 128) % 2 = v(7)
    BY <1>2
  <1> HIDE DEF b
  <1>12. \A i \in 0..7 : i \in Bits[b] <=> i \in S
    <2>1. /\ 0 \in Bits[b] <=> 0 \in S
          /\ 1 \in Bits[b] <=> 1 \in S
          /\ 2 \in Bits[b] <=> 2 \in S
          /\ 3 \in Bits[b] <=> 3 \in S
          /\ 4 \in Bits[b] <=> 4 \in S
          /\ 5 \in Bits[b] <=> 5 \in S
          /\ 6 \in Bits[b] <=> 6 \in S
          /\ 7 \in Bits[b] <=> 7 \in S
      BY <1>1, <1>3, <1>4, <1>5, <1>6, <1>7, <1>8, <1>9, <1>10, <1>11, BitsOfByte
    <2> QED
      BY <2>1
  <1>13. Bits[b] = S
    BY <1>3, <1>12, BitsOfByte
  <1> QED
    BY <1>3, <1>13

\* ByteOf undoes Bits, and Bits undoes ByteOf.
LEMMA ByteOfBits ==
  ASSUME NEW S \in SUBSET (0..7)
  PROVE  ByteOf(S) \in Byte /\ Bits[ByteOf(S)] = S
  BY BitsAreAByte, Zenon DEF ByteOf

LEMMA BitsOfByteOf ==
  ASSUME NEW b \in Byte
  PROVE  ByteOf(Bits[b]) = b
  BY BitsOfByte, ByteOfBits, BitsDetermine

\* The escaped form of a byte is a byte that the decoder takes for one.
LEMMA Flips ==
  ASSUME NEW b \in Byte
  PROVE  /\ Flipped(b) \in Byte
         /\ Flipped(Flipped(b)) = b
         /\ b \in Escaped => Flipped(b) \notin {Flag, Escape}
  <1>1. Xor(Bits[b], {5}) \in SUBSET (0..7)
    BY BitsOfByte DEF Xor
  <1>2. Flipped(b) \in Byte /\ Bits[Flipped(b)] = Xor(Bits[b], {5})
    BY <1>1, ByteOfBits DEF Flipped
  <1>3. Xor(Bits[Flipped(b)], {5}) = Bits[b]
    BY <1>2 DEF Xor
  <1>4. Flipped(Flipped(b)) = b
    BY <1>3, BitsOfByteOf DEF Flipped
  <1>5. ASSUME b \in Escaped, Flipped(b) \in {Flag, Escape} PROVE FALSE
    <2>1. /\ 5 \in Bits[b] <=> 5 \notin Bits[Flipped(b)]
          /\ 6 \in Bits[b] <=> 6 \in Bits[Flipped(b)]
      BY <1>2 DEF Xor
    <2>2. 5 \in Bits[Flipped(b)] /\ 6 \in Bits[Flipped(b)]
      BY <1>2, <1>5, BitsOfByte DEF Flag, Escape
    <2>3. b \in {126, 125, 17, 19}
      BY <1>5 DEF Escaped, Flag, Escape
    <2>4. CASE b \in {126, 125}
      BY <2>1, <2>2, <2>4, BitsOfByte
    <2>5. CASE b \in {17, 19}
      BY <2>1, <2>2, <2>5, BitsOfByte
    <2> QED
      BY <2>3, <2>4, <2>5
  <1> QED
    BY <1>2, <1>4, <1>5

-----------------------------------------------------------------------------
(***************************************************************************)
(* The check sequence.                                                     *)
(***************************************************************************)
Word == SUBSET (0..15)

LEMMA SameWord ==
  ASSUME NEW a \in Word, NEW b \in Word, \A k \in 0..15 : k \in a <=> k \in b
  PROVE  a = b
  BY DEF Word

LEMMA ShiftRightMembers ==
  ASSUME NEW a \in Word, NEW n \in Nat
  PROVE  /\ ShiftRight(a, n) \in Word
         /\ \A k \in 0..15 : k \in ShiftRight(a, n) <=> k + n \in a
  BY DEF Word, ShiftRight

LEMMA XorMembers ==
  ASSUME NEW a \in Word, NEW b \in Word
  PROVE  /\ Xor(a, b) \in Word
         /\ \A k \in 0..15 : k \in Xor(a, b) <=> ~(k \in a <=> k \in b)
  BY DEF Word, Xor

LEMMA ShiftOnceMembers ==
  ASSUME NEW a \in Word
  PROVE  /\ ShiftOnce(a) \in Word
         /\ \A k \in 0..15 : k \in ShiftOnce(a) <=>
              IF k \in {3, 10, 15} THEN ~(k + 1 \in a <=> 0 \in a) ELSE k + 1 \in a
  <1>1. {3, 10, 15} \in Word
    BY DEF Word
  <1>2. /\ ShiftRight(a, 1) \in Word
        /\ \A k \in 0..15 : k \in ShiftRight(a, 1) <=> k + 1 \in a
    BY ShiftRightMembers
  <1>3. CASE 0 \in a
    BY <1>1, <1>2, <1>3, XorMembers DEF ShiftOnce
  <1>4. CASE 0 \notin a
    BY <1>2, <1>4 DEF ShiftOnce, Word
  <1> QED
    BY <1>3, <1>4

\* One shift of xor is xor of the shifts.
LEMMA ShiftOnceIsLinear ==
  ASSUME NEW a \in Word, NEW b \in Word
  PROVE  ShiftOnce(Xor(a, b)) = Xor(ShiftOnce(a), ShiftOnce(b))
  <1>1. ShiftOnce(Xor(a, b)) \in Word /\ Xor(ShiftOnce(a), ShiftOnce(b)) \in Word
    BY ShiftOnceMembers, XorMembers
  <1>2. \A k \in 0..15 : k \in ShiftOnce(Xor(a, b)) <=> k \in Xor(ShiftOnce(a), ShiftOnce(b))
    <2> SUFFICES ASSUME NEW k \in 0..15
                 PROVE  k \in ShiftOnce(Xor(a, b)) <=> k \in Xor(ShiftOnce(a), ShiftOnce(b))
      OBVIOUS
    <2>1. k + 1 \in Xor(a, b) <=> ~(k + 1 \in a <=> k + 1 \in b)
      BY DEF Xor
    <2>2. 0 \in Xor(a, b) <=> ~(0 \in a <=> 0 \in b)
      BY DEF Xor
    <2> QED
      BY <2>1, <2>2, ShiftOnceMembers, XorMembers
  <1> DEFINE A == ShiftOnce(Xor(a, b))
             B == Xor(ShiftOnce(a), ShiftOnce(b))
  <1> HIDE DEF A, B
  <1>3. A = B
    BY <1>1, <1>2, SameWord DEF A, B
  <1> QED
    BY <1>3 DEF A, B

Eight(a) == FourShifts(FourShifts(a))

LEMMA EightIsLinear ==
  ASSUME NEW a \in Word, NEW b \in Word
  PROVE  Eight(a) \in Word /\ Eight(Xor(a, b)) = Xor(Eight(a), Eight(b))
  <1>1. \A x, y \in Word : TwoShifts(x) \in Word /\ TwoShifts(Xor(x, y)) = Xor(TwoShifts(x), TwoShifts(y))
    BY ShiftOnceMembers, ShiftOnceIsLinear, XorMembers DEF TwoShifts
  <1>2. \A x, y \in Word : FourShifts(x) \in Word /\ FourShifts(Xor(x, y)) = Xor(FourShifts(x), FourShifts(y))
    BY <1>1, XorMembers DEF FourShifts
  <1> QED
    BY <1>2, XorMembers DEF Eight

\* No two words shift to the same one: bit 15 tells which bit went out.
LEMMA ShiftOnceIsInjective ==
  ASSUME NEW a \in Word, NEW b \in Word, ShiftOnce(a) = ShiftOnce(b)
  PROVE  a = b
  <1>1. 0 \in a <=> 0 \in b
    <2>1. 16 \notin a /\ 16 \notin b
      BY DEF Word
    <2>2. 15 \in ShiftOnce(a) <=> 15 \in ShiftOnce(b)
      OBVIOUS
    <2> QED
      BY <2>1, <2>2, ShiftOnceMembers
  <1>2. \A k \in 0..15 : k + 1 \in a <=> k + 1 \in b
    BY <1>1, ShiftOnceMembers
  <1>3. \A k \in 1..15 : k \in a <=> k \in b
    <2> SUFFICES ASSUME NEW k \in 1..15 PROVE k \in a <=> k \in b
      OBVIOUS
    <2>1. k - 1 \in 0..15 /\ (k - 1) + 1 = k
      OBVIOUS
    <2> QED
      BY <1>2, <2>1
  <1>4. \A k \in 0..15 : k \in a <=> k \in b
    <2>1. \A k \in 0..15 : k = 0 \/ k \in 1..15
      OBVIOUS
    <2> QED
      BY <1>1, <1>3, <2>1
  <1> QED
    BY <1>4, SameWord

LEMMA EightIsInjective ==
  ASSUME NEW a \in Word, NEW b \in Word, Eight(a) = Eight(b)
  PROVE  a = b
  <1>1. \A x, y \in Word : TwoShifts(x) \in Word /\ (TwoShifts(x) = TwoShifts(y) => x = y)
    BY ShiftOnceMembers, ShiftOnceIsInjective DEF TwoShifts
  <1>2. \A x, y \in Word : FourShifts(x) \in Word /\ (FourShifts(x) = FourShifts(y) => x = y)
    BY <1>1 DEF FourShifts
  <1> QED
    BY <1>2 DEF Eight

\* The high byte goes down when nothing below it is set, and only then does
\* nothing remain above it.
LEMMA HighShifts ==
  ASSUME NEW a \in Word
  PROVE  /\ a \subseteq 8..15 => Eight(a) = ShiftRight(a, 8)
         /\ Eight(a) \subseteq 0..7 => a \subseteq 8..15
  <1>1. \A x \in Word : 0 \notin x => \A k \in Nat : k \in ShiftOnce(x) <=> k + 1 \in x
    <2> SUFFICES ASSUME NEW x \in Word, 0 \notin x, NEW k \in Nat
                 PROVE  k \in ShiftOnce(x) <=> k + 1 \in x
      OBVIOUS
    <2>1. CASE k \in 0..15
      BY <2>1, ShiftOnceMembers
    <2>2. CASE k \notin 0..15
      <3>1. ShiftOnce(x) \subseteq 0..15 /\ x \subseteq 0..15
        BY ShiftOnceMembers DEF Word
      <3> QED
        BY <2>2, <3>1
    <2> QED
      BY <2>1, <2>2
  <1>2. \A x \in Word : 15 \notin ShiftOnce(x) => 0 \notin x
    <2> SUFFICES ASSUME NEW x \in Word, 15 \notin ShiftOnce(x) PROVE 0 \notin x
      OBVIOUS
    <2>1. 16 \notin x
      BY DEF Word
    <2> QED
      BY <2>1, ShiftOnceMembers
  <1> DEFINE y1 == ShiftOnce(a)
             y2 == ShiftOnce(y1)
             y3 == ShiftOnce(y2)
             y4 == ShiftOnce(y3)
             y5 == ShiftOnce(y4)
             y6 == ShiftOnce(y5)
             y7 == ShiftOnce(y6)
  <1>3. /\ y1 \in Word /\ y2 \in Word /\ y3 \in Word /\ y4 \in Word
        /\ y5 \in Word /\ y6 \in Word /\ y7 \in Word /\ ShiftOnce(y7) \in Word
    BY ShiftOnceMembers
  <1>4. Eight(a) = ShiftOnce(y7)
    BY DEF Eight, FourShifts, TwoShifts
  <1>5. ASSUME a \subseteq 8..15 PROVE Eight(a) = ShiftRight(a, 8)
    <2> HIDE DEF y1, y2, y3, y4, y5, y6, y7
    <2>0. \A k \in 0..7 : k \notin a
      BY <1>5
    <2>1. \A k \in Nat : k \in y1 <=> k + 1 \in a
      <3>1. 0 \notin a
        BY <2>0
      <3>2. \A k \in Nat : k \in ShiftOnce(a) <=> k + 1 \in a
        BY <1>1, <1>3, <3>1
      <3> QED
        BY <3>2 DEF y1
    <2>2. \A k \in Nat : k \in y2 <=> k + 2 \in a
      <3>1. 0 \notin y1
        BY <2>0, <2>1
      <3>2. \A k \in Nat : k \in ShiftOnce(y1) <=> k + 1 \in y1
        BY <1>1, <1>3, <3>1
      <3> QED
        BY <3>2, <2>1 DEF y2
    <2>3. \A k \in Nat : k \in y3 <=> k + 3 \in a
      <3>1. 0 \notin y2
        BY <2>0, <2>2
      <3>2. \A k \in Nat : k \in ShiftOnce(y2) <=> k + 1 \in y2
        BY <1>1, <1>3, <3>1
      <3> QED
        BY <3>2, <2>2 DEF y3
    <2>4. \A k \in Nat : k \in y4 <=> k + 4 \in a
      <3>1. 0 \notin y3
        BY <2>0, <2>3
      <3>2. \A k \in Nat : k \in ShiftOnce(y3) <=> k + 1 \in y3
        BY <1>1, <1>3, <3>1
      <3> QED
        BY <3>2, <2>3 DEF y4
    <2>5. \A k \in Nat : k \in y5 <=> k + 5 \in a
      <3>1. 0 \notin y4
        BY <2>0, <2>4
      <3>2. \A k \in Nat : k \in ShiftOnce(y4) <=> k + 1 \in y4
        BY <1>1, <1>3, <3>1
      <3> QED
        BY <3>2, <2>4 DEF y5
    <2>6. \A k \in Nat : k \in y6 <=> k + 6 \in a
      <3>1. 0 \notin y5
        BY <2>0, <2>5
      <3>2. \A k \in Nat : k \in ShiftOnce(y5) <=> k + 1 \in y5
        BY <1>1, <1>3, <3>1
      <3> QED
        BY <3>2, <2>5 DEF y6
    <2>7. \A k \in Nat : k \in y7 <=> k + 7 \in a
      <3>1. 0 \notin y6
        BY <2>0, <2>6
      <3>2. \A k \in Nat : k \in ShiftOnce(y6) <=> k + 1 \in y6
        BY <1>1, <1>3, <3>1
      <3> QED
        BY <3>2, <2>6 DEF y7
    <2>8. \A k \in Nat : k \in ShiftOnce(y7) <=> k + 8 \in a
      <3>1. 0 \notin y7
        BY <2>0, <2>7
      <3>2. \A k \in Nat : k \in ShiftOnce(y7) <=> k + 1 \in y7
        BY <1>1, <1>3, <3>1
      <3> QED
        BY <3>2, <2>7
    <2>9. \A k \in 0..15 : k \in Eight(a) <=> k \in ShiftRight(a, 8)
      <3>1. \A k \in 0..15 : k \in ShiftRight(a, 8) <=> k + 8 \in a
        BY ShiftRightMembers
      <3> QED
        BY <1>4, <2>8, <3>1
    <2>10. Eight(a) \in Word /\ ShiftRight(a, 8) \in Word
      BY <1>3, <1>4, ShiftRightMembers
    <2> QED
      BY <2>9, <2>10, SameWord
  <1>6. ASSUME Eight(a) \subseteq 0..7 PROVE a \subseteq 8..15
    <2> HIDE DEF y1, y2, y3, y4, y5, y6, y7
    <2>1. \A k \in 8..15 : k \notin ShiftOnce(y7)
      BY <1>4, <1>6
    <2>2. \A k \in {0} \cup 9..15 : k \notin y7
      <3>1. 0 \notin y7
        BY <1>2, <1>3, <2>1
      <3>2. \A k \in Nat : k + 1 \in y7 => k \in ShiftOnce(y7)
        BY <1>1, <1>3, <3>1
      <3>3. \A k \in 1..15 : k \in y7 => k - 1 \in ShiftOnce(y7)
        BY <3>2
      <3> QED
        BY <2>1, <3>1, <3>3
    <2>3. \A k \in 0..1 \cup 10..15 : k \notin y6
      <3>1. 0 \notin y6
        BY <1>2, <1>3, <2>2 DEF y7
      <3>2. \A k \in Nat : k + 1 \in y6 => k \in ShiftOnce(y6)
        BY <1>1, <1>3, <3>1
      <3>3. \A k \in 1..15 : k \in y6 => k - 1 \in ShiftOnce(y6)
        BY <3>2
      <3> QED
        BY <2>2, <3>1, <3>3 DEF y7
    <2>4. \A k \in 0..2 \cup 11..15 : k \notin y5
      <3>1. 0 \notin y5
        BY <1>2, <1>3, <2>3 DEF y6
      <3>2. \A k \in Nat : k + 1 \in y5 => k \in ShiftOnce(y5)
        BY <1>1, <1>3, <3>1
      <3>3. \A k \in 1..15 : k \in y5 => k - 1 \in ShiftOnce(y5)
        BY <3>2
      <3> QED
        BY <2>3, <3>1, <3>3 DEF y6
    <2>5. \A k \in 0..3 \cup 12..15 : k \notin y4
      <3>1. 0 \notin y4
        BY <1>2, <1>3, <2>4 DEF y5
      <3>2. \A k \in Nat : k + 1 \in y4 => k \in ShiftOnce(y4)
        BY <1>1, <1>3, <3>1
      <3>3. \A k \in 1..15 : k \in y4 => k - 1 \in ShiftOnce(y4)
        BY <3>2
      <3> QED
        BY <2>4, <3>1, <3>3 DEF y5
    <2>6. \A k \in 0..4 \cup 13..15 : k \notin y3
      <3>1. 0 \notin y3
        BY <1>2, <1>3, <2>5 DEF y4
      <3>2. \A k \in Nat : k + 1 \in y3 => k \in ShiftOnce(y3)
        BY <1>1, <1>3, <3>1
      <3>3. \A k \in 1..15 : k \in y3 => k - 1 \in ShiftOnce(y3)
        BY <3>2
      <3> QED
        BY <2>5, <3>1, <3>3 DEF y4
    <2>7. \A k \in 0..5 \cup 14..15 : k \notin y2
      <3>1. 0 \notin y2
        BY <1>2, <1>3, <2>6 DEF y3
      <3>2. \A k \in Nat : k + 1 \in y2 => k \in ShiftOnce(y2)
        BY <1>1, <1>3, <3>1
      <3>3. \A k \in 1..15 : k \in y2 => k - 1 \in ShiftOnce(y2)
        BY <3>2
      <3> QED
        BY <2>6, <3>1, <3>3 DEF y3
    <2>8. \A k \in 0..6 \cup 15..15 : k \notin y1
      <3>1. 0 \notin y1
        BY <1>2, <1>3, <2>7 DEF y2
      <3>2. \A k \in Nat : k + 1 \in y1 => k \in ShiftOnce(y1)
        BY <1>1, <1>3, <3>1
      <3>3. \A k \in 1..15 : k \in y1 => k - 1 \in ShiftOnce(y1)
        BY <3>2
      <3> QED
        BY <2>7, <3>1, <3>3 DEF y2
    <2>9. \A k \in 0..7 : k \notin a
      <3>1. 0 \notin a
        BY <1>2, <1>3, <2>8 DEF y1
      <3>2. \A k \in Nat : k + 1 \in a => k \in ShiftOnce(a)
        BY <1>1, <1>3, <3>1
      <3>3. \A k \in 1..15 : k \in a => k - 1 \in ShiftOnce(a)
        BY <3>2
      <3> QED
        BY <2>8, <3>1, <3>3 DEF y1
    <2> QED
      BY <2>9 DEF Word
  <1> QED
    BY <1>5, <1>6

\* The table of EightShifts is what eight rounds of the loop of _fcs compute.
LEMMA TableIsLoop ==
  ASSUME NEW fcs \in Word, NEW b \in Byte
  PROVE  AddByte(fcs, b) = Eight(Xor(fcs, Bits[b])) /\ AddByte(fcs, b) \in Word
  <1> DEFINE f == Xor(fcs, Bits[b])
             high == f \cap 8..15
  <1>1. f \in Word
    <2>1. Bits[b] \in Word
      BY BitsOfByte DEF Word
    <2> QED
      BY <2>1, XorMembers
  <1> HIDE DEF f
  <1>2. high \in Word /\ Low(f) \in Word /\ f = Xor(high, Low(f)) /\ Low(f) \in SUBSET (0..7)
    <2>1. high \in Word /\ Low(f) \in Word /\ Low(f) \in SUBSET (0..7)
      BY <1>1 DEF Word, Low
    <2>2. \A k \in 0..15 : k \in f <=> ~(k \in high <=> k \in Low(f))
      BY DEF Low
    <2>3. \A k \in 0..15 : k \in f <=> k \in Xor(high, Low(f))
      BY <2>1, <2>2, XorMembers
    <2> QED
      BY <1>1, <2>1, <2>3, XorMembers, SameWord
  <1>3. EightShifts[Low(f)] = Eight(Low(f))
    BY <1>2 DEF EightShifts, Eight
  <1>4. Eight(high) = ShiftRight(high, 8)
    BY <1>2, HighShifts
  <1>5. ShiftRight(high, 8) = ShiftRight(f, 8)
    <2>1. \A k \in 0..15 : k + 8 \in high <=> k + 8 \in f
      BY <1>1 DEF Word
    <2>2. \A k \in 0..15 : k \in ShiftRight(high, 8) <=> k \in ShiftRight(f, 8)
      BY <1>1, <1>2, <2>1, ShiftRightMembers
    <2>3. ShiftRight(high, 8) \in Word /\ ShiftRight(f, 8) \in Word
      BY <1>1, <1>2, ShiftRightMembers
    <2> HIDE DEF high
    <2> QED
      BY <2>2, <2>3, SameWord
  <1> HIDE DEF high
  <1>6. Eight(f) = Xor(Eight(high), Eight(Low(f)))
    BY <1>2, EightIsLinear
  <1>7. AddByte(fcs, b) = Xor(ShiftRight(f, 8), EightShifts[Low(f)])
    BY DEF AddByte, f
  <1>8. AddByte(fcs, b) = Eight(f)
    BY <1>3, <1>4, <1>5, <1>6, <1>7
  <1> QED
    BY <1>1, <1>8, EightIsLinear DEF f

\* What the first byte of a check sequence leaves, and what the second makes of
\* it, whatever the check sequence is.
LEMMA EightOfOnes == Eight({0, 1, 2, 3, 4, 5, 6, 7}) = {3, 4, 5, 6, 8, 9, 10, 11}
  <1>1. ShiftOnce({0, 1, 2, 3, 4, 5, 6, 7}) = {0, 1, 2, 4, 5, 6, 10, 15}
    BY DEF ShiftOnce, ShiftRight, Xor
  <1>2. ShiftOnce({0, 1, 2, 4, 5, 6, 10, 15}) = {0, 1, 4, 5, 9, 10, 14, 15}
    BY DEF ShiftOnce, ShiftRight, Xor
  <1>3. ShiftOnce({0, 1, 4, 5, 9, 10, 14, 15}) = {0, 4, 8, 9, 10, 13, 14, 15}
    BY DEF ShiftOnce, ShiftRight, Xor
  <1>4. ShiftOnce({0, 4, 8, 9, 10, 13, 14, 15}) = {7, 8, 9, 10, 12, 13, 14, 15}
    BY DEF ShiftOnce, ShiftRight, Xor
  <1>5. ShiftOnce({7, 8, 9, 10, 12, 13, 14, 15}) = {6, 7, 8, 9, 11, 12, 13, 14}
    BY DEF ShiftOnce, ShiftRight, Xor
  <1>6. ShiftOnce({6, 7, 8, 9, 11, 12, 13, 14}) = {5, 6, 7, 8, 10, 11, 12, 13}
    BY DEF ShiftOnce, ShiftRight, Xor
  <1>7. ShiftOnce({5, 6, 7, 8, 10, 11, 12, 13}) = {4, 5, 6, 7, 9, 10, 11, 12}
    BY DEF ShiftOnce, ShiftRight, Xor
  <1>8. ShiftOnce({4, 5, 6, 7, 9, 10, 11, 12}) = {3, 4, 5, 6, 8, 9, 10, 11}
    BY DEF ShiftOnce, ShiftRight, Xor
  <1> QED
    BY <1>1, <1>2, <1>3, <1>4, <1>5, <1>6, <1>7, <1>8 DEF Eight, FourShifts, TwoShifts

LEMMA EightOfRest == Eight({0, 1, 2, 7, 8, 9, 10, 11}) = GoodFcs
  <1>1. ShiftOnce({0, 1, 2, 7, 8, 9, 10, 11}) = {0, 1, 3, 6, 7, 8, 9, 15}
    BY DEF ShiftOnce, ShiftRight, Xor
  <1>2. ShiftOnce({0, 1, 3, 6, 7, 8, 9, 15}) = {0, 2, 3, 5, 6, 7, 8, 10, 14, 15}
    BY DEF ShiftOnce, ShiftRight, Xor
  <1>3. ShiftOnce({0, 2, 3, 5, 6, 7, 8, 10, 14, 15}) = {1, 2, 3, 4, 5, 6, 7, 9, 10, 13, 14, 15}
    BY DEF ShiftOnce, ShiftRight, Xor
  <1>4. ShiftOnce({1, 2, 3, 4, 5, 6, 7, 9, 10, 13, 14, 15}) = {0, 1, 2, 3, 4, 5, 6, 8, 9, 12, 13, 14}
    BY DEF ShiftOnce, ShiftRight, Xor
  <1>5. ShiftOnce({0, 1, 2, 3, 4, 5, 6, 8, 9, 12, 13, 14}) = {0, 1, 2, 4, 5, 7, 8, 10, 11, 12, 13, 15}
    BY DEF ShiftOnce, ShiftRight, Xor
  <1>6. ShiftOnce({0, 1, 2, 4, 5, 7, 8, 10, 11, 12, 13, 15}) = {0, 1, 4, 6, 7, 9, 11, 12, 14, 15}
    BY DEF ShiftOnce, ShiftRight, Xor
  <1>7. ShiftOnce({0, 1, 4, 6, 7, 9, 11, 12, 14, 15}) = {0, 5, 6, 8, 11, 13, 14, 15}
    BY DEF ShiftOnce, ShiftRight, Xor
  <1>8. ShiftOnce({0, 5, 6, 8, 11, 13, 14, 15}) = {3, 4, 5, 7, 12, 13, 14, 15}
    BY DEF ShiftOnce, ShiftRight, Xor
  <1> QED
    BY <1>1, <1>2, <1>3, <1>4, <1>5, <1>6, <1>7, <1>8 DEF Eight, FourShifts, TwoShifts, GoodFcs

\* The check sequence takes every word to the same one.
LEMMA Residue ==
  ASSUME NEW fcs \in Word
  PROVE  LET rest == (0..15) \ fcs
             low == ByteOf(Low(rest))
             high == ByteOf(ShiftRight(rest, 8))
         IN low \in Byte /\ high \in Byte /\ AddByte(AddByte(fcs, low), high) = GoodFcs
  <1> DEFINE rest == (0..15) \ fcs
             low == ByteOf(Low(rest))
             high == ByteOf(ShiftRight(rest, 8))
             upper == fcs \cap 8..15
             ones == {0, 1, 2, 3, 4, 5, 6, 7}
             left == {3, 4, 5, 6, 8, 9, 10, 11}
  <1>1. low \in Byte /\ Bits[low] = Low(rest)
    BY ByteOfBits DEF Low
  <1>2. ShiftRight(rest, 8) \in SUBSET (0..7)
    BY DEF ShiftRight
  <1>3. high \in Byte /\ Bits[high] = ShiftRight(rest, 8)
    BY <1>2, ByteOfBits
  <1>4. upper \in Word /\ ones \in Word /\ left \in Word /\ upper \subseteq 8..15
    BY DEF Word
  <1>5. Bits[low] \in Word /\ Bits[high] \in Word
    BY <1>1, <1>2, <1>3 DEF Word, Low
  <1> HIDE DEF low, high
  <1>6. Xor(fcs, Bits[low]) = Xor(upper, ones)
    <2>1. \A k \in 0..15 : ~(k \in fcs <=> k \in Bits[low]) <=> ~(k \in upper <=> k \in ones)
      BY <1>1 DEF Low
    <2>2. \A k \in 0..15 : k \in Xor(fcs, Bits[low]) <=> k \in Xor(upper, ones)
      BY <1>4, <1>5, <2>1, XorMembers
    <2> QED
      BY <1>4, <1>5, <2>2, XorMembers, SameWord
  <1>7. AddByte(fcs, low) = Xor(ShiftRight(upper, 8), left)
    <2>1. AddByte(fcs, low) = Eight(Xor(upper, ones))
      BY <1>1, <1>6, TableIsLoop
    <2>2. Eight(Xor(upper, ones)) = Xor(Eight(upper), Eight(ones))
      BY <1>4, EightIsLinear
    <2>3. Eight(upper) = ShiftRight(upper, 8)
      BY <1>4, HighShifts
    <2> QED
      BY <2>1, <2>2, <2>3, EightOfOnes
  <1> DEFINE f == Xor(ShiftRight(upper, 8), left)
             toGo == {0, 1, 2, 7, 8, 9, 10, 11}
  <1>8. f \in Word /\ ShiftRight(upper, 8) \in Word /\ toGo \in Word
    <2>1. ShiftRight(upper, 8) \in Word
      BY <1>4, ShiftRightMembers
    <2>2. toGo \in Word
      BY DEF Word
    <2> QED
      BY <1>4, <2>1, <2>2, XorMembers
  <1>9. Xor(f, Bits[high]) = toGo
    <2>1. \A k \in 0..15 : k \in ShiftRight(upper, 8) <=> k + 8 \in fcs
      <3>1. \A k \in 0..15 : k \in ShiftRight(upper, 8) <=> k + 8 \in upper
        BY <1>4, ShiftRightMembers
      <3>2. \A k \in 0..15 : k + 8 \in upper <=> k + 8 \in fcs
        BY DEF Word
      <3> QED
        BY <3>1, <3>2
    <2>2. \A k \in 0..15 : k \in Bits[high] <=> k \in 0..7 /\ k + 8 \notin fcs
      <3>1. rest \in Word
        BY DEF Word
      <3>2. \A k \in 0..15 : k \in ShiftRight(rest, 8) <=> k + 8 \in rest
        BY <3>1, ShiftRightMembers
      <3>3. \A k \in 0..15 : k + 8 \in rest <=> k \in 0..7 /\ k + 8 \notin fcs
        OBVIOUS
      <3> QED
        BY <1>3, <3>2, <3>3
    <2>3. \A k \in 8..15 : k + 8 \notin fcs
      BY DEF Word
    <2>4. \A k \in 0..15 : k \in f <=> ~(k + 8 \in fcs <=> k \in left)
      BY <1>4, <1>8, <2>1, XorMembers
    <2> HIDE DEF f
    <2>5. \A k \in 0..15 : ~(k \in f <=> k \in Bits[high]) <=> k \in toGo
      <3>1. \A k \in 0..7 : ~(k \in f <=> k \in Bits[high]) <=> k \notin left
        BY <2>2, <2>4
      <3>2. \A k \in 8..15 : ~(k \in f <=> k \in Bits[high]) <=> k \in left
        BY <2>2, <2>3, <2>4
      <3>3. \A k \in 0..7 : k \notin left <=> k \in toGo
        OBVIOUS
      <3>4. \A k \in 8..15 : k \in left <=> k \in toGo
        OBVIOUS
      <3>5. \A k \in 0..15 : k \in 0..7 \/ k \in 8..15
        OBVIOUS
      <3> HIDE DEF left, toGo
      <3> QED
        BY <3>1, <3>2, <3>3, <3>4, <3>5
    <2>6. \A k \in 0..15 : k \in Xor(f, Bits[high]) <=> k \in toGo
      BY <1>5, <1>8, <2>5, XorMembers
    <2> QED
      BY <1>5, <1>8, <2>6, XorMembers, SameWord
  <1>10. AddByte(f, high) = GoodFcs
    BY <1>3, <1>8, <1>9, TableIsLoop, EightOfRest
  <1> QED
    BY <1>1, <1>3, <1>7, <1>10 DEF low, high

\* Fcs is the last value of the function that its definition describes.
LEMMA FcsRuns ==
  ASSUME NEW data \in Seq(Byte)
  PROVE  \E f \in [0..Len(data) -> Word] :
           /\ f[0] = 0..15
           /\ \A n \in 1..Len(data) : f[n] = AddByte(f[n - 1], data[n])
           /\ Fcs(data) = f[Len(data)]
  <1> DEFINE step == [x \in Word \X Byte |-> AddByte(x[1], x[2])]
             Run(f) == f = [n \in 0..Len(data) |-> IF n = 0 THEN 0..15 ELSE AddByte(f[n - 1], data[n])]
  <1>1. step \in [Word \X Byte -> Word]
    BY TableIsLoop
  <1>2. 0..15 \in Word
    BY DEF Word
  <1> HIDE DEF Word, Byte
  <1>3. PICK g \in [0..Len(data) -> Word] :
          g[0] = 0..15 /\ \A n \in 1..Len(data) : g[n] = step[<<g[n - 1], data[n]>>]
    <2> HIDE DEF step
    <2>1. \E g : IsRun(g, Word, step, 0..15, data)
      BY <1>1, <1>2, Iteration
    <2> QED
      BY <2>1 DEF IsRun
  <1>4. \A n \in 1..Len(data) : n - 1 \in 0..Len(data) /\ data[n] \in Byte
    BY ElementOfSeq
  <1>5. \A n \in 1..Len(data) : g[n] = AddByte(g[n - 1], data[n])
    BY <1>3, <1>4
  <1>6. Run(g)
    <2>1. \A n \in 0..Len(data) : n # 0 => n \in 1..Len(data)
      OBVIOUS
    <2> QED
      BY <1>3, <1>5, <2>1
  <1> DEFINE h == CHOOSE f : Run(f)
  <1>7. Run(h)
    BY <1>6, Zenon
  <1>8. Fcs(data) = h[Len(data)]
    BY Zenon DEF Fcs
  <1> HIDE DEF h
  <1>9. \A n \in 0..Len(data) : h[n] = IF n = 0 THEN 0..15 ELSE AddByte(h[n - 1], data[n])
    BY <1>7
  <1>10. h[0] = 0..15 /\ \A n \in 1..Len(data) : h[n] = AddByte(h[n - 1], data[n])
    BY <1>9
  <1>11. h \in [0..Len(data) -> Word]
    <2> DEFINE S == {n \in 0..Len(data) : h[n] \in Word}
    <2>0. Len(data) \in Nat
      BY LenProperties
    <2>1. 0 \in S
      <3>1. 0 \in 0..Len(data) /\ h[0] \in Word
        BY <1>2, <1>10, <2>0
      <3> QED
        BY <3>1
    <2>2. \A n \in 0..(Len(data) - 1) : n \in S => n + 1 \in S
      <3> SUFFICES ASSUME NEW n \in 0..(Len(data) - 1), h[n] \in Word PROVE h[n + 1] \in Word
        OBVIOUS
      <3>1. n + 1 \in 1..Len(data) /\ (n + 1) - 1 = n
        OBVIOUS
      <3>2. h[n + 1] = AddByte(h[n], data[n + 1]) /\ data[n + 1] \in Byte
        BY <1>4, <1>10, <3>1
      <3> QED
        BY <3>2, TableIsLoop
    <2> HIDE DEF S
    <2>3. 0..Len(data) \subseteq S
      BY <2>0, <2>1, <2>2, Induction, Zenon
    <2>4. \A n \in 0..Len(data) : h[n] \in Word
      BY <2>3 DEF S
    <2> QED
      BY <1>7, <2>4
  <1> QED
    BY <1>8, <1>10, <1>11

\* There is only one such function.
LEMMA FcsIs ==
  ASSUME NEW data \in Seq(Byte), NEW f,
         f[0] = 0..15, \A n \in 1..Len(data) : f[n] = AddByte(f[n - 1], data[n])
  PROVE  Fcs(data) = f[Len(data)]
  <1>1. PICK g \in [0..Len(data) -> Word] :
          /\ g[0] = 0..15
          /\ \A n \in 1..Len(data) : g[n] = AddByte(g[n - 1], data[n])
          /\ Fcs(data) = g[Len(data)]
    BY FcsRuns
  <1> DEFINE S == {n \in 0..Len(data) : f[n] = g[n]}
  <1>0. Len(data) \in Nat
    BY LenProperties
  <1>2. 0 \in S
    <2>1. 0 \in 0..Len(data) /\ f[0] = g[0]
      BY <1>0, <1>1
    <2> QED
      BY <2>1
  <1>3. \A n \in 0..(Len(data) - 1) : n \in S => n + 1 \in S
    <2> SUFFICES ASSUME NEW n \in 0..(Len(data) - 1), f[n] = g[n] PROVE f[n + 1] = g[n + 1]
      OBVIOUS
    <2>1. n + 1 \in 1..Len(data) /\ (n + 1) - 1 = n
      OBVIOUS
    <2> QED
      BY <1>1, <2>1
  <1> HIDE DEF S
  <1>4. 0..Len(data) \subseteq S
    BY <1>0, <1>2, <1>3, Induction, Zenon
  <1> QED
    BY <1>0, <1>1, <1>4 DEF S

LEMMA FcsOfAppend ==
  ASSUME NEW data \in Seq(Byte), NEW b \in Byte
  PROVE  Fcs(data) \in Word /\ Fcs(Append(data, b)) = AddByte(Fcs(data), b)
  <1> DEFINE longer == Append(data, b)
  <1>1. /\ longer \in Seq(Byte) /\ Len(longer) = Len(data) + 1 /\ longer[Len(longer)] = b
        /\ \A n \in 1..Len(data) : longer[n] = data[n]
    BY AppendProperties
  <1> HIDE DEF longer
  <1>2. PICK f \in [0..Len(longer) -> Word] :
          /\ f[0] = 0..15
          /\ \A n \in 1..Len(longer) : f[n] = AddByte(f[n - 1], longer[n])
          /\ Fcs(longer) = f[Len(longer)]
    BY <1>1, FcsRuns
  <1>3. \A n \in 1..Len(data) : f[n] = AddByte(f[n - 1], data[n])
    BY <1>1, <1>2
  <1>4. Fcs(data) = f[Len(data)]
    BY <1>2, <1>3, FcsIs
  <1>5. Len(data) \in 0..Len(longer) /\ Len(longer) \in 1..Len(longer) /\ Len(longer) - 1 = Len(data)
    BY <1>1
  <1> QED
    BY <1>1, <1>2, <1>4, <1>5 DEF longer

\* What hdlc_encode puts into a frame passes the check of the decoder, which
\* takes the check sequence off again.
LEMMA CheckedIsWhole ==
  ASSUME NEW payload \in Seq(Byte), payload # <<>>
  PROVE  LET framed == Checked(payload)
         IN /\ framed \in Seq(Byte) /\ Len(framed) = Len(payload) + 2
            /\ IsWhole(framed)
            /\ SubSeq(framed, 1, Len(framed) - 2) = payload
  <1> DEFINE rest == (0..15) \ Fcs(payload)
             low == ByteOf(Low(rest))
             high == ByteOf(ShiftRight(rest, 8))
             framed == payload \o <<low, high>>
             half == Append(payload, low)
  <1>1. Fcs(payload) \in Word
    <2>1. 0 \in Byte
      BY DEF Byte
    <2> QED
      BY <2>1, FcsOfAppend
  <1>2. low \in Byte /\ high \in Byte /\ AddByte(AddByte(Fcs(payload), low), high) = GoodFcs
    BY <1>1, Residue
  <1>3. Checked(payload) = framed
    BY DEF Checked
  <1> HIDE DEF low, high
  <1>4. half \in Seq(Byte) /\ framed = Append(half, high)
    BY <1>2
  <1>5. Fcs(framed) = GoodFcs
    BY <1>2, <1>4, FcsOfAppend
  <1>6. framed \in Seq(Byte) /\ Len(framed) = Len(payload) + 2
    BY <1>2
  <1>7. Len(payload) \in Nat /\ Len(payload) # 0
    BY EmptySeq, LenProperties
  <1>8. SubSeq(framed, 1, Len(framed) - 2) = payload
    BY <1>2, <1>6, <1>7
  <1> HIDE DEF framed
  <1>9. IsWhole(framed)
    BY <1>5, <1>6, <1>7 DEF IsWhole
  <1> QED
    BY <1>3, <1>6, <1>8, <1>9

\* Different words stay different under the same byte, and different bytes make
\* different words of one.
LEMMA AddByteIsInjective ==
  ASSUME NEW f \in Word, NEW g \in Word, NEW a \in Byte, NEW b \in Byte
  PROVE  /\ AddByte(f, a) = AddByte(g, a) => f = g
         /\ AddByte(f, a) = AddByte(f, b) => a = b
  <1>1. Bits[a] \in Word /\ Bits[b] \in Word
    BY BitsOfByte DEF Word
  <1>2. ASSUME AddByte(f, a) = AddByte(g, a) PROVE f = g
    <2>1. Xor(f, Bits[a]) = Xor(g, Bits[a])
      BY <1>1, <1>2, TableIsLoop, XorMembers, EightIsInjective
    <2>2. \A k \in 0..15 : k \in f <=> k \in g
      BY <1>1, <2>1, XorMembers
    <2> QED
      BY <2>2, SameWord
  <1>3. ASSUME AddByte(f, a) = AddByte(f, b) PROVE a = b
    <2>1. Xor(f, Bits[a]) = Xor(f, Bits[b])
      BY <1>1, <1>3, TableIsLoop, XorMembers, EightIsInjective
    <2>2. \A k \in 0..15 : k \in Bits[a] <=> k \in Bits[b]
      BY <1>1, <2>1, XorMembers
    <2>3. Bits[a] = Bits[b]
      BY <1>1, <2>2, SameWord
    <2> QED
      BY <2>3, BitsDetermine
  <1> QED
    BY <1>2, <1>3

\* Nor does a second byte make good what a first one changed.
LEMMA TwoBytesAreInjective ==
  ASSUME NEW f \in Word, NEW a \in Byte, NEW b \in Byte, NEW c \in Byte, NEW d \in Byte,
         AddByte(AddByte(f, a), b) = AddByte(AddByte(f, c), d)
  PROVE  a = c /\ b = d
  <1> DEFINE fa == AddByte(f, a)
             fc == AddByte(f, c)
             dist == Xor(Bits[a], Bits[c])
  <1>1. fa \in Word /\ fc \in Word /\ Bits[a] \in Word /\ Bits[b] \in Word
        /\ Bits[c] \in Word /\ Bits[d] \in Word
    BY TableIsLoop, BitsOfByte DEF Word
  <1>2. Xor(fa, Bits[b]) = Xor(fc, Bits[d])
    <2>1. Eight(Xor(fa, Bits[b])) = Eight(Xor(fc, Bits[d]))
      BY <1>1, TableIsLoop
    <2>2. Xor(fa, Bits[b]) \in Word /\ Xor(fc, Bits[d]) \in Word
      BY <1>1, XorMembers
    <2> QED
      BY <2>1, <2>2, EightIsInjective
  <1>3. Xor(fa, fc) = Eight(dist)
    <2>1. fa = Eight(Xor(f, Bits[a])) /\ fc = Eight(Xor(f, Bits[c]))
      BY TableIsLoop
    <2>2. Xor(f, Bits[a]) \in Word /\ Xor(f, Bits[c]) \in Word /\ dist \in Word
      BY <1>1, XorMembers
    <2>3. Xor(Xor(f, Bits[a]), Xor(f, Bits[c])) = dist
      <3>1. \A k \in 0..15 : k \in Xor(Xor(f, Bits[a]), Xor(f, Bits[c])) <=> k \in dist
        BY <1>1, <2>2, XorMembers
      <3>2. Xor(Xor(f, Bits[a]), Xor(f, Bits[c])) \in Word
        BY <2>2, XorMembers
      <3> HIDE DEF dist
      <3> QED
        BY <2>2, <3>1, <3>2, SameWord
    <2> HIDE DEF fa, fc, dist
    <2> QED
      BY <2>1, <2>2, <2>3, EightIsLinear
  <1> HIDE DEF fa, fc
  <1>4. Eight(dist) \subseteq 0..7
    <2>1. \A k \in 8..15 : k \notin Bits[b] /\ k \notin Bits[d]
      BY BitsOfByte
    <2>2. \A k \in 8..15 : k \in fa <=> k \in fc
      BY <1>1, <1>2, <2>1, XorMembers
    <2>3. Xor(fa, fc) \in Word /\ \A k \in 8..15 : k \notin Xor(fa, fc)
      BY <1>1, <2>2, XorMembers
    <2> QED
      BY <1>3, <2>3 DEF Word
  <1>5. dist = {}
    <2>1. dist \subseteq 0..7
      BY BitsOfByte DEF Xor
    <2>2. dist \in Word
      BY <1>1, XorMembers
    <2>3. dist \subseteq 8..15
      BY <1>4, <2>2, HighShifts
    <2> QED
      BY <2>1, <2>3
  <1>6. a = c
    <2>1. Bits[a] = Bits[c]
      BY <1>5 DEF Xor
    <2> QED
      BY <2>1, BitsDetermine
  <1>7. b = d
    BY <1>1, <1>6, AddByteIsInjective DEF fa, fc
  <1> QED
    BY <1>6, <1>7

\* spinel.py:105, the check of a frame that was received: whatever happens to two
\* neighbouring bytes of a frame, also to one of them alone, never gives
\* another frame that passes the check.
THEOREM DamageIsSeen ==
  ASSUME NEW frame \in Seq(Byte), NEW harmed \in Seq(Byte), Len(harmed) = Len(frame),
         NEW i \in 1..(Len(frame) - 1),
         \A n \in 1..Len(frame) : n \notin {i, i + 1} => harmed[n] = frame[n],
         IsWhole(frame), IsWhole(harmed)
  PROVE  harmed = frame
  <1> DEFINE N == Len(frame)
  <1>1. PICK f \in [0..N -> Word] :
          /\ f[0] = 0..15
          /\ \A n \in 1..N : f[n] = AddByte(f[n - 1], frame[n])
          /\ Fcs(frame) = f[N]
    BY FcsRuns
  <1>2. PICK g \in [0..N -> Word] :
          /\ g[0] = 0..15
          /\ \A n \in 1..N : g[n] = AddByte(g[n - 1], harmed[n])
          /\ Fcs(harmed) = g[N]
    BY FcsRuns
  <1>3. /\ N \in Nat /\ i \in Nat
        /\ \A n \in 1..N : frame[n] \in Byte /\ harmed[n] \in Byte
    BY LenProperties, ElementOfSeq
  <1>4. f[N] = g[N]
    BY <1>1, <1>2 DEF IsWhole
  <1> HIDE DEF N
  \* Up to the damage the check sequences agree.
  <1>5. f[i - 1] = g[i - 1]
    <2> DEFINE S == {n \in 0..(i - 1) : f[n] = g[n]}
    <2>1. 0 \in S
      <3>1. 0 \in 0..(i - 1) /\ f[0] = g[0]
        BY <1>1, <1>2, <1>3
      <3> QED
        BY <3>1
    <2>2. \A n \in 0..((i - 1) - 1) : n \in S => n + 1 \in S
      <3> SUFFICES ASSUME NEW n \in 0..((i - 1) - 1), f[n] = g[n]
                   PROVE  n + 1 \in 0..(i - 1) /\ f[n + 1] = g[n + 1]
        OBVIOUS
      <3>1. n + 1 \in 1..N /\ (n + 1) - 1 = n /\ n + 1 \notin {i, i + 1} /\ n + 1 \in 0..(i - 1)
        BY <1>3 DEF N
      <3>2. harmed[n + 1] = frame[n + 1]
        BY <3>1 DEF N
      <3> QED
        BY <1>1, <1>2, <3>1, <3>2
    <2>3. i - 1 \in Nat
      BY <1>3
    <2> HIDE DEF S
    <2>4. 0..(i - 1) \subseteq S
      BY <2>1, <2>2, <2>3, Induction, Zenon
    <2>5. i - 1 \in S
      BY <2>3, <2>4
    <2> QED
      BY <2>5 DEF S
  \* Behind it they agree only if they did before.
  <1>6. f[i + 1] = g[i + 1]
    <2> DEFINE M == N - (i + 1)
               S == {n \in 0..M : f[N - n] = g[N - n]}
    <2>0. M \in Nat
      BY <1>3 DEF N
    <2>1. 0 \in S
      <3>1. 0 \in 0..M /\ N - 0 = N
        BY <1>3, <2>0
      <3> QED
        BY <1>4, <3>1
    <2>2. \A n \in 0..(M - 1) : n \in S => n + 1 \in S
      <3> SUFFICES ASSUME NEW n \in 0..(M - 1), f[N - n] = g[N - n]
                   PROVE  n + 1 \in 0..M /\ f[N - (n + 1)] = g[N - (n + 1)]
        OBVIOUS
      <3>1. /\ N - n \in 1..N /\ N - n \notin {i, i + 1} /\ n + 1 \in 0..M
            /\ (N - n) - 1 = N - (n + 1) /\ N - (n + 1) \in 0..N
        BY <1>3, <2>0
      <3>2. harmed[N - n] = frame[N - n]
        BY <3>1 DEF N
      <3>3. AddByte(f[N - (n + 1)], frame[N - n]) = AddByte(g[N - (n + 1)], frame[N - n])
        BY <1>1, <1>2, <3>1, <3>2
      <3>4. f[N - (n + 1)] \in Word /\ g[N - (n + 1)] \in Word /\ frame[N - n] \in Byte
        BY <1>1, <1>2, <1>3, <3>1
      <3> QED
        BY <3>1, <3>3, <3>4, AddByteIsInjective
    <2> HIDE DEF S
    <2>3. 0..M \subseteq S
      BY <2>0, <2>1, <2>2, Induction, Zenon
    <2>4. M \in S
      BY <2>0, <2>3
    <2>5. f[N - M] = g[N - M]
      BY <2>4 DEF S
    <2> QED
      BY <1>3, <2>5
  <1>7. frame[i] = harmed[i] /\ frame[i + 1] = harmed[i + 1]
    <2>1. i \in 1..N /\ i + 1 \in 1..N /\ (i + 1) - 1 = i /\ i - 1 \in 0..N
      BY <1>3 DEF N
    <2>2. /\ f[i + 1] = AddByte(AddByte(f[i - 1], frame[i]), frame[i + 1])
          /\ g[i + 1] = AddByte(AddByte(g[i - 1], harmed[i]), harmed[i + 1])
      BY <1>1, <1>2, <2>1
    <2>3. f[i - 1] \in Word
      BY <1>1, <2>1
    <2>4. /\ frame[i] \in Byte /\ frame[i + 1] \in Byte
          /\ harmed[i] \in Byte /\ harmed[i + 1] \in Byte
      BY <1>3, <2>1
    <2>5. AddByte(AddByte(f[i - 1], frame[i]), frame[i + 1])
            = AddByte(AddByte(f[i - 1], harmed[i]), harmed[i + 1])
      BY <1>5, <1>6, <2>2
    <2> QED
      BY <2>3, <2>4, <2>5, TwoBytesAreInjective
  <1>8. \A n \in 1..N : harmed[n] = frame[n]
    BY <1>7 DEF N
  <1> QED
    BY <1>8, SeqEqual DEF N

-----------------------------------------------------------------------------
(***************************************************************************)
(* The decoder.  Feeds(d, s, e): fed with the stream s, d becomes e.       *)
(***************************************************************************)
Decoders ==
  [frame : Seq(Byte), inFrame : BOOLEAN, escaped : BOOLEAN, yielded : Seq(Seq(Byte))]

Fed(f, d, s) == f[0] = d /\ \A n \in 1..Len(s) : f[n] = Feed(f[n - 1], s[n])

Feeds(d, s, e) == \E f : Fed(f, d, s) /\ f[Len(s)] = e

\* A decoder stays one.
LEMMA FeedTyped ==
  ASSUME NEW d \in Decoders, NEW b \in Byte
  PROVE  Feed(d, b) \in Decoders
  <1>0. <<>> \in Seq(Byte)
    BY EmptySeq
  <1>1. Opened(d) \in Decoders
    <2> HIDE DEF Byte
    <2> QED
      BY <1>0 DEF Opened, Decoders
  <1>2. Ended(d) \in Decoders
    <2>1. CASE d.inFrame /\ IsWhole(d.frame)
      <3>1. d.frame \in Seq(Byte) /\ Len(d.frame) >= 3
        BY <2>1 DEF Decoders, IsWhole
      <3>2. SubSeq(d.frame, 1, Len(d.frame) - 2) \in Seq(Byte)
        BY <3>1
      <3>3. d.yielded \in Seq(Seq(Byte)) /\ Opened(d).yielded = d.yielded
        BY DEF Decoders, Opened
      <3>4. Append(d.yielded, SubSeq(d.frame, 1, Len(d.frame) - 2)) \in Seq(Seq(Byte))
        BY <3>2, <3>3
      <3> QED
        BY <1>1, <2>1, <3>3, <3>4 DEF Ended, Decoders
    <2>2. CASE ~(d.inFrame /\ IsWhole(d.frame))
      BY <1>1, <2>2 DEF Ended
    <2> QED
      BY <2>1, <2>2
  <1>3. Collected(d, b) \in Decoders
    <2>1. Append(d.frame, IF d.escaped THEN Flipped(b) ELSE b) \in Seq(Byte)
      BY Flips DEF Decoders
    <2>2. CASE Len(d.frame) >= MaxFrameBytes + 2
      BY <1>0, <2>2, Zenon DEF Collected, Decoders
    <2>3. CASE ~(Len(d.frame) >= MaxFrameBytes + 2)
      BY <2>1, <2>3 DEF Collected, Decoders
    <2> QED
      BY <2>2, <2>3
  <1>4. [d EXCEPT !.escaped = TRUE] \in Decoders
    BY DEF Decoders
  <1> QED
    BY <1>2, <1>3, <1>4 DEF Feed

\* Every stream of bytes can be fed.
LEMMA FeedsSome ==
  ASSUME NEW d \in Decoders, NEW s \in Seq(Byte)
  PROVE  \E e \in Decoders : Feeds(d, s, e)
  <1> DEFINE step == [x \in Decoders \X Byte |-> Feed(x[1], x[2])]
  <1>1. step \in [Decoders \X Byte -> Decoders]
    BY FeedTyped
  <1>2. \E f : IsRun(f, Decoders, step, d, s)
    <2> HIDE DEF step, Decoders, Byte
    <2> QED
      BY <1>1, Iteration
  <1>3. PICK f : IsRun(f, Decoders, step, d, s)
    BY <1>2
  <1>4. f \in [0..Len(s) -> Decoders] /\ f[0] = d
    BY <1>3 DEF IsRun
  <1>5. Len(s) \in Nat
    BY LenProperties
  <1>6. ASSUME NEW n \in 1..Len(s) PROVE f[n] = Feed(f[n - 1], s[n])
    <2>1. n - 1 \in 0..Len(s) /\ s[n] \in Byte
      BY <1>5, ElementOfSeq
    <2>2. f[n] = step[<<f[n - 1], s[n]>>]
      BY <1>3 DEF IsRun
    <2>3. f[n - 1] \in Decoders
      BY <1>4, <2>1
    <2> QED
      BY <2>1, <2>2, <2>3
  <1>7. Fed(f, d, s)
    BY <1>4, <1>6 DEF Fed
  <1>8. f[Len(s)] \in Decoders
    BY <1>4, <1>5
  <1> QED
    BY <1>7, <1>8 DEF Feeds

\* A decoder that is fed with one stream becomes one decoder, and it is the one
\* that Decode asks.
LEMMA DecodeIs ==
  ASSUME NEW s \in Seq(Byte), NEW e, Feeds(NewDecoder, s, e)
  PROVE  Decode(s) = e.yielded
  <1> DEFINE Run(f) == f = [n \in 0..Len(s) |-> IF n = 0 THEN NewDecoder ELSE Feed(f[n - 1], s[n])]
             h == CHOOSE f : Run(f)
  <1>0. Len(s) \in Nat
    BY LenProperties
  <1>1. PICK f : Fed(f, NewDecoder, s) /\ f[Len(s)] = e
    BY DEF Feeds
  <1> DEFINE g == [n \in 0..Len(s) |-> f[n]]
  <1>2. Run(g)
    <2>1. ASSUME NEW n \in 0..Len(s)
          PROVE  g[n] = IF n = 0 THEN NewDecoder ELSE Feed(g[n - 1], s[n])
      <3>1. CASE n = 0
        BY <1>1, <3>1 DEF Fed
      <3>2. CASE n # 0
        <4>1. n \in 1..Len(s) /\ n - 1 \in 0..Len(s)
          BY <1>0, <3>2
        <4>2. f[n] = Feed(f[n - 1], s[n])
          BY <1>1, <4>1 DEF Fed
        <4> QED
          BY <3>2, <4>1, <4>2
      <3> QED
        BY <3>1, <3>2
    <2> QED
      BY <2>1
  <1>3. Run(h)
    BY <1>2, Zenon
  <1>4. Decode(s) = h[Len(s)].yielded
    BY Zenon DEF Decode
  <1> HIDE DEF h
  <1>5. \A n \in 0..Len(s) : h[n] = IF n = 0 THEN NewDecoder ELSE Feed(h[n - 1], s[n])
    BY <1>3
  <1> DEFINE S == {n \in 0..Len(s) : h[n] = f[n]}
  <1>6. 0 \in S
    <2>1. 0 \in 0..Len(s) /\ h[0] = f[0]
      BY <1>0, <1>1, <1>5 DEF Fed
    <2> QED
      BY <2>1
  <1>7. \A n \in 0..(Len(s) - 1) : n \in S => n + 1 \in S
    <2> SUFFICES ASSUME NEW n \in 0..(Len(s) - 1), h[n] = f[n]
                 PROVE  n + 1 \in 0..Len(s) /\ h[n + 1] = f[n + 1]
      OBVIOUS
    <2>1. n + 1 \in 1..Len(s) /\ n + 1 \in 0..Len(s) /\ n + 1 # 0 /\ (n + 1) - 1 = n
      BY <1>0
    <2>2. h[n + 1] = Feed(h[n], s[n + 1])
      BY <1>5, <2>1
    <2>3. f[n + 1] = Feed(f[n], s[n + 1])
      BY <1>1, <2>1 DEF Fed
    <2> QED
      BY <2>1, <2>2, <2>3
  <1> HIDE DEF S
  <1>8. 0..Len(s) \subseteq S
    BY <1>0, <1>6, <1>7, Induction, Zenon
  <1>9. Len(s) \in S
    BY <1>0, <1>8
  <1>10. h[Len(s)] = e
    BY <1>1, <1>9 DEF S
  <1> QED
    BY <1>4, <1>10

\* One stream after the other.
LEMMA FeedsBoth ==
  ASSUME NEW s \in Seq(Byte), NEW t \in Seq(Byte), NEW d, NEW e, NEW c,
         Feeds(d, s, e), Feeds(e, t, c)
  PROVE  Feeds(d, s \o t, c)
  <1> DEFINE u == s \o t
  <1>0. Len(s) \in Nat /\ Len(t) \in Nat
    BY LenProperties
  <1>1. PICK f : Fed(f, d, s) /\ f[Len(s)] = e
    BY DEF Feeds
  <1>2. PICK g : Fed(g, e, t) /\ g[Len(t)] = c
    BY DEF Feeds
  <1>3. /\ Len(u) = Len(s) + Len(t)
        /\ \A n \in 1..Len(s) : u[n] = s[n]
        /\ \A n \in 1..Len(t) : u[Len(s) + n] = t[n]
    BY <1>0
  <1> HIDE DEF u
  <1> DEFINE h == [n \in 0..Len(u) |-> IF n <= Len(s) THEN f[n] ELSE g[n - Len(s)]]
  <1>4. h[0] = d
    BY <1>0, <1>1, <1>3 DEF Fed
  <1>5. ASSUME NEW n \in 1..Len(u) PROVE h[n] = Feed(h[n - 1], u[n])
    <2>1. n \in 0..Len(u) /\ n - 1 \in 0..Len(u)
      BY <1>0, <1>3
    <2>2. CASE n <= Len(s)
      <3>1. n \in 1..Len(s) /\ n - 1 <= Len(s)
        BY <1>0, <2>2
      <3>2. h[n] = f[n] /\ h[n - 1] = f[n - 1] /\ u[n] = s[n]
        BY <1>3, <2>1, <2>2, <3>1
      <3>3. f[n] = Feed(f[n - 1], s[n])
        BY <1>1, <3>1 DEF Fed
      <3> QED
        BY <3>2, <3>3
    <2>3. CASE n > Len(s)
      <3> DEFINE m == n - Len(s)
      <3>1. m \in 1..Len(t) /\ n = Len(s) + m /\ ~(n <= Len(s)) /\ (n - 1) - Len(s) = m - 1
        BY <1>0, <1>3, <2>3
      <3>2. h[n] = g[m] /\ u[n] = t[m]
        BY <1>3, <2>1, <3>1
      <3>3. h[n - 1] = g[m - 1]
        <4>1. CASE n - 1 <= Len(s)
          <5>1. n - 1 = Len(s) /\ m - 1 = 0
            BY <1>0, <3>1, <4>1
          <5> QED
            BY <1>1, <1>2, <2>1, <4>1, <5>1 DEF Fed
        <4>2. CASE ~(n - 1 <= Len(s))
          BY <2>1, <3>1, <4>2
        <4> QED
          BY <4>1, <4>2
      <3>4. g[m] = Feed(g[m - 1], t[m])
        BY <1>2, <3>1 DEF Fed
      <3> QED
        BY <3>2, <3>3, <3>4
    <2> QED
      BY <1>0, <2>2, <2>3
  <1>6. h[Len(u)] = c
    <2>1. CASE Len(t) = 0
      BY <1>0, <1>1, <1>2, <1>3, <2>1 DEF Fed
    <2>2. CASE Len(t) # 0
      <3>1. Len(u) \in 0..Len(u) /\ ~(Len(u) <= Len(s)) /\ Len(u) - Len(s) = Len(t)
        BY <1>0, <1>3, <2>2
      <3> QED
        BY <1>2, <3>1
    <2> QED
      BY <2>1, <2>2
  <1>7. Fed(h, d, u)
    BY <1>4, <1>5 DEF Fed
  <1> QED
    BY <1>6, <1>7 DEF Feeds, u

\* Nothing, one byte, and one byte more.
LEMMA FeedsByte ==
  ASSUME NEW d, NEW b \in Byte
  PROVE  Feeds(d, <<>>, d) /\ Feeds(d, <<b>>, Feed(d, b))
  <1>1. Feeds(d, <<>>, d)
    <2> DEFINE f == [n \in 0..0 |-> d]
    <2>1. Fed(f, d, <<>>) /\ f[Len(<<>>)] = d
      BY DEF Fed
    <2> QED
      BY <2>1 DEF Feeds
  <1>2. Feeds(d, <<b>>, Feed(d, b))
    <2> DEFINE f == [n \in 0..1 |-> IF n = 0 THEN d ELSE Feed(d, b)]
    <2>1. f[0] = d /\ f[1] = Feed(d, b) /\ Len(<<b>>) = 1 /\ <<b>>[1] = b
      OBVIOUS
    <2> HIDE DEF f
    <2>2. Fed(f, d, <<b>>)
      BY <2>1 DEF Fed
    <2> QED
      BY <2>1, <2>2 DEF Feeds
  <1> QED
    BY <1>1, <1>2

\* To append is to concatenate.
LEMMA AppendOne ==
  ASSUME NEW S, NEW s \in Seq(S), NEW e \in S
  PROVE  /\ <<e>> \in Seq(S) /\ Append(s, e) \in Seq(S)
         /\ s \o <<e>> = Append(s, e)
  <1>1. <<e>> \in Seq(S) /\ Append(s, e) \in Seq(S) /\ s \o <<e>> \in Seq(S)
    OBVIOUS
  <1>2. Len(s \o <<e>>) = Len(Append(s, e)) /\ Len(s) \in Nat /\ Len(Append(s, e)) = Len(s) + 1
    OBVIOUS
  <1>3. \A i \in 1..Len(s \o <<e>>) : (s \o <<e>>)[i] = Append(s, e)[i]
    BY <1>2
  <1> QED
    BY <1>1, <1>2, <1>3, SeqEqual

LEMMA TwoAreAppended ==
  ASSUME NEW S, NEW a \in S, NEW b \in S
  PROVE  <<a>> \o <<b>> = <<a, b>>
  <1> DEFINE pair == <<a, b>>
             grown == Append(<<a>>, b)
  <1>1. pair \in Seq(S) /\ Len(pair) = 2 /\ pair[1] = a /\ pair[2] = b
    OBVIOUS
  <1>2. grown \in Seq(S) /\ Len(grown) = 2 /\ grown[1] = a /\ grown[2] = b
    OBVIOUS
  <1>3. <<a>> \in Seq(S) /\ <<a>> \o <<b>> = grown
    BY AppendOne
  <1> HIDE DEF pair, grown
  <1>4. grown = pair
    BY <1>1, <1>2, SeqEqual
  <1> QED
    BY <1>3, <1>4 DEF pair

LEMMA ThreeAreAppended ==
  ASSUME NEW S, NEW a \in S, NEW b \in S, NEW c \in S
  PROVE  <<a, b>> \o <<c>> = <<a, b, c>>
  <1> DEFINE triple == <<a, b, c>>
             grown == Append(<<a, b>>, c)
  <1>1. triple \in Seq(S) /\ Len(triple) = 3 /\ triple[1] = a /\ triple[2] = b /\ triple[3] = c
    OBVIOUS
  <1>2. grown \in Seq(S) /\ Len(grown) = 3 /\ grown[1] = a /\ grown[2] = b /\ grown[3] = c
    OBVIOUS
  <1>3. <<a, b>> \in Seq(S)
    OBVIOUS
  <1>4. <<a, b>> \o <<c>> = grown
    BY <1>3, AppendOne
  <1> HIDE DEF triple, grown
  <1>5. grown = triple
    BY <1>1, <1>2, SeqEqual
  <1> QED
    BY <1>4, <1>5 DEF triple

\* What collecting a byte, and beginning a frame, does to a decoder.
LEMMA GrownDecoder ==
  ASSUME NEW d \in Decoders, NEW s
  PROVE  [d EXCEPT !.frame = s]
           = [frame |-> s, inFrame |-> d.inFrame, escaped |-> d.escaped, yielded |-> d.yielded]
  BY DEF Decoders

LEMMA YieldingDecoder ==
  ASSUME NEW d \in Decoders, NEW y
  PROVE  [d EXCEPT !.yielded = y]
           = [frame |-> d.frame, inFrame |-> d.inFrame, escaped |-> d.escaped, yielded |-> y]
  BY DEF Decoders

LEMMA OpenedDecoder ==
  ASSUME NEW d \in Decoders
  PROVE  Opened(d) = [frame |-> <<>>, inFrame |-> TRUE, escaped |-> FALSE, yielded |-> d.yielded]
  <1>1. Opened(d) \in Decoders
    <2>1. <<>> \in Seq(Byte)
      BY EmptySeq
    <2> HIDE DEF Byte
    <2> QED
      BY <2>1 DEF Opened, Decoders
  <1>2. /\ Opened(d).frame = <<>> /\ Opened(d).inFrame = TRUE /\ Opened(d).escaped = FALSE
        /\ Opened(d).yielded = d.yielded
    BY DEF Opened, Decoders
  <1> QED
    BY <1>1, <1>2 DEF Decoders

\* A byte of a frame arrives as what it was, escaped or not.
LEMMA FeedsEncoded ==
  ASSUME NEW d \in Decoders, d.inFrame, ~d.escaped, Len(d.frame) < MaxFrameBytes + 2,
         NEW b \in Byte
  PROVE  /\ Encoded(b) \in Seq(Byte)
         /\ Feeds(d, Encoded(b), [d EXCEPT !.frame = Append(@, b)])
  <1> DEFINE grown == [d EXCEPT !.frame = Append(@, b)]
  <1>0. /\ d = [frame |-> d.frame, inFrame |-> TRUE, escaped |-> FALSE, yielded |-> d.yielded]
        /\ Len(d.frame) \in Nat /\ MaxFrameBytes \in Nat
    BY FrameAssumption DEF Decoders
  <1>1. grown = [frame |-> Append(d.frame, b), inFrame |-> TRUE, escaped |-> FALSE, yielded |-> d.yielded]
    BY <1>0, GrownDecoder, Zenon
  <1>2. ~(Len(d.frame) >= MaxFrameBytes + 2)
    BY <1>0
  <1>3. CASE b \in Escaped
    <2> DEFINE waiting == [frame |-> d.frame, inFrame |-> TRUE, escaped |-> TRUE, yielded |-> d.yielded]
    <2>1. Escape \in Byte /\ Escape # Flag
      BY DEF Byte, Escape, Flag
    <2>2. Flipped(b) \in Byte /\ Flipped(Flipped(b)) = b /\ Flipped(b) # Flag /\ Flipped(b) # Escape
      BY <1>3, Flips
    <2>3. Feed(d, Escape) = waiting
      <3>1. Feed(d, Escape) = [d EXCEPT !.escaped = TRUE]
        BY <2>1 DEF Feed
      <3> QED
        BY <1>0, <3>1
    <2>4. Feed(waiting, Flipped(b)) = grown
      <3>1. Feed(waiting, Flipped(b)) = Collected(waiting, Flipped(b))
        BY <2>2 DEF Feed
      <3>2. Collected(waiting, Flipped(b))
              = [waiting EXCEPT !.frame = Append(@, b), !.escaped = FALSE]
        BY <1>2, <2>2 DEF Collected
      <3> QED
        BY <1>1, <3>1, <3>2
    <2>5. Feeds(d, <<Escape>>, waiting) /\ Feeds(waiting, <<Flipped(b)>>, grown)
      BY <2>1, <2>2, <2>3, <2>4, FeedsByte
    <2>6. <<Escape>> \in Seq(Byte) /\ <<Flipped(b)>> \in Seq(Byte)
      BY <2>1, <2>2
    <2> HIDE DEF waiting, grown
    <2>7. Feeds(d, <<Escape>> \o <<Flipped(b)>>, grown)
      BY <2>5, <2>6, FeedsBoth
    <2>8. <<Escape>> \o <<Flipped(b)>> = Encoded(b)
      <3>1. <<Escape>> \o <<Flipped(b)>> = <<Escape, Flipped(b)>>
        BY <2>1, <2>2, TwoAreAppended
      <3> QED
        BY <1>3, <3>1 DEF Encoded
    <2>9. Encoded(b) \in Seq(Byte)
      BY <2>6, <2>8, ConcatProperties
    <2> QED
      BY <2>7, <2>8, <2>9 DEF grown
  <1>4. CASE b \notin Escaped
    <2>1. b # Flag /\ b # Escape
      BY <1>4 DEF Escaped
    <2>2. Feed(d, b) = Collected(d, b)
      BY <2>1 DEF Feed
    <2>3. Collected(d, b) = [d EXCEPT !.frame = Append(@, b), !.escaped = FALSE]
      BY <1>2 DEF Collected
    <2>4. Feed(d, b) = grown
      BY <1>0, <1>1, <2>2, <2>3
    <2>5. Encoded(b) = <<b>>
      BY <1>4 DEF Encoded
    <2> HIDE DEF grown
    <2>6. Feeds(d, Encoded(b), grown) /\ Encoded(b) \in Seq(Byte)
      BY <2>4, <2>5, FeedsByte
    <2> QED
      BY <2>6 DEF grown
  <1> QED
    BY <1>3, <1>4

\* The stuffing of a frame is the function that the definition of Frame describes.
LEMMA Stuffs ==
  ASSUME NEW payload \in Seq(Byte), payload # <<>>
  PROVE  \E f :
           /\ f[0] = <<Flag>>
           /\ \A n \in 1..Len(Checked(payload)) : f[n] = f[n - 1] \o Encoded(Checked(payload)[n])
           /\ Frame(payload) = Append(f[Len(Checked(payload))], Flag)
  <1> DEFINE framed == Checked(payload)
             step == [x \in Seq(Byte) \X Byte |-> x[1] \o Encoded(x[2])]
             Run(f) == f = [n \in 0..Len(framed) |->
                             IF n = 0 THEN <<Flag>> ELSE f[n - 1] \o Encoded(framed[n])]
             h == CHOOSE f : Run(f)
  <1>0. framed \in Seq(Byte) /\ Len(framed) \in Nat
    BY CheckedIsWhole, LenProperties
  <1>1. \A b \in Byte : Encoded(b) \in Seq(Byte)
    <2> SUFFICES ASSUME NEW b \in Byte PROVE Encoded(b) \in Seq(Byte)
      OBVIOUS
    <2>1. Escape \in Byte
      BY DEF Byte, Escape
    <2>2. Flipped(b) \in Byte
      BY Flips
    <2> QED
      BY <2>1, <2>2 DEF Encoded
  <1>2. step \in [Seq(Byte) \X Byte -> Seq(Byte)]
    <2> SUFFICES ASSUME NEW s \in Seq(Byte), NEW b \in Byte PROVE s \o Encoded(b) \in Seq(Byte)
      OBVIOUS
    <2> QED
      BY <1>1, ConcatProperties
  <1>3. <<Flag>> \in Seq(Byte)
    BY DEF Byte, Flag
  <1>4. Frame(payload) = Append(h[Len(framed)], Flag)
    BY Zenon DEF Frame
  <1> HIDE DEF framed, Byte
  <1>5. PICK g \in [0..Len(framed) -> Seq(Byte)] :
          g[0] = <<Flag>> /\ \A n \in 1..Len(framed) : g[n] = step[<<g[n - 1], framed[n]>>]
    <2> HIDE DEF step
    <2>1. \E g : IsRun(g, Seq(Byte), step, <<Flag>>, framed)
      BY <1>0, <1>2, <1>3, Iteration
    <2> QED
      BY <2>1 DEF IsRun
  <1>6. \A n \in 1..Len(framed) : n - 1 \in 0..Len(framed) /\ framed[n] \in Byte
    BY <1>0, ElementOfSeq
  <1>7. \A n \in 1..Len(framed) : g[n] = g[n - 1] \o Encoded(framed[n])
    BY <1>5, <1>6
  <1>8. Run(g)
    <2>1. \A n \in 0..Len(framed) : n # 0 => n \in 1..Len(framed)
      BY <1>0
    <2> QED
      BY <1>5, <1>7, <2>1
  <1>9. Run(h)
    BY <1>8, Zenon
  <1> HIDE DEF h
  <1>10. h[0] = <<Flag>> /\ \A n \in 1..Len(framed) : h[n] = h[n - 1] \o Encoded(framed[n])
    <2>1. \A n \in 0..Len(framed) :
            h[n] = IF n = 0 THEN <<Flag>> ELSE h[n - 1] \o Encoded(framed[n])
      BY <1>9
    <2>2. 0 \in 0..Len(framed) /\ \A n \in 1..Len(framed) : n \in 0..Len(framed) /\ n # 0
      BY <1>0
    <2> QED
      BY <2>1, <2>2
  <1> QED
    BY <1>4, <1>10 DEF framed

\* A flag ends what the decoder has collected.
LEMMA FlagEnds ==
  ASSUME NEW d \in Decoders
  PROVE  /\ Flag \in Byte /\ <<Flag>> \in Seq(Byte)
         /\ Feed(d, Flag) = Ended(d) /\ Feeds(d, <<Flag>>, Ended(d))
         /\ Ended(d) \in Decoders
         /\ Ended(d) = [frame |-> <<>>, inFrame |-> TRUE, escaped |-> FALSE,
                        yielded |-> Ended(d).yielded]
  <1>1. Flag \in Byte /\ <<Flag>> \in Seq(Byte)
    BY DEF Flag, Byte
  <1>2. Feed(d, Flag) = Ended(d)
    BY DEF Feed, Flag, Escape
  <1>3. Ended(d) \in Decoders
    BY <1>1, <1>2, FeedTyped
  <1>4. Ended(d).frame = <<>> /\ Ended(d).inFrame = TRUE /\ Ended(d).escaped = FALSE
    BY DEF Ended, Opened, Decoders
  <1>5. Ended(d) = [frame |-> <<>>, inFrame |-> TRUE, escaped |-> FALSE, yielded |-> Ended(d).yielded]
    BY <1>3, <1>4 DEF Decoders
  <1> QED
    BY <1>1, <1>2, <1>3, <1>5, FeedsByte

\* A frame that the peer stuffs is in the decoder when its last byte was fed.
LEMMA FeedsStuffed ==
  ASSUME NEW d \in Decoders, NEW framed \in Seq(Byte), Len(framed) <= MaxFrameBytes + 2,
         NEW f, f[0] = <<Flag>>,
         \A n \in 1..Len(framed) : f[n] = f[n - 1] \o Encoded(framed[n])
  PROVE  /\ f[Len(framed)] \in Seq(Byte)
         /\ Feeds(d, f[Len(framed)], [Ended(d) EXCEPT !.frame = framed])
  <1> DEFINE at(n) == [Ended(d) EXCEPT !.frame = SubSeq(framed, 1, n)]
             S == {n \in 0..Len(framed) : f[n] \in Seq(Byte) /\ Feeds(d, f[n], at(n))}
  <1>0. Len(framed) \in Nat /\ Flag \in Byte
    BY LenProperties DEF Byte, Flag
  <1>1. Ended(d) \in Decoders /\ Ended(d).frame = <<>> /\ Ended(d).inFrame /\ ~Ended(d).escaped
    BY FlagEnds
  <1>2. ASSUME NEW n \in 0..Len(framed)
        PROVE  /\ SubSeq(framed, 1, n) \in Seq(Byte) /\ Len(SubSeq(framed, 1, n)) = n
               /\ at(n) \in Decoders /\ at(n).frame = SubSeq(framed, 1, n)
               /\ at(n).inFrame /\ ~at(n).escaped
    <2>1. SubSeq(framed, 1, n) \in Seq(Byte) /\ Len(SubSeq(framed, 1, n)) = n
      BY <1>0
    <2> QED
      BY <1>1, <2>1 DEF Decoders
  <1>3. 0 \in S
    <2>1. at(0) = Ended(d)
      <3>1. SubSeq(framed, 1, 0) = <<>>
        BY SubSeqEmpty
      <3> QED
        BY <1>1, <3>1 DEF Decoders
    <2>2. Feeds(d, <<Flag>>, Ended(d)) /\ <<Flag>> \in Seq(Byte)
      BY FlagEnds
    <2>3. 0 \in 0..Len(framed) /\ f[0] \in Seq(Byte) /\ Feeds(d, f[0], at(0))
      <3> HIDE DEF at
      <3> QED
        BY <1>0, <2>1, <2>2
    <2> QED
      BY <2>3
  <1>4. \A n \in 0..(Len(framed) - 1) : n \in S => n + 1 \in S
    <2> SUFFICES ASSUME NEW n \in 0..(Len(framed) - 1), f[n] \in Seq(Byte), Feeds(d, f[n], at(n))
                 PROVE  n + 1 \in 0..Len(framed) /\ f[n + 1] \in Seq(Byte) /\ Feeds(d, f[n + 1], at(n + 1))
      OBVIOUS
    <2>1. /\ n \in 0..Len(framed) /\ n + 1 \in 0..Len(framed) /\ n + 1 \in 1..Len(framed)
          /\ (n + 1) - 1 = n /\ n < MaxFrameBytes + 2
      BY <1>0, FrameAssumption
    <2> DEFINE b == framed[n + 1]
    <2>2. b \in Byte
      BY <2>1, ElementOfSeq
    <2>3. at(n) \in Decoders /\ at(n).inFrame /\ ~at(n).escaped /\ Len(at(n).frame) < MaxFrameBytes + 2
      BY <1>2, <2>1
    <2>4. [at(n) EXCEPT !.frame = Append(@, b)] = at(n + 1)
      <3>1. SubSeq(framed, 1, n + 1) = Append(SubSeq(framed, 1, n), b)
        <4>1. n + 1 \in 1..Len(framed) /\ 1 \in 1..Len(framed) /\ n + 1 \in 1..Len(framed)
          BY <1>0, <2>1
        <4>2. SubSeq(framed, 1, n + 1) = SubSeq(framed, 1, n) \o <<b>>
          <5>1. SubSeq(framed, 1, n + 1) = SubSeq(framed, 1, (n + 1) - 1) \o <<framed[n + 1]>>
            BY <4>1, SubSeqRecursiveSecond
          <5> QED
            BY <2>1, <5>1
        <4>3. SubSeq(framed, 1, n) \in Seq(Byte)
          BY <1>2, <2>1
        <4>4. SubSeq(framed, 1, n) \o <<b>> = Append(SubSeq(framed, 1, n), b)
          <5> HIDE DEF b
          <5> QED
            BY <2>2, <4>3, AppendOne
        <4>5. (n + 1) - 1 = n /\ framed[n + 1] = b
          BY <2>1
        <4> QED
          BY <4>2, <4>4, <4>5
      <3> QED
        BY <1>1, <1>2, <2>1, <3>1 DEF Decoders
    <2> HIDE DEF at, b
    <2>5. Encoded(b) \in Seq(Byte) /\ Feeds(at(n), Encoded(b), at(n + 1))
      BY <2>2, <2>3, <2>4, FeedsEncoded
    <2>6. Feeds(d, f[n] \o Encoded(b), at(n + 1)) /\ f[n] \o Encoded(b) \in Seq(Byte)
      BY <2>5, FeedsBoth, ConcatProperties
    <2>7. f[n + 1] = f[n] \o Encoded(b)
      BY <2>1 DEF b
    <2> QED
      BY <2>1, <2>6, <2>7
  <1>5. at(Len(framed)) = [Ended(d) EXCEPT !.frame = framed]
    BY SubSeqFull
  <1> HIDE DEF S
  <1>6. 0..Len(framed) \subseteq S
    BY <1>0, <1>3, <1>4, Induction, Zenon
  <1>7. Len(framed) \in S
    BY <1>0, <1>6
  <1>8. f[Len(framed)] \in Seq(Byte) /\ Feeds(d, f[Len(framed)], at(Len(framed)))
    BY <1>7 DEF S
  <1> QED
    BY <1>5, <1>8

\* A frame ends what the decoder had before it, and yields its payload.
LEMMA FrameIsDecoded ==
  ASSUME NEW d \in Decoders, NEW payload \in Seq(Byte), payload # <<>>,
         Len(payload) <= MaxFrameBytes
  PROVE  /\ Frame(payload) \in Seq(Byte)
         /\ Ended(d) \in Decoders
         /\ Feeds(d, <<Flag>>, Ended(d))
         /\ Feeds(d, Frame(payload), [Ended(d) EXCEPT !.yielded = Append(@, payload)])
  <1> DEFINE framed == Checked(payload)
             full == [Ended(d) EXCEPT !.frame = framed]
  <1>0. Flag \in Byte /\ MaxFrameBytes \in Nat /\ Len(payload) \in Nat
    BY FrameAssumption, LenProperties DEF Byte, Flag
  <1>1. /\ framed \in Seq(Byte) /\ Len(framed) = Len(payload) + 2 /\ IsWhole(framed)
        /\ SubSeq(framed, 1, Len(framed) - 2) = payload
    BY CheckedIsWhole
  <1> HIDE DEF framed
  <1>2. Len(framed) <= MaxFrameBytes + 2
    BY <1>0, <1>1
  <1>3. PICK f : /\ f[0] = <<Flag>>
                 /\ \A n \in 1..Len(framed) : f[n] = f[n - 1] \o Encoded(framed[n])
                 /\ Frame(payload) = Append(f[Len(framed)], Flag)
    BY Stuffs DEF framed
  <1>4. f[Len(framed)] \in Seq(Byte) /\ Feeds(d, f[Len(framed)], full)
    BY <1>1, <1>2, <1>3, FeedsStuffed
  <1>5. Ended(d) \in Decoders /\ full \in Decoders
    BY <1>1, FlagEnds DEF Decoders
  <1> DEFINE done == Ended(d).yielded
  <1>6. Ended(d) = [frame |-> <<>>, inFrame |-> TRUE, escaped |-> FALSE, yielded |-> done]
    BY FlagEnds
  <1> HIDE DEF done
  <1>7. Ended(full) = [Ended(d) EXCEPT !.yielded = Append(@, payload)]
    <2>1. full = [frame |-> framed, inFrame |-> TRUE, escaped |-> FALSE, yielded |-> done]
      BY <1>5, <1>6, GrownDecoder
    <2> HIDE DEF full
    <2>2. Opened(full) = [frame |-> <<>>, inFrame |-> TRUE, escaped |-> FALSE, yielded |-> done]
      <3>1. full.yielded = done
        BY <2>1
      <3> QED
        BY <1>5, <3>1, OpenedDecoder
    <2>3. Ended(full) = [Opened(full) EXCEPT !.yielded = Append(@, payload)]
      BY <1>1, <2>1 DEF Ended
    <2> QED
      BY <1>6, <2>2, <2>3
  <1> HIDE DEF full
  <1>8. Feeds(full, <<Flag>>, Ended(full)) /\ Feeds(d, <<Flag>>, Ended(d))
    BY <1>5, FlagEnds
  <1>9. <<Flag>> \in Seq(Byte) /\ f[Len(framed)] \o <<Flag>> = Frame(payload) /\ Frame(payload) \in Seq(Byte)
    BY <1>0, <1>3, <1>4, AppendOne
  <1>10. Feeds(d, Frame(payload), Ended(full))
    BY <1>4, <1>8, <1>9, FeedsBoth
  <1> QED
    BY <1>5, <1>7, <1>8, <1>9, <1>10

\* spinel.py:79-95 and 102-124: what the peer frames is yielded, byte for byte and
\* with nothing else, in whatever state the bytes before it left the decoder; the
\* first flag of the frame ends what came before, as any other flag would.
THEOREM FramesAreDecoded ==
  ASSUME NEW before \in Seq(Byte), NEW payload \in Seq(Byte), payload # <<>>,
         Len(payload) <= MaxFrameBytes
  PROVE  Decode(before \o Frame(payload)) = Append(Decode(before \o <<Flag>>), payload)
  <1>1. NewDecoder \in Decoders
    <2>1. <<>> \in Seq(Byte) /\ <<>> \in Seq(Seq(Byte))
      BY EmptySeq
    <2> QED
      BY <2>1, Zenon DEF NewDecoder, Decoders
  <1>2. PICK d \in Decoders : Feeds(NewDecoder, before, d)
    BY <1>1, FeedsSome
  <1> DEFINE after == [Ended(d) EXCEPT !.yielded = Append(@, payload)]
  <1>3. /\ Frame(payload) \in Seq(Byte) /\ <<Flag>> \in Seq(Byte)
        /\ Ended(d) \in Decoders /\ Feeds(d, <<Flag>>, Ended(d)) /\ Feeds(d, Frame(payload), after)
    BY FrameIsDecoded DEF Byte, Flag
  <1>4. after.yielded = Append(Ended(d).yielded, payload)
    BY <1>3 DEF Decoders
  <1> HIDE DEF after
  <1>5. /\ Feeds(NewDecoder, before \o <<Flag>>, Ended(d)) /\ before \o <<Flag>> \in Seq(Byte)
        /\ Feeds(NewDecoder, before \o Frame(payload), after) /\ before \o Frame(payload) \in Seq(Byte)
    BY <1>2, <1>3, FeedsBoth, ConcatProperties
  <1> QED
    BY <1>4, <1>5, DecodeIs

-----------------------------------------------------------------------------
(***************************************************************************)
(* The answer.                                                             *)
(***************************************************************************)
\* What was yielded stays yielded.
Keeps(d, e) ==
  /\ Len(d.yielded) <= Len(e.yielded)
  /\ \A i \in 1..Len(d.yielded) : e.yielded[i] = d.yielded[i]

LEMMA FeedKeeps ==
  ASSUME NEW d \in Decoders, NEW b \in Byte
  PROVE  Keeps(d, Feed(d, b))
  <1>0. d.yielded \in Seq(Seq(Byte)) /\ Len(d.yielded) \in Nat
    BY LenProperties DEF Decoders
  <1>1. ASSUME NEW e, e.yielded = d.yielded PROVE Keeps(d, e)
    BY <1>0, <1>1 DEF Keeps
  <1>2. ASSUME NEW e, NEW p \in Seq(Byte), e.yielded = Append(d.yielded, p) PROVE Keeps(d, e)
    <2>1. /\ Len(Append(d.yielded, p)) = Len(d.yielded) + 1
          /\ \A i \in 1..Len(d.yielded) : Append(d.yielded, p)[i] = d.yielded[i]
      BY <1>0, AppendProperties
    <2> QED
      BY <1>0, <1>2, <2>1 DEF Keeps
  <1>3. Keeps(d, Ended(d))
    <2>1. CASE d.inFrame /\ IsWhole(d.frame)
      <3> DEFINE p == SubSeq(d.frame, 1, Len(d.frame) - 2)
      <3>1. d.frame \in Seq(Byte) /\ Len(d.frame) >= 3
        BY <2>1 DEF Decoders, IsWhole
      <3>2. p \in Seq(Byte)
        BY <3>1
      <3>3. Ended(d).yielded = Append(d.yielded, p)
        <4>1. Ended(d) = [Opened(d) EXCEPT !.yielded = Append(@, p)]
          BY <2>1 DEF Ended
        <4>2. Opened(d) = [frame |-> <<>>, inFrame |-> TRUE, escaped |-> FALSE, yielded |-> d.yielded]
          BY OpenedDecoder
        <4> HIDE DEF p
        <4> QED
          BY <4>1, <4>2
      <3> HIDE DEF p
      <3> QED
        BY <1>2, <3>2, <3>3
    <2>2. CASE ~(d.inFrame /\ IsWhole(d.frame))
      <3>1. Ended(d).yielded = d.yielded
        BY <2>2, OpenedDecoder DEF Ended
      <3> QED
        BY <1>1, <3>1
    <2> QED
      BY <2>1, <2>2
  <1>4. Collected(d, b).yielded = d.yielded /\ [d EXCEPT !.escaped = TRUE].yielded = d.yielded
    BY DEF Collected, Decoders
  <1> QED
    BY <1>1, <1>3, <1>4 DEF Feed

LEMMA FeedsKeeps ==
  ASSUME NEW d \in Decoders, NEW s \in Seq(Byte), NEW e, Feeds(d, s, e)
  PROVE  e \in Decoders /\ Keeps(d, e)
  <1>1. PICK f : Fed(f, d, s) /\ f[Len(s)] = e
    BY DEF Feeds
  <1> DEFINE S == {n \in 0..Len(s) : f[n] \in Decoders /\ Keeps(d, f[n])}
  <1>0. Len(s) \in Nat
    BY LenProperties
  <1>2. 0 \in S
    <2>1. Len(d.yielded) \in Nat
      BY LenProperties DEF Decoders
    <2>2. 0 \in 0..Len(s) /\ f[0] \in Decoders /\ Keeps(d, f[0])
      BY <1>0, <1>1, <2>1 DEF Fed, Keeps
    <2> QED
      BY <2>2
  <1>3. \A n \in 0..(Len(s) - 1) : n \in S => n + 1 \in S
    <2> SUFFICES ASSUME NEW n \in 0..(Len(s) - 1), f[n] \in Decoders, Keeps(d, f[n])
                 PROVE  n + 1 \in 0..Len(s) /\ f[n + 1] \in Decoders /\ Keeps(d, f[n + 1])
      OBVIOUS
    <2>1. n + 1 \in 1..Len(s) /\ n + 1 \in 0..Len(s) /\ (n + 1) - 1 = n
      BY <1>0
    <2>2. f[n + 1] = Feed(f[n], s[n + 1]) /\ s[n + 1] \in Byte
      BY <1>1, <2>1, ElementOfSeq DEF Fed
    <2>3. f[n + 1] \in Decoders /\ Keeps(f[n], f[n + 1])
      BY <2>2, FeedTyped, FeedKeeps
    <2>4. Len(d.yielded) \in Nat /\ Len(f[n].yielded) \in Nat /\ Len(f[n + 1].yielded) \in Nat
      BY <2>3, LenProperties DEF Decoders
    <2>5. Keeps(d, f[n + 1])
      BY <2>3, <2>4 DEF Keeps
    <2> QED
      BY <2>1, <2>3, <2>5
  <1> HIDE DEF S
  <1>4. 0..Len(s) \subseteq S
    BY <1>0, <1>2, <1>3, Induction, Zenon
  <1>5. Len(s) \in S
    BY <1>0, <1>4
  <1> QED
    BY <1>1, <1>5 DEF S

\* The bits of a command and of a property that fit into one byte.
LEMMA OneByteIsUnpacked ==
  ASSUME NEW data \in Seq(Byte), NEW i \in 1..Len(data), data[i] < 128
  PROVE  LastByte(data, i) = i /\ Unpacked(data, i) = Bits[data[i]] \ {7}
  <1>1. LastByte(data, i) = i
    <2> DEFINE ends == {j \in i..(i + 4) : j <= Len(data) /\ ~Continues(data[j])}
               first == CHOOSE j \in ends : \A k \in ends : j <= k
    <2>1. i \in Nat /\ i <= Len(data) /\ data[i] \in Nat
      <3>1. data[i] \in Byte
        BY ElementOfSeq
      <3>2. Len(data) \in Nat
        BY LenProperties
      <3>3. i \in Nat /\ i <= Len(data)
        BY <3>2
      <3>4. \A b \in Byte : b \in Nat
        BY DEF Byte
      <3> QED
        BY <3>1, <3>3, <3>4, Zenon
    <2>2. i \in ends /\ \A j \in ends : i <= j /\ j \in Nat
      BY <2>1 DEF Continues
    <2>3. LastByte(data, i) = IF ends = {} THEN 0 ELSE first
      BY Zenon DEF LastByte
    <2> HIDE DEF ends
    <2>4. first \in ends /\ \A k \in ends : first <= k
      BY <2>2, Zenon
    <2> HIDE DEF first
    <2>5. first = i
      BY <2>1, <2>2, <2>4
    <2> QED
      BY <2>2, <2>3, <2>5
  <1>2. Unpacked(data, i) = Bits[data[i]] \ {7}
    <2>1. data[i] \in Byte
      BY ElementOfSeq
    <2>2. Bits[data[i]] \subseteq 0..7
      BY <2>1, BitsOfByte
    <2> DEFINE bits == Bits[data[i]] \ {7}
    <2>3. Unpacked(data, i) = UNION {{7 * (j - i) + bit : bit \in Bits[data[j]] \ {7}} : j \in i..i}
      BY <1>1 DEF Unpacked
    <2>4. i..i = {i} /\ i - i = 0
      BY LenProperties
    <2>5. {7 * 0 + bit : bit \in bits} = bits
      <3>1. \A bit \in bits : 7 * 0 + bit = bit
        BY <2>2
      <3> HIDE DEF bits
      <3> QED
        BY <3>1
    <2> QED
      BY <2>3, <2>4, <2>5
  <1> QED
    BY <1>1, <1>2

\* The bits of the command VALUE_IS and of the property NCP_VERSION.
LEMMA AnswerBits == Bits[6] \ {7} = ValueIs /\ Bits[2] \ {7} = NcpVersion
  <1>1. 6 \in Byte /\ 2 \in Byte
    BY DEF Byte
  <1>2. Bits[6] = {1, 2}
    BY <1>1, BitsOfByte
  <1>3. Bits[2] = {1}
    BY <1>1, BitsOfByte
  <1> QED
    BY <1>2, <1>3 DEF ValueIs, NcpVersion

\* A string without NUL is read back from an answer with it, unless it is refused.
LEMMA TextIsRead ==
  ASSUME NEW t \in Seq(1..255)
  PROVE  LET payload == <<Header, 6, 2>> \o t \o <<0>>
         IN /\ payload \in Seq(Byte) /\ Len(payload) = Len(t) + 4
            /\ payload[1] = Header
            /\ TextOf(payload) = IF IsVersion(t) THEN t ELSE Unread
  <1> DEFINE start == <<Header, 6, 2>>
             payload == start \o t \o <<0>>
             ends == {i \in 4..Len(payload) : payload[i] = 0}
             first == CHOOSE i \in ends : \A j \in ends : i <= j
             text == SubSeq(payload, 4, first - 1)
  <1>0. Len(t) \in Nat /\ t \in Seq(Byte) /\ \A i \in 1..Len(t) : t[i] # 0
    <2>1. \A i \in 1..Len(t) : t[i] \in 1..255
      BY ElementOfSeq
    <2>2. \A b \in 1..255 : b # 0
      OBVIOUS
    <2>3. 1..255 \subseteq Byte
      BY DEF Byte
    <2>4. t \in Seq(Byte) /\ Len(t) \in Nat
      BY <2>3, LenProperties, SeqMonotonic
    <2> QED
      BY <2>1, <2>2, <2>4, Zenon
  <1>1. /\ start \in Seq(Byte) /\ Len(start) = 3
        /\ start[1] = Header /\ start[2] = 6 /\ start[3] = 2
        /\ <<0>> \in Seq(Byte) /\ Len(<<0>>) = 1 /\ <<0>>[1] = 0
    BY DEF Header, Byte
  <1> HIDE DEF start
  <1>2. /\ start \o t \in Seq(Byte) /\ Len(start \o t) = Len(t) + 3
        /\ \A i \in 1..(Len(t) + 3) : (start \o t)[i] = IF i <= 3 THEN start[i] ELSE t[i - 3]
    <2>1. /\ start \o t \in Seq(Byte) /\ Len(start \o t) = Len(start) + Len(t)
          /\ \A i \in 1..(Len(start) + Len(t)) :
               (start \o t)[i] = IF i <= Len(start) THEN start[i] ELSE t[i - Len(start)]
      BY <1>0, <1>1, ConcatProperties
    <2>2. Len(start) = 3 /\ Len(start) + Len(t) = Len(t) + 3
      BY <1>0, <1>1
    <2> QED
      BY <2>1, <2>2
  <1>3. /\ payload \in Seq(Byte) /\ Len(payload) = Len(t) + 4
        /\ \A i \in 1..(Len(t) + 4) :
             payload[i] = IF i <= Len(t) + 3 THEN (start \o t)[i] ELSE <<0>>[i - (Len(t) + 3)]
    <2> DEFINE first_part == start \o t
    <2> HIDE DEF first_part
    <2>1. first_part \in Seq(Byte) /\ Len(first_part) = Len(t) + 3
      BY <1>2 DEF first_part
    <2>2. /\ first_part \o <<0>> \in Seq(Byte) /\ Len(first_part \o <<0>>) = Len(t) + 4
          /\ \A i \in 1..(Len(t) + 4) : (first_part \o <<0>>)[i] =
               IF i <= Len(t) + 3 THEN first_part[i] ELSE <<0>>[i - (Len(t) + 3)]
      BY <1>0, <1>1, <2>1, ConcatProperties
    <2> QED
      BY <2>2 DEF first_part
  <1>4. /\ payload[1] = Header /\ payload[2] = 6 /\ payload[3] = 2 /\ payload[Len(t) + 4] = 0
        /\ \A i \in 1..Len(t) : payload[i + 3] = t[i]
    <2>1. \A i \in 1..3 : payload[i] = start[i]
      BY <1>0, <1>2, <1>3
    <2>2. payload[Len(t) + 4] = 0
      BY <1>0, <1>1, <1>3
    <2>3. \A i \in 1..Len(t) : payload[i + 3] = t[i]
      BY <1>0, <1>2, <1>3
    <2> HIDE DEF payload
    <2> QED
      BY <1>1, <2>1, <2>2, <2>3
  <1> HIDE DEF payload
  <1>5. /\ LastByte(payload, 2) = 2 /\ Unpacked(payload, 2) = ValueIs
        /\ LastByte(payload, 3) = 3 /\ Unpacked(payload, 3) = NcpVersion
    <2>1. 2 \in 1..Len(payload) /\ 3 \in 1..Len(payload)
      BY <1>0, <1>3
    <2>2. payload[2] < 128 /\ payload[3] < 128
      BY <1>4
    <2>3. /\ LastByte(payload, 2) = 2 /\ Unpacked(payload, 2) = Bits[payload[2]] \ {7}
          /\ LastByte(payload, 3) = 3 /\ Unpacked(payload, 3) = Bits[payload[3]] \ {7}
      BY <1>3, <2>1, <2>2, OneByteIsUnpacked
    <2> QED
      BY <1>4, <2>3, AnswerBits
  <1>6. first = Len(t) + 4 /\ ends # {}
    <2>1. \A i \in 4..(Len(t) + 3) : payload[i] # 0
      <3> SUFFICES ASSUME NEW i \in 4..(Len(t) + 3) PROVE payload[i] # 0
        OBVIOUS
      <3>1. i - 3 \in 1..Len(t) /\ (i - 3) + 3 = i
        BY <1>0
      <3>2. payload[i] = t[i - 3] /\ t[i - 3] # 0
        BY <1>0, <1>4, <3>1
      <3> QED
        BY <3>2
    <2>2. ends = {Len(t) + 4}
      BY <1>0, <1>3, <1>4, <2>1
    <2> HIDE DEF ends
    <2>3. first \in ends
      BY <1>0, <2>2
    <2> QED
      BY <2>2, <2>3
  <1> HIDE DEF ends, first
  <1>7. text = t
    <2>1. /\ SubSeq(payload, 4, Len(t) + 3) \in Seq(Byte)
          /\ Len(SubSeq(payload, 4, Len(t) + 3)) = Len(t)
          /\ \A i \in 1..Len(t) : SubSeq(payload, 4, Len(t) + 3)[i] = payload[i + 3]
      BY <1>0, <1>3
    <2>2. SubSeq(payload, 4, Len(t) + 3) = t
      BY <1>0, <1>4, <2>1, SeqEqual
    <2>3. first - 1 = Len(t) + 3
      BY <1>0, <1>6
    <2> QED
      BY <2>2, <2>3
  <1>9. TextOf(payload) = IF IsVersion(t) THEN t ELSE Unread
    <2> DEFINE command == LastByte(payload, 2)
               property == LastByte(payload, command + 1)
               Ends(last) == {i \in (last + 1)..Len(payload) : payload[i] = 0}
               Text(last) == SubSeq(payload, last + 1,
                               (CHOOSE i \in Ends(last) : \A j \in Ends(last) : i <= j) - 1)
    <2>1. TextOf(payload) = IF /\ command # 0 /\ property # 0
                               /\ Unpacked(payload, 2) = ValueIs
                               /\ Unpacked(payload, command + 1) = NcpVersion
                               /\ Ends(property) # {}
                               /\ IsVersion(Text(property))
                            THEN Text(property) ELSE Unread
      BY DEF TextOf
    <2>2. command = 2 /\ command + 1 = 3
      BY <1>5
    <2>3. property = 3
      BY <1>5, <2>2
    <2>4. 3 + 1 = 4
      OBVIOUS
    <2>5. Ends(property) = ends
      BY <2>3, <2>4, Zenon DEF ends
    <2>6. Text(property) = text
      BY <2>3, <2>4, <2>5, Zenon DEF first
    <2> HIDE DEF command, property, Ends, Text
    <2> HIDE DEF text
    <2> QED
      BY <1>5, <1>6, <1>7, <2>1, <2>2, <2>3, <2>5, <2>6
  <1> QED
    BY <1>3, <1>4, <1>9 DEF payload, start

\* What a flag makes of a stream is what was yielded before, unless a whole frame
\* ends there.
LEMMA NothingEnds ==
  ASSUME NEW s \in Seq(Byte), NEW d \in Decoders, Feeds(NewDecoder, s, d),
         ~d.inFrame \/ Len(d.frame) < 3
  PROVE  Decode(s \o <<Flag>>) = d.yielded
  <1>1. Len(d.frame) \in Nat
    BY LenProperties DEF Decoders
  <1>2. ~(d.inFrame /\ IsWhole(d.frame))
    BY <1>1 DEF IsWhole
  <1>3. Ended(d).yielded = d.yielded
    BY <1>2, OpenedDecoder DEF Ended
  <1>4. s \o <<Flag>> \in Seq(Byte) /\ Feeds(NewDecoder, s \o <<Flag>>, Ended(d))
    BY FlagEnds, FeedsBoth, ConcatProperties
  <1> QED
    BY <1>3, <1>4, DecodeIs

\* spinel.py:119: more bytes than a frame can hold are dropped, and what comes
\* behind them up to the next flag with them.
LEMMA LongFrameIsDropped ==
  ASSUME NEW d \in Decoders, d.inFrame, ~d.escaped, d.frame = <<>>,
         NEW s \in Seq(Byte), Len(s) = MaxFrameBytes + 3,
         \A i \in 1..Len(s) : s[i] \notin {Flag, Escape}
  PROVE  \E e \in Decoders : Feeds(d, s, e) /\ ~e.inFrame /\ e.yielded = d.yielded
  <1> DEFINE N == MaxFrameBytes + 2
  <1>0. N \in Nat /\ Len(s) = N + 1 /\ Len(s) \in Nat
    BY FrameAssumption
  <1>1. PICK e \in Decoders : Feeds(d, s, e)
    BY FeedsSome
  <1>2. PICK f : Fed(f, d, s) /\ f[Len(s)] = e
    BY <1>1 DEF Feeds
  <1> DEFINE Holds(x, n) ==
               /\ x \in Decoders /\ x.inFrame /\ ~x.escaped
               /\ Len(x.frame) = n /\ x.yielded = d.yielded
             S == {n \in 0..N : Holds(f[n], n)}
  <1>3. ASSUME NEW n \in 0..N, Holds(f[n], n)
        PROVE  f[n + 1] = Collected(f[n], s[n + 1]) /\ s[n + 1] \in Byte
    <2>1. n + 1 \in 1..Len(s) /\ (n + 1) - 1 = n
      BY <1>0
    <2>2. f[n + 1] = Feed(f[n], s[n + 1]) /\ s[n + 1] \in Byte
      BY <1>2, <2>1, ElementOfSeq DEF Fed
    <2>3. s[n + 1] # Flag /\ s[n + 1] # Escape
      BY <2>1
    <2> QED
      BY <1>3, <2>2, <2>3 DEF Feed
  <1>4. 0 \in S
    <2>1. f[0] = d /\ Len(<<>>) = 0
      BY <1>2, EmptySeq DEF Fed
    <2>2. 0 \in 0..N /\ Holds(f[0], 0)
      BY <1>0, <2>1
    <2> QED
      BY <2>2
  <1>5. \A n \in 0..(N - 1) : n \in S => n + 1 \in S
    <2> SUFFICES ASSUME NEW n \in 0..(N - 1), Holds(f[n], n)
                 PROVE  n + 1 \in 0..N /\ Holds(f[n + 1], n + 1)
      OBVIOUS
    <2>1. n \in 0..N /\ n + 1 \in 0..N /\ ~(n >= N) /\ n \in Nat
      BY <1>0
    <2> DEFINE x == f[n]
               b == s[n + 1]
    <2>2. f[n + 1] = Collected(x, b) /\ b \in Byte
      BY <1>3, <2>1
    <2> HIDE DEF x, b
    <2>3. x \in Decoders /\ x.inFrame /\ ~x.escaped /\ Len(x.frame) = n /\ x.yielded = d.yielded
      BY DEF x
    <2>4. Collected(x, b) = [x EXCEPT !.frame = Append(@, b), !.escaped = FALSE]
      BY <2>1, <2>3 DEF Collected
    <2>5. Append(x.frame, b) \in Seq(Byte) /\ Len(Append(x.frame, b)) = n + 1
      BY <2>2, <2>3, AppendProperties DEF Decoders
    <2>6. Holds(Collected(x, b), n + 1)
      BY <2>3, <2>4, <2>5 DEF Decoders
    <2> QED
      BY <2>1, <2>2, <2>6
  <1> HIDE DEF S
  <1>6. 0..N \subseteq S
    BY <1>0, <1>4, <1>5, Induction, Zenon
  <1>7. N \in 0..N /\ Holds(f[N], N)
    BY <1>0, <1>6 DEF S
  <1>8. e = Collected(f[N], s[N + 1])
    BY <1>0, <1>2, <1>3, <1>7
  <1>9. ~e.inFrame /\ e.yielded = d.yielded
    <2> DEFINE x == f[N]
    <2>1. x \in Decoders /\ Len(x.frame) >= MaxFrameBytes + 2 /\ x.yielded = d.yielded
      BY <1>0, <1>7
    <2> HIDE DEF x
    <2>2. e = [x EXCEPT !.frame = <<>>, !.inFrame = FALSE, !.escaped = FALSE]
      BY <1>8, <2>1 DEF Collected, x
    <2> QED
      BY <2>1, <2>2 DEF Decoders
  <1> QED
    BY <1>1, <1>9

\* spinel.py:184-203 and 225-238: the text that a dongle answers with is read if it
\* is a version, and refused if it is not, whatever the line carried before and
\* after it, as long as nothing before it decodes to a frame with the header of an
\* answer: frames of other transactions, frames that were cut off, bytes of no frame
\* at all.
THEOREM AnswersAreRead ==
  ASSUME NEW before \in Seq(Byte), NEW after \in Seq(Byte),
         NEW t \in Seq(1..255), Len(t) + 4 <= MaxFrameBytes,
         \A i \in DOMAIN Decode(before \o <<Flag>>) : ~IsAnswer(Decode(before \o <<Flag>>)[i])
  PROVE  VersionIn(before \o Frame(<<Header, 6, 2>> \o t \o <<0>>) \o after)
           = IF IsVersion(t) THEN t ELSE Unread
  <1> DEFINE payload == <<Header, 6, 2>> \o t \o <<0>>
             stream == before \o Frame(payload) \o after
             ahead == Decode(before \o <<Flag>>)
             yielded == Decode(stream)
             answers == {i \in DOMAIN yielded : IsAnswer(yielded[i])}
             first == CHOOSE i \in answers : \A j \in answers : i <= j
  <1>1. /\ payload \in Seq(Byte) /\ Len(payload) = Len(t) + 4
        /\ payload[1] = Header
        /\ TextOf(payload) = IF IsVersion(t) THEN t ELSE Unread
    BY TextIsRead
  <1> HIDE DEF payload
  <1>2. payload # <<>> /\ Len(payload) <= MaxFrameBytes
    <2>1. Len(t) \in Nat /\ Len(<<>>) = 0
      BY LenProperties, EmptySeq
    <2> QED
      BY <1>1, <2>1
  <1>3. NewDecoder \in Decoders
    <2>1. <<>> \in Seq(Byte) /\ <<>> \in Seq(Seq(Byte))
      BY EmptySeq
    <2> QED
      BY <2>1, Zenon DEF NewDecoder, Decoders
  <1>4. PICK d \in Decoders : Feeds(NewDecoder, before, d)
    BY <1>3, FeedsSome
  <1> DEFINE full == [Ended(d) EXCEPT !.yielded = Append(@, payload)]
  <1>5. /\ Frame(payload) \in Seq(Byte) /\ <<Flag>> \in Seq(Byte)
        /\ Ended(d) \in Decoders /\ Feeds(d, <<Flag>>, Ended(d)) /\ Feeds(d, Frame(payload), full)
    BY <1>1, <1>2, FrameIsDecoded, FlagEnds
  <1>6. /\ before \o <<Flag>> \in Seq(Byte) /\ Feeds(NewDecoder, before \o <<Flag>>, Ended(d))
        /\ before \o Frame(payload) \in Seq(Byte) /\ Feeds(NewDecoder, before \o Frame(payload), full)
    <2> HIDE DEF full
    <2> QED
      BY <1>4, <1>5, FeedsBoth, ConcatProperties
  <1>7. ahead = Ended(d).yielded /\ ahead \in Seq(Seq(Byte)) /\ Len(ahead) \in Nat
    <2>1. ahead = Ended(d).yielded
      BY <1>6, DecodeIs
    <2> QED
      BY <1>5, <2>1, LenProperties DEF Decoders
  <1> HIDE DEF ahead
  <1>8. full \in Decoders /\ full.yielded = Append(ahead, payload)
    <2>1. Ended(d) = [frame |-> <<>>, inFrame |-> TRUE, escaped |-> FALSE, yielded |-> ahead]
      BY <1>7, FlagEnds
    <2>2. full = [frame |-> <<>>, inFrame |-> TRUE, escaped |-> FALSE, yielded |-> Append(ahead, payload)]
      <3>1. full = [Ended(d) EXCEPT !.yielded = Append(ahead, payload)]
        BY <1>7
      <3>2. Ended(d).frame = <<>> /\ Ended(d).inFrame = TRUE /\ Ended(d).escaped = FALSE
        BY <2>1
      <3> HIDE DEF full
      <3> QED
        BY <1>5, <3>1, <3>2, YieldingDecoder
    <2>3. <<>> \in Seq(Byte) /\ Append(ahead, payload) \in Seq(Seq(Byte))
      BY <1>1, <1>7, EmptySeq, AppendOne
    <2> HIDE DEF full, Byte
    <2> QED
      BY <2>2, <2>3 DEF Decoders
  <1> HIDE DEF full
  <1>9. PICK e \in Decoders : Feeds(full, after, e)
    BY <1>8, FeedsSome
  <1>10. Keeps(full, e)
    BY <1>8, <1>9, FeedsKeeps
  <1>11. yielded = e.yielded
    <2>1. stream \in Seq(Byte) /\ Feeds(NewDecoder, stream, e)
      BY <1>6, <1>9, FeedsBoth, ConcatProperties
    <2> QED
      BY <2>1, DecodeIs
  <1> HIDE DEF yielded, stream
  <1>12. /\ DOMAIN yielded = 1..Len(yielded) /\ Len(yielded) \in Nat
         /\ Len(ahead) + 1 <= Len(yielded)
         /\ yielded[Len(ahead) + 1] = payload
         /\ \A i \in 1..Len(ahead) : yielded[i] = ahead[i]
    <2>1. /\ Len(Append(ahead, payload)) = Len(ahead) + 1
          /\ Append(ahead, payload)[Len(ahead) + 1] = payload
          /\ \A i \in 1..Len(ahead) : Append(ahead, payload)[i] = ahead[i]
      BY <1>1, <1>7
    <2>2. yielded \in Seq(Seq(Byte))
      BY <1>11 DEF Decoders
    <2>3. DOMAIN yielded = 1..Len(yielded) /\ Len(yielded) \in Nat
      BY <2>2, LenProperties
    <2>4. /\ Len(ahead) + 1 <= Len(yielded)
          /\ \A i \in 1..(Len(ahead) + 1) : yielded[i] = Append(ahead, payload)[i]
      BY <1>8, <1>10, <1>11, <2>1 DEF Keeps
    <2>5. yielded[Len(ahead) + 1] = payload
      <3>1. Len(ahead) + 1 \in 1..(Len(ahead) + 1)
        BY <1>7
      <3> QED
        BY <2>1, <2>4, <3>1, Zenon
    <2>6. \A i \in 1..Len(ahead) : yielded[i] = ahead[i]
      <3>1. \A i \in 1..Len(ahead) : i \in 1..(Len(ahead) + 1)
        BY <1>7
      <3> QED
        BY <2>1, <2>4, <3>1
    <2> QED
      BY <2>3, <2>4, <2>5, <2>6
  <1>13. Len(ahead) + 1 \in answers
    <2>1. IsAnswer(payload)
      BY <1>1 DEF IsAnswer
    <2> QED
      BY <1>7, <1>12, <2>1
  <1>14. \A i \in answers : i \in Nat /\ Len(ahead) + 1 <= i
    <2> SUFFICES ASSUME NEW i \in 1..Len(yielded), IsAnswer(yielded[i])
                 PROVE  i \in Nat /\ Len(ahead) + 1 <= i
      BY <1>12
    <2>1. CASE i \in 1..Len(ahead)
      <3>1. ~IsAnswer(ahead[i])
        BY <1>7, <2>1, LenProperties DEF ahead
      <3> QED
        BY <1>12, <2>1, <3>1
    <2>2. CASE i \notin 1..Len(ahead)
      BY <1>7, <1>12, <2>2
    <2> QED
      BY <2>1, <2>2
  <1>15. VersionIn(stream) = IF answers = {} THEN Unread ELSE TextOf(yielded[first])
    BY DEF VersionIn, yielded
  <1> HIDE DEF answers
  <1>16. first \in answers /\ first <= Len(ahead) + 1
    <2>1. first \in answers /\ \A j \in answers : first <= j
      BY <1>13, <1>14, Zenon
    <2> QED
      BY <1>13, <2>1
  <1> HIDE DEF first
  <1>17. first = Len(ahead) + 1
    BY <1>7, <1>14, <1>16
  <1>18. VersionIn(stream) = TextOf(payload)
    BY <1>12, <1>13, <1>15, <1>17
  <1> QED
    BY <1>1, <1>18 DEF stream, payload

=============================================================================
