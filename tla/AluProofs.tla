------------------------------ MODULE AluProofs -------------------------------
(* The arithmetic of the two cores, operation by operation: the C expressions *)
(* of AluC equal those of the Sage core in Alu, and their results are bytes   *)
(* and sets of flags.                                                         *)
EXTENDS AluC, TLAPS

(* A carry is 0 or 1; the flag operators keep P a set of flags. *)
LEMMA BitType == ASSUME NEW q, NEW f PROVE Bit(q, f) \in {0, 1}
BY DEF Bit

LEMMA PutType ==
  ASSUME NEW q \in SUBSET Flags, NEW f \in Flags, NEW on
  PROVE  Put(q, f, on) \in SUBSET Flags
BY DEF Put

LEMMA UpdType ==
  ASSUME NEW q \in SUBSET Flags, NEW v
  PROVE  upd_nz(q, v) \in SUBSET Flags
BY PutType DEF upd_nz, Flags

(* The flags are written independently of each other. *)
LEMMA PutsCommute ==
  ASSUME NEW q, NEW v, NEW c, NEW o
  PROVE  upd_nz(Put(Put(q, "C", c), "V", o), v) = Put(upd_nz(Put(q, "V", o), v), "C", c)
BY DEF upd_nz, Put

(* Both forms of the overflow formula say the same. *)
LEMMA OverflowForms ==
  ASSUME NEW x \in Int, NEW y \in Int, NEW r \in Int
  PROVE  Overflow(x, y, r) = (Neg(x) = Neg(y) /\ Neg(x) # Neg(r))
BY DEF Overflow, Neg

(* A value of a uint16_t, and the byte it is cut to *)
LEMMA Uint16 == ASSUME NEW n \in Int, 0 <= n, n < 65536 PROVE n % 65536 = n
OBVIOUS
LEMMA ByteOf == ASSUME NEW n \in Int PROVE n % 256 \in 0..255
OBVIOUS

(* A decimal correction of a sum stays far within the 16 bits the port uses. *)
LEMMA CorrectedIsWord ==
  ASSUME NEW n \in Int, 0 <= n, n <= 517,
         NEW d, d = IF n > 153 THEN n + 96 ELSE n
  PROVE  d \in Int /\ 0 <= d /\ d < 65536
OBVIOUS

(* Addition, in both modes *)
LEMMA AdcAgrees ==
  ASSUME NEW x \in Byte, NEW b \in Byte, NEW q \in SUBSET Flags
  PROVE  /\ c_adc(x, b, q) = adc(x, b, q)
         /\ adc(x, b, q).v \in Byte /\ adc(x, b, q).p \in SUBSET Flags
<1> DEFINE c == Bit(q, "C")
           sum == x + b + c
           r == sum % 256
           over == Neg(x) = Neg(b) /\ Neg(x) # Neg(r)
<1>1. c \in {0, 1} /\ x \in 0..255 /\ b \in 0..255
  BY BitType DEF Byte
<1>2. /\ sum \in Int /\ 0 <= sum /\ sum <= 511
      /\ r \in 0..255
  <2>1. sum \in Int /\ 0 <= sum /\ sum <= 511
    BY <1>1
  <2> HIDE DEF sum
  <2>. QED
    BY <2>1, ByteOf
<1>3. Overflow(x, b, r) = over
  BY <1>1, <1>2, OverflowForms
<1>4. CASE "D" \in q
  <2> DEFINE low == (x % 16) + (b % 16) + c
             d0 == IF low > 9 THEN sum + 6 ELSE sum
             d == IF d0 > 153 THEN d0 + 96 ELSE d0
             w == upd_nz(Put(q, "V", over), r)
  <2>1. d \in Int /\ 0 <= d /\ d < 65536
    <3>1. d0 \in Int /\ 0 <= d0 /\ d0 <= 517
      <4> HIDE DEF sum, low
      <4>. QED
        BY <1>2
    <3> HIDE DEF d0
    <3>2. d = IF d0 > 153 THEN d0 + 96 ELSE d0
      OBVIOUS
    <3> HIDE DEF d
    <3>. QED
      BY <3>1, <3>2, CorrectedIsWord
  <2>2. d % 65536 = d /\ d % 256 \in 0..255
    <3> HIDE DEF d
    <3>. QED
      BY <2>1, Uint16, ByteOf
  <2>3. adc(x, b, q) = [v |-> d % 256, p |-> Put(w, "C", d > 255)]
    BY <1>4 DEF adc, adc_decimal_nmos
  <2>4. c_adc(x, b, q) = [v |-> (d % 65536) % 256,
                          p |-> Put(upd_nz(Put(q, "V", Overflow(x, b, r)), r), "C", d % 65536 > 255)]
    BY <1>4 DEF c_adc
  <2>5. Put(w, "C", d > 255) \in SUBSET Flags
    <3>1. w \in SUBSET Flags
      BY PutType, UpdType DEF Flags
    <3> HIDE DEF w, d
    <3>. QED
      BY <3>1, PutType DEF Flags
  <2> HIDE DEF d, w
  <2>6. c_adc(x, b, q) = [v |-> d % 256, p |-> Put(w, "C", d > 255)]
    BY <1>3, <2>2, <2>4 DEF w
  <2>. QED
    BY <2>2, <2>3, <2>5, <2>6 DEF Byte
<1>5. CASE "D" \notin q
  <2>1. adc(x, b, q) = [v |-> r, p |-> upd_nz(Put(Put(q, "C", sum > 255), "V", over), r)]
    BY <1>5 DEF adc, adc_binary
  <2>2. c_adc(x, b, q)
          = [v |-> r, p |-> Put(upd_nz(Put(q, "V", Overflow(x, b, r)), r), "C", sum > 255)]
    BY <1>5 DEF c_adc
  <2> HIDE DEF sum, r, over
  <2>3. upd_nz(Put(Put(q, "C", sum > 255), "V", over), r) \in SUBSET Flags
    BY PutType, UpdType DEF Flags
  <2>. QED
    BY <1>2, <1>3, <2>1, <2>2, <2>3, PutsCommute DEF Byte
<1>. QED
  BY <1>4, <1>5

(* Subtraction in binary mode: the port adds the complement. *)
LEMMA SbcBinaryAgrees ==
  ASSUME NEW x \in Byte, NEW b \in Byte, NEW q \in SUBSET Flags
  PROVE  /\ c_sbc_binary(x, b, q) = sbc_binary(x, b, q)
         /\ sbc_binary(x, b, q).v \in Byte /\ sbc_binary(x, b, q).p \in SUBSET Flags
<1> DEFINE c == Bit(q, "C")
           diff == x - b - (1 - c)
           r == diff % 256
           sum == x + (255 - b) + c
           over == Neg(x) # Neg(r) /\ Neg(x) # Neg(b)
<1>1. c \in {0, 1} /\ x \in 0..255 /\ b \in 0..255
  BY BitType DEF Byte
<1>2. sum = diff + 256 /\ diff \in (-256)..255 /\ sum \in Int
  BY <1>1
<1>3. sum % 256 = r /\ r \in 0..255 /\ (sum >= 256) = (diff >= 0)
  BY <1>2
<1>4. Overflow(x, 255 - b, r) = over
  <2>1. Neg(255 - b) = ~Neg(b)
    BY <1>1 DEF Neg
  <2> HIDE DEF r
  <2>. QED
    BY <1>1, <1>3, <2>1 DEF Overflow, Neg
<1>5. sbc_binary(x, b, q) = [v |-> r, p |-> upd_nz(Put(Put(q, "C", diff >= 0), "V", over), r)]
  BY DEF sbc_binary
<1>6. c_sbc_binary(x, b, q)
        = [v |-> sum % 256,
           p |-> upd_nz(Put(Put(q, "C", sum >= 256), "V", Overflow(x, 255 - b, sum % 256)), sum % 256)]
  BY DEF c_sbc_binary
<1> HIDE DEF sum, diff, r, over
<1>7. upd_nz(Put(Put(q, "C", diff >= 0), "V", over), r) \in SUBSET Flags
  BY PutType, UpdType DEF Flags
<1>. QED
  BY <1>3, <1>4, <1>5, <1>6, <1>7 DEF Byte

(* Subtraction in decimal mode *)
LEMMA SbcDecimalAgrees ==
  ASSUME NEW x \in Byte, NEW b \in Byte, NEW q \in SUBSET Flags
  PROVE  /\ c_sbc_decimal(x, b, q) = sbc_decimal_nmos(x, b, q)
         /\ sbc_decimal_nmos(x, b, q).v \in Byte
         /\ sbc_decimal_nmos(x, b, q).p \in SUBSET Flags
<1> DEFINE c == Bit(q, "C")
           r == (x - b - (1 - c)) % 256
           low0 == (x % 16) - (b % 16) - (1 - c)
           high0 == (x \div 16) - (b \div 16)
           low == IF low0 < 0 THEN low0 + 10 ELSE low0
           high1 == IF low0 < 0 THEN high0 - 1 ELSE high0
           high == IF high1 < 0 THEN high1 + 10 ELSE high1
           over == Neg(x) # Neg(r) /\ Neg(x) # Neg(b)
           st == Put(upd_nz(Put(q, "V", over), r), "C", high1 >= 0)
<1>1. c \in {0, 1} /\ x \in 0..255 /\ b \in 0..255
  BY BitType DEF Byte
<1>2. /\ low0 \in (-16)..15 /\ high0 \in (-15)..15
  BY <1>1
<1>3. low \in (-6)..15 /\ high1 \in (-16)..15
  <2> HIDE DEF low0, high0
  <2>. QED
    BY <1>2
<1>4. high \in Int /\ (high1 >= 0) = ~(high1 < 0)
  <2> HIDE DEF high1
  <2>. QED
    BY <1>3
<1>5. Digits(high, low) \in Byte
  <2> HIDE DEF high, low
  <2>. QED
    BY <1>3, <1>4 DEF Digits, Byte
<1>6. high0 - (IF low0 < 0 THEN 1 ELSE 0) = high1
  <2> HIDE DEF low0, high0
  <2>. QED
    BY <1>2
<1>7. sbc_decimal_nmos(x, b, q) = [v |-> Digits(high, low), p |-> st]
  BY DEF sbc_decimal_nmos
<1>8. c_sbc_decimal(x, b, q)
        = LET h == high0 - (IF low0 < 0 THEN 1 ELSE 0)
          IN [v |-> Digits(IF h < 0 THEN h + 10 ELSE h, low),
              p |-> Put(upd_nz(Put(q, "V", over), r), "C", ~(h < 0))]
  BY DEF c_sbc_decimal
<1>9. st \in SUBSET Flags
  <2> HIDE DEF over, r, high1
  <2>. QED
    BY PutType, UpdType DEF Flags
<1> HIDE DEF low0, high0, high1, low, over, r
<1>10. c_sbc_decimal(x, b, q) = [v |-> Digits(high, low), p |-> st]
  BY <1>4, <1>6, <1>8
<1> HIDE DEF high, st
<1>. QED
  BY <1>5, <1>7, <1>9, <1>10

(* The whole of SBC *)
LEMMA SbcAgrees ==
  ASSUME NEW x \in Byte, NEW b \in Byte, NEW q \in SUBSET Flags
  PROVE  c_sbc(x, b, q) = sbc(x, b, q) /\ sbc(x, b, q).v \in Byte /\ sbc(x, b, q).p \in SUBSET Flags
BY SbcBinaryAgrees, SbcDecimalAgrees DEF c_sbc, sbc

LEMMA FlagsOfCompare ==
  ASSUME NEW q \in SUBSET Flags, NEW v, NEW on
  PROVE  Put(upd_nz(q, v), "C", on) \in SUBSET Flags
BY UpdType, PutType DEF Flags

LEMMA CompareAgrees ==
  ASSUME NEW x \in Byte, NEW b \in Byte, NEW q \in SUBSET Flags
  PROVE  c_compare(x, b, q) = compare(x, b, q) /\ compare(x, b, q) \in SUBSET Flags
<1>1. c_compare(x, b, q) = compare(x, b, q)
  BY DEF c_compare, compare
<1>2. Put(upd_nz(q, (x - b) % 256), "C", x >= b) \in SUBSET Flags
  BY FlagsOfCompare
<1>. QED
  BY <1>1, <1>2 DEF compare

LEMMA ShiftAgrees ==
  ASSUME NEW op \in {"ASL", "LSR", "ROL", "ROR"}, NEW x \in Byte, NEW q \in SUBSET Flags
  PROVE  /\ c_shift(op, x, q) = shift(op, x, q)
         /\ shift(op, x, q).v \in Byte /\ shift(op, x, q).p \in SUBSET Flags
<1> DEFINE c == Bit(q, "C")
           r == CASE op = "ASL" -> (x * 2) % 256
                  [] op = "LSR" -> x \div 2
                  [] op = "ROL" -> ((x * 2) % 256) + c
                  [] op = "ROR" -> x \div 2 + 128 * c
           out == IF op \in {"ASL", "ROL"} THEN Neg(x) ELSE x % 2 = 1
<1>1. c \in {0, 1} /\ x \in 0..255
  BY BitType DEF Byte
<1>2. r \in Byte
  <2>1. (x * 2) % 256 \in 0..254 /\ x \div 2 \in 0..127
    BY <1>1
  <2> HIDE DEF c
  <2>. QED
    BY <1>1, <2>1 DEF Byte
<1>3. c * 128 = 128 * c
  BY <1>1
<1>4. shift(op, x, q) = [v |-> r, p |-> upd_nz(Put(q, "C", out), r)]
  BY DEF shift
<1>5. c_shift(op, x, q) = shift(op, x, q)
  BY <1>3 DEF c_shift, shift
<1> HIDE DEF r, out
<1>6. upd_nz(Put(q, "C", out), r) \in SUBSET Flags
  BY PutType, UpdType DEF Flags
<1>. QED
  BY <1>2, <1>4, <1>5, <1>6

(* The bits of a byte put together again make a byte. *)
LEMMA ByteOfBits == ASSUME NEW s PROVE byte_of(s) \in Byte
BY DEF byte_of, Byte

LEMMA BitwiseType ==
  ASSUME NEW x, NEW y
  PROVE  byte_and(x, y) \in Byte /\ byte_or(x, y) \in Byte /\ byte_xor(x, y) \in Byte
BY ByteOfBits DEF byte_and, byte_or, byte_xor

(* What is pushed of a status is a byte, what is pulled a status. *)
LEMMA StatusType ==
  ASSUME NEW q, NEW on, NEW v
  PROVE  to_push_byte(q, on) \in Byte /\ from_byte(v) \in SUBSET Flags
BY DEF to_push_byte, from_byte, Mask, Byte, Flags

(* The bits of a sum of distinct weights, seven of them with a factor *)
LEMMA BitsOfSum ==
  ASSUME NEW n \in {0, 1}, NEW v \in {0, 1}, NEW b \in {0, 1}, NEW d \in {0, 1},
         NEW i \in {0, 1}, NEW z \in {0, 1}, NEW c \in {0, 1}, NEW s,
         s = 128 * n + 64 * v + 32 + 16 * b + 8 * d + 4 * i + 2 * z + c
  PROVE  /\ (s \div 128) % 2 = n /\ (s \div 64) % 2 = v /\ (s \div 16) % 2 = b
         /\ (s \div 8) % 2 = d /\ (s \div 4) % 2 = i /\ (s \div 2) % 2 = z
         /\ (s \div 1) % 2 = c
<1>1. /\ s \div 128 = n /\ s \div 64 = 2 * n + v
      /\ s \div 16 = 2 * (4 * n + 2 * v + 1) + b
      /\ s \div 8 = 2 * (8 * n + 4 * v + 2 + b) + d
      /\ s \div 4 = 2 * (16 * n + 8 * v + 4 + 2 * b + d) + i
      /\ s \div 2 = 2 * (32 * n + 16 * v + 8 + 4 * b + 2 * d + i) + z
      /\ s \div 1 = 2 * (64 * n + 32 * v + 16 + 8 * b + 4 * d + 2 * i + z) + c
  OBVIOUS
<1>2. \A h \in Int : \A e \in {0, 1} : (2 * h + e) % 2 = e
  OBVIOUS
<1>3. n = 2 * 0 + n
  OBVIOUS
<1>. QED
  BY <1>1, <1>2, <1>3

(* The status pulled is the status pushed, with U and the B that was pushed. *)
LEMMA StatusRestored ==
  ASSUME NEW q \in SUBSET Flags, NEW on \in BOOLEAN
  PROVE  from_byte(to_push_byte(q, on)) = Put(q \cup {"U"}, "B", on)
<1> DEFINE r == Put(q \cup {"U"}, "B", on)
           b(f) == IF f \in r THEN 1 ELSE 0
           v == to_push_byte(q, on)
<1>1. r \in SUBSET Flags /\ "U" \in r
  BY DEF Put, Flags
<1>2. v = 128 * b("N") + 64 * b("V") + 32 + 16 * b("B") + 8 * b("D") + 4 * b("I")
          + 2 * b("Z") + b("C")
  BY <1>1 DEF to_push_byte, Mask
<1>3. \A f : b(f) \in {0, 1} /\ (b(f) = 1 <=> f \in r)
  OBVIOUS
<1> HIDE DEF r, b, v
<1>4. /\ (v \div 128) % 2 = b("N") /\ (v \div 64) % 2 = b("V") /\ (v \div 16) % 2 = b("B")
      /\ (v \div 8) % 2 = b("D") /\ (v \div 4) % 2 = b("I") /\ (v \div 2) % 2 = b("Z")
      /\ (v \div 1) % 2 = b("C")
  <2> DEFINE bn == b("N") bv == b("V") bb == b("B") bd == b("D")
             bi == b("I") bz == b("Z") bc == b("C")
  <2>1. /\ bn \in {0, 1} /\ bv \in {0, 1} /\ bb \in {0, 1} /\ bd \in {0, 1}
        /\ bi \in {0, 1} /\ bz \in {0, 1} /\ bc \in {0, 1}
        /\ v = 128 * bn + 64 * bv + 32 + 16 * bb + 8 * bd + 4 * bi + 2 * bz + bc
    BY <1>2, <1>3
  <2> HIDE DEF bn, bv, bb, bd, bi, bz, bc
  <2>2. /\ (v \div 128) % 2 = bn /\ (v \div 64) % 2 = bv /\ (v \div 16) % 2 = bb
        /\ (v \div 8) % 2 = bd /\ (v \div 4) % 2 = bi /\ (v \div 2) % 2 = bz
        /\ (v \div 1) % 2 = bc
    BY <2>1, BitsOfSum
  <2>. QED
    BY <2>2 DEF bn, bv, bb, bd, bi, bz, bc
<1>5. \A f \in Flags \ {"U"} : (v \div Mask[f]) % 2 = b(f)
  BY <1>4 DEF Flags, Mask
<1>6. \A f \in Flags : (v \div Mask[f]) % 2 = 1 \/ f = "U" <=> f \in r
  BY <1>1, <1>3, <1>5
<1>7. from_byte(v) = r
  BY <1>1, <1>6, ZenonT(30) DEF from_byte, Flags
<1>. QED
  BY <1>7 DEF v, r
=============================================================================
