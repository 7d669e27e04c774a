------------------------- MODULE AccumulatorProofs --------------------------
(* The two cores compute the same for every program of arithmetic            *)
(* instructions, whatever operands it uses.                                  *)
EXTENDS Accumulator, AluProofs

-----------------------------------------------------------------------------
(* The registers stay bytes and sets of flags, and the cores stay in step:   *)
(* each needs the other, so the invariant is their conjunction.              *)
LockStep == TypeOK /\ CoresAgree

LEMMA LockStepInductive == LockStep /\ [Next]_vars => LockStep'
<1> SUFFICES ASSUME LockStep, [Next]_vars PROVE LockStep'
  OBVIOUS
<1>0. a \in Byte /\ p \in SUBSET Flags /\ ca = a /\ cp = p
  BY DEF LockStep, TypeOK, CoresAgree
<1>1. ASSUME NEW b \in Operands, Lda(b) PROVE LockStep'
  <2>1. b \in Byte
    BY OperandsAssumption
  <2>. QED
    BY <1>0, <1>1, <2>1, UpdType DEF Lda, LockStep, TypeOK, CoresAgree
<1>2. ASSUME NEW b \in Operands, Adc(b) PROVE LockStep'
  <2>1. b \in Byte
    BY OperandsAssumption
  <2>. QED
    BY <1>0, <1>2, <2>1, AdcAgrees DEF Adc, LockStep, TypeOK, CoresAgree
<1>3. ASSUME NEW b \in Operands, Sbc(b) PROVE LockStep'
  <2>1. b \in Byte
    BY OperandsAssumption
  <2>. QED
    BY <1>0, <1>3, <2>1, SbcAgrees DEF Sbc, LockStep, TypeOK, CoresAgree
<1>4. ASSUME NEW b \in Operands, Cmp(b) PROVE LockStep'
  <2>1. b \in Byte
    BY OperandsAssumption
  <2>. QED
    BY <1>0, <1>4, <2>1, CompareAgrees DEF Cmp, LockStep, TypeOK, CoresAgree
<1>5. ASSUME NEW f \in {"C", "D", "V"}, NEW on \in BOOLEAN, SetFlag(f, on) PROVE LockStep'
  <2>1. f \in Flags
    BY DEF Flags
  <2>. QED
    BY <1>0, <1>5, <2>1, PutType DEF SetFlag, LockStep, TypeOK, CoresAgree
<1>6. ASSUME NEW op \in {"ASL", "LSR", "ROL", "ROR"}, Shift(op) PROVE LockStep'
  BY <1>0, <1>6, ShiftAgrees DEF Shift, LockStep, TypeOK, CoresAgree
<1>7. CASE UNCHANGED vars
  BY <1>0, <1>7 DEF vars, LockStep, TypeOK, CoresAgree
<1>. QED
  BY <1>1, <1>2, <1>3, <1>4, <1>5, <1>6, <1>7 DEF Next

LEMMA LockStepInvariant == Spec => []LockStep
<1>1. Init => LockStep
  BY DEF Init, LockStep, TypeOK, CoresAgree, Byte, Flags
<1>. QED
  BY <1>1, LockStepInductive, PTL DEF Spec

(* The accumulator stays a byte and P a set of flags on both cores: no sum,  *)
(* difference or digit correction of adc, sbc or shift escapes its mask.     *)
THEOREM RegistersTyped == Spec => []TypeOK
<1>1. LockStep => TypeOK
  BY DEF LockStep
<1>. QED
  BY <1>1, LockStepInvariant, PTL

(* The C port's arithmetic is that of the Sage core, for any operands, any   *)
(* sequence of instructions, binary or decimal, BCD or not.                  *)
THEOREM PortIsFaithful == Spec => []CoresAgree
<1>1. LockStep => CoresAgree
  BY DEF LockStep
<1>. QED
  BY <1>1, LockStepInvariant, PTL

(* For every accumulator and operand, binary ADC is exact. *)
LEMMA AdcExact ==
  ASSUME NEW x \in Byte, NEW b \in Byte, NEW q \in SUBSET Flags, "D" \notin q
  PROVE  LET s == adc(x, b, q)
             c == Bit(q, "C")
         IN /\ s.v + 256 * Bit(s.p, "C") = x + b + c
            /\ ("V" \in s.p) = (Signed(x) + Signed(b) + c \notin (-128)..127)
<1> DEFINE c == Bit(q, "C")
           sum == x + b + c
           r == sum % 256
           over == Neg(x) = Neg(b) /\ Neg(x) # Neg(r)
           st == upd_nz(Put(Put(q, "C", sum > 255), "V", over), r)
<1>1. c \in {0, 1} /\ x \in 0..255 /\ b \in 0..255
  BY BitType DEF Byte
<1>2. adc(x, b, q) = [v |-> r, p |-> st]
  BY DEF adc, adc_binary
<1>3. Bit(st, "C") = (IF sum > 255 THEN 1 ELSE 0) /\ ("V" \in st) = over
  <2>1. (sum > 255) \in BOOLEAN /\ over \in BOOLEAN
    BY <1>1
  <2> HIDE DEF sum, over, r
  <2>2. ("C" \in st) = (sum > 255)
    BY <2>1 DEF upd_nz, Put
  <2>3. ("V" \in st) = over
    BY <2>1 DEF upd_nz, Put
  <2>. QED
    BY <2>1, <2>2, <2>3 DEF Bit
<1>4. r = IF sum > 255 THEN sum - 256 ELSE sum
  <2>1. sum \in 0..511
    BY <1>1
  <2> HIDE DEF sum
  <2>. QED
    BY <2>1
<1>5. over = (Signed(x) + Signed(b) + c \notin (-128)..127)
  <2> HIDE DEF r, c
  <2>. QED
    BY <1>1, <1>4 DEF Signed, Neg
<1> HIDE DEF st, over, r
<1>. QED
  BY SMTT(30), <1>1, <1>2, <1>3, <1>4, <1>5

(* For every accumulator and operand, binary SBC is exact. *)
LEMMA SbcExact ==
  ASSUME NEW x \in Byte, NEW b \in Byte, NEW q \in SUBSET Flags, "D" \notin q
  PROVE  LET d == sbc(x, b, q)
             c == Bit(q, "C")
         IN /\ d.v - 256 * (1 - Bit(d.p, "C")) = x - b - (1 - c)
            /\ ("V" \in d.p) = (Signed(x) - Signed(b) - (1 - c) \notin (-128)..127)
<1> DEFINE c == Bit(q, "C")
           diff == x - b - (1 - c)
           r == diff % 256
           over == Neg(x) # Neg(r) /\ Neg(x) # Neg(b)
           st == upd_nz(Put(Put(q, "C", diff >= 0), "V", over), r)
<1>1. c \in {0, 1} /\ x \in 0..255 /\ b \in 0..255
  BY BitType DEF Byte
<1>2. sbc(x, b, q) = [v |-> r, p |-> st]
  BY DEF sbc, sbc_binary
<1>3. Bit(st, "C") = (IF diff >= 0 THEN 1 ELSE 0) /\ ("V" \in st) = over
  <2>1. (diff >= 0) \in BOOLEAN /\ over \in BOOLEAN
    BY <1>1
  <2> HIDE DEF diff, over, r
  <2>2. ("C" \in st) = (diff >= 0)
    BY <2>1 DEF upd_nz, Put
  <2>3. ("V" \in st) = over
    BY <2>1 DEF upd_nz, Put
  <2>. QED
    BY <2>1, <2>2, <2>3 DEF Bit
<1>4. r = IF diff >= 0 THEN diff ELSE diff + 256
  <2>1. diff \in (-256)..255
    BY <1>1
  <2> HIDE DEF diff
  <2>. QED
    BY <2>1
<1>5. over = (Signed(x) - Signed(b) - (1 - c) \notin (-128)..127)
  <2> HIDE DEF r, c
  <2>. QED
    BY SMTT(30), <1>1, <1>4 DEF Signed, Neg
<1> HIDE DEF st, over, r
<1>. QED
  BY <1>1, <1>2, <1>3, <1>4, <1>5

(* In binary mode ADC and SBC of the Sage core are exact, unsigned through   *)
(* the carry and signed through V, in every state a program can reach.       *)
THEOREM BinaryArithmeticExact == Spec => []BinaryExact
<1>1. LockStep => BinaryExact
  <2> SUFFICES ASSUME a \in Byte, p \in SUBSET Flags, "D" \notin p, NEW b \in Byte
               PROVE  LET s == adc(a, b, p)
                          d == sbc(a, b, p)
                          c == Bit(p, "C")
                          st == Signed(a) + Signed(b) + c
                          dt == Signed(a) - Signed(b) - (1 - c)
                      IN /\ s.v + 256 * Bit(s.p, "C") = a + b + c
                         /\ d.v - 256 * (1 - Bit(d.p, "C")) = a - b - (1 - c)
                         /\ ("V" \in s.p) = (st \notin (-128)..127)
                         /\ ("V" \in d.p) = (dt \notin (-128)..127)
    BY DEF LockStep, TypeOK, BinaryExact
  <2>. QED
    BY AdcExact, SbcExact
<1>. QED
  BY <1>1, LockStepInvariant, PTL

-----------------------------------------------------------------------------
(* A byte is two digits, and two decimal digits make a BCD byte. *)
LEMMA TwoDigits ==
  ASSUME NEW x \in Byte
  PROVE  x = 16 * (x \div 16) + (x % 16) /\ x \div 16 \in Nat /\ x % 16 \in Nat
<1>1. x \in 0..255
  BY DEF Byte
<1>2. x = 16 * (x \div 16) + (x % 16)
  BY <1>1
<1>3. x \div 16 \in Nat
  BY <1>1
<1>4. x % 16 \in Nat
  BY <1>1
<1>. QED
  BY <1>2, <1>3, <1>4

LEMMA BcdByte ==
  ASSUME NEW h \in 0..9, NEW l \in 0..9
  PROVE  Bcd(16 * h + l) /\ Decimal(16 * h + l) = 10 * h + l
<1>1. (16 * h + l) % 16 = l /\ (16 * h + l) \div 16 = h
  OBVIOUS
<1>. QED
  BY <1>1 DEF Bcd, Decimal

(* A digit that passes nine carries ten of its units into the next one. *)
Wrapped(n) == IF n > 9 THEN n - 10 ELSE n

(* Decimal ADC of BCD operands is exact. *)
LEMMA AdcDecimalExact ==
  ASSUME NEW x \in Byte, NEW b \in Byte, NEW q \in SUBSET Flags, "D" \in q, Bcd(x), Bcd(b)
  PROVE  LET s == adc(x, b, q)
         IN /\ Bcd(s.v)
            /\ Decimal(s.v) + 100 * Bit(s.p, "C") = Decimal(x) + Decimal(b) + Bit(q, "C")
<1> DEFINE c == Bit(q, "C")
           h == x \div 16
           l == x % 16
           k == b \div 16
           m == b % 16
           sum == x + b + c
           units == l + m + c
           tens == h + k + (IF units > 9 THEN 1 ELSE 0)
           low == IF units > 9 THEN sum + 6 ELSE sum
           d == IF low > 153 THEN low + 96 ELSE low
           w == upd_nz(Put(q, "V", Neg(x) = Neg(b) /\ Neg(x) # Neg(sum % 256)), sum % 256)
<1>1. /\ h \in 0..9 /\ l \in 0..9 /\ k \in 0..9 /\ m \in 0..9 /\ c \in {0, 1}
      /\ x = 16 * h + l /\ b = 16 * k + m
  <2>1. h < 10 /\ l < 10 /\ k < 10 /\ m < 10
    BY DEF Bcd
  <2>2. x = 16 * h + l /\ h \in Nat /\ l \in Nat
    BY TwoDigits
  <2>3. b = 16 * k + m /\ k \in Nat /\ m \in Nat
    BY TwoDigits
  <2>4. c \in {0, 1}
    BY BitType
  <2> HIDE DEF h, l, k, m, c
  <2>. QED
    BY <2>1, <2>2, <2>3, <2>4
<1>2. adc(x, b, q) = [v |-> d % 256, p |-> Put(w, "C", d > 255)]
  BY DEF adc, adc_decimal_nmos
<1>3. Decimal(x) = 10 * h + l /\ Decimal(b) = 10 * k + m
  BY <1>1, BcdByte
<1>4. /\ sum = 16 * h + l + 16 * k + m + c
      /\ units = l + m + c /\ units \in 0..19
      /\ low = IF units > 9 THEN sum + 6 ELSE sum
  BY <1>1
<1>5. d = IF low > 153 THEN low + 96 ELSE low
  OBVIOUS
<1> HIDE DEF c, h, l, k, m, sum, units, low
<1>6. /\ Wrapped(units) \in 0..9 /\ tens \in 0..19
      /\ units - Wrapped(units) = IF units > 9 THEN 10 ELSE 0
      /\ low = 16 * tens + Wrapped(units)
  BY <1>1, <1>4 DEF Wrapped
<1> HIDE DEF tens
<1>7. /\ Wrapped(tens) \in 0..9
      /\ tens - Wrapped(tens) = IF tens > 9 THEN 10 ELSE 0
  BY <1>6 DEF Wrapped
<1>8. d % 256 = 16 * Wrapped(tens) + Wrapped(units) /\ (d > 255) = (tens > 9)
  <2> DEFINE u == Wrapped(units)
             t == Wrapped(tens)
  <2>1. /\ u \in 0..9 /\ t \in 0..9 /\ tens \in 0..19
        /\ low = 16 * tens + u /\ tens - t = IF tens > 9 THEN 10 ELSE 0
    BY <1>6, <1>7
  <2> HIDE DEF u, t, d
  <2>2. d % 256 = 16 * t + u /\ (d > 255) = (tens > 9)
    BY <1>5, <2>1
  <2>. QED
    BY <2>2 DEF u, t
<1>9. Bcd(d % 256) /\ Decimal(d % 256) = 10 * Wrapped(tens) + Wrapped(units)
  BY <1>6, <1>7, <1>8, BcdByte
<1>10. Bit(adc(x, b, q).p, "C") = IF tens > 9 THEN 1 ELSE 0
  <2> HIDE DEF w, d
  <2>. QED
    BY <1>2, <1>6, <1>8 DEF Put, Bit
<1>11. 10 * Wrapped(tens) + Wrapped(units) + 100 * (IF tens > 9 THEN 1 ELSE 0)
         = (10 * h + l) + (10 * k + m) + c
  <2> DEFINE u == Wrapped(units)
             t == Wrapped(tens)
  <2>1. tens = h + k + (IF units > 9 THEN 1 ELSE 0)
    BY DEF tens
  <2>2. u \in 0..9 /\ t \in 0..9
    BY <1>6, <1>7
  <2>3. u = (IF units > 9 THEN units - 10 ELSE units) /\ t = (IF tens > 9 THEN tens - 10 ELSE tens)
    BY <1>4, <1>6, <1>7
  <2> HIDE DEF u, t
  <2>4. 10 * tens + u = (10 * h + l) + (10 * k + m) + c
    BY <1>1, <1>4, <2>1, <2>2, <2>3
  <2>5. 10 * t + u + 100 * (IF tens > 9 THEN 1 ELSE 0) = 10 * tens + u
    BY <1>6, <2>2, <2>3
  <2>. QED
    BY <2>4, <2>5 DEF u, t
<1>12. adc(x, b, q).v = d % 256
  BY <1>2
<1> HIDE DEF d
<1>. QED
  BY <1>3, <1>9, <1>10, <1>11, <1>12 DEF c

(* Decimal SBC of BCD operands is exact. *)
LEMMA SbcDecimalExact ==
  ASSUME NEW x \in Byte, NEW b \in Byte, NEW q \in SUBSET Flags, "D" \in q, Bcd(x), Bcd(b)
  PROVE  LET d == sbc(x, b, q)
         IN /\ Bcd(d.v)
            /\ Decimal(d.v) - 100 * (1 - Bit(d.p, "C"))
                 = Decimal(x) - Decimal(b) - (1 - Bit(q, "C"))
<1> DEFINE c == Bit(q, "C")
           h == x \div 16
           l == x % 16
           k == b \div 16
           m == b % 16
           r == (x - b - (1 - c)) % 256
           low0 == l - m - (1 - c)
           high0 == h - k
           low == IF low0 < 0 THEN low0 + 10 ELSE low0
           high1 == IF low0 < 0 THEN high0 - 1 ELSE high0
           high == IF high1 < 0 THEN high1 + 10 ELSE high1
           w == upd_nz(Put(q, "V", Neg(x) # Neg(r) /\ Neg(x) # Neg(b)), r)
<1>1. /\ h \in 0..9 /\ l \in 0..9 /\ k \in 0..9 /\ m \in 0..9 /\ c \in {0, 1}
      /\ x = 16 * h + l /\ b = 16 * k + m
  <2>1. h < 10 /\ l < 10 /\ k < 10 /\ m < 10
    BY DEF Bcd
  <2>2. x = 16 * h + l /\ h \in Nat /\ l \in Nat
    BY TwoDigits
  <2>3. b = 16 * k + m /\ k \in Nat /\ m \in Nat
    BY TwoDigits
  <2>4. c \in {0, 1}
    BY BitType
  <2> HIDE DEF h, l, k, m, c
  <2>. QED
    BY <2>1, <2>2, <2>3, <2>4
<1>2. sbc(x, b, q) = [v |-> Digits(high, low), p |-> Put(w, "C", high1 >= 0)]
  BY DEF sbc, sbc_decimal_nmos
<1>3. Decimal(x) = 10 * h + l /\ Decimal(b) = 10 * k + m
  BY <1>1, BcdByte
<1> HIDE DEF w, r, c, h, l, k, m
<1>4. low \in 0..9 /\ high \in 0..9 /\ high1 \in (-10)..9
  BY <1>1
<1>5. Digits(high, low) = 16 * high + low
  <2> HIDE DEF high, low
  <2>. QED
    BY <1>4 DEF Digits
<1>6. Bit(sbc(x, b, q).p, "C") = IF high1 >= 0 THEN 1 ELSE 0
  <2> HIDE DEF high1, high, low
  <2>. QED
    BY <1>2, <1>4 DEF Put, Bit
<1>7. 10 * high + low - 100 * (1 - (IF high1 >= 0 THEN 1 ELSE 0))
        = (10 * h + l) - (10 * k + m) - (1 - c)
  BY <1>1
<1> HIDE DEF high, low, high1
<1>8. Bcd(16 * high + low) /\ Decimal(16 * high + low) = 10 * high + low
  BY <1>4, BcdByte
<1>9. sbc(x, b, q).v = 16 * high + low
  BY <1>2, <1>5
<1>10. /\ Decimal(sbc(x, b, q).v) = 10 * high + low
       /\ Decimal(x) - Decimal(b) - (1 - Bit(q, "C")) = (10 * h + l) - (10 * k + m) - (1 - c)
  BY <1>3, <1>8, <1>9 DEF c
<1>11. Decimal(sbc(x, b, q).v) - 100 * (1 - Bit(sbc(x, b, q).p, "C"))
         = Decimal(x) - Decimal(b) - (1 - Bit(q, "C"))
  <2>1. CASE high1 >= 0
    <3>1. 10 * high + low = (10 * h + l) - (10 * k + m) - (1 - c)
      BY <1>1, <1>4, <1>7, <2>1
    <3>2. Bit(sbc(x, b, q).p, "C") = 1
      BY <1>6, <2>1
    <3>. QED
      BY <1>1, <1>4, <1>10, <3>1, <3>2
  <2>2. CASE ~(high1 >= 0)
    <3>1. 10 * high + low - 100 = (10 * h + l) - (10 * k + m) - (1 - c)
      BY <1>1, <1>4, <1>7, <2>2
    <3>2. Bit(sbc(x, b, q).p, "C") = 0
      BY <1>6, <2>2
    <3>. QED
      BY <1>1, <1>4, <1>10, <3>1, <3>2
  <2>. QED
    BY <2>1, <2>2
<1>12. Bcd(sbc(x, b, q).v)
  BY <1>8, <1>9
<1>. QED
  BY <1>11, <1>12

(* In decimal mode ADC and SBC of the Sage core give the decimal sum and     *)
(* difference of BCD operands as BCD, in every state a program can reach:    *)
(* longer decimal numbers may be chained through the carry.                  *)
THEOREM DecimalArithmeticExact == Spec => []DecimalExact
<1>1. LockStep => DecimalExact
  <2> SUFFICES ASSUME a \in Byte, p \in SUBSET Flags, "D" \in p, Bcd(a),
                      NEW b \in {x \in Byte : Bcd(x)}
               PROVE  LET s == adc(a, b, p)
                          d == sbc(a, b, p)
                          c == Bit(p, "C")
                      IN /\ Bcd(s.v) /\ Bcd(d.v)
                         /\ Decimal(s.v) + 100 * Bit(s.p, "C") = Decimal(a) + Decimal(b) + c
                         /\ Decimal(d.v) - 100 * (1 - Bit(d.p, "C"))
                              = Decimal(a) - Decimal(b) - (1 - c)
    BY DEF LockStep, TypeOK, DecimalExact
  <2>. QED
    BY AdcDecimalExact, SbcDecimalExact
<1>. QED
  BY <1>1, LockStepInvariant, PTL

-----------------------------------------------------------------------------
(* The accumulator with the carry as its ninth bit, after a rotation left of *)
(* the byte and status in r                                                  *)
Ring(r) == r.v + 256 * Bit(r.p, "C")
Rotated(r) == shift("ROL", r.v, r.p)
Registers == [v : Byte, p : SUBSET Flags]

LEMMA RingValue ==
  ASSUME NEW r \in Registers
  PROVE  Ring(r) \in 0..511 /\ (Ring(r) >= 256) = ("C" \in r.p) /\ r.v = Ring(r) % 256
<1>1. r.v \in 0..255 /\ Bit(r.p, "C") = IF "C" \in r.p THEN 1 ELSE 0
  BY DEF Registers, Byte, Bit
<1>. QED
  BY <1>1 DEF Ring

(* N and Z leave the bit that was shifted out in C. *)
LEMMA ShiftedOut ==
  ASSUME NEW q, NEW on \in BOOLEAN, NEW v
  PROVE  ("C" \in upd_nz(Put(q, "C", on), v)) = on
BY DEF upd_nz, Put

(* A rotation left doubles the nine bits modulo 511. *)
LEMMA RolDoubles ==
  ASSUME NEW r \in Registers
  PROVE  /\ Rotated(r) \in Registers
         /\ Ring(Rotated(r)) = 2 * Ring(r) - 511 * Bit(r.p, "C")
         /\ Bit(r.p, "C") = IF Ring(r) >= 256 THEN 1 ELSE 0
<1> DEFINE c == Bit(r.p, "C")
           v == ((r.v * 2) % 256) + c
           st == upd_nz(Put(r.p, "C", Neg(r.v)), v)
<1>1. r.v \in 0..255 /\ c \in {0, 1} /\ r.p \in SUBSET Flags
  BY BitType DEF Registers, Byte
<1>2. Rotated(r) = [v |-> v, p |-> st]
  BY DEF Rotated, shift
<1>3. v \in 0..255 /\ v + 256 * (IF r.v >= 128 THEN 1 ELSE 0) = 2 * r.v + c
  BY <1>1
<1>4. st \in SUBSET Flags /\ Bit(st, "C") = IF r.v >= 128 THEN 1 ELSE 0
  <2>1. Neg(r.v) = (r.v >= 128) /\ Neg(r.v) \in BOOLEAN
    BY <1>1 DEF Neg
  <2> HIDE DEF v
  <2>2. st \in SUBSET Flags
    BY <1>1, PutType, UpdType DEF Flags
  <2>3. ("C" \in st) = Neg(r.v)
    BY <2>1, ShiftedOut
  <2>. QED
    BY <2>1, <2>2, <2>3 DEF Bit
<1>5. c = IF Ring(r) >= 256 THEN 1 ELSE 0
  BY RingValue DEF Bit
<1> HIDE DEF v, st
<1>6. Rotated(r) \in Registers
  BY <1>2, <1>3, <1>4 DEF Registers, Byte
<1>7. Ring(Rotated(r)) = 2 * r.v + c
  BY <1>2, <1>3, <1>4 DEF Ring
<1>8. Ring(Rotated(r)) = 2 * Ring(r) - 511 * c
  <2>1. Ring(r) = r.v + 256 * c
    BY DEF Ring
  <2> HIDE DEF c
  <2>. QED
    BY <1>1, <1>7, <2>1
<1>. QED
  BY <1>5, <1>6, <1>8

(* One doubling modulo 511, and three of them: the upper bits come round.    *)
Doubled(n, m) == m = IF n >= 256 THEN 2 * n - 511 ELSE 2 * n
Eightfold(n, m) ==
  /\ \E k \in 0..7 : m = 8 * n - 511 * k
  /\ n = 0 => m = 0
  /\ n = 511 => m = 511

LEMMA ThreeDoublings ==
  ASSUME NEW n0, NEW n1, NEW n2, NEW n3,
         n0 \in 0..511, n1 \in 0..511, n2 \in 0..511, n3 \in 0..511,
         Doubled(n0, n1), Doubled(n1, n2), Doubled(n2, n3)
  PROVE  Eightfold(n0, n3)
<1> DEFINE c == IF n0 >= 256 THEN 1 ELSE 0
           d == IF n1 >= 256 THEN 1 ELSE 0
           e == IF n2 >= 256 THEN 1 ELSE 0
<1>1. n1 = 2 * n0 - 511 * c /\ n2 = 2 * n1 - 511 * d /\ n3 = 2 * n2 - 511 * e
  BY DEF Doubled
<1>2. c \in {0, 1} /\ d \in {0, 1} /\ e \in {0, 1}
  OBVIOUS
<1>3. (n0 = 0 => n3 = 0) /\ (n0 = 511 => n3 = 511)
  BY DEF Doubled
<1> HIDE DEF c, d, e
<1> DEFINE k == 4 * c + 2 * d + e
<1>4. k \in 0..7 /\ n3 = 8 * n0 - 511 * k
  BY <1>1, <1>2
<1> HIDE DEF k
<1>. QED
  BY <1>3, <1>4 DEF Eightfold

(* Doubled nine times modulo 511, a nine-bit number is itself again. *)
LEMMA NineDoublings ==
  ASSUME NEW n0, NEW n3, NEW n6, NEW n9,
         n0 \in 0..511, n3 \in 0..511, n6 \in 0..511, n9 \in 0..511,
         Eightfold(n0, n3), Eightfold(n3, n6), Eightfold(n6, n9)
  PROVE  n9 = n0
<1>1. PICK j \in 0..7 : n3 = 8 * n0 - 511 * j
  BY DEF Eightfold
<1>2. PICK k \in 0..7 : n6 = 8 * n3 - 511 * k
  BY DEF Eightfold
<1>3. PICK l \in 0..7 : n9 = 8 * n6 - 511 * l
  BY DEF Eightfold
<1>4. (n0 = 0 => n9 = 0) /\ (n0 = 511 => n9 = 511)
  BY DEF Eightfold
<1> DEFINE m == n0 - (64 * j + 8 * k + l)
<1>5. m \in Int /\ n9 = n0 + 511 * m
  BY <1>1, <1>2, <1>3
<1> HIDE DEF m
<1>6. m \in {-1, 0, 1}
  BY <1>5
<1>. QED
  BY <1>4, <1>5, <1>6

LEMMA RolTurns ==
  ASSUME NEW r \in Registers
  PROVE  /\ Rotated(r) \in Registers
         /\ Ring(r) \in 0..511
         /\ Doubled(Ring(r), Ring(Rotated(r)))
<1>1. Rotated(r) \in Registers /\ Ring(r) \in 0..511
  BY RolDoubles, RingValue
<1>2. /\ Ring(Rotated(r)) = 2 * Ring(r) - 511 * Bit(r.p, "C")
      /\ Bit(r.p, "C") = IF Ring(r) >= 256 THEN 1 ELSE 0
  BY RolDoubles
<1>3. CASE Ring(r) >= 256
  BY <1>1, <1>2, <1>3 DEF Doubled
<1>4. CASE ~(Ring(r) >= 256)
  BY <1>1, <1>2, <1>4 DEF Doubled
<1>. QED
  BY <1>1, <1>3, <1>4

LEMMA ThreeTurns ==
  ASSUME NEW r0 \in Registers, NEW r1, NEW r2, NEW r3,
         r1 = Rotated(r0), r2 = Rotated(r1), r3 = Rotated(r2)
  PROVE  r3 \in Registers /\ Ring(r0) \in 0..511 /\ Eightfold(Ring(r0), Ring(r3))
<1>1. r1 \in Registers /\ Ring(r0) \in 0..511 /\ Doubled(Ring(r0), Ring(r1))
  BY RolTurns
<1>2. r2 \in Registers /\ Ring(r1) \in 0..511 /\ Doubled(Ring(r1), Ring(r2))
  BY <1>1, RolTurns
<1>3. r3 \in Registers /\ Ring(r2) \in 0..511 /\ Doubled(Ring(r2), Ring(r3))
  BY <1>2, RolTurns
<1>4. Ring(r3) \in 0..511
  BY <1>3, RolTurns
<1>. QED
  <2> DEFINE n0 == Ring(r0)
             n1 == Ring(r1)
             n2 == Ring(r2)
             n3 == Ring(r3)
  <2>1. /\ n0 \in 0..511 /\ n1 \in 0..511 /\ n2 \in 0..511 /\ n3 \in 0..511
        /\ Doubled(n0, n1) /\ Doubled(n1, n2) /\ Doubled(n2, n3)
    BY <1>1, <1>2, <1>3, <1>4
  <2> HIDE DEF n0, n1, n2, n3
  <2>2. Eightfold(n0, n3)
    BY <2>1, ThreeDoublings
  <2>. QED
    BY <1>1, <1>3, <2>2 DEF n0, n3

(* The nine bits determine both registers. *)
LEMMA RingDetermines ==
  ASSUME NEW r \in Registers, NEW s \in Registers, Ring(r) = Ring(s)
  PROVE  r.v = s.v /\ ("C" \in r.p) = ("C" \in s.p)
BY RingValue

(* A rotation right brings back what a rotation left has moved. *)
LEMMA RorUndoesRol ==
  ASSUME NEW r \in Registers
  PROVE  LET s == Rotated(r)
             back == shift("ROR", s.v, s.p)
         IN back.v = r.v /\ ("C" \in back.p) = ("C" \in r.p)
<1> DEFINE c == Bit(r.p, "C")
           v == ((r.v * 2) % 256) + c
           st == upd_nz(Put(r.p, "C", Neg(r.v)), v)
           o == Bit(st, "C")
           u == v \div 2 + 128 * o
           bt == upd_nz(Put(st, "C", v % 2 = 1), u)
<1>1. r.v \in 0..255 /\ c \in {0, 1}
  BY BitType DEF Registers, Byte
<1>2. Rotated(r) = [v |-> v, p |-> st] /\ shift("ROR", v, st) = [v |-> u, p |-> bt]
  BY DEF Rotated, shift
<1>3. o = IF r.v >= 128 THEN 1 ELSE 0
  <2>1. Neg(r.v) = (r.v >= 128) /\ Neg(r.v) \in BOOLEAN
    BY <1>1 DEF Neg
  <2> HIDE DEF v
  <2>2. ("C" \in st) = Neg(r.v)
    BY <2>1, ShiftedOut
  <2>. QED
    BY <2>1, <2>2 DEF Bit
<1>4. v \div 2 = (IF r.v >= 128 THEN r.v - 128 ELSE r.v) /\ v % 2 = c
  <2>1. (r.v * 2) % 256 = 2 * (IF r.v >= 128 THEN r.v - 128 ELSE r.v)
    BY <1>1
  <2>2. PICK y \in 0..127 : y = IF r.v >= 128 THEN r.v - 128 ELSE r.v
    BY <1>1
  <2>3. v = 2 * y + c
    BY <2>1, <2>2
  <2> HIDE DEF v, c
  <2>4. v \div 2 = y
    BY <1>1, <2>2, <2>3
  <2>5. v % 2 = c
    BY <1>1, <2>2, <2>3
  <2>. QED
    BY <2>2, <2>4, <2>5
<1>5. u = r.v
  <2> HIDE DEF o, v
  <2>. QED
    BY <1>1, <1>3, <1>4
<1>6. ("C" \in bt) = ("C" \in r.p)
  <2>1. (v % 2 = 1) = (c = 1) /\ (v % 2 = 1) \in BOOLEAN
    BY <1>4
  <2> HIDE DEF v, st, u
  <2>2. ("C" \in bt) = (v % 2 = 1)
    BY <2>1, ShiftedOut
  <2>. QED
    BY <2>1, <2>2 DEF Bit
<1> HIDE DEF v, st, u, bt
<1>. QED
  BY <1>2, <1>5, <1>6

(* The rotations of the property are the turns of the lemmas above. *)
LEMMA NineTurns ==
  ASSUME NEW r0 \in Registers, NEW Rol,
         Rol = [n \in 0..9 |-> IF n = 0 THEN r0 ELSE shift("ROL", Rol[n - 1].v, Rol[n - 1].p)]
  PROVE  /\ Rol[1] = Rotated(r0)
         /\ Rol[9].v = r0.v /\ ("C" \in Rol[9].p) = ("C" \in r0.p)
<1>1. Rol[0] = r0
  OBVIOUS
<1>2. \A n \in 1..9 : Rol[n] = Rotated(Rol[n - 1])
  BY DEF Rotated
<1>3. /\ Rol[1] = Rotated(Rol[0]) /\ Rol[2] = Rotated(Rol[1]) /\ Rol[3] = Rotated(Rol[2])
      /\ Rol[4] = Rotated(Rol[3]) /\ Rol[5] = Rotated(Rol[4]) /\ Rol[6] = Rotated(Rol[5])
      /\ Rol[7] = Rotated(Rol[6]) /\ Rol[8] = Rotated(Rol[7]) /\ Rol[9] = Rotated(Rol[8])
  <2>1. ASSUME NEW n \in 1..9, NEW m, m = n - 1 PROVE Rol[n] = Rotated(Rol[m])
    BY <1>2, <2>1
  <2>. QED
    BY <2>1
<1>4. Rol[3] \in Registers /\ Ring(r0) \in 0..511 /\ Eightfold(Ring(r0), Ring(Rol[3]))
  BY <1>1, <1>3, ThreeTurns
<1>5. Rol[6] \in Registers /\ Ring(Rol[3]) \in 0..511 /\ Eightfold(Ring(Rol[3]), Ring(Rol[6]))
  BY SMTT(30), <1>3, <1>4, ThreeTurns
<1>6. Rol[9] \in Registers /\ Ring(Rol[6]) \in 0..511 /\ Eightfold(Ring(Rol[6]), Ring(Rol[9]))
  BY <1>3, <1>5, ThreeTurns
<1>7. Ring(Rol[9]) \in 0..511
  BY <1>6, RingValue
<1>8. Ring(Rol[9]) = Ring(r0)
  <2> DEFINE n0 == Ring(r0)
             n3 == Ring(Rol[3])
             n6 == Ring(Rol[6])
             n9 == Ring(Rol[9])
  <2>1. /\ n0 \in 0..511 /\ n3 \in 0..511 /\ n6 \in 0..511 /\ n9 \in 0..511
        /\ Eightfold(n0, n3) /\ Eightfold(n3, n6) /\ Eightfold(n6, n9)
    BY <1>4, <1>5, <1>6, <1>7
  <2> HIDE DEF n0, n3, n6, n9
  <2>2. n9 = n0
    BY <2>1, NineDoublings
  <2>. QED
    BY <2>2 DEF n0, n9
<1>9. Rol[9].v = r0.v /\ ("C" \in Rol[9].p) = ("C" \in r0.p)
  BY <1>6, <1>8, RingDetermines
<1>. QED
  BY <1>1, <1>3, <1>9

(* The nine rotations exist: each is the rotation of the one before. *)
LEMMA RotationsExist ==
  ASSUME NEW r0
  PROVE  \E Rol : Rol = [n \in 0..9 |-> IF n = 0 THEN r0 ELSE shift("ROL", Rol[n - 1].v, Rol[n - 1].p)]
<1> DEFINE r1 == Rotated(r0)
           r2 == Rotated(r1)
           r3 == Rotated(r2)
           r4 == Rotated(r3)
           r5 == Rotated(r4)
           r6 == Rotated(r5)
           r7 == Rotated(r6)
           r8 == Rotated(r7)
           r9 == Rotated(r8)
<1> HIDE DEF r1, r2, r3, r4, r5, r6, r7, r8, r9
<1> DEFINE f == [n \in 0..9 |-> CASE n = 0 -> r0 [] n = 1 -> r1 [] n = 2 -> r2 [] n = 3 -> r3
                                  [] n = 4 -> r4 [] n = 5 -> r5 [] n = 6 -> r6 [] n = 7 -> r7
                                  [] n = 8 -> r8 [] n = 9 -> r9]
           g == [n \in 0..9 |-> IF n = 0 THEN r0 ELSE Rotated(f[n - 1])]
<1>1. /\ f[0] = r0 /\ f[1] = r1 /\ f[2] = r2 /\ f[3] = r3 /\ f[4] = r4
      /\ f[5] = r5 /\ f[6] = r6 /\ f[7] = r7 /\ f[8] = r8 /\ f[9] = r9
  OBVIOUS
<1>2. f = [n \in 0..9 |-> f[n]]
  OBVIOUS
<1> HIDE DEF f
<1>3. ASSUME NEW n \in 0..9 PROVE f[n] = IF n = 0 THEN r0 ELSE Rotated(f[n - 1])
  <2>1. n \in {0, 1, 2, 3, 4, 5, 6, 7, 8, 9}
    OBVIOUS
  <2>2. /\ r1 = Rotated(r0) /\ r2 = Rotated(r1) /\ r3 = Rotated(r2) /\ r4 = Rotated(r3)
        /\ r5 = Rotated(r4) /\ r6 = Rotated(r5) /\ r7 = Rotated(r6) /\ r8 = Rotated(r7)
        /\ r9 = Rotated(r8)
    BY DEF r1, r2, r3, r4, r5, r6, r7, r8, r9
  <2>. QED
    BY <1>1, <2>1, <2>2
<1>4. f = g
  BY <1>2, <1>3
<1>5. f = [n \in 0..9 |-> IF n = 0 THEN r0 ELSE shift("ROL", f[n - 1].v, f[n - 1].p)]
  BY <1>4 DEF Rotated
<1>. QED
  BY <1>5

(* A and C form a ring of nine bits in every state a program can reach:      *)
(* nine ROLs bring both back, and ROR undoes ROL, so the multi-byte shifts   *)
(* of the ROMs lose no bit between the bytes.                                *)
THEOREM RotationsKeepBits == Spec => []RotateRing
<1>1. LockStep => RotateRing
  <2> SUFFICES ASSUME a \in Byte, p \in SUBSET Flags PROVE RotateRing
    BY DEF LockStep, TypeOK
  <2> DEFINE r0 == [v |-> a, p |-> p]
             IsRol(f) == f = [n \in 0..9 |-> IF n = 0 THEN r0
                                             ELSE shift("ROL", f[n - 1].v, f[n - 1].p)]
             Rol == CHOOSE f : IsRol(f)
             back == shift("ROR", Rol[1].v, Rol[1].p)
  <2>1. r0 \in Registers /\ r0.v = a /\ r0.p = p
    BY DEF Registers
  <2>2. IsRol(Rol)
    <3> HIDE DEF r0
    <3>1. \E f : IsRol(f)
      BY RotationsExist
    <3> HIDE DEF IsRol
    <3>. QED
      BY <3>1
  <2>3. /\ Rol[1] = Rotated(r0)
        /\ Rol[9].v = r0.v /\ ("C" \in Rol[9].p) = ("C" \in r0.p)
    <3> HIDE DEF r0, Rol
    <3>. QED
      BY <2>1, <2>2, NineTurns
  <2>4. back.v = a /\ ("C" \in back.p) = ("C" \in p)
    <3> HIDE DEF r0, Rol
    <3>. QED
      BY <2>1, <2>3, RorUndoesRol
  <2>5. /\ Rol[9].v = a /\ ("C" \in Rol[9].p) = ("C" \in p)
        /\ back.v = a /\ ("C" \in back.p) = ("C" \in p)
    <3> HIDE DEF r0, Rol
    <3>. QED
      BY <2>1, <2>3, <2>4
  <2>. QED
    BY <2>5, Zenon DEF RotateRing
<1>. QED
  BY <1>1, LockStepInvariant, PTL

=============================================================================
