-------------------------------- MODULE Alu --------------------------------
(* The arithmetic of the 6502 as sage6502/cpu.sage computes it: functions of *)
(* the accumulator (or a memory byte), the operand and the status register.  *)
(* The register P is the set of the flags that are 1; "U" is bit 5.          *)
EXTENDS Integers

Byte  == 0..255
Flags == {"N", "V", "U", "B", "D", "I", "Z", "C"}

Bit(p, f) == IF f \in p THEN 1 ELSE 0                    \* Status.C(), .D(), ...
Put(p, f, on) == IF on THEN p \cup {f} ELSE p \ {f}      \* Status._set
Neg(v) == v >= 128
upd_nz(p, v) == Put(Put(p, "N", Neg(v)), "Z", v = 0)

(* The weight of each flag in the byte that is pushed on the stack. *)
Mask == [N |-> 128, V |-> 64, U |-> 32, B |-> 16, D |-> 8, I |-> 4, Z |-> 2, C |-> 1]
to_push_byte(p, break_flag) ==
  LET q == Put(p \cup {"U"}, "B", break_flag)
      W(f) == IF f \in q THEN Mask[f] ELSE 0
  IN W("N") + W("V") + W("U") + W("B") + W("D") + W("I") + W("Z") + W("C")
from_byte(v) == {f \in Flags : (v \div Mask[f]) % 2 = 1} \cup {"U"}

(* A byte as the set of the weights of its bits that are 1; and, or, xor *)
Weights == {128, 64, 32, 16, 8, 4, 2, 1}
ones(v) == {w \in Weights : (v \div w) % 2 = 1}
byte_of(s) ==
  LET W(w) == IF w \in s THEN w ELSE 0
  IN W(128) + W(64) + W(32) + W(16) + W(8) + W(4) + W(2) + W(1)
byte_and(a, b) == byte_of(ones(a) \cap ones(b))
byte_or(a, b) == byte_of(ones(a) \cup ones(b))
byte_xor(a, b) == byte_of((ones(a) \cup ones(b)) \ (ones(a) \cap ones(b)))

-----------------------------------------------------------------------------
(* Every operation returns the result byte and the new status register.      *)

(* Mutant: the sum is stored without being cut to a byte. *)
AdcUncut(a, b, p) ==
  LET sum == a + b + Bit(p, "C")
  IN [v |-> sum, p |-> upd_nz(Put(p, "C", sum > 255), sum % 256)]

adc_binary(a, b, p) ==
  LET sum == a + b + Bit(p, "C")
      result == sum % 256
      q == Put(Put(p, "C", sum > 255), "V", Neg(a) = Neg(b) /\ Neg(a) # Neg(result))
  IN [v |-> result, p |-> upd_nz(q, result)]

(* Mutant: the carry in is forgotten when the low digit is corrected. *)
AdcDecimalNoCarryIn(a, b, p) ==
  LET sum == a + b + Bit(p, "C")
      low == IF (a % 16) + (b % 16) > 9 THEN sum + 6 ELSE sum
      decimal_sum == IF low > 153 THEN low + 96 ELSE low
  IN [v |-> decimal_sum % 256, p |-> Put(upd_nz(p, sum % 256), "C", decimal_sum > 255)]

(* Mutant: the corrected sum is not cut to a byte. *)
AdcDecimalUncut(a, b, p) ==
  LET sum == a + b + Bit(p, "C")
      low == IF (a % 16) + (b % 16) + Bit(p, "C") > 9 THEN sum + 6 ELSE sum
      decimal_sum == IF low > 153 THEN low + 96 ELSE low
  IN [v |-> decimal_sum, p |-> Put(upd_nz(p, sum % 256), "C", decimal_sum > 255)]

(* N, V and Z come from the binary sum, C and the result from the corrected one. *)
adc_decimal_nmos(a, b, p) ==
  LET binary_sum == a + b + Bit(p, "C")
      binary_result == binary_sum % 256
      low == IF (a % 16) + (b % 16) + Bit(p, "C") > 9 THEN binary_sum + 6 ELSE binary_sum
      decimal_sum == IF low > 153 THEN low + 96 ELSE low
      q == Put(p, "V", Neg(a) = Neg(b) /\ Neg(a) # Neg(binary_result))
  IN [v |-> decimal_sum % 256,
      p |-> Put(upd_nz(q, binary_result), "C", decimal_sum > 255)]

adc(a, b, p) == IF "D" \in p THEN adc_decimal_nmos(a, b, p) ELSE adc_binary(a, b, p)

(* Mutant: a difference of zero counts as a borrow. *)
SbcZeroBorrows(a, b, p) ==
  LET diff == a - b - (1 - Bit(p, "C"))
      result == diff % 256
      q == Put(Put(p, "C", diff > 0), "V", Neg(a) # Neg(result) /\ Neg(a) # Neg(b))
  IN [v |-> result, p |-> upd_nz(q, result)]

sbc_binary(a, b, p) ==
  LET diff == a - b - (1 - Bit(p, "C"))
      result == diff % 256
      q == Put(Put(p, "C", diff >= 0), "V", Neg(a) # Neg(result) /\ Neg(a) # Neg(b))
  IN [v |-> result, p |-> upd_nz(q, result)]

(* (high << 4) | low as a byte: a low digit still negative after the borrow   *)
(* (possible only for operands that are not BCD) has all its upper bits set.  *)
Digits(high, low) == IF low < 0 THEN 240 + (low % 16) ELSE (high % 16) * 16 + low

sbc_decimal_nmos(a, b, p) ==
  LET borrow == 1 - Bit(p, "C")
      binary_result == (a - b - borrow) % 256
      low0 == (a % 16) - (b % 16) - borrow
      high0 == (a \div 16) - (b \div 16)
      low == IF low0 < 0 THEN low0 + 10 ELSE low0
      high1 == IF low0 < 0 THEN high0 - 1 ELSE high0
      high == IF high1 < 0 THEN high1 + 10 ELSE high1
      q == Put(p, "V", Neg(a) # Neg(binary_result) /\ Neg(a) # Neg(b))
  IN [v |-> Digits(high, low),
      p |-> Put(upd_nz(q, binary_result), "C", high1 >= 0)]

sbc(a, b, p) == IF "D" \in p THEN sbc_decimal_nmos(a, b, p) ELSE sbc_binary(a, b, p)

(* CMP, CPX, CPY: only the flags change. *)
compare(r, b, p) == Put(upd_nz(p, (r - b) % 256), "C", r >= b)

(* Mutant: ROL and ROR read the carry after the bit shifted out replaced it. *)
ShiftLateCarry(op, v, p) ==
  LET out == IF op \in {"ASL", "ROL"} THEN Neg(v) ELSE v % 2 = 1
      c == IF out THEN 1 ELSE 0
      result == CASE op = "ASL" -> (v * 2) % 256
                  [] op = "LSR" -> v \div 2
                  [] op = "ROL" -> ((v * 2) % 256) + c
                  [] op = "ROR" -> v \div 2 + 128 * c
  IN [v |-> result, p |-> upd_nz(Put(p, "C", out), result)]

(* ASL, LSR, ROL, ROR of a byte; the bit shifted out becomes C. *)
shift(op, v, p) ==
  LET c == Bit(p, "C")
      result == CASE op = "ASL" -> (v * 2) % 256
                  [] op = "LSR" -> v \div 2
                  [] op = "ROL" -> ((v * 2) % 256) + c
                  [] op = "ROR" -> v \div 2 + 128 * c
      out == IF op \in {"ASL", "ROL"} THEN Neg(v) ELSE v % 2 = 1
  IN [v |-> result, p |-> upd_nz(Put(p, "C", out), result)]

=============================================================================
