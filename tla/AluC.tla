-------------------------------- MODULE AluC -------------------------------
(* The same arithmetic as the C port of the core computes it                 *)
(* (avr/sage6502.c): subtraction is the addition of the complement, the      *)
(* overflow is read off the result against both operands, and sums are held  *)
(* in a uint16_t.  The status register and its masks are those of Alu.       *)
EXTENDS Alu

Overflow(a, b, masked) == Neg(a) # Neg(masked) /\ Neg(b) # Neg(masked)

(* Mutant: the carry is not added in. *)
CAdcNoCarryIn(a, b, p) ==
  LET sum == a + b
      q == Put(Put(p, "C", sum > 255), "V", Overflow(a, b, sum % 256))
  IN [v |-> sum % 256, p |-> upd_nz(q, sum % 256)]

c_adc(a, b, p) ==
  LET c == Bit(p, "C")
      sum == a + b + c
      masked == sum % 256
      d0 == IF (a % 16) + (b % 16) + c > 9 THEN sum + 6 ELSE sum
      decimal == (IF d0 > 153 THEN d0 + 96 ELSE d0) % 65536
      q == upd_nz(Put(p, "V", Overflow(a, b, masked)), masked)
  IN IF "D" \in p
     THEN [v |-> decimal % 256, p |-> Put(q, "C", decimal > 255)]
     ELSE [v |-> masked, p |-> Put(q, "C", sum > 255)]

c_sbc_decimal(a, b, p) ==
  LET borrow == 1 - Bit(p, "C")
      masked == (a - b - borrow) % 256
      low == (a % 16) - (b % 16) - borrow
      high == (a \div 16) - (b \div 16) - (IF low < 0 THEN 1 ELSE 0)
      q == Put(p, "V", Neg(a) # Neg(masked) /\ Neg(a) # Neg(b))
  IN [v |-> Digits(IF high < 0 THEN high + 10 ELSE high,
                   IF low < 0 THEN low + 10 ELSE low),
      p |-> Put(upd_nz(q, masked), "C", ~(high < 0))]

(* Mutant: the overflow is taken against the operand, not its complement. *)
CSbcOperandOverflow(a, b, p) ==
  LET sum == a + (255 - b) + Bit(p, "C")
      masked == sum % 256
      q == Put(Put(p, "C", sum >= 256), "V", Overflow(a, b, masked))
  IN [v |-> masked, p |-> upd_nz(q, masked)]

c_sbc_binary(a, b, p) ==
  LET complement == 255 - b
      sum == a + complement + Bit(p, "C")
      masked == sum % 256
      q == Put(Put(p, "C", sum >= 256), "V", Overflow(a, complement, masked))
  IN [v |-> masked, p |-> upd_nz(q, masked)]

c_sbc(a, b, p) == IF "D" \in p THEN c_sbc_decimal(a, b, p) ELSE c_sbc_binary(a, b, p)

c_compare(r, b, p) == Put(upd_nz(p, (r - b) % 256), "C", r >= b)

c_shift(op, v, p) ==
  LET c == Bit(p, "C")
      result == CASE op = "ASL" -> (v * 2) % 256
                  [] op = "LSR" -> v \div 2
                  [] op = "ROL" -> ((v * 2) % 256) + c
                  [] op = "ROR" -> v \div 2 + c * 128
      out == IF op \in {"ASL", "ROL"} THEN Neg(v) ELSE v % 2 = 1
  IN [v |-> result, p |-> upd_nz(Put(p, "C", out), result)]
=============================================================================
