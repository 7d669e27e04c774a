---------------------------- MODULE Accumulator -----------------------------
(* The accumulator and the status register under any sequence of arithmetic  *)
(* instructions, run in step on the two cores of the repository: a and p are *)
(* those of sage6502/cpu.sage, ca and cp those of avr/sage6502.c.            *)
EXTENDS AluC

CONSTANT Operands      \* the immediate operands the program uses

ASSUME OperandsAssumption == Operands \subseteq Byte

VARIABLES a, p, ca, cp
vars == <<a, p, ca, cp>>

(* after reset: A = 0 and only I set *)
Init == a = 0 /\ p = {"I"} /\ ca = 0 /\ cp = {"I"}

Lda(b) ==
  /\ a' = b /\ p' = upd_nz(p, b)
  /\ ca' = b /\ cp' = upd_nz(cp, b)

Adc(b) ==
  LET s == adc(a, b, p)
      c == c_adc(ca, b, cp)
  IN a' = s.v /\ p' = s.p /\ ca' = c.v /\ cp' = c.p

Sbc(b) ==
  LET s == sbc(a, b, p)
      c == c_sbc(ca, b, cp)
  IN a' = s.v /\ p' = s.p /\ ca' = c.v /\ cp' = c.p

Cmp(b) ==
  /\ p' = compare(a, b, p) /\ cp' = c_compare(ca, b, cp)
  /\ UNCHANGED <<a, ca>>

(* CLC, SEC, CLD, SED, CLV *)
SetFlag(f, on) ==
  /\ p' = Put(p, f, on) /\ cp' = Put(cp, f, on)
  /\ UNCHANGED <<a, ca>>

Shift(op) ==
  LET s == shift(op, a, p)
      c == c_shift(op, ca, cp)
  IN a' = s.v /\ p' = s.p /\ ca' = c.v /\ cp' = c.p

Next ==
  \/ \E b \in Operands : Lda(b) \/ Adc(b) \/ Sbc(b) \/ Cmp(b)
  \/ \E f \in {"C", "D"}, on \in BOOLEAN : SetFlag(f, on)
  \/ SetFlag("V", FALSE)
  \/ \E op \in {"ASL", "LSR", "ROL", "ROR"} : Shift(op)

Spec == Init /\ [][Next]_vars

-----------------------------------------------------------------------------
(* Types of the registers. *)
TypeOK == a \in Byte /\ p \subseteq Flags /\ ca \in Byte /\ cp \subseteq Flags

(* The C port is a faithful port (avr/sage6502.c:4): after any sequence of    *)
(* arithmetic instructions, in binary or decimal mode, on operands that are   *)
(* BCD or not, both cores hold the same accumulator and the same flags.       *)
CoresAgree == ca = a /\ cp = p

Signed(v) == IF Neg(v) THEN v - 256 ELSE v

(* In binary mode ADC and SBC are exact both ways of reading a byte: with the *)
(* carry as a ninth bit for unsigned numbers, and for signed ones V says      *)
(* whether the true sum or difference is outside -128..127.  This is what     *)
(* multi-byte arithmetic in the ROMs and the compiler backend builds on.      *)
BinaryExact ==
  "D" \notin p =>
    \A b \in Byte :
      LET s == adc(a, b, p)
          d == sbc(a, b, p)
          c == Bit(p, "C")
          st == Signed(a) + Signed(b) + c
          dt == Signed(a) - Signed(b) - (1 - c)
      IN /\ s.v + 256 * Bit(s.p, "C") = a + b + c
         /\ d.v - 256 * (1 - Bit(d.p, "C")) = a - b - (1 - c)
         /\ ("V" \in s.p) = (st \notin (-128)..127)
         /\ ("V" \in d.p) = (dt \notin (-128)..127)

Bcd(v) == v % 16 < 10 /\ v \div 16 < 10
Decimal(v) == (v \div 16) * 10 + (v % 16)

(* In decimal mode, for BCD operands, ADC and SBC give the decimal sum and    *)
(* difference as BCD again, with the carry standing for one hundred, so the   *)
(* bytes of a longer number can be chained through it.                        *)
DecimalExact ==
  ("D" \in p /\ Bcd(a)) =>
    \A b \in {x \in Byte : Bcd(x)} :
      LET s == adc(a, b, p)
          d == sbc(a, b, p)
          c == Bit(p, "C")
      IN /\ Bcd(s.v) /\ Bcd(d.v)
         /\ Decimal(s.v) + 100 * Bit(s.p, "C") = Decimal(a) + Decimal(b) + c
         /\ Decimal(d.v) - 100 * (1 - Bit(d.p, "C")) = Decimal(a) - Decimal(b) - (1 - c)

(* A and C form a nine-bit ring: nine rotations either way restore both, and  *)
(* a rotation right undoes a rotation left.                                   *)
RotateRing ==
  LET Rol[n \in 0..9] == IF n = 0 THEN [v |-> a, p |-> p]
                         ELSE shift("ROL", Rol[n - 1].v, Rol[n - 1].p)
      back == shift("ROR", Rol[1].v, Rol[1].p)
  IN /\ Rol[9].v = a /\ ("C" \in Rol[9].p) = ("C" \in p)
     /\ back.v = a /\ ("C" \in back.p) = ("C" \in p)
=============================================================================
