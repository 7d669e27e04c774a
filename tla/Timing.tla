------------------------------- MODULE Timing -------------------------------
(* The cycles that step() of sage6502/cpu.sage adds for an instruction.  The *)
(* table of the code is written here as the rule behind it.                  *)
EXTENDS Core6502

Rewriting == {"INC", "DEC", "ASL", "LSR", "ROL", "ROR"}
Undefined(code) == decode[code] = [op |-> "LDA", mode |-> "IMP"]

implied_cycles(op) ==
  CASE op = "BRK" -> 7
    [] op \in {"RTI", "RTS"} -> 6
    [] op \in {"PLA", "PLP"} -> 4
    [] op \in {"PHA", "PHP"} -> 3
    [] OTHER -> 2

(* Both forms of JMP take four cycles in the table. *)
defined_cycles(op, mode) ==
  LET rewrites == IF op \in Rewriting THEN 2 ELSE 0
      Indexed(n) == n + (IF op \in Storing THEN 1 ELSE 0)
  IN CASE mode \in {"IMM", "ACC", "REL"} -> 2
       [] mode = "IMP" -> implied_cycles(op)
       [] mode = "ZP" -> 3 + rewrites
       [] mode \in {"ZPX", "ZPY"} -> 4 + rewrites
       [] mode = "ABS" -> IF op = "JSR" THEN 6 ELSE 4 + rewrites
       [] mode \in {"ABSX", "ABSY"} -> IF op \in Rewriting THEN 7 ELSE Indexed(4)
       [] mode = "INDX" -> 6
       [] mode = "INDY" -> Indexed(5)
       [] mode = "IND" -> 4

(* An undefined opcode does nothing but is charged: two cycles, or those of  *)
(* the defined opcodes of its column.                                        *)
undefined_cycles(code) ==
  CASE code % 16 = 12 -> 4
    [] code % 16 = 4 -> IF (code \div 16) % 2 = 1 THEN 4 ELSE 3
    [] OTHER -> 2

CYCLES(code) ==
  IF Undefined(code) THEN undefined_cycles(code)
  ELSE defined_cycles(decode[code].op, decode[code].mode)

other_page(v, w) == v \div 256 # w \div 256

(* Does the index carry the address of the instruction at pc over a page? *)
crossed(m, mode) ==
  LET w == read16(m, m.pc)
      zp == read8(m, m.pc)
      base == Word(read8(m, zp), read8(m, (zp + 1) % 256))
  IN CASE mode = "ABSX" -> other_page(w, (w + m.x) % 65536)
       [] mode = "ABSY" -> other_page(w, (w + m.y) % 65536)
       [] mode = "INDY" -> other_page(base, (base + m.y) % 65536)
       [] OTHER -> FALSE

branch_cycles(m, op) ==
  LET next == skip(m, 1)
      to == skip(next, sbyte(read8(m, m.pc)))
  IN IF ~taken(m.p, op) THEN 0 ELSE IF other_page(next.pc, to.pc) THEN 2 ELSE 1

(* A load, an arithmetic or a logical operation pays for the page it crosses. *)
Reading == {"LDA", "LDX", "LDY", "ADC", "SBC", "AND", "ORA", "EOR", "CMP"}

extra_cycles(m0) ==
  LET d == decode[read8(m0, m0.pc)]
      m == skip(m0, 1)
  IN CASE d.mode = "REL" -> branch_cycles(m, d.op)
       [] d.op \in Reading /\ crossed(m, d.mode) -> 1
       [] OTHER -> 0

instruction_cycles(m) == CYCLES(read8(m, m.pc)) + extra_cycles(m)
=============================================================================
