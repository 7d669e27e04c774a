------------------------------- MODULE MCPort -------------------------------
(* A ROM that holds every opcode with every operand of a few, and registers  *)
(* and flags at their edges: the instructions are executed from there on.    *)
EXTENDS Port

Table(f) == f @@ << >>      \* f itself, which TLC then evaluates once

\* as an immediate or zero page operand, a branch offset, a word; the UART
Operands == << <<\h10, \h02>>, <<\hFF, \h01>>, <<\h80, \hFF>>, <<\h7F, \h00>>,
               <<\h01, \h20>>, <<\h00, \h20>>, <<\h00, \h30>> >>
FromUart(g, code) == code = \h6C /\ g > 4          \* a jump through its registers
CodeAt(g, code) == \hE00E + 768 * (g - 1) + 3 * code

Code(addr) ==
  LET i == addr - \hE00E
  IN <<(i % 768) \div 3, Operands[i \div 768 + 1][1], Operands[i \div 768 + 1][2]>>[(i % 3) + 1]
Instructions == Table([addr \in \hE00E..(CodeAt(Len(Operands) + 1, 0) - 1) |-> Code(addr)])
Vectors == Table([addr \in \hFFFA..\hFFFF |-> <<\h0E, \hE0, \h50, \hE4, \h90, \hE7>>[addr - \hFFF9]])
RomBytes == Instructions @@ Vectors

RamAddresses ==
  (0..3) \cup (\h0E..\h13) \cup (\h7D..\h83) \cup (\hFD..\h105) \cup (\h17D..\h183)
    \cup (\h1FB..\h204) \cup (\h20F..\h211) \cup {\h283, \h290} \cup (\h2FE..\h303) \cup {\h30F, \h380}
Memory == Table([i \in RamAddresses |-> <<\h02, \h01, \h80, \hFF, \h00, \h03>>[(i % 6) + 1]])

\* a, x, y, sp and flags: every flag set and clear, with decimal mode or without
Registers ==
  { <<\h7F, \hFF, \h01, \hFF, {"U", "C", "D"}>>,
    <<\h80, \h01, \hFF, \h00, {"U", "I", "B", "N", "V", "Z"}>>,
    <<\h99, \h00, \h80, \h01, {"U", "C", "D", "N"}>> }

StartMachines ==
  { [a |-> r[1], x |-> r[2], y |-> r[3], sp |-> r[4], p |-> r[5],
     pc |-> CodeAt(at[1], at[2]),
     mem |-> Memory, uart |-> Silent] :
      r \in Registers,
      at \in {at \in (DOMAIN Operands) \X Byte : ~FromUart(at[1], at[2])} }
=============================================================================
