------------------------------ MODULE Core6502 ------------------------------
(* One instruction of sage6502/cpu.sage as a function of the machine state,  *)
(* a record [a, x, y, sp, pc, p, mem, uart].  The bus is the one of          *)
(* bus/applebus.sage: RAM, a ROM that ignores writes, the UART with its      *)
(* queue of bytes received and bytes sent, and zero everywhere else; the     *)
(* other devices are left out.  Only the operand of an instruction may be a  *)
(* byte received; opcodes, pointers, stack and vectors are memory.           *)
EXTENDS Alu, Sequences, TLC

CONSTANTS Ram,      \* the addresses that hold RAM
          Rom       \* the bytes of the ROM, a function of their addresses

Address == 0..65535
ASSUME BusAssumption ==
  /\ Ram \subseteq Address \ {\h2000, \h2001, \h3000}
  /\ DOMAIN Rom \subseteq Address \ (Ram \cup {\h2000, \h2001, \h3000})
  /\ \A i \in DOMAIN Rom : Rom[i] \in Byte

Word(lo, hi) == hi * 256 + lo

(* The UART: ready to send at any time, to be read when something came *)
Silent == [rx |-> <<>>, tx |-> <<>>]
status(uart) == 2 + (IF uart.rx # <<>> THEN 1 ELSE 0)
receive(m, v) == [m EXCEPT !.uart.rx = Append(@, v)]
tx_write(m, v) == [m EXCEPT !.uart.tx = Append(@, v)]

read8(m, addr) ==
  CASE addr \in Ram -> m.mem[addr]
    [] addr \in DOMAIN Rom -> Rom[addr]
    [] addr = \h2000 -> status(m.uart)
    [] addr = \h2001 /\ m.uart.rx # <<>> -> Head(m.uart.rx)
    [] OTHER -> 0
(* The machine after that read *)
rx_read(m, addr) ==
  IF addr = \h2001 /\ m.uart.rx # <<>> THEN [m EXCEPT !.uart.rx = Tail(@)] ELSE m
read16(m, addr) == Word(read8(m, addr), read8(m, (addr + 1) % 65536))
write8(m, addr, v) ==
  CASE addr \in Ram -> [m EXCEPT !.mem[addr] = v]
    [] addr \in {\h2001, \h3000} -> tx_write(m, v)
    [] OTHER -> m

(* The stack lives in page 1 and wraps inside it. *)
push(m, v) == [write8(m, 256 + m.sp, v) EXCEPT !.sp = (@ - 1) % 256]
pulled(m) == read8(m, 256 + ((m.sp + 1) % 256))
popped(m) == [m EXCEPT !.sp = (@ + 1) % 256]
push16(m, w) == push(push(m, w \div 256), w % 256)
pulled16(m) == Word(pulled(m), pulled(popped(m)))
popped16(m) == popped(popped(m))

reset(m) ==
  [m EXCEPT !.a = 0, !.x = 0, !.y = 0, !.sp = 253, !.pc = read16(m, \hFFFC), !.p = {"I"}]

-----------------------------------------------------------------------------
(* The instruction table: the opcodes of each operation, by addressing mode.  *)
OPCODES ==
  LET LDA  == [IMM |-> \hA9, ZP |-> \hA5, ZPX |-> \hB5, ABS |-> \hAD, ABSX |-> \hBD,
               ABSY |-> \hB9, INDX |-> \hA1, INDY |-> \hB1]
      STA  == [ZP |-> \h85, ZPX |-> \h95, ABS |-> \h8D, ABSX |-> \h9D, ABSY |-> \h99,
               INDX |-> \h81, INDY |-> \h91]
      At(r, base) == [mode \in DOMAIN r |-> r[mode] - \hA9 + base]   \* same columns
      Imp(code) == [IMP |-> code]
      Rel(code) == [REL |-> code]
      Sh(code) == [ACC |-> code, ZP |-> code - 4, ZPX |-> code + 12,
                   ABS |-> code + 4, ABSX |-> code + 20]
      Id(code) == [ZP |-> code, ZPX |-> code + 16, ABS |-> code + 8, ABSX |-> code + 24]
  IN [LDA |-> LDA, STA |-> STA,
      LDX |-> [IMM |-> \hA2, ZP |-> \hA6, ZPY |-> \hB6, ABS |-> \hAE, ABSY |-> \hBE],
      LDY |-> [IMM |-> \hA0, ZP |-> \hA4, ZPX |-> \hB4, ABS |-> \hAC, ABSX |-> \hBC],
      STX |-> [ZP |-> \h86, ZPY |-> \h96, ABS |-> \h8E],
      STY |-> [ZP |-> \h84, ZPX |-> \h94, ABS |-> \h8C],
      TAX |-> Imp(\hAA), TXA |-> Imp(\h8A), TAY |-> Imp(\hA8), TYA |-> Imp(\h98),
      TSX |-> Imp(\hBA), TXS |-> Imp(\h9A), PHA |-> Imp(\h48), PHP |-> Imp(\h08),
      PLA |-> Imp(\h68), PLP |-> Imp(\h28),
      ADC |-> At(LDA, \h69), SBC |-> At(LDA, \hE9), AND |-> At(LDA, \h29),
      ORA |-> At(LDA, \h09), EOR |-> At(LDA, \h49), CMP |-> At(LDA, \hC9),
      BIT |-> [ZP |-> \h24, ABS |-> \h2C],
      CPX |-> [IMM |-> \hE0, ZP |-> \hE4, ABS |-> \hEC],
      CPY |-> [IMM |-> \hC0, ZP |-> \hC4, ABS |-> \hCC],
      INC |-> Id(\hE6), DEC |-> Id(\hC6),
      INX |-> Imp(\hE8), INY |-> Imp(\hC8), DEX |-> Imp(\hCA), DEY |-> Imp(\h88),
      ASL |-> Sh(\h0A), LSR |-> Sh(\h4A), ROL |-> Sh(\h2A), ROR |-> Sh(\h6A),
      BCC |-> Rel(\h90), BCS |-> Rel(\hB0), BEQ |-> Rel(\hF0), BMI |-> Rel(\h30),
      BNE |-> Rel(\hD0), BPL |-> Rel(\h10), BVC |-> Rel(\h50), BVS |-> Rel(\h70),
      JMP |-> [ABS |-> \h4C, IND |-> \h6C], JSR |-> [ABS |-> \h20],
      RTS |-> Imp(\h60), BRK |-> Imp(\h00), RTI |-> Imp(\h40), NOP |-> Imp(\hEA),
      CLC |-> Imp(\h18), CLD |-> Imp(\hD8), CLI |-> Imp(\h58), CLV |-> Imp(\hB8),
      SEC |-> Imp(\h38), SED |-> Imp(\hF8), SEI |-> Imp(\h78)]

(* What an opcode means.  The 105 opcodes the table leaves out decode to     *)
(* [LDA, IMP], which op0 has no case for: they do nothing.                   *)
Meaning(code) ==
     LET uses(op) == \E mode \in DOMAIN OPCODES[op] : OPCODES[op][mode] = code
     IN IF \E op \in DOMAIN OPCODES : uses(op)
        THEN LET op == CHOOSE o \in DOMAIN OPCODES : uses(o)
             IN [op |-> op,
                 mode |-> CHOOSE k \in DOMAIN OPCODES[op] : OPCODES[op][k] = code]
        ELSE [op |-> "LDA", mode |-> "IMP"]
decode == [code \in Byte |-> Meaning(code)]

(* The modes that read the address from memory. *)
indirect(m, mode) ==
  LET b == read8(m, m.pc)
      w == read16(m, m.pc)
      zp16(z) == Word(read8(m, z % 256), read8(m, (z + 1) % 256))
  IN CASE mode = "INDX" -> zp16(b + m.x)
       [] mode = "INDY" -> (zp16(b) + m.y) % 65536
       [] mode = "IND"  ->   \* the pointer's high byte never leaves its page
            Word(read8(m, w), read8(m, 256 * (w \div 256) + ((w + 1) % 256)))

(* The address an operand is at, and the length of what encodes it. *)
fetch(m, mode) ==
  LET b == read8(m, m.pc)
      w == read16(m, m.pc)
  IN CASE mode = "ZP"   -> b
       [] mode = "ZPX"  -> (b + m.x) % 256
       [] mode = "ZPY"  -> (b + m.y) % 256
       [] mode = "ABS"  -> w
       [] mode = "ABSX" -> (w + m.x) % 65536
       [] mode = "ABSY" -> (w + m.y) % 65536
       [] OTHER         -> indirect(m, mode)
skip(m, n) == [m EXCEPT !.pc = (@ + n) % 65536]
operand_bytes(mode) == IF mode \in {"ABS", "ABSX", "ABSY", "IND"} THEN 2 ELSE 1

-----------------------------------------------------------------------------
Load(m, r, v) == [m EXCEPT ![r] = v, !.p = upd_nz(@, v)]
Arith(m, s) == [m EXCEPT !.a = s.v, !.p = s.p]

(* Mutant: RTI leaves the I flag of the handler set. *)
RtiKeepsI(m) ==
  LET m1 == [popped(m) EXCEPT !.p = from_byte(pulled(m)) \cup {"I"}]
  IN [popped16(m1) EXCEPT !.pc = pulled16(m1)]

RTI(m) ==
  LET m1 == [popped(m) EXCEPT !.p = from_byte(pulled(m))]
  IN [popped16(m1) EXCEPT !.pc = pulled16(m1)]

BRK(m) ==
  LET ret == (m.pc + 1) % 65536
      m1 == push(push16(m, ret), to_push_byte(m.p, TRUE))
  IN [m1 EXCEPT !.p = @ \cup {"I"}, !.pc = read16(m1, \hFFFE)]

(* Implied mode: returns, BRK and the flag instructions, then the rest *)
control(m, op) ==
  CASE op = "RTS" -> [popped16(m) EXCEPT !.pc = (pulled16(m) + 1) % 65536]
    [] op = "BRK" -> BRK(m)
    [] op = "RTI" -> RTI(m)
    [] op = "CLC" -> [m EXCEPT !.p = @ \ {"C"}]
    [] op = "CLD" -> [m EXCEPT !.p = @ \ {"D"}]
    [] op = "CLI" -> [m EXCEPT !.p = @ \ {"I"}]
    [] op = "CLV" -> [m EXCEPT !.p = @ \ {"V"}]
    [] op = "SEC" -> [m EXCEPT !.p = @ \cup {"C"}]
    [] op = "SED" -> [m EXCEPT !.p = @ \cup {"D"}]
    [] op = "SEI" -> [m EXCEPT !.p = @ \cup {"I"}]
    [] OTHER -> m                       \* NOP, and the undefined opcodes

op0(m, op) ==
  CASE op = "TAX" -> Load(m, "x", m.a)
    [] op = "TXA" -> Load(m, "a", m.x)
    [] op = "TAY" -> Load(m, "y", m.a)
    [] op = "TYA" -> Load(m, "a", m.y)
    [] op = "TSX" -> Load(m, "x", m.sp)
    [] op = "TXS" -> [m EXCEPT !.sp = m.x]
    [] op = "PHA" -> push(m, m.a)
    [] op = "PHP" -> push(m, to_push_byte(m.p, TRUE))
    [] op = "PLA" -> Load(popped(m), "a", pulled(m))
    [] op = "PLP" -> [popped(m) EXCEPT !.p = from_byte(pulled(m))]
    [] op = "INX" -> Load(m, "x", (m.x + 1) % 256)
    [] op = "INY" -> Load(m, "y", (m.y + 1) % 256)
    [] op = "DEX" -> Load(m, "x", (m.x - 1) % 256)
    [] op = "DEY" -> Load(m, "y", (m.y - 1) % 256)
    [] OTHER -> control(m, op)

(* An operation on an operand byte, immediate or read from memory *)
op1(m, op, v) ==
  CASE op = "LDA" -> Load(m, "a", v)
    [] op = "LDX" -> Load(m, "x", v)
    [] op = "LDY" -> Load(m, "y", v)
    [] op = "ADC" -> Arith(m, adc(m.a, v, m.p))
    [] op = "SBC" -> Arith(m, sbc(m.a, v, m.p))
    [] op = "AND" -> Load(m, "a", byte_and(m.a, v))
    [] op = "ORA" -> Load(m, "a", byte_or(m.a, v))
    [] op = "EOR" -> Load(m, "a", byte_xor(m.a, v))
    [] op = "CMP" -> [m EXCEPT !.p = compare(m.a, v, @)]
    [] op = "CPX" -> [m EXCEPT !.p = compare(m.x, v, @)]
    [] op = "CPY" -> [m EXCEPT !.p = compare(m.y, v, @)]

(* Store v and set N and Z from it: INC and DEC, and the shifts of memory *)
Rewrite(m, addr, v) == [write8(m, addr, v) EXCEPT !.p = upd_nz(@, v)]

op_with_addr(m, op, v, addr) ==
  CASE op = "STA" -> write8(m, addr, m.a)
    [] op = "STX" -> write8(m, addr, m.x)
    [] op = "STY" -> write8(m, addr, m.y)
    [] op = "BIT" ->
         [m EXCEPT !.p = Put(Put(Put(@, "Z", byte_and(m.a, v) = 0), "N", Neg(v)),
                             "V", (v \div 64) % 2 = 1)]
    [] op = "INC" -> Rewrite(m, addr, (v + 1) % 256)
    [] op = "DEC" -> Rewrite(m, addr, (v - 1) % 256)
    [] op \in {"ASL", "LSR", "ROL", "ROR"} ->
         LET s == shift(op, v, m.p) IN [write8(m, addr, s.v) EXCEPT !.p = s.p]
    [] op = "JMP" -> [m EXCEPT !.pc = addr]
    [] op = "JSR" -> [push16(m, (m.pc - 1) % 65536) EXCEPT !.pc = addr]
    [] OTHER -> op1(m, op, v)

(* A store does not read first: that could take a byte from the UART. *)
Storing == {"STA", "STX", "STY"}
exec_memory(m, op, addr) ==
  op_with_addr(IF op \in Storing THEN m ELSE rx_read(m, addr), op, read8(m, addr), addr)

taken(p, op) ==
  CASE op = "BCC" -> "C" \notin p
    [] op = "BCS" -> "C" \in p
    [] op = "BEQ" -> "Z" \in p
    [] op = "BMI" -> "N" \in p
    [] op = "BNE" -> "Z" \notin p
    [] op = "BPL" -> "N" \notin p
    [] op = "BVC" -> "V" \notin p
    [] op = "BVS" -> "V" \in p
sbyte(b) == IF Neg(b) THEN b - 256 ELSE b
branch(m, op) ==
  skip(m, 1 + (IF taken(m.p, op) THEN sbyte(read8(m, m.pc)) ELSE 0))

(* Fetch, decode and execute the instruction at pc. *)
exec(m0) ==
  LET d == decode[read8(m0, m0.pc)]
      m == skip(m0, 1)
  IN CASE d.mode = "IMM" -> op1(skip(m, 1), d.op, read8(m, m.pc))
       [] d.mode = "ACC" -> Arith(m, shift(d.op, m.a, m.p))
       [] d.mode = "REL" -> branch(m, d.op)
       [] d.mode = "IMP" -> op0(m, d.op)
       [] OTHER -> exec_memory(skip(m, operand_bytes(d.mode)), d.op, fetch(m, d.mode))
next_op(m) == decode[read8(m, m.pc)].op

(* Mutant: the status is pushed as BRK pushes it. *)
ServeAsBrk(m, vector) ==
  LET m1 == push(push16(m, m.pc), to_push_byte(m.p, TRUE))
  IN [m1 EXCEPT !.p = @ \cup {"I"}, !.pc = read16(m1, vector)]

(* Mutant: I is not set. *)
ServeUnmasked(m, vector) ==
  LET m1 == push(push16(m, m.pc), to_push_byte(m.p, FALSE))
  IN [m1 EXCEPT !.pc = read16(m1, vector)]

serve_interrupt(m, vector) ==
  LET m1 == push(push16(m, m.pc), to_push_byte(m.p, FALSE))
  IN [m1 EXCEPT !.p = @ \cup {"I"}, !.pc = read16(m1, vector)]

-----------------------------------------------------------------------------
(* The machine without the bytes the stack has left behind. *)
Live(s) ==
  [s EXCEPT !.mem = [i \in Ram |-> IF i \in 256..(256 + s.sp) THEN 0 ELSE @[i]]]
=============================================================================
