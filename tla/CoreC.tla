-------------------------------- MODULE CoreC -------------------------------
(* The C port of the core, avr/sage6502.c, as functions of the machine: a    *)
(* record [a, x, y, sp, pc, p, cycount, nmi_pending, irq_pending, bus].  The *)
(* bus is whatever the build links: bus.c or bus_apple2.c.  A read returns   *)
(* the byte and the bus it leaves, for some devices change when they are     *)
(* read.  The operand of an instruction is read that way; opcodes, operand   *)
(* bytes, pointers, the stack and the vectors are taken to be memory, whose  *)
(* bus a read leaves alone.  `halted` is left out: nothing ever sets it.     *)
EXTENDS AluC, Sequences

CONSTANTS bus_read(_, _),       \* [v, bus]: the byte read, and the bus after it
          bus_write(_, _, _),   \* the bus after a write
          CYCOUNT_RANGE         \* what a uint32_t counts: 2^32 in the code

peek(m, addr) == bus_read(m.bus, addr % 65536).v
peek16(m, addr) == peek(m, addr) + 256 * peek(m, addr + 1)
poke(m, addr, v) == [m EXCEPT !.bus = bus_write(@, addr, v)]

-----------------------------------------------------------------------------
(* The opcode table, by rows of sixteen.  The numbers are the ids of the     *)
(* operations; an undefined opcode has the id of LDA and mode IMP, which     *)
(* op0_op has no case for.                                                   *)
IDS == <<
  46, 19,  0,  0,  0, 19, 31,  0, 13, 19, 31,  0,  0, 19, 31,  0,
  40, 19,  0,  0,  0, 19, 31,  0, 49, 19,  0,  0,  0, 19, 31,  0,
  44, 18,  0,  0, 21, 18, 33,  0, 15, 18, 33,  0, 21, 18, 33,  0,
  38, 18,  0,  0,  0, 18, 33,  0, 53, 18,  0,  0,  0, 18, 33,  0,
  47, 20,  0,  0,  0, 20, 32,  0, 12, 20, 32,  0, 43, 20, 32,  0,
  41, 20,  0,  0,  0, 20, 32,  0, 51, 20,  0,  0,  0, 20, 32,  0,
  45, 16,  0,  0,  0, 16, 34,  0, 14, 16, 34,  0, 43, 16, 34,  0,
  42, 16,  0,  0,  0, 16, 34,  0, 55, 16,  0,  0,  0, 16, 34,  0,
   0,  3,  0,  0,  5,  3,  4,  0, 30,  0,  7,  0,  5,  3,  4,  0,
  35,  3,  0,  0,  5,  3,  4,  0,  9,  3, 11,  0,  0,  3,  0,  0,
   2,  0,  1,  0,  2,  0,  1,  0,  8,  0,  6,  0,  2,  0,  1,  0,
  36,  0,  0,  0,  2,  0,  1,  0, 52,  0, 10,  0,  2,  0,  1,  0,
  24, 22,  0,  0, 24, 22, 26,  0, 28, 22, 29,  0, 24, 22, 26,  0,
  39, 22,  0,  0,  0, 22, 26,  0, 50, 22,  0,  0,  0, 22, 26,  0,
  23, 17,  0,  0, 23, 17, 25,  0, 27, 17, 48,  0, 23, 17, 25,  0,
  37, 17,  0,  0,  0, 17, 25,  0, 54, 17,  0,  0,  0, 17, 25,  0 >>
LDA_CODES == {\hA1, \hA5, \hA9, \hAD, \hB1, \hB5, \hB9, \hBD}

(* The addressing mode follows the column and the parity of the row, but for *)
(* a few opcodes.                                                             *)
regular_mode(code) ==
  LET column == code % 16
      Odd(mode, even) == IF (code \div 16) % 2 = 1 THEN mode ELSE even
  IN CASE column = 0 -> Odd("REL", "IMP")
       [] column = 1 -> Odd("INDY", "INDX")
       [] column \in 4..6 -> Odd("ZPX", "ZP")
       [] column = 9 -> Odd("ABSY", "IMM")
       [] column \in 12..14 -> Odd("ABSX", "ABS")
       [] OTHER -> "IMP"
MODE(code) ==
  CASE code = \h6C -> "IND"
    [] code = \h20 -> "ABS"
    [] code = \hBE -> "ABSY"
    [] code \in {\h96, \hB6} -> "ZPY"
    [] code \in {\hA0, \hA2, \hC0, \hE0} -> "IMM"
    [] code \in {\h0A, \h2A, \h4A, \h6A} -> "ACC"
    [] OTHER -> regular_mode(code)
OP(code) ==
  LET id == IDS[code + 1]
  IN [id |-> id, mode |-> IF id = 0 /\ code \notin LDA_CODES THEN "IMP" ELSE MODE(code)]

(* The cycles of each opcode, page crossings and branches apart *)
CY == <<
  7, 6, 2, 2, 3, 3, 5, 2, 3, 2, 2, 2, 4, 4, 6, 2,  2, 5, 2, 2, 4, 4, 6, 2, 2, 4, 2, 2, 4, 4, 7, 2,
  6, 6, 2, 2, 3, 3, 5, 2, 4, 2, 2, 2, 4, 4, 6, 2,  2, 5, 2, 2, 4, 4, 6, 2, 2, 4, 2, 2, 4, 4, 7, 2,
  6, 6, 2, 2, 3, 3, 5, 2, 3, 2, 2, 2, 4, 4, 6, 2,  2, 5, 2, 2, 4, 4, 6, 2, 2, 4, 2, 2, 4, 4, 7, 2,
  6, 6, 2, 2, 3, 3, 5, 2, 4, 2, 2, 2, 4, 4, 6, 2,  2, 5, 2, 2, 4, 4, 6, 2, 2, 4, 2, 2, 4, 4, 7, 2,
  2, 6, 2, 2, 3, 3, 3, 2, 2, 2, 2, 2, 4, 4, 4, 2,  2, 6, 2, 2, 4, 4, 4, 2, 2, 5, 2, 2, 4, 5, 2, 2,
  2, 6, 2, 2, 3, 3, 3, 2, 2, 2, 2, 2, 4, 4, 4, 2,  2, 5, 2, 2, 4, 4, 4, 2, 2, 4, 2, 2, 4, 4, 4, 2,
  2, 6, 2, 2, 3, 3, 5, 2, 2, 2, 2, 2, 4, 4, 6, 2,  2, 5, 2, 2, 4, 4, 6, 2, 2, 4, 2, 2, 4, 4, 7, 2,
  2, 6, 2, 2, 3, 3, 5, 2, 2, 2, 2, 2, 4, 4, 6, 2,  2, 5, 2, 2, 4, 4, 6, 2, 2, 4, 2, 2, 4, 4, 7, 2 >>

-----------------------------------------------------------------------------
push(m, v) == [poke(m, 256 + m.sp, v) EXCEPT !.sp = (@ - 1) % 256]
pulled(m) == peek(m, 256 + ((m.sp + 1) % 256))
(* Mutant: the stack pointer is pulled past its byte. *)
PullUncut(m) == [m EXCEPT !.sp = @ + 1]
pull(m) == [m EXCEPT !.sp = (@ + 1) % 256]
push16(m, w) == push(push(m, w \div 256), w % 256)
pulled16(m) == pulled(m) + 256 * pulled(pull(m))
pull16(m) == pull(pull(m))

advance(m, n) == [m EXCEPT !.pc = (@ + n) % 65536]
pages_differ(v, w) == v \div 256 # w \div 256

(* The base address an indexed mode starts from, and the index it adds. *)
base(m, mode) ==
  IF mode = "INDY" THEN LET zp == peek(m, m.pc) IN peek(m, zp) + 256 * peek(m, (zp + 1) % 256)
  ELSE peek16(m, m.pc)
indexed(m, mode) == (base(m, mode) + (IF mode = "ABSX" THEN m.x ELSE m.y)) % 65536
fetch_crossed(m, mode) ==
  mode \in {"ABSX", "ABSY", "INDY"} /\ pages_differ(base(m, mode), indexed(m, mode))

fetch(m, mode) ==
  LET zp == peek(m, m.pc)
      ptr == peek16(m, m.pc)
  IN CASE mode = "ZP"  -> zp
       [] mode = "ZPX" -> (zp + m.x) % 256
       [] mode = "ZPY" -> (zp + m.y) % 256
       [] mode = "ABS" -> ptr
       [] mode \in {"ABSX", "ABSY", "INDY"} -> indexed(m, mode)
       [] mode = "INDX" ->
            peek(m, (zp + m.x) % 256) + 256 * peek(m, (zp + m.x + 1) % 256)
       [] mode = "IND" ->           \* the pointer does not leave its page
            peek(m, ptr) + 256 * peek(m, 256 * (ptr \div 256) + ((ptr + 1) % 256))
length(mode) == IF mode \in {"ABS", "ABSX", "ABSY", "IND"} THEN 2 ELSE 1

sbyte(b) == IF Neg(b) THEN b - 256 ELSE b

-----------------------------------------------------------------------------
set_nz(m, r, v) == [m EXCEPT ![r] = v, !.p = upd_nz(@, v)]
into_a(m, s) == [m EXCEPT !.a = s.v, !.p = s.p]

op_imm(m, id, operand) ==
  CASE id = 0  -> set_nz(m, "a", operand)
    [] id = 1  -> set_nz(m, "x", operand)
    [] id = 2  -> set_nz(m, "y", operand)
    [] id = 16 -> into_a(m, c_adc(m.a, operand, m.p))
    [] id = 17 -> into_a(m, c_sbc(m.a, operand, m.p))
    [] id = 18 -> set_nz(m, "a", byte_and(m.a, operand))
    [] id = 19 -> set_nz(m, "a", byte_or(m.a, operand))
    [] id = 20 -> set_nz(m, "a", byte_xor(m.a, operand))
    [] id = 22 -> [m EXCEPT !.p = c_compare(m.a, operand, @)]
    [] id = 23 -> [m EXCEPT !.p = c_compare(m.x, operand, @)]
    [] id = 24 -> [m EXCEPT !.p = c_compare(m.y, operand, @)]

shift_name(id) == <<"ASL", "LSR", "ROL", "ROR">>[id - 30]
shift_at(m, id, operand, addr) ==
  LET s == c_shift(shift_name(id), operand, m.p) IN [poke(m, addr, s.v) EXCEPT !.p = s.p]
shift_a(m, id) == into_a(m, c_shift(shift_name(id), m.a, m.p))

rewrite(m, addr, v) == [poke(m, addr, v) EXCEPT !.p = upd_nz(@, v)]

op_with_addr(m, id, operand, addr) ==
  CASE id = 21 -> [m EXCEPT !.p = Put(Put(Put(@, "Z", byte_and(m.a, operand) = 0), "N", Neg(operand)),
                                      "V", (operand \div 64) % 2 = 1)]
    [] id = 25 -> rewrite(m, addr, (operand + 1) % 256)
    [] id = 26 -> rewrite(m, addr, (operand - 1) % 256)
    [] id \in 31..34 -> shift_at(m, id, operand, addr)
    [] id = 43 -> [m EXCEPT !.pc = addr]
    [] id = 44 -> [push16(m, (m.pc - 1) % 65536) EXCEPT !.pc = addr]
    [] OTHER -> op_imm(m, id, operand)            \* the same operations

take(p, id) ==
  CASE id = 35 -> "C" \notin p [] id = 36 -> "C" \in p
    [] id = 37 -> "Z" \in p    [] id = 38 -> "N" \in p
    [] id = 39 -> "Z" \notin p [] id = 40 -> "N" \notin p
    [] id = 41 -> "V" \notin p [] id = 42 -> "V" \in p

(* Mutant: the page is compared with that of the branch, not of what follows. *)
BranchPageOfOperand(m, id) ==
  LET next == advance(m, 1)
      to == advance(next, sbyte(peek(m, m.pc)))
  IN IF take(m.p, id) THEN [m |-> to, extra |-> IF pages_differ(to.pc, m.pc) THEN 2 ELSE 1]
     ELSE [m |-> next, extra |-> 0]

branch(m, id) ==
  LET next == advance(m, 1)
      to == advance(next, sbyte(peek(m, m.pc)))
  IN IF take(m.p, id)
     THEN [m |-> to, extra |-> IF pages_differ(to.pc, next.pc) THEN 2 ELSE 1]
     ELSE [m |-> next, extra |-> 0]

interrupted_at(m, pc, break, vector) ==    \* push pc and status, set I, vector
  LET pushed == push(push16(m, pc), to_push_byte(m.p, break))
  IN [pushed EXCEPT !.p = @ \cup {"I"}, !.pc = peek16(pushed, vector)]

RTI(m) ==
  LET status == [pull(m) EXCEPT !.p = from_byte(pulled(m))]
  IN [pull16(status) EXCEPT !.pc = pulled16(status)]

op0_op(m, id) ==
  CASE id = 6  -> set_nz(m, "x", m.a)
    [] id = 7  -> set_nz(m, "a", m.x)
    [] id = 8  -> set_nz(m, "y", m.a)
    [] id = 9  -> set_nz(m, "a", m.y)
    [] id = 10 -> set_nz(m, "x", m.sp)
    [] id = 11 -> [m EXCEPT !.sp = m.x]
    [] id = 12 -> push(m, m.a)
    [] id = 13 -> push(m, to_push_byte(m.p, TRUE))
    [] id = 14 -> set_nz(pull(m), "a", pulled(m))
    [] id = 15 -> [pull(m) EXCEPT !.p = from_byte(pulled(m))]
    [] id = 27 -> set_nz(m, "x", (m.x + 1) % 256)
    [] id = 28 -> set_nz(m, "y", (m.y + 1) % 256)
    [] id = 29 -> set_nz(m, "x", (m.x - 1) % 256)
    [] id = 30 -> set_nz(m, "y", (m.y - 1) % 256)
    [] id = 45 -> [pull16(m) EXCEPT !.pc = (pulled16(m) + 1) % 65536]
    [] id = 46 -> interrupted_at(m, (m.pc + 1) % 65536, TRUE, \hFFFE)
    [] id = 47 -> RTI(m)
    [] id \in 49..52 -> [m EXCEPT !.p = @ \ {<<"C", "D", "I", "V">>[id - 48]}]
    [] id \in 53..55 -> [m EXCEPT !.p = @ \cup {<<"C", "D", "I">>[id - 52]}]
    [] OTHER -> m                       \* NOP, and the undefined opcodes

(* Indexed reads take a cycle more when they cross a page. *)
crossing_costs == {0, 1, 2} \cup 16..20 \cup {22}

(* Stores write without reading; everything else reads its operand first,    *)
(* JMP and JSR too.                                                          *)
exec_memory(m, id, addr) ==
  CASE id = 3 -> poke(m, addr, m.a)
    [] id = 4 -> poke(m, addr, m.x)
    [] id = 5 -> poke(m, addr, m.y)
    [] OTHER ->
         LET operand == bus_read(m.bus, addr)
         IN op_with_addr([m EXCEPT !.bus = operand.bus], id, operand.v, addr)

page_extra(m, id, mode) ==
  IF id \in crossing_costs /\ fetch_crossed(m, mode) THEN 1 ELSE 0

exec_step(m0, code) ==
  LET op == OP(code)
      m == advance(m0, 1)
      done(after) == [m |-> after, extra |-> 0]
  IN CASE op.mode = "IMM" -> done(op_imm(advance(m, 1), op.id, peek(m, m.pc)))
       [] op.mode = "ACC" -> done(shift_a(m, op.id))
       [] op.mode = "REL" -> branch(m, op.id)
       [] op.mode = "IMP" -> done(op0_op(m, op.id))
       [] OTHER -> [m |-> exec_memory(advance(m, length(op.mode)), op.id, fetch(m, op.mode)),
                    extra |-> page_extra(m, op.id, op.mode)]

-----------------------------------------------------------------------------
count(m, n) == [m EXCEPT !.cycount = (@ + n) % CYCOUNT_RANGE]
serve_interrupt(m, vector) == count(interrupted_at(m, m.pc, FALSE, vector), 7)

cpu_reset(m) ==
  [a |-> 0, x |-> 0, y |-> 0, sp |-> \hFD, pc |-> peek16(m, \hFFFC), p |-> {"I"},
   cycount |-> 0, irq_pending |-> FALSE, nmi_pending |-> FALSE, bus |-> m.bus]

(* Mutant: an IRQ is looked at before an NMI. *)
StepIrqFirst(m) ==
  LET run == exec_step(m, peek(m, m.pc))
      ran == count(run.m, CY[peek(m, m.pc) + 1] + run.extra)
  IN IF ran.irq_pending /\ "I" \notin ran.p
     THEN serve_interrupt([ran EXCEPT !.irq_pending = FALSE], \hFFFE)
     ELSE IF ran.nmi_pending THEN serve_interrupt([ran EXCEPT !.nmi_pending = FALSE], \hFFFA)
     ELSE ran

cpu_step(m) ==
  LET code == peek(m, m.pc)
      run == exec_step(m, code)
      ran == count(run.m, CY[code + 1] + run.extra)
  IN IF ran.nmi_pending THEN serve_interrupt([ran EXCEPT !.nmi_pending = FALSE], \hFFFA)
     ELSE IF ran.irq_pending /\ "I" \notin ran.p
     THEN serve_interrupt([ran EXCEPT !.irq_pending = FALSE], \hFFFE)
     ELSE ran

cpu_interrupt(m) == [m EXCEPT !.irq_pending = TRUE]
cpu_nmi(m) == [m EXCEPT !.nmi_pending = TRUE]
=============================================================================
