-------------------------------- MODULE Port --------------------------------
(* The Sage core (Core6502, Timing) and its C port (CoreC) side by side,     *)
(* each on its own bus: that of bus/applebus.sage, and avr/bus.c with the    *)
(* UART of avr/host_uart.c.  The two run the same instructions from the same *)
(* registers, and get the same interrupts and the same bytes.                *)
EXTENDS Timing

CONSTANTS Starts,      \* machines a program can have reached
          MaxSteps,    \* instructions executed from a start
          CYCOUNT_RANGE,   \* what the port's cycle counter holds, 2^32 in the code
          RXCAP,       \* size of the receive ring, one cell of it unused
          Received     \* bytes that come in

ASSUME PortAssumption ==
  /\ \A i \in Ram : i < \h0400
  /\ \A i \in DOMAIN Rom : i >= \hE000
  /\ MaxSteps \in Nat /\ {RXCAP, CYCOUNT_RANGE} \subseteq Nat \ {0} /\ Received \subseteq Byte

(* The machines there are, on both sides: what came in fits the ring. *)
Machine ==
  {m \in [a : Byte, x : Byte, y : Byte, sp : Byte, pc : Address, p : SUBSET Flags,
          mem : [Ram -> Byte], uart : [rx : Seq(Byte), tx : Seq(Byte)]] :
     Len(m.uart.rx) < RXCAP}
ASSUME StartsAssumption == Starts \subseteq Machine

(* avr/host_uart.c: the ring is not tested for full, and one byte too many   *)
(* makes it look empty.                                                      *)
hu_feed(b, v) == [b EXCEPT !.rx = IF Len(@) + 1 = RXCAP THEN <<>> ELSE Append(@, v)]
hu_rx(b) ==
  IF b.rx = <<>> THEN [v |-> 0, bus |-> b]
  ELSE [v |-> Head(b.rx), bus |-> [b EXCEPT !.rx = Tail(@)]]
hu_tx(b, v) == [b EXCEPT !.tx = Append(@, v)]

(* avr/bus.c: RAM below $400, the UART, ROM from $E000, zero elsewhere *)
bus_c_read(b, addr) ==
  LET got(v) == [v |-> v, bus |-> b]
  IN CASE addr \in Ram -> got(b.ram[addr])
       [] addr = \h2000 -> got(IF b.rx # <<>> THEN 3 ELSE 2)
       [] addr = \h2001 -> hu_rx(b)
       [] addr >= \hE000 /\ addr \in DOMAIN Rom -> got(Rom[addr])
       [] OTHER -> got(0)
bus_c_write(b, addr, v) ==
  CASE addr < \h0400 /\ addr \in Ram -> [b EXCEPT !.ram[addr] = v]
    [] addr \in {\h2001, \h3000} -> hu_tx(b, v)
    [] OTHER -> b

C == INSTANCE CoreC WITH bus_read <- bus_c_read, bus_write <- bus_c_write

VARIABLES sage,         \* [m, cycles, irq, nmi]: the machine of cpu.sage
          port,         \* the machine of sage6502.c
          steps
vars == <<sage, port, steps>>

Ported(m) ==
  [a |-> m.a, x |-> m.x, y |-> m.y, sp |-> m.sp, pc |-> m.pc, p |-> m.p,
   bus |-> [ram |-> m.mem, rx |-> m.uart.rx, tx |-> m.uart.tx],
   cycount |-> 0, irq_pending |-> FALSE, nmi_pending |-> FALSE]

Init ==
  /\ \E m \in Starts : /\ sage = [m |-> m, cycles |-> 0, irq |-> FALSE, nmi |-> FALSE]
                       /\ port = Ported(m)
  /\ steps = 0

serve(s, vector) == [s EXCEPT !.m = serve_interrupt(@, vector), !.cycles = @ + 7]

step(s) ==
  LET ran == [s EXCEPT !.m = exec(@), !.cycles = @ + instruction_cycles(s.m)]
  IN CASE ran.nmi -> serve([ran EXCEPT !.nmi = FALSE], \hFFFA)
       [] ~ran.nmi /\ ran.irq /\ "I" \notin ran.m.p -> serve([ran EXCEPT !.irq = FALSE], \hFFFE)
       [] OTHER -> ran

(* A program is in memory: nothing here executes the registers of a device. *)
going == steps < MaxSteps /\ sage.m.pc \notin \h1FFE..\h2007

Step ==
  /\ going /\ steps' = steps + 1
  /\ sage' = step(sage)
  /\ port' = C!cpu_step(port)

Interrupt ==
  /\ going /\ ~sage.irq
  /\ sage' = [sage EXCEPT !.irq = TRUE]
  /\ port' = C!cpu_interrupt(port)
  /\ UNCHANGED steps

Nmi ==
  /\ going /\ ~sage.nmi
  /\ sage' = [sage EXCEPT !.nmi = TRUE]
  /\ port' = C!cpu_nmi(port)
  /\ UNCHANGED steps

(* The reference keeps any number of bytes; compared is what the ring holds. *)
Receive ==
  /\ going /\ Len(port.bus.rx) + 1 < RXCAP
  /\ \E v \in Received : /\ sage' = [sage EXCEPT !.m = receive(@, v)]
                          /\ port' = [port EXCEPT !.bus = hu_feed(@, v)]
  /\ UNCHANGED steps

Reset ==
  /\ going /\ steps' = steps + 1
  /\ sage' = [m |-> reset(sage.m), cycles |-> 0, irq |-> FALSE, nmi |-> FALSE]
  /\ port' = C!cpu_reset(port)

(* The comparison ends here; the cores themselves never stop. *)
Done == ~going /\ UNCHANGED vars

Next == Step \/ Interrupt \/ Nmi \/ Receive \/ Reset \/ Done

Spec == Init /\ [][Next]_vars

-----------------------------------------------------------------------------
(* The registers of the port keep the widths of their C types, and its       *)
(* memory holds bytes.                                                       *)
TypeOK ==
  /\ {port.a, port.x, port.y, port.sp} \subseteq Byte /\ port.pc \in Address
  /\ port.p \subseteq Flags /\ port.cycount \in 0..(CYCOUNT_RANGE - 1)
  /\ DOMAIN port.bus.ram = Ram /\ \A i \in Ram : port.bus.ram[i] \in Byte
  /\ Len(port.bus.rx) < RXCAP

(* The port mirrors the reference core: whatever the opcode (undefined ones   *)
(* included), the operand, the flags and the interrupts pending, the two have *)
(* the same registers, flags, memory and latches after every instruction,     *)
(* have sent the same bytes and taken as many from the UART.                  *)
CoresInStep ==
  port = [Ported(sage.m) EXCEPT !.cycount = port.cycount, !.irq_pending = sage.irq,
                                !.nmi_pending = sage.nmi]

(* They also count the same cycles, as far as the port's counter goes before  *)
(* it wraps: the tables, the page crossings of reads and of branches, and the *)
(* seven of an interrupt.                                                     *)
CyclesInStep == port.cycount = sage.cycles % CYCOUNT_RANGE
=============================================================================
