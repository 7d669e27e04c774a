-------------------------------- MODULE Cpu ---------------------------------
(* The processor loop of sage6502/cpu.sage: step(), with the interrupt       *)
(* latches that interrupt() and nmi() set and the bus's autostart request.   *)
(* frames is a history variable: the activations not yet returned from, each *)
(* an interrupt or a BRK with the machine it found.  No program here uses    *)
(* the UART.                                                                 *)
EXTENDS Core6502, FiniteSets

CONSTANTS Private,     \* the RAM that belongs to the interrupted program
          Boot,        \* the machine as RESET leaves it
          MaxFrames,   \* no request is made with this many activations open
          MaxRestarts  \* the autostart request is made at most so often

(* The machines there are *)
Machine ==
  [a : Byte, x : Byte, y : Byte, sp : Byte, pc : Address, p : SUBSET Flags,
   mem : [Ram -> Byte], uart : [rx : Seq(Byte), tx : Seq(Byte)]]

ASSUME CpuAssumption ==
  Private \subseteq Ram /\ Boot \in Machine /\ {MaxFrames, MaxRestarts} \subseteq Nat

VARIABLES m, irq_pending, nmi_pending, autostart_requested, frames, restarts
vars == <<m, irq_pending, nmi_pending, autostart_requested, frames, restarts>>

Init ==
  /\ m = Boot
  /\ irq_pending = FALSE /\ nmi_pending = FALSE /\ autostart_requested = FALSE
  /\ frames = <<>> /\ restarts = 0

interrupt ==
  /\ Len(frames) < MaxFrames
  /\ irq_pending' = TRUE
  /\ UNCHANGED <<m, nmi_pending, autostart_requested, frames, restarts>>

nmi ==
  /\ Len(frames) < MaxFrames
  /\ nmi_pending' = TRUE
  /\ UNCHANGED <<m, irq_pending, autostart_requested, frames, restarts>>

(* a write to a video switch while RESET is held (bus/apple2bus.sage) *)
request_autostart ==
  /\ restarts < MaxRestarts /\ restarts' = restarts + 1
  /\ autostart_requested' = TRUE
  /\ UNCHANGED <<m, irq_pending, nmi_pending, frames>>

(* An activation, and those open after the instruction that s executes, which *)
(* started with those of open. *)
Frame(kind, s) == [kind |-> kind, at |-> [s EXCEPT !.mem = << >>]]
After(s, open) ==
  CASE next_op(s) = "BRK" -> Append(open, Frame("brk", s))
    [] next_op(s) = "RTI" /\ open # <<>> -> SubSeq(open, 1, Len(open) - 1)
    [] OTHER -> open

nmi_vector == \hFFFA
irq_vector == \hFFFE

Serve(kind, vector, ran, left) ==
  /\ m' = Live(serve_interrupt(ran, vector))
  /\ frames' = Append(left, Frame(kind, ran))

step_nmi(ran, left) ==
  /\ nmi_pending
  /\ nmi_pending' = FALSE /\ UNCHANGED irq_pending
  /\ Serve("nmi", nmi_vector, ran, left)

step_irq(ran, left) ==
  /\ ~nmi_pending /\ irq_pending /\ "I" \notin ran.p
  /\ irq_pending' = FALSE /\ UNCHANGED nmi_pending
  /\ Serve("irq", irq_vector, ran, left)

step_only(ran, left) ==
  /\ ~nmi_pending /\ ~(irq_pending /\ "I" \notin ran.p)
  /\ m' = Live(ran) /\ frames' = left
  /\ UNCHANGED <<irq_pending, nmi_pending>>

(* One step(): the autostart request is taken first, then one instruction is *)
(* executed, then a pending NMI or, if I is clear, a pending IRQ is served.  *)
(* Live forgets the bytes below the stack pointer: no program modelled here  *)
(* reads a byte the stack has given up.                                      *)
step ==
  LET start == IF autostart_requested THEN [m EXCEPT !.pc = read16(m, \h03F4)] ELSE m
      ran == exec(start)
      left == After(start, IF autostart_requested THEN <<>> ELSE frames)
  IN /\ autostart_requested' = FALSE /\ UNCHANGED restarts
     /\ step_nmi(ran, left) \/ step_irq(ran, left) \/ step_only(ran, left)

Next == step \/ interrupt \/ nmi \/ request_autostart

(* The host calls step() in a loop; requests come when they come.  step is   *)
(* always possible, so this is its weak fairness, which TLC evaluates slowly *)
(* when it is written WF_vars(step).                                         *)
Spec == Init /\ [][Next]_vars /\ []<><<step>>_vars

-----------------------------------------------------------------------------
(* Types of the registers and of the RAM; the stack stays in the RAM. *)
TypeOK ==
  /\ m.a \in Byte /\ m.x \in Byte /\ m.y \in Byte /\ m.pc \in Address
  /\ 256 + m.sp \in Ram                       \* every push finds its byte
  /\ m.p \subseteq Flags /\ \A i \in Ram : m.mem[i] \in Byte
  /\ {irq_pending, nmi_pending, autostart_requested} \subseteq BOOLEAN

Interrupted == {i \in DOMAIN frames : frames[i].kind # "brk"}

(* The machine as the program below every open interrupt sees it. *)
Base ==
  IF Interrupted = {} THEN m
  ELSE LET first == CHOOSE i \in Interrupted : \A j \in Interrupted : i <= j
       IN [frames[first].at EXCEPT !.mem = m.mem]

StackRam == Ram \cap (256..511)

(* What a program can observe of a machine: the registers, the flags that    *)
(* mean something outside the stack (not B, not bit 5), the RAM that is its  *)
(* own, and the live part of the stack.                                      *)
View(s) ==
  [s EXCEPT !.p = @ \ {"U", "B"},
            !.mem = [i \in Private \cup StackRam |->
                       IF i \in Private \/ i > 256 + s.sp THEN @[i] ELSE 0]]
Whole(v) == [v EXCEPT !.mem = [i \in Ram |-> IF i \in DOMAIN @ THEN @[i] ELSE 0]]
ExecSeen(v) == View(exec(Whole(v)))
EnteredSeen(v) == exec([Whole(v) EXCEPT !.pc = read16(Whole(v), \h03F4)]).pc

(* Interrupts are transparent: whatever IRQs and NMIs arrive between its      *)
(* instructions, nested or not, during a BRK or not, the program computes     *)
(* what it computes on a processor that is never interrupted.  In particular  *)
(* the handlers find the pushed B flag clear for an IRQ and set for a BRK,    *)
(* and RTI gives back exactly the registers and the live stack.               *)
P == INSTANCE Program WITH Exec <- ExecSeen, Entered <- EnteredSeen,
                           Reset <- View(Boot), seen <- View(Base)
Transparent == P!Spec

(* serve_interrupt sets I after pushing the status, so an IRQ handler that    *)
(* never executes CLI is not entered again before it returns, whatever NMIs   *)
(* run in between and restore from the stack.                                 *)
OneIrqDeep == Cardinality({i \in DOMAIN frames : frames[i].kind = "irq"}) <= 1

(* A latched IRQ is served in the end, if from some time on no NMI and no     *)
(* autostart request arrives: I is clear again when the handlers return.      *)
(* While NMIs keep coming it need not be, because step() looks at them first. *)
IrqServed ==
  <>[][~nmi /\ ~request_autostart]_vars => (irq_pending ~> ~irq_pending)
=============================================================================
