------------------------------- MODULE Console ------------------------------
(* The Apple II build whole: the C core executes the line editor of its ROM  *)
(* from reset on, on the bus of bus_apple2.c, while keys come in over the    *)
(* UART.  Nothing on this build raises an interrupt.                         *)
EXTENDS BusApple2

CONSTANTS Keys,        \* bytes that come in over the UART
          MaxKeys,     \* how many of them, at any time
          Leads,       \* how many keys may have been typed, unhurried, before them
          Letter       \* the key those were

ASSUME ConsoleAssumption ==
  Keys \cup {Letter} \subseteq 0..127 /\ MaxKeys \in Nat /\ Leads \subseteq Nat

C == INSTANCE CoreC WITH CYCOUNT_RANGE <- 1      \* nothing here reads the cycle counter

VARIABLES machine,     \* core and bus
          lead, fed,   \* number of unhurried keys to come, of others sent
          due          \* the banner, and what the keys are echoed as that the ring had room for
vars == <<machine, lead, fed, due>>

T == INSTANCE Terminal WITH Keys <- Keys \cup {Letter}, out <- machine.bus.tx

polling == machine.pc = \hD04D          \* in the loop that waits for a key

(* bus_reset(), then cpu_reset() *)
Init ==
  /\ machine = C!cpu_reset([bus |-> bus_reset(PowerOn)])
  /\ lead \in Leads /\ fed = 0 /\ due = T!Banner

send(key) ==
  LET bus == host_uart_feed(machine.bus, key)
  IN /\ machine' = [machine EXCEPT !.bus = bus]
     /\ due' = IF bus.rx # machine.bus.rx THEN due \o T!Echo(key) ELSE due

(* A long text comes in letter by letter, each when the last was taken. *)
Lead ==
  /\ lead > 0 /\ lead' = lead - 1
  /\ polling /\ ~uart_rx_ready(machine.bus)
  /\ send(Letter)
  /\ UNCHANGED fed

Feed ==
  /\ lead = 0 /\ fed < MaxKeys /\ fed' = fed + 1
  /\ \E key \in Keys : send(key)
  /\ UNCHANGED lead

(* One round of run_steps() *)
Step ==
  /\ machine' = C!cpu_step(machine)
  /\ UNCHANGED <<lead, fed, due>>

Next == Lead \/ Feed \/ Step

(* run_steps() goes on as long as the host lets it; keys need not come.  The *)
(* core can always step and no step leaves it where it was, so that its weak *)
(* fairness is this.                                                         *)
Spec == Init /\ [][Next]_vars /\ []<><<Step>>_vars

-----------------------------------------------------------------------------
(* The ring, the keyboard latch and the echo keep every key that was accepted *)
(* and its order: what the UART sent is the banner and the echoes, whenever   *)
(* the keys come, also while the program is still booting.                    *)
TerminalSpec == T!Spec

(* Every key that was accepted is echoed in the end: the program is never     *)
(* left polling a strobe that does not come, with a key behind it.            *)
AllEchoed == <>[](machine.bus.tx = due)

column == At(machine.bus.ram, \h13)
cursor == At(machine.bus.ram, \h10) + 256 * At(machine.bus.ram, \h11)

(* Between two keys the cursor is on a row of forty cells at its column; a    *)
(* line that is full or ended starts the next row.  Backspace is left out: at *)
(* the start of a row it leaves the grid.                                     *)
CursorOnGrid ==
  polling /\ (\A i \in DOMAIN due : due[i] # \h08) =>
    column \in 0..39 /\ (cursor - column - \h0402) % 40 = 0

(* The machine keeps the widths of its C types, the keyboard a key of seven   *)
(* bits once it is acknowledged, and the ring one cell free.                  *)
TypeOK ==
  /\ {machine.a, machine.x, machine.y, machine.sp} \subseteq 0..255
  /\ machine.pc \in 0..65535
  /\ Len(machine.bus.rx) < HOST_RX_CAPACITY /\ Len(machine.bus.tx) <= HOST_TX_CAPACITY
  /\ LET kbd == machine.bus.kbd
     IN /\ kbd.strobe => kbd.valid
        /\ kbd.latch \in (IF kbd.strobe THEN 128..255 ELSE 0..127)
  /\ machine.bus.video.events \in 0..EVENT_MAX
=============================================================================
