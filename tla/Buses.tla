-------------------------------- MODULE Buses -------------------------------
(* The reference bus of the Apple II (Apple2Bus) and its C port (BusApple2)  *)
(* under the same guest and the same typist.  RESET is a key of the          *)
(* reference only; the port has no such key.                                 *)
EXTENDS BusApple2

CONSTANTS Programs,    \* sets of addresses, of which a guest uses one
          Values,      \* bytes it writes
          Keys,        \* characters typed
          MaxKeys, MaxEvents   \* bounds on the keys and on the writes to video memory

Address == 0..65535
ASSUME BusesAssumption ==
  /\ \A guest \in Programs : guest \subseteq Address
  /\ Values \subseteq 0..255 /\ Keys \subseteq 0..127 /\ {MaxKeys, MaxEvents} \subseteq Nat

S == INSTANCE Apple2Bus

VARIABLES sage, port,
          program,     \* the addresses this guest uses
          typed,       \* all keys typed, in the seven bits a guest sees
          took,        \* how many of them it has taken from each bus, or lost to RESET
          was_reset    \* has RESET ever been pressed?
vars == <<sage, port, program, typed, took, was_reset>>

Init ==
  /\ sage = S!PowerOn /\ port = bus_reset(PowerOn)
  /\ program \in Programs
  /\ typed = <<>> /\ took = [sage |-> 0, port |-> 0] /\ was_reset = FALSE

(* A strobe that reads as set takes the key. *)
Taking(addr, s, p) ==
  LET one(v) == IF addr = \hC010 /\ v >= 128 THEN 1 ELSE 0
  IN took' = [sage |-> took.sage + one(s), port |-> took.port + one(p)]

Read(addr) ==
  LET s == S!read8(sage, addr)
      p == bus_read(port, addr)
  IN /\ addr \in program
     /\ sage' = s.bus /\ port' = p.bus
     /\ Taking(addr, s.v, p.v)
     /\ UNCHANGED <<program, typed, was_reset>>

(* A write to $C010 acknowledges as a read does, and takes the key unseen. *)
Write(addr, v) ==
  /\ addr \in program
  /\ is_video_write(addr) => Len(sage.video.events) < MaxEvents
  /\ sage' = S!write8(sage, addr, v) /\ port' = bus_write(port, addr, v)
  /\ Taking(addr, S!read8(sage, addr).v, bus_read(port, addr).v)
  /\ UNCHANGED <<program, typed, was_reset>>

(* Keys are typed while the ring of the port has room: what it drops the     *)
(* reference, whose queue has no end, would keep.                            *)
Type(key) ==
  /\ \hC010 \in program /\ Len(typed) < MaxKeys
  /\ Len(port.rx) + 1 < HOST_RX_CAPACITY
  /\ sage' = S!queue_keyboard(sage, S!encode_keyboard_char(key))
  /\ port' = host_uart_feed(port, key)
  /\ typed' = Append(typed, Byte7(S!encode_keyboard_char(key)))
  /\ UNCHANGED <<program, took, was_reset>>

PressReset ==
  /\ \hC010 \in program /\ ~was_reset
  /\ sage' = S!reset_key(sage)
  /\ took' = [took EXCEPT !.sage = Len(typed)] /\ was_reset' = TRUE
  /\ UNCHANGED <<port, program, typed>>

Next ==
  \/ \E addr \in program : Read(addr) \/ \E v \in Values : Write(addr, v)
  \/ \E key \in Keys : Type(key)
  \/ PressReset

(* The guest polls: it keeps reading the strobe and the latch. *)
Spec == Init /\ [][Next]_vars /\ WF_vars(Read(\hC010)) /\ WF_vars(Read(\hC000))

-----------------------------------------------------------------------------
(* The keys a bus still has to give *)
seven(keys) == [i \in DOMAIN keys |-> Byte7(keys[i])]
sage_waiting == seven((IF sage.kbd.strobe THEN <<sage.kbd.latch>> ELSE <<>>) \o sage.kbd.queue)
port_waiting == seven([i \in DOMAIN port.rx |-> apple_key_from_uart(port.rx[i])])
yet(n) == SubSeq(typed, n + 1, Len(typed))

(* Neither bus drops, repeats or reorders a key: what the guest has taken     *)
(* and what still waits are the keys typed, the latch holds the key last      *)
(* taken until it is read, and no key waits behind an empty latch.  RESET     *)
(* discards what was typed before it and nothing after it.                    *)
KeysInOrder ==
  /\ sage_waiting = yet(took.sage)
  /\ port_waiting = yet(took.port) /\ ~port.kbd.strobe
  /\ sage.kbd.valid /\ ~sage.kbd.strobe => sage.kbd.latch = typed[took.sage]
  /\ port.kbd.valid => port.kbd.latch = typed[took.port]
  /\ sage.kbd.queue # <<>> => sage.kbd.valid

(* Until RESET is pressed a guest cannot tell the buses apart by reading a    *)
(* register, in whatever state they are, with one exception: of a key that    *)
(* waits the reference shows the code in $C000 before it is acknowledged, the *)
(* port does not.  A key that was acknowledged stays in $C000 until it is     *)
(* read there.  (Main memory is another matter: the port has one KB of it.)   *)
main_memory == \h0000..\hBFFF
registers == program \ main_memory
ReadsAgree ==
  ~was_reset => \A addr \in registers :
    LET s == S!read8(sage, addr).v
        p == bus_read(port, addr).v
    IN s = p \/ (addr = \hC000 /\ sage.kbd.strobe /\ ~port.kbd.valid)

(* Under any sequence of switch accesses the two language cards have the same *)
(* bank, the same read and write permission, and the same bytes in either     *)
(* bank, as long as a bank window is used at one address.                     *)
card_cells == program \cap ((\hD000..\hD07F) \cup (\hE000..\hE0FF))
CardAgree ==
  /\ port.card = sage.card
  /\ \A addr \in card_cells, bank \in {1, 2} :
       At(port.card_ram, language_card_offset([card |-> [bank |-> bank]], addr))
         = At(sage.card_ram, S!language_card_ram_offset([card |-> [bank |-> bank]], addr))

(* What CardAgree needs of a guest: one address in the $D000 window, and none *)
(* of $E100-$E1FF, whose offsets lie past the array of the port.              *)
OneCellPerBank ==
  \A used \in Programs :
    /\ \A i, j \in used \cap (\hD000..\hD07F) : i = j
    /\ used \cap (\hE100..\hE1FF) = {}

(* docs/avr.md has the card cover 128 bytes in each $D000 bank: each holds    *)
(* what was last written to it, as on the reference.                          *)
BankHoldsItsBytes ==
  \A addr \in program \cap (\hD000..\hD07F) :
    port.card.bank = sage.card.bank =>
      At(port.card_ram, language_card_offset(port, addr))
        = At(sage.card_ram, S!language_card_ram_offset(sage, addr))

(* The port keeps of the video writes their number, up to the width of its    *)
(* counter, and the last; of the switches and the speaker what the reference  *)
(* keeps.                                                                     *)
VideoAgree ==
  LET events == sage.video.events
  IN /\ port.video.events = IF Len(events) < EVENT_MAX THEN Len(events) ELSE EVENT_MAX
     /\ events # <<>> => port.video.last = events[Len(events)]
     /\ \A field \in {"state", "switches", "values"} : port.video[field] = sage.video[field]
     /\ port.speaker_on = sage.speaker_on

(* A guest that polls both registers gets every key from either bus.  Reading *)
(* $C010 alone is not enough: it reports no further key until $C000 is read.  *)
AllTaken == <>[](took = [sage |-> Len(typed), port |-> Len(typed)])
=============================================================================
