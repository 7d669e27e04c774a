----------------------------- MODULE BusApple2 -----------------------------
(* The bus of the Apple II build of the AVR port, avr/bus_apple2.c, with the *)
(* UART the host harness puts behind it (avr/apple2_host_main.c).  A bus is  *)
(* a record [ram, card_ram, kbd, card, video, speaker_on, rx, tx].  The two    *)
(* memories are functions of the cells written so far: the others are still  *)
(* zero.                                                                     *)
EXTENDS RomApple2, BusValues

CONSTANTS HOST_RX_CAPACITY,     \* size of the receive ring, one cell of it unused
          HOST_TX_CAPACITY,     \* bytes the transmit buffer keeps
          EVENT_MAX             \* where the counter of video writes stops, $FFFF

ASSUME BusApple2Assumption ==
  {HOST_RX_CAPACITY, HOST_TX_CAPACITY, EVENT_MAX} \subseteq Nat \ {0}

-----------------------------------------------------------------------------
(* The UART of the host: a ring that drops what does not fit, a buffer that  *)
(* forgets what is beyond its end.                                           *)
(* Mutant: the ring is filled to its last cell. *)
FeedFillsRing(b, v) ==
  IF Len(b.rx) < HOST_RX_CAPACITY THEN [b EXCEPT !.rx = Append(@, v)] ELSE b
host_uart_feed(b, v) ==
  IF Len(b.rx) + 1 < HOST_RX_CAPACITY THEN [b EXCEPT !.rx = Append(@, v)] ELSE b
uart_rx_ready(b) == b.rx # <<>>
uart_rx(b) == Got(Head(b.rx), [b EXCEPT !.rx = Tail(@)])
uart_tx(b, v) ==
  IF Len(b.tx) < HOST_TX_CAPACITY THEN [b EXCEPT !.tx = Append(@, v)] ELSE b

(* ASCII to Apple key codes: upper case, both line ends are Return, bit 7 set *)
KeyKeepsCase(v) ==                        \* mutant: letters keep their case
  IF v \in {10, 13} THEN 141 ELSE 128 + Byte7(v)
apple_key_from_uart(v) ==
  LET upper == IF v \in 97..122 THEN v - 32 ELSE v
  IN CASE upper \in {10, 13} -> 141
       [] upper \notin {10, 13} /\ upper < 128 -> upper + 128
       [] OTHER -> upper

keyboard_poll_uart(b) ==
  IF ~b.kbd.strobe /\ ~b.kbd.valid /\ uart_rx_ready(b)
  THEN LET key == apple_key_from_uart(uart_rx(b).v)
       IN [uart_rx(b).bus EXCEPT !.kbd = [latch |-> key, strobe |-> TRUE, valid |-> TRUE]]
  ELSE b

(* Mutant: a key is taken from the UART while the last one is still valid. *)
ReadStrobeEager(b) ==
  LET polled == keyboard_poll_uart([b EXCEPT !.kbd.valid = FALSE])
  IN IF polled.kbd.strobe
     THEN Got(128, [polled EXCEPT !.kbd.strobe = FALSE, !.kbd.latch = Byte7(@)])
     ELSE Got(0, b)

keyboard_read_strobe(b) ==
  LET polled == keyboard_poll_uart(b)
  IN IF polled.kbd.strobe
     THEN Got(128, [polled EXCEPT !.kbd.strobe = FALSE, !.kbd.latch = Byte7(@)])
     ELSE Got(0, polled)

(* Mutant: the key stays valid, and the next one is never polled. *)
ReadLatchKeepsValid(b) ==
  IF ~b.kbd.strobe /\ b.kbd.valid THEN Got(Byte7(b.kbd.latch), b) ELSE Got(b.kbd.latch, b)

keyboard_read_latch(b) ==
  IF ~b.kbd.strobe /\ b.kbd.valid
  THEN Got(Byte7(b.kbd.latch), [b EXCEPT !.kbd.valid = FALSE])
  ELSE Got(b.kbd.latch, b)

-----------------------------------------------------------------------------
is_video_write(addr) == addr \in \h0400..\h0BFF \/ addr \in \h2000..\h5FFF
(* Mutant: the counter starts anew. *)
RecordWraps(b, addr, v) ==
  [b EXCEPT !.video.events = (@ + 1) % (EVENT_MAX + 1), !.video.last = <<addr, v>>]
record_video_write(b, addr, v) ==
  [b EXCEPT !.video.events = IF @ # EVENT_MAX THEN @ + 1 ELSE @,
            !.video.last = <<addr, v>>]

video_switch(b, addr) ==
  LET flag == <<"text", "mixed", "page2", "hires">>[(addr - \hC050) \div 2 + 1]
  IN [b EXCEPT !.video.state = IF addr % 2 = 1 THEN @ \cup {flag} ELSE @ \ {flag}]
video_write(b, addr, v) ==
  LET i == addr - \hC050
  IN [video_switch(b, addr) EXCEPT !.video.switches = @ \cup {i}, !.video.values[i] = v]

toggle_speaker(b) == [b EXCEPT !.speaker_on = ~@]

-----------------------------------------------------------------------------
(* The language card.  Every address of $D000-$D07F has the offset of its    *)
(* bank's first byte.  The array has 512 bytes: offsets from $E100 on lie    *)
(* past its end, and no instance uses those addresses.                       *)
LANGUAGE_CARD_BANK2_BASE == \h80
LANGUAGE_CARD_SHARED_BASE == \h100
Uncovered == \hFFFF
language_card_offset(b, addr) ==
  CASE addr \in \hD000..\hD07F -> IF b.card.bank = 1 THEN 0 ELSE LANGUAGE_CARD_BANK2_BASE
    [] addr \in \hE000..\hE1FF -> LANGUAGE_CARD_SHARED_BASE + (addr - \hE000)
    [] OTHER -> Uncovered

(* Mutant: one odd read is enough to make the card writable. *)
CardSwitchAtOnce(b, addr, writing) ==
  LET mode == addr % 4
  IN [b EXCEPT !.card =
        [bank |-> IF (addr \div 8) % 2 = 0 THEN 1 ELSE 2,
         read_ram |-> mode \in {0, 1},
         prewrite |-> ~writing /\ addr % 2 = 1,
         write_ram |-> ~writing /\ mode \in {1, 2}]]

(* Only two odd reads in a row make the card writable, an even one at once. *)
language_card_switch(b, addr, writing) ==
  LET mode == addr % 4
      odd == addr % 2 = 1
  IN [b EXCEPT !.card =
        [bank |-> IF (addr \div 8) % 2 = 0 THEN 1 ELSE 2,
         read_ram |-> mode \in {0, 1},
         prewrite |-> ~writing /\ odd,
         write_ram |-> ~writing /\ mode \in {1, 2} /\ (odd => b.card.prewrite)]]

language_card_read(b, addr) ==
  LET offset == language_card_offset(b, addr)
  IN IF offset = Uncovered THEN 0 ELSE At(b.card_ram, offset)
language_card_write(b, addr, v) ==
  LET offset == language_card_offset(b, addr)
  IN IF offset = Uncovered THEN b ELSE [b EXCEPT !.card_ram = Stored(@, offset, v)]

read_rom(addr) == APPLE2ROM[addr - \hD000]

-----------------------------------------------------------------------------
PowerOn == [ram |-> Nothing, card_ram |-> Nothing, rx |-> <<>>, tx |-> <<>>]

(* The memories and the UART keep what they have. *)
bus_reset(b) ==
  [ram |-> b.ram, card_ram |-> b.card_ram, rx |-> b.rx, tx |-> b.tx,
   kbd |-> [latch |-> 0, strobe |-> FALSE, valid |-> FALSE],
   card |-> [bank |-> 2, read_ram |-> FALSE, write_ram |-> TRUE, prewrite |-> FALSE],
   video |-> [state |-> {"text"}, switches |-> {}, values |-> [i \in 0..7 |-> 0],
              events |-> 0, last |-> <<0, 0>>],
   speaker_on |-> FALSE]

(* The registers of the Apple II that a read changes or reports. *)
read_device(b, addr) ==
  CASE addr = \hC000 -> keyboard_read_latch(b)
    [] addr = \hC010 -> keyboard_read_strobe(b)
    [] addr = \hC030 -> LET to == toggle_speaker(b) IN Got(High(to.speaker_on), to)
    [] addr \in VideoSwitches ->
         Got(High(addr - \hC050 \in b.video.switches), video_switch(b, addr))
    [] addr = \hC081 ->
         IF uart_rx_ready(b) THEN LET in == uart_rx(b) IN Got(128 + Byte7(in.v), in.bus)
         ELSE Got(0, b)
    [] addr \in CardSwitches -> Got(0, language_card_switch(b, addr, FALSE))
    [] OTHER -> Got(0, b)

bus_read(b, addr) ==
  CASE addr < \h0400 -> Got(At(b.ram, addr), b)
    [] addr >= \hD000 ->
         Got(IF addr < \hF800 /\ b.card.read_ram THEN language_card_read(b, addr)
             ELSE read_rom(addr), b)
    [] OTHER -> read_device(b, addr)

write_device(b, addr, v) ==
  CASE addr = \hC010 -> keyboard_read_strobe(b).bus
    [] addr = \hC030 -> toggle_speaker(b)
    [] addr \in VideoSwitches -> video_write(b, addr, v)
    [] addr = \hC080 -> uart_tx(b, v)
    [] addr \in CardSwitches -> language_card_switch(b, addr, TRUE)
    [] OTHER -> b

write_high(b, addr, v) ==
  IF addr < \hF800 /\ b.card.write_ram THEN language_card_write(b, addr, v) ELSE b

bus_write(b, addr, v) ==
  CASE addr < \h0400 -> [b EXCEPT !.ram = Stored(@, addr, v)]
    [] addr >= \hD000 -> write_high(b, addr, v)
    [] is_video_write(addr) -> record_video_write(b, addr, v)
    [] OTHER -> write_device(b, addr, v)
=============================================================================
