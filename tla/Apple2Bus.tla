----------------------------- MODULE Apple2Bus ------------------------------
(* The reference bus of the Apple II, bus/apple2bus.sage, model "ii" with no *)
(* ROM on the card: a record [ram, ram_write, card_ram, kbd, card, video,    *)
(* autostart, speaker_on].  Left out: registers that only store a value      *)
(* (annunciators, paddles, clock, the other RAM switches), the slot ROMs,    *)
(* the UART, which this bus shares with nobody, and the logs of the host.    *)
EXTENDS RomApple2, BusValues

-----------------------------------------------------------------------------
(* Keys wait in a queue behind the latch. *)
encode_keyboard_char(code) ==
  LET upper == IF code \in 97..122 THEN code - 32 ELSE code
  IN IF upper \in {10, 13} THEN 141 ELSE IF upper < 128 THEN upper + 128 ELSE upper

promote_keyboard(b) ==
  [b EXCEPT !.kbd.latch = Head(b.kbd.queue), !.kbd.queue = Tail(@),
            !.kbd.strobe = TRUE, !.kbd.valid = TRUE]

(* Mutant: a key passes the queue once the last was acknowledged. *)
QueuePassed(b, v) ==
  IF b.kbd.strobe THEN [b EXCEPT !.kbd.queue = Append(@, v)]
  ELSE [b EXCEPT !.kbd.latch = v, !.kbd.strobe = TRUE, !.kbd.valid = TRUE]

queue_keyboard(b, v) ==
  LET queued == [b EXCEPT !.kbd.queue = Append(@, v)]
  IN IF ~b.kbd.strobe /\ ~b.kbd.valid THEN promote_keyboard(queued) ELSE queued

no_key(reset) ==
  [reset |-> reset, queue |-> <<>>, latch |-> 0, strobe |-> FALSE, valid |-> FALSE]
reset_key(b) == [b EXCEPT !.kbd = no_key(TRUE)]
reset_seen(b) == [b EXCEPT !.kbd.reset = FALSE]

acknowledged(b) == [b EXCEPT !.kbd.strobe = FALSE, !.kbd.latch = Byte7(@)]

read_keyboard_strobe(b) ==
  CASE b.kbd.reset -> Got(0, reset_seen(b))
    [] ~b.kbd.reset /\ b.kbd.strobe -> Got(128, acknowledged(b))
    [] ~b.kbd.reset /\ ~b.kbd.strobe /\ ~b.kbd.valid /\ b.kbd.queue # <<>> ->
         Got(128, promote_keyboard(b))
    [] OTHER -> Got(0, b)

read_keyboard_latch(b) ==
  LET taken == [b EXCEPT !.kbd.valid = FALSE]
  IN CASE b.kbd.reset -> Got(0, reset_seen(b))
       [] ~b.kbd.reset /\ ~b.kbd.strobe /\ b.kbd.valid ->
            Got(Byte7(b.kbd.latch),
                IF b.kbd.queue # <<>> THEN promote_keyboard(taken) ELSE taken)
       [] OTHER -> Got(b.kbd.latch, b)

-----------------------------------------------------------------------------
record_event(b, addr, v) ==
  IF addr \in \h0400..\h0BFF \/ addr \in \h2000..\h5FFF
  THEN [b EXCEPT !.video.events = Append(@, <<addr, v>>)] ELSE b

apply_video_switch(b, addr) ==
  LET index == addr - \hC050
      flag == CASE index \in {0, 1} -> "text" [] index \in {2, 3} -> "mixed"
                [] index \in {4, 5} -> "page2" [] index \in {6, 7} -> "hires"
  IN [b EXCEPT !.video.state = IF index \in {1, 3, 5, 7} THEN @ \cup {flag} ELSE @ \ {flag}]

(* A RESET that nobody has seen yet is seen by the first write to a switch,  *)
(* and asks the CPU for the autostart.                                       *)
write_video_switch(b, addr, v) ==
  LET index == addr - \hC050
      seen == IF b.kbd.reset THEN [reset_seen(b) EXCEPT !.autostart = TRUE] ELSE b
  IN [apply_video_switch(seen, addr) EXCEPT
        !.video.switches = @ \cup {index}, !.video.values[index] = v]

toggle_speaker(b) == [b EXCEPT !.speaker_on = ~@]

-----------------------------------------------------------------------------
soft_switch(card, addr, writing) ==
  LET mode == addr % 4
      bank == IF (addr \div 8) % 2 = 0 THEN 1 ELSE 2
      set(prewrite, write_ram) ==
        [bank |-> bank, read_ram |-> mode \in {0, 1},
         prewrite |-> prewrite, write_ram |-> write_ram]
  IN CASE writing -> set(FALSE, FALSE)
       [] ~writing /\ addr % 2 = 0 -> set(FALSE, mode \in {1, 2})
       [] ~writing /\ addr % 2 = 1 /\ ~card.prewrite -> set(TRUE, FALSE)
       [] OTHER -> set(TRUE, mode \in {1, 2})
language_card_soft_switch(b, addr, writing) ==
  [b EXCEPT !.card = soft_switch(@, addr, writing)]

language_card_ram_offset(b, addr) ==
  CASE addr >= \hE000 -> \h2000 + (addr - \hE000)
    [] addr < \hE000 /\ b.card.bank = 1 -> addr - \hD000
    [] OTHER -> \h1000 + (addr - \hD000)

-----------------------------------------------------------------------------
PowerOn ==
  [ram |-> Nothing, ram_write |-> FALSE, card_ram |-> Nothing,
   kbd |-> no_key(FALSE),
   card |-> [bank |-> 2, read_ram |-> FALSE, write_ram |-> TRUE, prewrite |-> FALSE],
   video |-> [state |-> {"text"}, switches |-> {}, values |-> [i \in 0..7 |-> 0],
              events |-> <<>>],
   autostart |-> FALSE, speaker_on |-> FALSE]

read_device(b, addr) ==
  CASE addr = \hC000 -> read_keyboard_latch(b)
    [] addr = \hC010 -> read_keyboard_strobe(b)
    [] addr = \hC030 -> LET to == toggle_speaker(b) IN Got(High(to.speaker_on), to)
    [] addr \in VideoSwitches ->
         Got(High(addr - \hC050 \in b.video.switches), apply_video_switch(b, addr))
    [] addr = \hC0EB -> Got(High(~b.ram_write), b)
    [] addr \in CardSwitches -> Got(0, language_card_soft_switch(b, addr, FALSE))
    [] OTHER -> Got(0, b)

read8(b, addr) ==
  CASE addr < \hC000 -> Got(At(b.ram, addr), b)
    [] addr >= \hD000 ->
         Got(IF addr < \hF800 /\ b.card.read_ram
             THEN At(b.card_ram, language_card_ram_offset(b, addr))
             ELSE APPLE2ROM[addr - \hD000], b)
    [] OTHER -> read_device(b, addr)

(* $0200-$03FF is protected until RAMWR is cleared. *)
write_memory(b, addr, v) ==
  IF addr \in \h0200..\h03FF /\ ~b.ram_write THEN b
  ELSE record_event([b EXCEPT !.ram = Stored(@, addr, v)], addr, v)
write_card(b, addr, v) ==
  IF addr < \hF800 /\ b.card.write_ram
  THEN [b EXCEPT !.card_ram = Stored(@, language_card_ram_offset(b, addr), v)] ELSE b

write_device(b, addr, v) ==
  CASE addr = \hC010 -> read_keyboard_strobe(b).bus
    [] addr = \hC030 -> toggle_speaker(b)
    [] addr = \hC0EB -> [b EXCEPT !.ram_write = v < 128]
    [] addr \in VideoSwitches -> write_video_switch(b, addr, v)
    [] addr \in CardSwitches -> language_card_soft_switch(b, addr, TRUE)
    [] OTHER -> b

write8(b, addr, v) ==
  CASE addr < \hC000 -> write_memory(b, addr, v)
    [] addr >= \hD000 -> write_card(b, addr, v)
    [] OTHER -> write_device(b, addr, v)
=============================================================================
