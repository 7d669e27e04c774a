---------------------------- MODULE BusesProofs -----------------------------
(* The two buses of the Apple II, whatever the guest, its addresses and what  *)
(* is typed: the language cards first, then the devices beside them (video    *)
(* memory, switches, speaker, keyboard), and last what a guest can tell of    *)
(* the two buses.                                                             *)
EXTENDS Buses, SequenceTheorems, TLAPS

-----------------------------------------------------------------------------
(* The two language cards stay the same, whatever the guest and its          *)
(* addresses, as long as it uses one address of each bank window.            *)
CardStates ==
  [bank : {1, 2}, read_ram : BOOLEAN, write_ram : BOOLEAN, prewrite : BOOLEAN]
PortFields == {"ram", "card_ram", "rx", "tx", "kbd", "card", "video", "speaker_on"}
SageFields ==
  {"ram", "ram_write", "card_ram", "kbd", "card", "video", "autostart", "speaker_on"}

(* Two buses with the same card: an operation on another device leaves it so. *)
SameCard(b, c, fields) ==
  /\ DOMAIN c = fields
  /\ c.card = b.card /\ c.card_ram = b.card_ram

c_offset(bank, addr) == language_card_offset([card |-> [bank |-> bank]], addr)
s_offset(bank, addr) == S!language_card_ram_offset([card |-> [bank |-> bank]], addr)
SameBytes(p, s) ==
  \A addr \in card_cells, bank \in {1, 2} :
    At(p.card_ram, c_offset(bank, addr)) = At(s.card_ram, s_offset(bank, addr))

Agree(p, s) ==
  /\ DOMAIN p = PortFields /\ DOMAIN s = SageFields
  /\ p.card = s.card /\ s.card \in CardStates
  /\ SameBytes(p, s)

IInv == program \in Programs /\ Agree(port, sage)

-----------------------------------------------------------------------------
(* A cell that was stored reads back, and the others are left alone. *)
LEMMA AtStored ==
  ASSUME NEW cells, NEW i, NEW j, NEW v
  PROVE  /\ At(Stored(cells, i, v), j) = IF j = i THEN v ELSE At(cells, j)
         /\ At(S!Stored(cells, i, v), j) = IF j = i THEN v ELSE At(cells, j)
BY DEF At, Stored, S!Stored

AtRom(addr) == addr >= \hD000             \* the window of the ROM and the card

(* Neither keyboard nor UART, video or speaker touch the card. *)
LEMMA PortPoll ==
  ASSUME NEW b, DOMAIN b = PortFields
  PROVE  SameCard(b, keyboard_poll_uart(b), PortFields)
BY DEF SameCard, PortFields, keyboard_poll_uart, uart_rx, Got

LEMMA PortKeyboard ==
  ASSUME NEW b, DOMAIN b = PortFields
  PROVE  /\ SameCard(b, keyboard_read_strobe(b).bus, PortFields)
         /\ SameCard(b, keyboard_read_latch(b).bus, PortFields)
<1>1. SameCard(b, keyboard_read_strobe(b).bus, PortFields)
  <2> DEFINE polled == keyboard_poll_uart(b)
  <2>1. SameCard(b, polled, PortFields)
    BY PortPoll
  <2>2. keyboard_read_strobe(b) =
          IF polled.kbd.strobe
          THEN Got(128, [polled EXCEPT !.kbd.strobe = FALSE, !.kbd.latch = Byte7(@)])
          ELSE Got(0, polled)
    BY DEF keyboard_read_strobe
  <2> HIDE DEF polled
  <2>. QED
    BY <2>1, <2>2 DEF SameCard, PortFields, Got
<1>2. SameCard(b, keyboard_read_latch(b).bus, PortFields)
  BY DEF SameCard, PortFields, keyboard_read_latch, Got
<1>. QED
  BY <1>1, <1>2

LEMMA PortReads ==
  ASSUME NEW b, DOMAIN b = PortFields, NEW addr
  PROVE  /\ SameCard(b, uart_rx(b).bus, PortFields)
         /\ SameCard(b, toggle_speaker(b), PortFields)
         /\ SameCard(b, video_switch(b, addr), PortFields)
<1>1. SameCard(b, uart_rx(b).bus, PortFields)
  BY DEF SameCard, PortFields, uart_rx, Got
<1>2. SameCard(b, toggle_speaker(b), PortFields)
  BY DEF SameCard, PortFields, toggle_speaker
<1>3. SameCard(b, video_switch(b, addr), PortFields)
  BY DEF SameCard, PortFields, video_switch
<1>. QED
  BY <1>1, <1>2, <1>3

LEMMA PortWrites ==
  ASSUME NEW b, DOMAIN b = PortFields, NEW addr, NEW v
  PROVE  /\ SameCard(b, host_uart_feed(b, v), PortFields)
         /\ SameCard(b, uart_tx(b, v), PortFields)
         /\ SameCard(b, record_video_write(b, addr, v), PortFields)
         /\ SameCard(b, video_write(b, addr, v), PortFields)
<1>1. SameCard(b, host_uart_feed(b, v), PortFields)
  BY DEF SameCard, PortFields, host_uart_feed
<1>2. SameCard(b, uart_tx(b, v), PortFields)
  BY DEF SameCard, PortFields, uart_tx
<1>3. SameCard(b, record_video_write(b, addr, v), PortFields)
  BY DEF SameCard, PortFields, record_video_write
<1>4. SameCard(b, video_write(b, addr, v), PortFields)
  <2> DEFINE switched == video_switch(b, addr)
  <2>1. video_write(b, addr, v) =
          [switched EXCEPT !.video.switches = @ \cup {addr - \hC050},
                           !.video.values[addr - \hC050] = v]
    BY DEF video_write
  <2>2. SameCard(b, switched, PortFields)
    BY PortReads
  <2> HIDE DEF switched
  <2>. QED
    BY <2>1, <2>2 DEF SameCard, PortFields
<1>. QED
  BY <1>1, <1>2, <1>3, <1>4

LEMMA SageKeyboard ==
  ASSUME NEW b, DOMAIN b = SageFields, NEW v
  PROVE  /\ SameCard(b, S!queue_keyboard(b, v), SageFields)
         /\ SameCard(b, S!reset_key(b), SageFields)
         /\ SameCard(b, S!read_keyboard_strobe(b).bus, SageFields)
         /\ SameCard(b, S!read_keyboard_latch(b).bus, SageFields)
<1>1. ASSUME NEW c, DOMAIN c = SageFields
      PROVE  SameCard(c, S!promote_keyboard(c), SageFields)
  BY <1>1 DEF SameCard, SageFields, S!promote_keyboard
<1>2. SameCard(b, S!queue_keyboard(b, v), SageFields)
  <2> DEFINE queued == [b EXCEPT !.kbd.queue = Append(@, v)]
  <2>1. SameCard(b, queued, SageFields)
    BY DEF SameCard, SageFields
  <2>2. S!queue_keyboard(b, v) \in {queued, S!promote_keyboard(queued)}
    BY DEF S!queue_keyboard
  <2> HIDE DEF queued
  <2>. QED
    BY <1>1, <2>1, <2>2 DEF SameCard
<1>3. SameCard(b, S!reset_key(b), SageFields)
  BY DEF SameCard, SageFields, S!reset_key
<1>4. SameCard(b, S!read_keyboard_strobe(b).bus, SageFields)
  <2>1. SameCard(b, S!reset_seen(b), SageFields) /\ SameCard(b, S!acknowledged(b), SageFields)
    BY DEF SameCard, SageFields, S!reset_seen, S!acknowledged
  <2>2. S!read_keyboard_strobe(b).bus
          \in {b, S!reset_seen(b), S!acknowledged(b), S!promote_keyboard(b)}
    BY DEF S!read_keyboard_strobe, S!Got
  <2>. QED
    BY <1>1, <2>1, <2>2 DEF SameCard
<1>5. SameCard(b, S!read_keyboard_latch(b).bus, SageFields)
  <2> DEFINE taken == [b EXCEPT !.kbd.valid = FALSE]
  <2>1. SameCard(b, S!reset_seen(b), SageFields) /\ SameCard(b, taken, SageFields)
    BY DEF SameCard, SageFields, S!reset_seen
  <2>2. S!read_keyboard_latch(b).bus
          \in {b, S!reset_seen(b), taken, S!promote_keyboard(taken)}
    BY DEF S!read_keyboard_latch, S!Got
  <2> HIDE DEF taken
  <2>. QED
    BY <1>1, <2>1, <2>2 DEF SameCard
<1>. QED
  BY <1>2, <1>3, <1>4, <1>5

LEMMA SageReads ==
  ASSUME NEW b, DOMAIN b = SageFields, NEW addr
  PROVE  /\ SameCard(b, S!toggle_speaker(b), SageFields)
         /\ SameCard(b, S!apply_video_switch(b, addr), SageFields)
<1>1. SameCard(b, S!toggle_speaker(b), SageFields)
  BY DEF SameCard, SageFields, S!toggle_speaker
<1>2. SameCard(b, S!apply_video_switch(b, addr), SageFields)
  BY DEF SameCard, SageFields, S!apply_video_switch
<1>. QED
  BY <1>1, <1>2

LEMMA SageWrites ==
  ASSUME NEW b, DOMAIN b = SageFields, NEW addr, NEW v
  PROVE  /\ SameCard(b, S!write_memory(b, addr, v), SageFields)
         /\ SameCard(b, S!write_video_switch(b, addr, v), SageFields)
<1>1. SameCard(b, S!write_memory(b, addr, v), SageFields)
  BY DEF SameCard, SageFields, S!write_memory, S!record_event
<1>2. SameCard(b, S!write_video_switch(b, addr, v), SageFields)
  <2> DEFINE seen == IF b.kbd.reset THEN [S!reset_seen(b) EXCEPT !.autostart = TRUE] ELSE b
             switched == S!apply_video_switch(seen, addr)
  <2>1. SameCard(b, seen, SageFields)
    BY DEF SameCard, SageFields, S!reset_seen
  <2> HIDE DEF seen
  <2>2. SameCard(seen, switched, SageFields)
    BY <2>1, SageReads DEF SameCard
  <2> USE DEF seen
  <2>3. S!write_video_switch(b, addr, v) =
          [switched EXCEPT !.video.switches = @ \cup {addr - \hC050},
                           !.video.values[addr - \hC050] = v]
    BY DEF S!write_video_switch
  <2> HIDE DEF seen, switched
  <2>. QED
    BY <2>1, <2>2, <2>3 DEF SameCard, SageFields
<1>. QED
  BY <1>1, <1>2

-----------------------------------------------------------------------------
(* The two switches are written differently and do the same. *)
LEMMA SwitchesAgree ==
  ASSUME NEW b, DOMAIN b = PortFields, b.card \in CardStates,
         NEW addr \in Int, NEW writing \in BOOLEAN
  PROVE  /\ language_card_switch(b, addr, writing).card = S!soft_switch(b.card, addr, writing)
         /\ language_card_switch(b, addr, writing).card \in CardStates
         /\ language_card_switch(b, addr, writing).card_ram = b.card_ram
         /\ DOMAIN language_card_switch(b, addr, writing) = PortFields
<1> DEFINE mode == addr % 4
           bank == IF (addr \div 8) % 2 = 0 THEN 1 ELSE 2
           odd == addr % 2 = 1
           set(prewrite, write_ram) ==
             [bank |-> bank, read_ram |-> mode \in {0, 1},
              prewrite |-> prewrite, write_ram |-> write_ram]
           pre == ~writing /\ odd
           writable == ~writing /\ mode \in {1, 2} /\ (odd => b.card.prewrite)
           switched == language_card_switch(b, addr, writing)
<1>1. switched = [b EXCEPT !.card = set(pre, writable)]
  BY DEF language_card_switch
<1>2. S!soft_switch(b.card, addr, writing) =
        CASE writing -> set(FALSE, FALSE)
          [] ~writing /\ addr % 2 = 0 -> set(FALSE, mode \in {1, 2})
          [] ~writing /\ odd /\ ~b.card.prewrite -> set(TRUE, FALSE)
          [] OTHER -> set(TRUE, mode \in {1, 2})
  BY DEF S!soft_switch
<1>3. odd \/ addr % 2 = 0
  OBVIOUS
<1>4. odd => addr % 2 # 0
  OBVIOUS
<1>5. bank \in {1, 2} /\ (mode \in {0, 1}) \in BOOLEAN /\ (mode \in {1, 2}) \in BOOLEAN
  OBVIOUS
<1>6. b.card.prewrite \in BOOLEAN
  BY DEF CardStates
<1>7. S!soft_switch(b.card, addr, writing) = set(pre, writable)
  <2> DEFINE two == mode \in {1, 2}
  <2>1. CASE writing
    <3>1. pre = FALSE /\ writable = FALSE
      BY <2>1
    <3>2. S!soft_switch(b.card, addr, writing) = set(FALSE, FALSE)
      BY <1>2, <2>1
    <3> HIDE DEF set, pre, writable
    <3>. QED
      BY <3>1, <3>2
  <2>2. CASE ~writing /\ ~odd
    <3>1. pre = FALSE /\ writable = two
      BY <2>2
    <3>2. S!soft_switch(b.card, addr, writing) = set(FALSE, two)
      BY <1>2, <1>3, <2>2
    <3> HIDE DEF set, pre, writable, two
    <3>. QED
      BY <3>1, <3>2
  <2>3. CASE ~writing /\ odd /\ ~b.card.prewrite
    <3>1. pre = TRUE /\ writable = FALSE
      BY <2>3
    <3>2. S!soft_switch(b.card, addr, writing) = set(TRUE, FALSE)
      BY <1>2, <1>4, <2>3
    <3> HIDE DEF set, pre, writable
    <3>. QED
      BY <3>1, <3>2
  <2>4. CASE ~writing /\ odd /\ b.card.prewrite
    <3>1. pre = TRUE /\ writable = two
      BY <2>4
    <3>2. S!soft_switch(b.card, addr, writing) = set(TRUE, two)
      BY <1>2, <1>4, <2>4
    <3> HIDE DEF set, pre, writable, two
    <3>. QED
      BY <3>1, <3>2
  <2>. QED
    BY <2>1, <2>2, <2>3, <2>4
<1>8. set(pre, writable) \in CardStates
  <2>1. pre \in BOOLEAN /\ writable \in BOOLEAN
    OBVIOUS
  <2> HIDE DEF pre, writable, bank, mode
  <2>. QED
    BY <1>5, <2>1 DEF CardStates
<1> HIDE DEF set, pre, writable, switched
<1>9. switched.card = set(pre, writable) /\ switched.card_ram = b.card_ram
      /\ DOMAIN switched = PortFields
  BY <1>1 DEF PortFields
<1>. QED
  BY <1>7, <1>8, <1>9 DEF switched

-----------------------------------------------------------------------------
(* Reads and writes, by what they do to the card: an access to a switch of   *)
(* the card is the switch, any other access below $D000 leaves the card.     *)
LEMMA PortReadDevice ==
  ASSUME NEW b, DOMAIN b = PortFields, NEW addr \in Int
  PROVE  /\ addr \in CardSwitches =>
              read_device(b, addr) = Got(0, language_card_switch(b, addr, FALSE))
         /\ addr \notin CardSwitches => SameCard(b, read_device(b, addr).bus, PortFields)
<1> DEFINE latch == addr = \hC000
           strobe == addr = \hC010
           speaker == addr = \hC030
           video == addr \in VideoSwitches
           receive == addr = \hC081
           card == addr \in CardSwitches
           a1 == keyboard_read_latch(b)
           a2 == keyboard_read_strobe(b)
           a3 == LET to == toggle_speaker(b) IN Got(High(to.speaker_on), to)
           a4 == Got(High(addr - \hC050 \in b.video.switches), video_switch(b, addr))
           a5 == IF uart_rx_ready(b) THEN LET in == uart_rx(b) IN Got(128 + Byte7(in.v), in.bus)
                 ELSE Got(0, b)
           a6 == Got(0, language_card_switch(b, addr, FALSE))
           a7 == Got(0, b)
<1>1. read_device(b, addr) = CASE latch -> a1 [] strobe -> a2 [] speaker -> a3 [] video -> a4
                                [] receive -> a5 [] card -> a6 [] OTHER -> a7
  BY DEF read_device
<1>2. card => ~latch /\ ~strobe /\ ~speaker /\ ~video /\ ~receive
  BY DEF CardSwitches, VideoSwitches
<1>3. SameCard(b, a1.bus, PortFields) /\ SameCard(b, a2.bus, PortFields)
  BY PortKeyboard
<1>4. SameCard(b, a3.bus, PortFields)
  BY PortReads DEF Got
<1>5. SameCard(b, a4.bus, PortFields)
  BY PortReads DEF Got
<1>6. SameCard(b, a5.bus, PortFields)
  <2>1. SameCard(b, uart_rx(b).bus, PortFields)
    BY PortReads
  <2>2. a5.bus \in {uart_rx(b).bus, b}
    BY DEF Got
  <2>. QED
    BY <2>1, <2>2 DEF SameCard
<1>7. SameCard(b, a7.bus, PortFields)
  BY DEF Got, SameCard
<1> HIDE DEF latch, strobe, speaker, video, receive, card, a1, a2, a3, a4, a5, a6, a7
<1>8. card => read_device(b, addr) = a6
  BY <1>1, <1>2
<1>9. ~card => SameCard(b, read_device(b, addr).bus, PortFields)
  <2>1. ~card => \/ read_device(b, addr) = a1 \/ read_device(b, addr) = a2
                 \/ read_device(b, addr) = a3 \/ read_device(b, addr) = a4
                 \/ read_device(b, addr) = a5 \/ read_device(b, addr) = a7
    BY <1>1
  <2>. QED
    BY <2>1, <1>3, <1>4, <1>5, <1>6, <1>7
<1>. QED
  BY <1>8, <1>9 DEF card, a6

LEMMA PortRead ==
  ASSUME NEW b, DOMAIN b = PortFields, NEW addr \in Int
  PROVE  /\ addr \in CardSwitches =>
              bus_read(b, addr).bus = language_card_switch(b, addr, FALSE)
         /\ addr \notin CardSwitches => SameCard(b, bus_read(b, addr).bus, PortFields)
<1> DEFINE low == addr < \h0400
           high == addr >= \hD000
           card == addr \in CardSwitches
           a1 == Got(At(b.ram, addr), b)
           a2 == Got(IF addr < \hF800 /\ b.card.read_ram THEN language_card_read(b, addr)
                     ELSE read_rom(addr), b)
           a3 == read_device(b, addr)
<1>1. bus_read(b, addr) = CASE low -> a1 [] high -> a2 [] OTHER -> a3
  BY DEF bus_read
<1>2. (low => ~high) /\ (card => ~low /\ ~high)
  BY DEF CardSwitches
<1>3. a1.bus = b /\ a2.bus = b /\ SameCard(b, b, PortFields)
  BY DEF Got, SameCard
<1>4. /\ card => a3.bus = language_card_switch(b, addr, FALSE)
      /\ ~card => SameCard(b, a3.bus, PortFields)
  <2>1. ASSUME NEW c PROVE Got(0, c).bus = c
    BY DEF Got
  <2>. QED
    BY <2>1, PortReadDevice
<1> HIDE DEF low, high, card, a1, a2, a3
<1>5. card => bus_read(b, addr).bus = language_card_switch(b, addr, FALSE)
  BY <1>1, <1>2, <1>4
<1>6. ~card => SameCard(b, bus_read(b, addr).bus, PortFields)
  <2>1. bus_read(b, addr) = a1 \/ bus_read(b, addr) = a2 \/ bus_read(b, addr) = a3
    BY <1>1
  <2>. QED
    BY <2>1, <1>3, <1>4
<1>. QED
  BY <1>5, <1>6 DEF card

LEMMA SageReadDevice ==
  ASSUME NEW b, DOMAIN b = SageFields, NEW addr \in Int
  PROVE  /\ addr \in CardSwitches =>
              S!read_device(b, addr) = S!Got(0, S!language_card_soft_switch(b, addr, FALSE))
         /\ addr \notin CardSwitches => SameCard(b, S!read_device(b, addr).bus, SageFields)
<1> DEFINE latch == addr = \hC000
           strobe == addr = \hC010
           speaker == addr = \hC030
           video == addr \in S!VideoSwitches
           ram == addr = \hC0EB
           card == addr \in S!CardSwitches
           a1 == S!read_keyboard_latch(b)
           a2 == S!read_keyboard_strobe(b)
           a3 == LET to == S!toggle_speaker(b) IN S!Got(S!High(to.speaker_on), to)
           a4 == S!Got(S!High(addr - \hC050 \in b.video.switches), S!apply_video_switch(b, addr))
           a5 == S!Got(S!High(~b.ram_write), b)
           a6 == S!Got(0, S!language_card_soft_switch(b, addr, FALSE))
           a7 == S!Got(0, b)
<1>1. S!read_device(b, addr) = CASE latch -> a1 [] strobe -> a2 [] speaker -> a3 [] video -> a4
                                  [] ram -> a5 [] card -> a6 [] OTHER -> a7
  BY DEF S!read_device
<1>2. card => ~latch /\ ~strobe /\ ~speaker /\ ~video /\ ~ram
  BY DEF S!CardSwitches, S!VideoSwitches
<1>3. SameCard(b, a1.bus, SageFields) /\ SameCard(b, a2.bus, SageFields)
  BY SageKeyboard
<1>4. SameCard(b, a3.bus, SageFields)
  BY SageReads DEF S!Got
<1>5. SameCard(b, a4.bus, SageFields)
  BY SageReads DEF S!Got
<1>6. SameCard(b, a5.bus, SageFields) /\ SameCard(b, a7.bus, SageFields)
  BY DEF S!Got, SameCard
<1>7. card <=> addr \in CardSwitches
  BY DEF CardSwitches, S!CardSwitches
<1> HIDE DEF latch, strobe, speaker, video, ram, card, a1, a2, a3, a4, a5, a6, a7
<1>8. card => S!read_device(b, addr) = a6
  BY <1>1, <1>2
<1>9. ~card => SameCard(b, S!read_device(b, addr).bus, SageFields)
  <2>1. ~card => \/ S!read_device(b, addr) = a1 \/ S!read_device(b, addr) = a2
                 \/ S!read_device(b, addr) = a3 \/ S!read_device(b, addr) = a4
                 \/ S!read_device(b, addr) = a5 \/ S!read_device(b, addr) = a7
    BY <1>1
  <2>. QED
    BY <2>1, <1>3, <1>4, <1>5, <1>6
<1>. QED
  BY <1>7, <1>8, <1>9 DEF a6

LEMMA SageRead ==
  ASSUME NEW b, DOMAIN b = SageFields, NEW addr \in Int
  PROVE  /\ addr \in CardSwitches =>
              S!read8(b, addr).bus = S!language_card_soft_switch(b, addr, FALSE)
         /\ addr \notin CardSwitches => SameCard(b, S!read8(b, addr).bus, SageFields)
<1> DEFINE low == addr < \hC000
           high == addr >= \hD000
           card == addr \in CardSwitches
           a1 == S!Got(S!At(b.ram, addr), b)
           a2 == S!Got(IF addr < \hF800 /\ b.card.read_ram
                       THEN S!At(b.card_ram, S!language_card_ram_offset(b, addr))
                       ELSE S!APPLE2ROM[addr - \hD000], b)
           a3 == S!read_device(b, addr)
<1>1. S!read8(b, addr) = CASE low -> a1 [] high -> a2 [] OTHER -> a3
  BY DEF S!read8
<1>2. (low => ~high) /\ (card => ~low /\ ~high)
  BY DEF CardSwitches
<1>3. a1.bus = b /\ a2.bus = b /\ SameCard(b, b, SageFields)
  BY DEF S!Got, SameCard
<1>4. /\ card => a3.bus = S!language_card_soft_switch(b, addr, FALSE)
      /\ ~card => SameCard(b, a3.bus, SageFields)
  <2>1. ASSUME NEW c PROVE S!Got(0, c).bus = c
    BY DEF S!Got
  <2>. QED
    BY <2>1, SageReadDevice
<1> HIDE DEF low, high, card, a1, a2, a3
<1>5. card => S!read8(b, addr).bus = S!language_card_soft_switch(b, addr, FALSE)
  BY <1>1, <1>2, <1>4
<1>6. ~card => SameCard(b, S!read8(b, addr).bus, SageFields)
  <2>1. S!read8(b, addr) = a1 \/ S!read8(b, addr) = a2 \/ S!read8(b, addr) = a3
    BY <1>1
  <2>. QED
    BY <2>1, <1>3, <1>4
<1>. QED
  BY <1>5, <1>6 DEF card

LEMMA PortWriteDevice ==
  ASSUME NEW b, DOMAIN b = PortFields, NEW addr \in Int, NEW v
  PROVE  /\ addr \in CardSwitches =>
              write_device(b, addr, v) = language_card_switch(b, addr, TRUE)
         /\ addr \notin CardSwitches => SameCard(b, write_device(b, addr, v), PortFields)
<1> DEFINE strobe == addr = \hC010
           speaker == addr = \hC030
           video == addr \in VideoSwitches
           transmit == addr = \hC080
           card == addr \in CardSwitches
           a1 == keyboard_read_strobe(b).bus
           a2 == toggle_speaker(b)
           a3 == video_write(b, addr, v)
           a4 == uart_tx(b, v)
           a5 == language_card_switch(b, addr, TRUE)
<1>1. write_device(b, addr, v) = CASE strobe -> a1 [] speaker -> a2 [] video -> a3
                                    [] transmit -> a4 [] card -> a5 [] OTHER -> b
  BY DEF write_device
<1>2. card => ~strobe /\ ~speaker /\ ~video /\ ~transmit
  BY DEF CardSwitches, VideoSwitches
<1>3. /\ SameCard(b, a1, PortFields) /\ SameCard(b, a2, PortFields)
      /\ SameCard(b, a3, PortFields) /\ SameCard(b, a4, PortFields)
  BY PortKeyboard, PortReads, PortWrites
<1>4. SameCard(b, b, PortFields)
  BY DEF SameCard
<1> HIDE DEF strobe, speaker, video, transmit, card, a1, a2, a3, a4, a5
<1>5. card => write_device(b, addr, v) = a5
  BY <1>1, <1>2
<1>6. ~card => SameCard(b, write_device(b, addr, v), PortFields)
  <2>1. ~card => \/ write_device(b, addr, v) = a1 \/ write_device(b, addr, v) = a2
                 \/ write_device(b, addr, v) = a3 \/ write_device(b, addr, v) = a4
                 \/ write_device(b, addr, v) = b
    BY <1>1
  <2>. QED
    BY <2>1, <1>3, <1>4
<1>. QED
  BY <1>5, <1>6 DEF card, a5

LEMMA PortWrite ==
  ASSUME NEW b, DOMAIN b = PortFields, NEW addr \in Int, NEW v
  PROVE  /\ addr \in CardSwitches => bus_write(b, addr, v) = language_card_switch(b, addr, TRUE)
         /\ AtRom(addr) => bus_write(b, addr, v) = write_high(b, addr, v)
         /\ addr \notin CardSwitches /\ ~AtRom(addr) =>
              SameCard(b, bus_write(b, addr, v), PortFields)
<1> DEFINE low == addr < \h0400
           high == AtRom(addr)
           shown == is_video_write(addr)
           card == addr \in CardSwitches
           a1 == [b EXCEPT !.ram = Stored(@, addr, v)]
           a2 == write_high(b, addr, v)
           a3 == record_video_write(b, addr, v)
           a4 == write_device(b, addr, v)
<1>1. bus_write(b, addr, v) = CASE low -> a1 [] high -> a2 [] shown -> a3 [] OTHER -> a4
  BY SMTT(30) DEF bus_write, AtRom
<1>2. (low => ~high /\ ~shown) /\ (high => ~low /\ ~shown) /\ (card => ~low /\ ~high /\ ~shown)
  BY DEF is_video_write, CardSwitches, AtRom
<1>3. SameCard(b, a1, PortFields)
  BY DEF SameCard, PortFields
<1>4. SameCard(b, a3, PortFields) /\ (~card => SameCard(b, a4, PortFields))
  BY PortWrites, PortWriteDevice
<1>5. card => a4 = language_card_switch(b, addr, TRUE)
  BY PortWriteDevice
<1> HIDE DEF low, high, shown, card, a1, a2, a3, a4
<1>6. card => bus_write(b, addr, v) = a4
  BY <1>1, <1>2
<1>7. high => bus_write(b, addr, v) = a2
  BY <1>1, <1>2
<1>8. ~high => \/ bus_write(b, addr, v) = a1 \/ bus_write(b, addr, v) = a3
               \/ bus_write(b, addr, v) = a4
  BY <1>1, <1>2
<1>9. ~card /\ ~high => SameCard(b, bus_write(b, addr, v), PortFields)
  BY <1>3, <1>4, <1>8
<1>10. card => bus_write(b, addr, v) = language_card_switch(b, addr, TRUE)
  BY <1>5, <1>6
<1>11. addr \in CardSwitches => bus_write(b, addr, v) = language_card_switch(b, addr, TRUE)
  BY <1>10 DEF card
<1>12. AtRom(addr) => bus_write(b, addr, v) = write_high(b, addr, v)
  BY <1>7 DEF high, a2
<1>13. addr \notin CardSwitches /\ ~AtRom(addr) => SameCard(b, bus_write(b, addr, v), PortFields)
  BY <1>9 DEF card, high
<1>. QED
  BY Zenon, <1>11, <1>12, <1>13

LEMMA SageWriteDevice ==
  ASSUME NEW b, DOMAIN b = SageFields, NEW addr \in Int, NEW v
  PROVE  /\ addr \in CardSwitches =>
              S!write_device(b, addr, v) = S!language_card_soft_switch(b, addr, TRUE)
         /\ addr \notin CardSwitches => SameCard(b, S!write_device(b, addr, v), SageFields)
<1> DEFINE strobe == addr = \hC010
           speaker == addr = \hC030
           ram == addr = \hC0EB
           video == addr \in S!VideoSwitches
           card == addr \in S!CardSwitches
           a1 == S!read_keyboard_strobe(b).bus
           a2 == S!toggle_speaker(b)
           a3 == [b EXCEPT !.ram_write = v < 128]
           a4 == S!write_video_switch(b, addr, v)
           a5 == S!language_card_soft_switch(b, addr, TRUE)
<1>1. S!write_device(b, addr, v) = CASE strobe -> a1 [] speaker -> a2 [] ram -> a3 [] video -> a4
                                      [] card -> a5 [] OTHER -> b
  BY DEF S!write_device
<1>2. card => ~strobe /\ ~speaker /\ ~ram /\ ~video
  BY DEF S!CardSwitches, S!VideoSwitches
<1>3. /\ SameCard(b, a1, SageFields) /\ SameCard(b, a2, SageFields)
      /\ SameCard(b, a4, SageFields)
  BY SageKeyboard, SageReads, SageWrites
<1>4. SameCard(b, b, SageFields) /\ SameCard(b, a3, SageFields)
  BY DEF SameCard, SageFields
<1>5. card <=> addr \in CardSwitches
  BY DEF CardSwitches, S!CardSwitches
<1> HIDE DEF strobe, speaker, ram, video, card, a1, a2, a3, a4, a5
<1>6. card => S!write_device(b, addr, v) = a5
  BY <1>1, <1>2
<1>7. ~card => SameCard(b, S!write_device(b, addr, v), SageFields)
  <2>1. ~card => \/ S!write_device(b, addr, v) = a1 \/ S!write_device(b, addr, v) = a2
                 \/ S!write_device(b, addr, v) = a3 \/ S!write_device(b, addr, v) = a4
                 \/ S!write_device(b, addr, v) = b
    BY <1>1
  <2>. QED
    BY <2>1, <1>3, <1>4
<1>. QED
  BY <1>5, <1>6, <1>7 DEF a5

LEMMA SageWrite ==
  ASSUME NEW b, DOMAIN b = SageFields, NEW addr \in Int, NEW v
  PROVE  /\ addr \in CardSwitches =>
              S!write8(b, addr, v) = S!language_card_soft_switch(b, addr, TRUE)
         /\ AtRom(addr) => S!write8(b, addr, v) = S!write_card(b, addr, v)
         /\ addr \notin CardSwitches /\ ~AtRom(addr) =>
              SameCard(b, S!write8(b, addr, v), SageFields)
<1> DEFINE low == addr < \hC000
           high == AtRom(addr)
           card == addr \in CardSwitches
           a1 == S!write_memory(b, addr, v)
           a2 == S!write_card(b, addr, v)
           a3 == S!write_device(b, addr, v)
<1>1. S!write8(b, addr, v) = CASE low -> a1 [] high -> a2 [] OTHER -> a3
  BY DEF S!write8, AtRom
<1>2. (low => ~high) /\ (card => ~low /\ ~high)
  BY DEF CardSwitches, AtRom
<1>3. SameCard(b, a1, SageFields) /\ (~card => SameCard(b, a3, SageFields))
  BY SageWrites, SageWriteDevice
<1>4. card => a3 = S!language_card_soft_switch(b, addr, TRUE)
  BY SageWriteDevice
<1> HIDE DEF low, high, card, a1, a2, a3
<1>5. (card => S!write8(b, addr, v) = a3) /\ (high => S!write8(b, addr, v) = a2)
  BY <1>1, <1>2
<1>6. ~card /\ ~high => SameCard(b, S!write8(b, addr, v), SageFields)
  BY <1>1, <1>2, <1>3
<1>7. card => S!write8(b, addr, v) = S!language_card_soft_switch(b, addr, TRUE)
  BY <1>4, <1>5
<1>8. addr \in CardSwitches => S!write8(b, addr, v) = S!language_card_soft_switch(b, addr, TRUE)
  BY <1>7 DEF card
<1>9. AtRom(addr) => S!write8(b, addr, v) = S!write_card(b, addr, v)
  BY <1>5 DEF high, a2
<1>10. addr \notin CardSwitches /\ ~AtRom(addr) => SameCard(b, S!write8(b, addr, v), SageFields)
  BY <1>6 DEF card, high
<1>. QED
  BY Zenon, <1>8, <1>9, <1>10

-----------------------------------------------------------------------------
(* What changes neither card, and what changes both *)
LEMMA AgreeElsewhere ==
  ASSUME NEW p, NEW s, NEW p2, NEW s2, Agree(p, s),
         SameCard(p, p2, PortFields), SameCard(s, s2, SageFields)
  PROVE  Agree(p2, s2)
BY DEF Agree, SameCard, SameBytes

LEMMA AgreeSwitched ==
  ASSUME NEW p, NEW s, Agree(p, s), NEW addr \in Int, NEW writing \in BOOLEAN
  PROVE  Agree(language_card_switch(p, addr, writing), S!language_card_soft_switch(s, addr, writing))
<1> DEFINE p2 == language_card_switch(p, addr, writing)
           s2 == S!language_card_soft_switch(s, addr, writing)
<1>1. DOMAIN p = PortFields /\ DOMAIN s = SageFields /\ p.card = s.card /\ p.card \in CardStates
  BY DEF Agree
<1>2. /\ p2.card = S!soft_switch(p.card, addr, writing) /\ p2.card \in CardStates
      /\ p2.card_ram = p.card_ram /\ DOMAIN p2 = PortFields
  BY <1>1, SwitchesAgree
<1>3. /\ s2.card = S!soft_switch(s.card, addr, writing)
      /\ s2.card_ram = s.card_ram /\ DOMAIN s2 = SageFields
  BY <1>1 DEF S!language_card_soft_switch, SageFields
<1> HIDE DEF p2, s2
<1>4. Agree(p2, s2)
  BY <1>1, <1>2, <1>3 DEF Agree, SameBytes
<1>. QED
  BY <1>4 DEF p2, s2

(* The cell an address has in either card, window by window *)
LEMMA PortCell ==
  ASSUME NEW k \in {1, 2}, NEW a \in Int
  PROVE  /\ \hD000 <= a /\ a <= \hD07F => c_offset(k, a) = IF k = 1 THEN 0 ELSE 128
         /\ \hE000 <= a /\ a <= \hE1FF => c_offset(k, a) = 256 + (a - \hE000)
         /\ (\hD07F < a /\ a < \hE000) \/ \hE1FF < a => c_offset(k, a) = Uncovered
BY DEF c_offset, language_card_offset, LANGUAGE_CARD_BANK2_BASE, LANGUAGE_CARD_SHARED_BASE

LEMMA SageCell ==
  ASSUME NEW k \in {1, 2}, NEW a \in Int
  PROVE  /\ \hE000 <= a => s_offset(k, a) = 8192 + (a - \hE000)
         /\ a < \hE000 => s_offset(k, a) = IF k = 1 THEN a - \hD000 ELSE 4096 + (a - \hD000)
BY DEF s_offset, S!language_card_ram_offset

(* Two cells of the card that a guest with one address in each window uses   *)
(* are the same on the port exactly when they are the same on the reference. *)
LEMMA SameCells ==
  ASSUME NEW bank \in {1, 2}, NEW bank2 \in {1, 2}, NEW addr \in Int, NEW addr2 \in Int,
         \hD000 <= addr, ~(\hE100 <= addr /\ addr <= \hE1FF),
         (\hD000 <= addr2 /\ addr2 <= \hD07F) \/ (\hE000 <= addr2 /\ addr2 <= \hE0FF),
         addr <= \hD07F /\ addr2 <= \hD07F => addr = addr2
  PROVE  (c_offset(bank, addr) # Uncovered /\ c_offset(bank, addr) = c_offset(bank2, addr2))
           <=> s_offset(bank, addr) = s_offset(bank2, addr2)
<1> DEFINE c == c_offset(bank, addr)
           s == s_offset(bank, addr)
           c2 == c_offset(bank2, addr2)
           s2 == s_offset(bank2, addr2)
<1>1. /\ addr <= \hD07F => c = IF bank = 1 THEN 0 ELSE 128
      /\ \hE000 <= addr /\ addr <= \hE1FF => c = 256 + (addr - \hE000)
      /\ (\hD07F < addr /\ addr < \hE000) \/ \hE1FF < addr => c = Uncovered
  BY PortCell
<1>2. /\ \hE000 <= addr => s = 8192 + (addr - \hE000)
      /\ addr < \hE000 => s = IF bank = 1 THEN addr - \hD000 ELSE 4096 + (addr - \hD000)
  BY SageCell
<1>3. /\ addr2 <= \hD07F => c2 = IF bank2 = 1 THEN 0 ELSE 128
      /\ \hE000 <= addr2 => c2 = 256 + (addr2 - \hE000)
  BY PortCell
<1>4. /\ \hE000 <= addr2 => s2 = 8192 + (addr2 - \hE000)
      /\ addr2 < \hE000 => s2 = IF bank2 = 1 THEN addr2 - \hD000 ELSE 4096 + (addr2 - \hD000)
  BY SageCell
<1> HIDE DEF c, s, c2, s2
<1>5. (c # Uncovered /\ c = c2) <=> s = s2
  <2>1. CASE addr2 <= \hD07F
    <3>1. CASE addr <= \hD07F
      BY <1>1, <1>2, <1>3, <1>4, <2>1, <3>1 DEF Uncovered
    <3>2. CASE ~(addr <= \hD07F)
      BY <1>1, <1>2, <1>3, <1>4, <2>1, <3>2 DEF Uncovered
    <3>. QED
      BY <3>1, <3>2
  <2>2. CASE \hE000 <= addr2
    <3>1. CASE addr < \hE000
      BY <1>1, <1>2, <1>3, <1>4, <2>2, <3>1 DEF Uncovered
    <3>2. CASE ~(addr < \hE000)
      BY <1>1, <1>2, <1>3, <1>4, <2>2, <3>2 DEF Uncovered
    <3>. QED
      BY <3>1, <3>2
  <2>. QED
    BY <2>1, <2>2
<1>. QED
  BY <1>5 DEF c, s, c2, s2

(* The offsets are those of the bank that is switched in. *)
LEMMA OffsetOfBank ==
  ASSUME NEW b, NEW addr
  PROVE  /\ language_card_offset(b, addr) = c_offset(b.card.bank, addr)
         /\ S!language_card_ram_offset(b, addr) = s_offset(b.card.bank, addr)
<1>1. language_card_offset(b, addr) = c_offset(b.card.bank, addr)
  <2> DEFINE w == [card |-> [bank |-> b.card.bank]]
  <2>1. w.card.bank = b.card.bank
    OBVIOUS
  <2> HIDE DEF w
  <2>2. language_card_offset(b, addr) = language_card_offset(w, addr)
    BY <2>1 DEF language_card_offset
  <2>. QED
    BY <2>2 DEF w, c_offset
<1>2. S!language_card_ram_offset(b, addr) = s_offset(b.card.bank, addr)
  <2> DEFINE w == [card |-> [bank |-> b.card.bank]]
  <2>1. w.card.bank = b.card.bank
    OBVIOUS
  <2> HIDE DEF w
  <2>2. S!language_card_ram_offset(b, addr) = S!language_card_ram_offset(w, addr)
    BY <2>1 DEF S!language_card_ram_offset
  <2>. QED
    BY <2>2 DEF w, s_offset
<1>. QED
  BY <1>1, <1>2

(* What OneCellPerBank says of the guest at hand *)
InBankWindow(addr) == \hD000 <= addr /\ addr <= \hD07F
OneCell ==
  /\ program \subseteq Int
  /\ \A i, j \in program : InBankWindow(i) /\ InBankWindow(j) => i = j
  /\ \A i \in program : ~(\hE100 <= i /\ i <= \hE1FF)

LEMMA AddressesAreNumbers ==
  ASSUME NEW used \in Programs
  PROVE  used \subseteq Int /\ \A addr \in used : addr >= 0
<1>1. Address \subseteq Int /\ \A addr \in Address : addr >= 0
  BY SMT DEF Address
<1>. QED
  BY <1>1, BusesAssumption

LEMMA OneCellHere ==
  ASSUME OneCellPerBank, program \in Programs
  PROVE  OneCell
<1> DEFINE bankWindow == \hD000..\hD07F
           pastEnd == \hE100..\hE1FF
<1>1. program \subseteq Int
  BY AddressesAreNumbers
<1>2. /\ \A i, j \in program \cap bankWindow : i = j
      /\ program \cap pastEnd = {}
  BY DEF OneCellPerBank
<1>3. \A i \in Int : InBankWindow(i) => i \in bankWindow
  BY DEF InBankWindow
<1>4. \A i \in Int : \hE100 <= i /\ i <= \hE1FF => i \in pastEnd
  OBVIOUS
<1> HIDE DEF bankWindow, pastEnd
<1>. QED
  BY <1>1, <1>2, <1>3, <1>4 DEF OneCell

(* A write into the window of the card *)
LEMMA AgreeWritten ==
  ASSUME NEW p, NEW s, Agree(p, s), OneCell, NEW addr, addr \in program, AtRom(addr), NEW v
  PROVE  Agree(write_high(p, addr, v), S!write_card(s, addr, v))
<1> DEFINE bank == s.card.bank
           c == c_offset(bank, addr)
           p2 == [p EXCEPT !.card_ram = Stored(@, c, v)]
           s2 == [s EXCEPT !.card_ram = S!Stored(@, s_offset(bank, addr), v)]
           written == addr < \hF800 /\ s.card.write_ram
<1>1. /\ DOMAIN p = PortFields /\ DOMAIN s = SageFields
      /\ p.card = s.card /\ s.card \in CardStates /\ SameBytes(p, s)
  BY DEF Agree
<1>2. bank \in {1, 2}
  BY <1>1 DEF CardStates
<1>3. language_card_offset(p, addr) = c
  BY <1>1, OffsetOfBank
<1>4. S!language_card_ram_offset(s, addr) = s_offset(bank, addr)
  BY OffsetOfBank
<1>5. write_high(p, addr, v) = IF written /\ c # Uncovered THEN p2 ELSE p
  BY <1>1, <1>3 DEF write_high, language_card_write
<1>6. S!write_card(s, addr, v) = IF written THEN s2 ELSE s
  <2>1. S!write_card(s, addr, v) =
          IF written
          THEN [s EXCEPT !.card_ram = S!Stored(@, S!language_card_ram_offset(s, addr), v)]
          ELSE s
    BY DEF S!write_card
  <2>. QED
    BY <1>4, <2>1
<1>7. ASSUME NEW addr2 \in card_cells, NEW bank2 \in {1, 2}
      PROVE  (c # Uncovered /\ c = c_offset(bank2, addr2)) <=> s_offset(bank, addr) = s_offset(bank2, addr2)
  <2>1. addr \in Int /\ addr2 \in program /\ addr2 \in Int
    BY DEF card_cells, OneCell
  <2>2. InBankWindow(addr2) \/ (\hE000 <= addr2 /\ addr2 <= \hE0FF)
    BY DEF card_cells, InBankWindow
  <2>3. \hD000 <= addr
    BY <2>1 DEF AtRom
  <2>4. ~(\hE100 <= addr /\ addr <= \hE1FF)
    BY DEF OneCell
  <2>5. addr <= \hD07F /\ addr2 <= \hD07F => addr = addr2
    <3>1. InBankWindow(addr) /\ InBankWindow(addr2) => addr = addr2
      BY <2>1 DEF OneCell
    <3>. QED
      BY <2>1, <2>2, <2>3, <3>1 DEF InBankWindow
  <2>6. (\hD000 <= addr2 /\ addr2 <= \hD07F) \/ (\hE000 <= addr2 /\ addr2 <= \hE0FF)
    BY <2>2 DEF InBankWindow
  <2> HIDE DEF bank
  <2>. QED
    BY <1>2, <2>1, <2>3, <2>4, <2>5, <2>6, SameCells
<1> HIDE DEF bank, c, written
<1>8. /\ DOMAIN p2 = PortFields /\ p2.card = p.card /\ p2.card_ram = Stored(p.card_ram, c, v)
      /\ DOMAIN s2 = SageFields /\ s2.card = s.card
      /\ s2.card_ram = S!Stored(s.card_ram, s_offset(bank, addr), v)
  BY <1>1 DEF PortFields, SageFields
<1> HIDE DEF p2, s2
<1>9. ASSUME NEW addr2 \in card_cells, NEW bank2 \in {1, 2}
      PROVE  /\ At(p.card_ram, c_offset(bank2, addr2)) = At(s.card_ram, s_offset(bank2, addr2))
             /\ c # Uncovered =>
                  At(p2.card_ram, c_offset(bank2, addr2)) = At(s2.card_ram, s_offset(bank2, addr2))
             /\ c = Uncovered =>
                  At(p.card_ram, c_offset(bank2, addr2)) = At(s2.card_ram, s_offset(bank2, addr2))
  <2>1. At(p.card_ram, c_offset(bank2, addr2)) = At(s.card_ram, s_offset(bank2, addr2))
    BY DEF Agree, SameBytes
  <2>2. /\ At(p2.card_ram, c_offset(bank2, addr2)) =
             IF c_offset(bank2, addr2) = c THEN v ELSE At(p.card_ram, c_offset(bank2, addr2))
        /\ At(s2.card_ram, s_offset(bank2, addr2)) =
             IF s_offset(bank2, addr2) = s_offset(bank, addr) THEN v
             ELSE At(s.card_ram, s_offset(bank2, addr2))
    BY <1>8, AtStored
  <2>. QED
    BY <1>7, <2>1, <2>2
<1>10. CASE written /\ c # Uncovered
  BY <1>1, <1>5, <1>6, <1>8, <1>9, <1>10 DEF Agree, SameBytes
<1>11. CASE written /\ c = Uncovered
  BY <1>1, <1>5, <1>6, <1>8, <1>9, <1>11 DEF Agree, SameBytes
<1>12. CASE ~written
  BY <1>5, <1>6, <1>12
<1>. QED
  BY <1>10, <1>11, <1>12

-----------------------------------------------------------------------------
LEMMA CardInit ==
  Init => IInv
<1> SUFFICES ASSUME Init PROVE IInv
  OBVIOUS
<1>1. /\ DOMAIN port = PortFields
      /\ port.card = [bank |-> 2, read_ram |-> FALSE, write_ram |-> TRUE, prewrite |-> FALSE]
      /\ port.card_ram = Nothing
  BY DEF Init, bus_reset, PowerOn, PortFields
<1>2. /\ DOMAIN sage = SageFields
      /\ sage.card = [bank |-> 2, read_ram |-> FALSE, write_ram |-> TRUE, prewrite |-> FALSE]
      /\ sage.card_ram = S!Nothing
  BY DEF Init, S!PowerOn, SageFields
<1>3. \A i : At(Nothing, i) = 0 /\ At(S!Nothing, i) = 0
  BY DEF At, Nothing, S!Nothing
<1>4. SameBytes(port, sage)
  BY <1>1, <1>2, <1>3 DEF SameBytes
<1>. QED
  BY <1>1, <1>2, <1>4 DEF IInv, Agree, CardStates, Init

LEMMA CardStep ==
  ASSUME OneCellPerBank
  PROVE  IInv /\ [Next]_vars => IInv'
<1> SUFFICES ASSUME IInv, [Next]_vars PROVE IInv'
  OBVIOUS
<1>1. /\ program \in Programs /\ Agree(port, sage) /\ program \subseteq Int
      /\ DOMAIN port = PortFields /\ DOMAIN sage = SageFields
  BY AddressesAreNumbers DEF IInv, Agree
<1>2. ASSUME NEW p, NEW s, Agree(p, s), port' = p, sage' = s, program' = program
      PROVE  IInv'
  BY <1>1, <1>2 DEF IInv, Agree, SameBytes, card_cells
<1>3. ASSUME NEW addr \in program, Read(addr)
      PROVE  IInv'
  <2> DEFINE p == bus_read(port, addr).bus
             s == S!read8(sage, addr).bus
  <2>1. port' = p /\ sage' = s /\ program' = program
    BY <1>3 DEF Read
  <2>2. Agree(p, s)
    <3>1. addr \in Int
      BY <1>1
    <3>2. CASE addr \in CardSwitches
      <4>1. p = language_card_switch(port, addr, FALSE)
        BY <1>1, <3>1, <3>2, PortRead
      <4>2. s = S!language_card_soft_switch(sage, addr, FALSE)
        BY <1>1, <3>1, <3>2, SageRead
      <4> HIDE DEF p, s
      <4>. QED
        BY <1>1, <3>1, <4>1, <4>2, AgreeSwitched
    <3>3. CASE addr \notin CardSwitches
      <4>1. SameCard(port, p, PortFields)
        BY <1>1, <3>1, <3>3, PortRead
      <4>2. SameCard(sage, s, SageFields)
        BY <1>1, <3>1, <3>3, SageRead
      <4> HIDE DEF p, s
      <4>. QED
        BY <1>1, <4>1, <4>2, AgreeElsewhere
    <3>. QED
      BY <3>2, <3>3
  <2> HIDE DEF p, s
  <2>. QED
    BY <1>2, <2>1, <2>2
<1>4. ASSUME NEW addr \in program, NEW v, Write(addr, v)
      PROVE  IInv'
  <2> DEFINE p == bus_write(port, addr, v)
             s == S!write8(sage, addr, v)
  <2>1. port' = p /\ sage' = s /\ program' = program
    BY <1>4 DEF Write
  <2>2. Agree(p, s)
    <3>1. addr \in Int
      BY <1>1
    <3>2. CASE addr \in CardSwitches
      <4>1. p = language_card_switch(port, addr, TRUE)
        BY <1>1, <3>1, <3>2, PortWrite
      <4>2. s = S!language_card_soft_switch(sage, addr, TRUE)
        BY <1>1, <3>1, <3>2, SageWrite
      <4> HIDE DEF p, s
      <4>. QED
        BY <1>1, <3>1, <4>1, <4>2, AgreeSwitched
    <3>3. CASE addr \notin CardSwitches /\ AtRom(addr)
      <4>1. p = write_high(port, addr, v)
        BY <1>1, <3>1, <3>3, PortWrite
      <4>2. s = S!write_card(sage, addr, v)
        BY <1>1, <3>1, <3>3, SageWrite
      <4> HIDE DEF p, s
      <4>. QED
        BY <1>1, <3>3, <4>1, <4>2, OneCellHere, AgreeWritten
    <3>4. CASE addr \notin CardSwitches /\ ~AtRom(addr)
      <4>1. SameCard(port, p, PortFields)
        BY <1>1, <3>1, <3>4, PortWrite
      <4>2. SameCard(sage, s, SageFields)
        BY <1>1, <3>1, <3>4, SageWrite
      <4> HIDE DEF p, s
      <4>. QED
        BY <1>1, <4>1, <4>2, AgreeElsewhere
    <3>. QED
      BY <3>2, <3>3, <3>4
  <2> HIDE DEF p, s
  <2>. QED
    BY <1>2, <2>1, <2>2
<1>5. ASSUME NEW key \in Keys, Type(key)
      PROVE  IInv'
  <2> DEFINE p == host_uart_feed(port, key)
             s == S!queue_keyboard(sage, S!encode_keyboard_char(key))
  <2>1. port' = p /\ sage' = s /\ program' = program
    BY <1>5 DEF Type
  <2>2. SameCard(port, p, PortFields) /\ SameCard(sage, s, SageFields)
    BY <1>1, PortWrites, SageKeyboard
  <2> HIDE DEF p, s
  <2>. QED
    BY <1>1, <1>2, <2>1, <2>2, AgreeElsewhere
<1>6. CASE PressReset
  <2> DEFINE s == S!reset_key(sage)
  <2>1. port' = port /\ sage' = s /\ program' = program
    BY <1>6 DEF PressReset
  <2>2. SameCard(port, port, PortFields) /\ SameCard(sage, s, SageFields)
    BY <1>1, SageKeyboard DEF SameCard
  <2> HIDE DEF s
  <2>. QED
    BY <1>1, <1>2, <2>1, <2>2, AgreeElsewhere
<1>7. CASE UNCHANGED vars
  BY <1>1, <1>2, <1>7 DEF vars
<1>. QED
  BY <1>3, <1>4, <1>5, <1>6, <1>7 DEF Next

(* Whatever addresses the guest uses, whatever it reads and writes and        *)
(* whatever is typed meanwhile, the language card of the C port               *)
(* (language_card_switch, language_card_offset) has the bank, the permissions *)
(* and the bytes of the reference card, if the guest keeps to one address of  *)
(* each $D000 bank and away from $E100-$E1FF.                                 *)
THEOREM CardsStayAgreed ==
  ASSUME OneCellPerBank
  PROVE  Spec => []CardAgree
<1>1. IInv => CardAgree
  BY DEF IInv, Agree, SameBytes, CardAgree, c_offset, s_offset
<1>. QED
  BY <1>1, CardInit, CardStep, PTL DEF Spec

-----------------------------------------------------------------------------
(* The arm of each address, on either bus.  An address that is no register   *)
(* of a bus reads as zero and keeps nothing.                                 *)
PortRegister(addr) ==
  \/ addr \in {\hC000, \hC010, \hC030, \hC081} \/ addr \in VideoSwitches \/ addr \in CardSwitches
SageRegister(addr) ==
  \/ addr \in {\hC000, \hC010, \hC030, \hC0EB} \/ addr \in VideoSwitches \/ addr \in CardSwitches
PortStore(addr) ==
  \/ addr \in {\hC010, \hC030, \hC080} \/ addr \in VideoSwitches \/ addr \in CardSwitches
SageStore(addr) ==
  \/ addr \in {\hC010, \hC030, \hC0EB} \/ addr \in VideoSwitches \/ addr \in CardSwitches
InDevices(addr) == addr >= \hC000 /\ addr < \hD000

uart_data(b) ==
  IF uart_rx_ready(b) THEN Got(128 + Byte7(uart_rx(b).v), uart_rx(b).bus) ELSE Got(0, b)
PortReadArms(b, addr, r) ==
  /\ addr < \h0400 => r = Got(At(b.ram, addr), b)
  /\ addr >= \hD000 =>
       r =
         Got(IF addr < \hF800 /\ b.card.read_ram THEN language_card_read(b, addr)
             ELSE read_rom(addr), b)
  /\ addr = \hC000 => r = keyboard_read_latch(b)
  /\ addr = \hC010 => r = keyboard_read_strobe(b)
  /\ addr = \hC030 =>
       r = Got(High(toggle_speaker(b).speaker_on), toggle_speaker(b))
  /\ addr \in VideoSwitches =>
       r =
         Got(High(addr - \hC050 \in b.video.switches), video_switch(b, addr))
  /\ addr = \hC081 => r = uart_data(b)
  /\ addr \in CardSwitches =>
       r = Got(0, language_card_switch(b, addr, FALSE))
  /\ addr >= \h0400 /\ addr < \hD000 /\ ~PortRegister(addr) =>
       r = Got(0, b)

LEMMA PortReadAt ==
  ASSUME NEW b, NEW addr \in Int
  PROVE  PortReadArms(b, addr, bus_read(b, addr))
<1> DEFINE a1 == keyboard_read_latch(b)
           a2 == keyboard_read_strobe(b)
           a3 == Got(High(toggle_speaker(b).speaker_on), toggle_speaker(b))
           a4 == Got(High(addr - \hC050 \in b.video.switches), video_switch(b, addr))
           a5 == uart_data(b)
           a6 == Got(0, language_card_switch(b, addr, FALSE))
           a7 == Got(0, b)
           a8 == Got(At(b.ram, addr), b)
           a9 == Got(IF addr < \hF800 /\ b.card.read_ram THEN language_card_read(b, addr)
                     ELSE read_rom(addr), b)
           a == read_device(b, addr)
<1>1. a = CASE addr = \hC000 -> a1 [] addr = \hC010 -> a2 [] addr = \hC030 -> a3
            [] addr \in VideoSwitches -> a4 [] addr = \hC081 -> a5
            [] addr \in CardSwitches -> a6 [] OTHER -> a7
  BY DEF read_device, uart_data
<1>2. bus_read(b, addr) = CASE addr < \h0400 -> a8 [] addr >= \hD000 -> a9 [] OTHER -> a
  BY DEF bus_read
<1> HIDE DEF a, a1, a2, a3, a4, a5, a6, a7, a8, a9
<1>3. /\ addr < \h0400 => bus_read(b, addr) = a8
      /\ addr >= \hD000 => bus_read(b, addr) = a9
      /\ addr >= \h0400 /\ addr < \hD000 => bus_read(b, addr) = a
  BY <1>2
<1>4. /\ addr = \hC000 => a = a1
      /\ addr = \hC010 => a = a2
      /\ addr = \hC030 => a = a3
      /\ addr \in VideoSwitches => a = a4
      /\ addr = \hC081 => a = a5
      /\ addr \in CardSwitches => a = a6
      /\ ~PortRegister(addr) => a = a7
  BY <1>1 DEF VideoSwitches, CardSwitches, PortRegister
<1>5. addr \in VideoSwitches \/ addr \in CardSwitches => addr >= \h0400 /\ addr < \hD000
  BY DEF VideoSwitches, CardSwitches
<1>6. /\ addr = \hC000 => bus_read(b, addr) = a1
      /\ addr = \hC010 => bus_read(b, addr) = a2
      /\ addr = \hC030 => bus_read(b, addr) = a3
      /\ addr \in VideoSwitches => bus_read(b, addr) = a4
      /\ addr = \hC081 => bus_read(b, addr) = a5
      /\ addr \in CardSwitches => bus_read(b, addr) = a6
      /\ addr >= \h0400 /\ addr < \hD000 /\ ~PortRegister(addr) => bus_read(b, addr) = a7
  BY <1>3, <1>4, <1>5
<1>. QED
  BY <1>3, <1>6, PTL DEF PortReadArms, a1, a2, a3, a4, a5, a6, a7, a8, a9

PortWriteArms(b, addr, v, r) ==
  /\ addr < \h0400 => r = [b EXCEPT !.ram = Stored(@, addr, v)]
  /\ addr >= \hD000 => r = write_high(b, addr, v)
  /\ is_video_write(addr) => r = record_video_write(b, addr, v)
  /\ addr = \hC010 => r = keyboard_read_strobe(b).bus
  /\ addr = \hC030 => r = toggle_speaker(b)
  /\ addr = \hC080 => r = uart_tx(b, v)
  /\ addr \in VideoSwitches => r = video_write(b, addr, v)
  /\ addr \in CardSwitches => r = language_card_switch(b, addr, TRUE)
  /\ addr >= \h0400 /\ addr < \hD000 /\ ~is_video_write(addr) /\ ~PortStore(addr) =>
       r = b

LEMMA PortWriteAt ==
  ASSUME NEW b, NEW addr \in Int, NEW v
  PROVE  PortWriteArms(b, addr, v, bus_write(b, addr, v))
<1> DEFINE a2 == keyboard_read_strobe(b).bus
           a3 == toggle_speaker(b)
           a4 == video_write(b, addr, v)
           a5 == uart_tx(b, v)
           a6 == language_card_switch(b, addr, TRUE)
           a8 == [b EXCEPT !.ram = Stored(@, addr, v)]
           a9 == write_high(b, addr, v)
           a10 == record_video_write(b, addr, v)
           a == write_device(b, addr, v)
<1>1. a = CASE addr = \hC010 -> a2 [] addr = \hC030 -> a3 [] addr \in VideoSwitches -> a4
            [] addr = \hC080 -> a5 [] addr \in CardSwitches -> a6 [] OTHER -> b
  BY DEF write_device
<1>2. bus_write(b, addr, v) = CASE addr < \h0400 -> a8 [] addr >= \hD000 -> a9
                                [] is_video_write(addr) -> a10 [] OTHER -> a
  BY DEF bus_write
<1> HIDE DEF a, a2, a3, a4, a5, a6, a8, a9, a10
<1>3. is_video_write(addr) => addr >= \h0400 /\ addr < \hC000
  BY DEF is_video_write
<1>4. /\ addr < \h0400 => bus_write(b, addr, v) = a8
      /\ addr >= \hD000 => bus_write(b, addr, v) = a9
      /\ is_video_write(addr) => bus_write(b, addr, v) = a10
      /\ addr >= \h0400 /\ addr < \hD000 /\ ~is_video_write(addr) => bus_write(b, addr, v) = a
  BY <1>2, <1>3
<1>5. /\ addr = \hC010 => a = a2
      /\ addr = \hC030 => a = a3
      /\ addr = \hC080 => a = a5
      /\ addr \in VideoSwitches => a = a4
      /\ addr \in CardSwitches => a = a6
      /\ ~PortStore(addr) => a = b
  BY <1>1 DEF VideoSwitches, CardSwitches, PortStore
<1>6. PortStore(addr) => addr >= \hC000 /\ addr < \hD000
  BY DEF VideoSwitches, CardSwitches, PortStore
<1>7. PortStore(addr) => bus_write(b, addr, v) = a
  BY <1>3, <1>4, <1>6
<1>8. /\ addr = \hC010 => bus_write(b, addr, v) = a2
      /\ addr = \hC030 => bus_write(b, addr, v) = a3
      /\ addr = \hC080 => bus_write(b, addr, v) = a5
      /\ addr \in VideoSwitches => bus_write(b, addr, v) = a4
      /\ addr \in CardSwitches => bus_write(b, addr, v) = a6
      /\ addr >= \h0400 /\ addr < \hD000 /\ ~is_video_write(addr) /\ ~PortStore(addr) =>
           bus_write(b, addr, v) = b
  BY <1>4, <1>5, <1>7 DEF PortStore
<1>. QED
  BY <1>4, <1>8, PTL DEF PortWriteArms, a2, a3, a4, a5, a6, a8, a9, a10

SageReadArms(b, addr, r) ==
  /\ addr < \hC000 => r = S!Got(S!At(b.ram, addr), b)
  /\ addr >= \hD000 =>
       r =
         S!Got(IF addr < \hF800 /\ b.card.read_ram
               THEN S!At(b.card_ram, S!language_card_ram_offset(b, addr))
               ELSE S!APPLE2ROM[addr - \hD000], b)
  /\ addr = \hC000 => r = S!read_keyboard_latch(b)
  /\ addr = \hC010 => r = S!read_keyboard_strobe(b)
  /\ addr = \hC030 =>
       r = S!Got(S!High(S!toggle_speaker(b).speaker_on), S!toggle_speaker(b))
  /\ addr \in VideoSwitches =>
       r =
         S!Got(S!High(addr - \hC050 \in b.video.switches), S!apply_video_switch(b, addr))
  /\ addr = \hC0EB => r = S!Got(S!High(~b.ram_write), b)
  /\ addr \in CardSwitches =>
       r = S!Got(0, S!language_card_soft_switch(b, addr, FALSE))
  /\ InDevices(addr) /\ ~SageRegister(addr) => r = S!Got(0, b)

LEMMA SageReadAt ==
  ASSUME NEW b, NEW addr \in Int
  PROVE  SageReadArms(b, addr, S!read8(b, addr))
<1> DEFINE a1 == S!read_keyboard_latch(b)
           a2 == S!read_keyboard_strobe(b)
           a3 == S!Got(S!High(S!toggle_speaker(b).speaker_on), S!toggle_speaker(b))
           a4 == S!Got(S!High(addr - \hC050 \in b.video.switches), S!apply_video_switch(b, addr))
           a5 == S!Got(S!High(~b.ram_write), b)
           a6 == S!Got(0, S!language_card_soft_switch(b, addr, FALSE))
           a7 == S!Got(0, b)
           a8 == S!Got(S!At(b.ram, addr), b)
           a9 == S!Got(IF addr < \hF800 /\ b.card.read_ram
                       THEN S!At(b.card_ram, S!language_card_ram_offset(b, addr))
                       ELSE S!APPLE2ROM[addr - \hD000], b)
           a == S!read_device(b, addr)
<1>1. a = CASE addr = \hC000 -> a1 [] addr = \hC010 -> a2 [] addr = \hC030 -> a3
            [] addr \in S!VideoSwitches -> a4 [] addr = \hC0EB -> a5
            [] addr \in S!CardSwitches -> a6 [] OTHER -> a7
  BY DEF S!read_device
<1>2. S!read8(b, addr) = CASE addr < \hC000 -> a8 [] addr >= \hD000 -> a9 [] OTHER -> a
  BY DEF S!read8
<1> HIDE DEF a, a1, a2, a3, a4, a5, a6, a7, a8, a9
<1>3. /\ addr < \hC000 => S!read8(b, addr) = a8
      /\ addr >= \hD000 => S!read8(b, addr) = a9
      /\ addr >= \hC000 /\ addr < \hD000 => S!read8(b, addr) = a
  BY <1>2
<1>4. /\ addr = \hC000 => a = a1
      /\ addr = \hC010 => a = a2
      /\ addr = \hC030 => a = a3
      /\ addr \in VideoSwitches => a = a4
      /\ addr = \hC0EB => a = a5
      /\ addr \in CardSwitches => a = a6
      /\ ~SageRegister(addr) => a = a7
  BY <1>1 DEF VideoSwitches, CardSwitches, S!VideoSwitches, S!CardSwitches, SageRegister
<1>5. addr \in VideoSwitches \/ addr \in CardSwitches => addr >= \hC000 /\ addr < \hD000
  BY DEF VideoSwitches, CardSwitches
<1>6. /\ addr = \hC000 => S!read8(b, addr) = a1
      /\ addr = \hC010 => S!read8(b, addr) = a2
      /\ addr = \hC030 => S!read8(b, addr) = a3
      /\ addr \in VideoSwitches => S!read8(b, addr) = a4
      /\ addr = \hC0EB => S!read8(b, addr) = a5
      /\ addr \in CardSwitches => S!read8(b, addr) = a6
      /\ InDevices(addr) /\ ~SageRegister(addr) => S!read8(b, addr) = a7
  BY <1>3, <1>4, <1>5 DEF InDevices
<1>. QED
  BY <1>3, <1>6, PTL DEF SageReadArms, a1, a2, a3, a4, a5, a6, a7, a8, a9

SageWriteArms(b, addr, v, r) ==
  /\ addr < \hC000 => r = S!write_memory(b, addr, v)
  /\ addr >= \hD000 => r = S!write_card(b, addr, v)
  /\ addr = \hC010 => r = S!read_keyboard_strobe(b).bus
  /\ addr = \hC030 => r = S!toggle_speaker(b)
  /\ addr = \hC0EB => r = [b EXCEPT !.ram_write = v < 128]
  /\ addr \in VideoSwitches => r = S!write_video_switch(b, addr, v)
  /\ addr \in CardSwitches =>
       r = S!language_card_soft_switch(b, addr, TRUE)
  /\ InDevices(addr) /\ ~SageStore(addr) => r = b

LEMMA SageWriteAt ==
  ASSUME NEW b, NEW addr \in Int, NEW v
  PROVE  SageWriteArms(b, addr, v, S!write8(b, addr, v))
<1> DEFINE a2 == S!read_keyboard_strobe(b).bus
           a3 == S!toggle_speaker(b)
           a4 == S!write_video_switch(b, addr, v)
           a5 == [b EXCEPT !.ram_write = v < 128]
           a6 == S!language_card_soft_switch(b, addr, TRUE)
           a8 == S!write_memory(b, addr, v)
           a9 == S!write_card(b, addr, v)
           a == S!write_device(b, addr, v)
<1>1. a = CASE addr = \hC010 -> a2 [] addr = \hC030 -> a3 [] addr = \hC0EB -> a5
            [] addr \in S!VideoSwitches -> a4 [] addr \in S!CardSwitches -> a6 [] OTHER -> b
  BY DEF S!write_device
<1>2. S!write8(b, addr, v) = CASE addr < \hC000 -> a8 [] addr >= \hD000 -> a9 [] OTHER -> a
  BY DEF S!write8
<1> HIDE DEF a, a2, a3, a4, a5, a6, a8, a9
<1>3. /\ addr < \hC000 => S!write8(b, addr, v) = a8
      /\ addr >= \hD000 => S!write8(b, addr, v) = a9
      /\ addr >= \hC000 /\ addr < \hD000 => S!write8(b, addr, v) = a
  BY <1>2
<1>4. /\ addr = \hC010 => a = a2
      /\ addr = \hC030 => a = a3
      /\ addr = \hC0EB => a = a5
      /\ addr \in VideoSwitches => a = a4
      /\ addr \in CardSwitches => a = a6
      /\ ~SageStore(addr) => a = b
  BY <1>1 DEF VideoSwitches, CardSwitches, S!VideoSwitches, S!CardSwitches, SageStore
<1>5. SageStore(addr) => addr >= \hC000 /\ addr < \hD000
  BY DEF VideoSwitches, CardSwitches, SageStore
<1>6. SageStore(addr) \/ InDevices(addr) => S!write8(b, addr, v) = a
  BY <1>3, <1>5 DEF InDevices
<1>7. /\ addr = \hC010 => S!write8(b, addr, v) = a2
      /\ addr = \hC030 => S!write8(b, addr, v) = a3
      /\ addr = \hC0EB => S!write8(b, addr, v) = a5
      /\ addr \in VideoSwitches => S!write8(b, addr, v) = a4
      /\ addr \in CardSwitches => S!write8(b, addr, v) = a6
      /\ InDevices(addr) /\ ~SageStore(addr) => S!write8(b, addr, v) = b
  BY <1>4, <1>6 DEF SageStore
<1>. QED
  BY <1>3, <1>7, PTL DEF SageWriteArms, a2, a3, a4, a5, a6, a8, a9

-----------------------------------------------------------------------------
(* The video memory, the switches and the speaker *)
PortScreen == {"state", "switches", "values", "events", "last"}
SageScreen == {"state", "switches", "values", "events"}

CountOf(events) == IF Len(events) < EVENT_MAX THEN Len(events) ELSE EVENT_MAX
Counted(p, events) ==
  /\ p.video.events = CountOf(events)
  /\ events # <<>> => p.video.last = events[Len(events)]

Screens(p, s) ==
  /\ DOMAIN p = PortFields /\ DOMAIN s = SageFields
  /\ DOMAIN p.video = PortScreen /\ DOMAIN s.video = SageScreen
  /\ s.video.events \in Seq(Int \X Values) /\ Counted(p, s.video.events)
  /\ p.video.state = s.video.state /\ p.video.switches = s.video.switches
  /\ p.video.values = s.video.values /\ p.speaker_on = s.speaker_on

(* What every step but those of the video and the speaker leaves alone *)
SameScreen(b, c, fields) ==
  /\ DOMAIN c = fields
  /\ c.video = b.video /\ c.speaker_on = b.speaker_on

LEMMA PortScreenKept ==
  ASSUME NEW b, DOMAIN b = PortFields, NEW addr, NEW v, NEW writing
  PROVE  /\ SameScreen(b, keyboard_read_strobe(b).bus, PortFields)
         /\ SameScreen(b, keyboard_read_latch(b).bus, PortFields)
         /\ SameScreen(b, language_card_switch(b, addr, writing), PortFields)
         /\ SameScreen(b, write_high(b, addr, v), PortFields)
         /\ SameScreen(b, [b EXCEPT !.ram = Stored(@, addr, v)], PortFields)
         /\ SameScreen(b, uart_tx(b, v), PortFields)
         /\ SameScreen(b, host_uart_feed(b, v), PortFields)
<1>1. SameScreen(b, keyboard_read_strobe(b).bus, PortFields)
  <2> DEFINE polled == keyboard_poll_uart(b)
  <2>1. SameScreen(b, polled, PortFields)
    BY DEF SameScreen, PortFields, keyboard_poll_uart, uart_rx, Got
  <2>2. keyboard_read_strobe(b) =
          IF polled.kbd.strobe
          THEN Got(128, [polled EXCEPT !.kbd.strobe = FALSE, !.kbd.latch = Byte7(@)])
          ELSE Got(0, polled)
    BY DEF keyboard_read_strobe
  <2> HIDE DEF polled
  <2>. QED
    BY <2>1, <2>2 DEF SameScreen, PortFields, Got
<1>2. SameScreen(b, keyboard_read_latch(b).bus, PortFields)
  BY DEF SameScreen, PortFields, keyboard_read_latch, Got
<1>3. SameScreen(b, language_card_switch(b, addr, writing), PortFields)
  BY DEF SameScreen, PortFields, language_card_switch
<1>4. SameScreen(b, write_high(b, addr, v), PortFields)
  BY DEF SameScreen, PortFields, write_high, language_card_write
<1>5. SameScreen(b, [b EXCEPT !.ram = Stored(@, addr, v)], PortFields)
  BY DEF SameScreen, PortFields
<1>6. SameScreen(b, uart_tx(b, v), PortFields) /\ SameScreen(b, host_uart_feed(b, v), PortFields)
  BY DEF SameScreen, PortFields, uart_tx, host_uart_feed
<1>. QED
  BY <1>1, <1>2, <1>3, <1>4, <1>5, <1>6

LEMMA SageScreenKept ==
  ASSUME NEW b, DOMAIN b = SageFields, NEW addr, NEW v, NEW writing
  PROVE  /\ SameScreen(b, S!read_keyboard_strobe(b).bus, SageFields)
         /\ SameScreen(b, S!read_keyboard_latch(b).bus, SageFields)
         /\ SameScreen(b, S!language_card_soft_switch(b, addr, writing), SageFields)
         /\ SameScreen(b, S!write_card(b, addr, v), SageFields)
         /\ SameScreen(b, [b EXCEPT !.ram_write = v < 128], SageFields)
         /\ SameScreen(b, S!queue_keyboard(b, v), SageFields)
         /\ SameScreen(b, S!reset_key(b), SageFields)
<1>1. ASSUME NEW c, DOMAIN c = SageFields
      PROVE  SameScreen(c, S!promote_keyboard(c), SageFields)
  BY <1>1 DEF SameScreen, SageFields, S!promote_keyboard
<1>2. SameScreen(b, S!read_keyboard_strobe(b).bus, SageFields)
  <2>1. SameScreen(b, S!reset_seen(b), SageFields) /\ SameScreen(b, S!acknowledged(b), SageFields)
    BY DEF SameScreen, SageFields, S!reset_seen, S!acknowledged
  <2>2. S!read_keyboard_strobe(b).bus
          \in {b, S!reset_seen(b), S!acknowledged(b), S!promote_keyboard(b)}
    BY DEF S!read_keyboard_strobe, S!Got
  <2>. QED
    BY <1>1, <2>1, <2>2 DEF SameScreen
<1>3. SameScreen(b, S!read_keyboard_latch(b).bus, SageFields)
  <2> DEFINE taken == [b EXCEPT !.kbd.valid = FALSE]
  <2>1. SameScreen(b, S!reset_seen(b), SageFields) /\ SameScreen(b, taken, SageFields)
    BY DEF SameScreen, SageFields, S!reset_seen
  <2>2. S!read_keyboard_latch(b).bus
          \in {b, S!reset_seen(b), taken, S!promote_keyboard(taken)}
    BY DEF S!read_keyboard_latch, S!Got
  <2> HIDE DEF taken
  <2>. QED
    BY <1>1, <2>1, <2>2 DEF SameScreen
<1>4. /\ SameScreen(b, S!language_card_soft_switch(b, addr, writing), SageFields)
      /\ SameScreen(b, S!write_card(b, addr, v), SageFields)
  BY DEF SameScreen, SageFields, S!language_card_soft_switch, S!write_card
<1>5. /\ SameScreen(b, [b EXCEPT !.ram_write = v < 128], SageFields)
      /\ SameScreen(b, S!reset_key(b), SageFields)
  BY DEF SameScreen, SageFields, S!reset_key
<1>6. SameScreen(b, S!queue_keyboard(b, v), SageFields)
  <2> DEFINE queued == [b EXCEPT !.kbd.queue = Append(@, v)]
  <2>1. SameScreen(b, queued, SageFields)
    BY DEF SameScreen, SageFields
  <2>2. S!queue_keyboard(b, v) \in {queued, S!promote_keyboard(queued)}
    BY DEF S!queue_keyboard
  <2> HIDE DEF queued
  <2>. QED
    BY <1>1, <2>1, <2>2 DEF SameScreen
<1>. QED
  BY <1>2, <1>3, <1>4, <1>5, <1>6

LEMMA ScreensElsewhere ==
  ASSUME NEW p, NEW s, NEW p2, NEW s2, Screens(p, s),
         SameScreen(p, p2, PortFields), SameScreen(s, s2, SageFields)
  PROVE  Screens(p2, s2)
BY DEF Screens, SameScreen, Counted

(* The speaker and the switches: the port finds the flag of an address in a  *)
(* table of pairs, the reference by its number.                              *)
LEMMA ScreensClick ==
  ASSUME NEW p, NEW s, Screens(p, s)
  PROVE  Screens(toggle_speaker(p), S!toggle_speaker(s))
BY DEF Screens, Counted, PortFields, SageFields, toggle_speaker, S!toggle_speaker

LEMMA ScreensSwitched ==
  ASSUME NEW p, NEW s, Screens(p, s), NEW addr \in VideoSwitches
  PROVE  Screens(video_switch(p, addr), S!apply_video_switch(s, addr))
<1> DEFINE index == addr - \hC050
           port_flag == <<"text", "mixed", "page2", "hires">>[index \div 2 + 1]
           sage_flag == CASE index \in {0, 1} -> "text" [] index \in {2, 3} -> "mixed"
                          [] index \in {4, 5} -> "page2" [] index \in {6, 7} -> "hires"
<1>1. index \in {0, 1, 2, 3, 4, 5, 6, 7} /\ addr = index + \hC050
  BY DEF VideoSwitches
<1>2. port_flag = sage_flag
  <2> HIDE DEF index
  <2> DEFINE pair == index \div 2 + 1
  <2>1. /\ index \in {0, 1} => pair = 1
        /\ index \in {2, 3} => pair = 2
        /\ index \in {4, 5} => pair = 3
        /\ index \in {6, 7} => pair = 4
    OBVIOUS
  <2> HIDE DEF pair
  <2>2. CASE index \in {0, 1}
    BY <2>1, <2>2 DEF pair
  <2>3. CASE index \in {2, 3}
    BY <2>1, <2>3 DEF pair
  <2>4. CASE index \in {4, 5}
    BY <2>1, <2>4 DEF pair
  <2>5. CASE index \in {6, 7}
    BY <2>1, <2>5 DEF pair
  <2>. QED
    BY <1>1, <2>2, <2>3, <2>4, <2>5
<1>3. (addr % 2 = 1) <=> index \in {1, 3, 5, 7}
  <2> HIDE DEF index
  <2>. QED
    BY <1>1
<1> DEFINE on(state) == IF addr % 2 = 1 THEN state \cup {port_flag} ELSE state \ {port_flag}
<1>4. video_switch(p, addr) = [p EXCEPT !.video.state = on(@)]
  BY DEF video_switch
<1>5. S!apply_video_switch(s, addr) = [s EXCEPT !.video.state = on(@)]
  <2>1. S!apply_video_switch(s, addr) =
          [s EXCEPT !.video.state = IF index \in {1, 3, 5, 7} THEN @ \cup {sage_flag}
                                    ELSE @ \ {sage_flag}]
    BY DEF S!apply_video_switch
  <2> HIDE DEF index, port_flag, sage_flag
  <2>. QED
    BY <1>2, <1>3, <2>1
<1> HIDE DEF on
<1>. QED
  BY <1>4, <1>5 DEF Screens, Counted, PortFields, SageFields, PortScreen, SageScreen

LEMMA ScreensSet ==
  ASSUME NEW p, NEW s, Screens(p, s), NEW addr \in VideoSwitches, NEW v
  PROVE  Screens(video_write(p, addr, v), S!write_video_switch(s, addr, v))
<1> DEFINE seen == IF s.kbd.reset THEN [S!reset_seen(s) EXCEPT !.autostart = TRUE] ELSE s
           p1 == video_switch(p, addr)
           s1 == S!apply_video_switch(seen, addr)
           i == addr - \hC050
<1>1. Screens(p, seen)
  <2>1. SameScreen(s, seen, SageFields)
    BY DEF Screens, SameScreen, SageFields, S!reset_seen
  <2>2. SameScreen(p, p, PortFields)
    BY DEF Screens, SameScreen
  <2> HIDE DEF seen
  <2>. QED
    BY <2>1, <2>2, ScreensElsewhere
<1>2. /\ video_write(p, addr, v) =
           [p1 EXCEPT !.video.switches = @ \cup {i}, !.video.values[i] = v]
      /\ S!write_video_switch(s, addr, v) =
           [s1 EXCEPT !.video.switches = @ \cup {i}, !.video.values[i] = v]
  BY DEF video_write, S!write_video_switch
<1> HIDE DEF seen
<1>3. Screens(p1, s1)
  BY <1>1, ScreensSwitched
<1> HIDE DEF p1, s1, i
<1> DEFINE p2 == [p1 EXCEPT !.video.switches = @ \cup {i}, !.video.values[i] = v]
           s2 == [s1 EXCEPT !.video.switches = @ \cup {i}, !.video.values[i] = v]
<1>4. /\ DOMAIN p2 = PortFields /\ DOMAIN p2.video = PortScreen
      /\ p2.video.events = p1.video.events /\ p2.video.last = p1.video.last
      /\ p2.video.state = p1.video.state /\ p2.speaker_on = p1.speaker_on
      /\ p2.video.switches = p1.video.switches \cup {i}
      /\ p2.video.values = [p1.video.values EXCEPT ![i] = v]
  BY <1>3 DEF Screens, PortFields, PortScreen
<1>5. /\ DOMAIN s2 = SageFields /\ DOMAIN s2.video = SageScreen
      /\ s2.video.events = s1.video.events
      /\ s2.video.state = s1.video.state /\ s2.speaker_on = s1.speaker_on
      /\ s2.video.switches = s1.video.switches \cup {i}
      /\ s2.video.values = [s1.video.values EXCEPT ![i] = v]
  BY <1>3 DEF Screens, SageFields, SageScreen
<1> HIDE DEF p2, s2
<1>6. Screens(p2, s2)
  BY <1>3, <1>4, <1>5 DEF Screens, Counted
<1>. QED
  BY <1>2, <1>6 DEF p2, s2

(* A write to video memory is the last event, and counts one up to the       *)
(* counter's end.                                                            *)
LEMMA ScreensRecord ==
  ASSUME NEW p, NEW s, Screens(p, s), NEW addr \in Int, is_video_write(addr), NEW v \in Values
  PROVE  Screens(record_video_write(p, addr, v), S!write_memory(s, addr, v))
<1> DEFINE events == s.video.events
           more == Append(events, <<addr, v>>)
           p2 == record_video_write(p, addr, v)
           s1 == [s EXCEPT !.ram = S!Stored(@, addr, v)]
           s2 == S!write_memory(s, addr, v)
<1>1. events \in Seq(Int \X Values) /\ <<addr, v>> \in Int \X Values
  BY DEF Screens
<1>2. /\ more \in Seq(Int \X Values) /\ Len(more) = Len(events) + 1
      /\ more[Len(more)] = <<addr, v>> /\ more # <<>> /\ Len(events) \in Nat
  BY <1>1
<1>3. EVENT_MAX \in Nat \ {0}
  BY BusApple2Assumption
<1>4. (IF CountOf(events) # EVENT_MAX THEN CountOf(events) + 1 ELSE CountOf(events)) = CountOf(more)
  <2> DEFINE n == Len(events)
  <2>1. n \in Nat /\ Len(more) = n + 1
    BY <1>2
  <2> HIDE DEF n, more
  <2>2. CountOf(events) = (IF n < EVENT_MAX THEN n ELSE EVENT_MAX)
    BY DEF CountOf, n
  <2>3. CountOf(more) = (IF n + 1 < EVENT_MAX THEN n + 1 ELSE EVENT_MAX)
    BY <2>1 DEF CountOf
  <2>. QED
    BY <1>3, <2>1, <2>2, <2>3
<1>5. p2 = [p EXCEPT !.video.events = IF @ # EVENT_MAX THEN @ + 1 ELSE @,
                     !.video.last = <<addr, v>>]
  BY DEF record_video_write
<1>6. s2 = [s1 EXCEPT !.video.events = Append(@, <<addr, v>>)]
  <2> DEFINE shown == addr \in \h0400..\h0BFF \/ addr \in \h2000..\h5FFF
             event == [s1 EXCEPT !.video.events = Append(@, <<addr, v>>)]
  <2>1. S!record_event(s1, addr, v) = IF shown THEN event ELSE s1
    BY SMTT(30) DEF S!record_event
  <2>2. shown
    BY SMTT(30) DEF is_video_write
  <2> HIDE DEF shown, event
  <2>3. s2 = S!record_event(s1, addr, v)
    <3>1. addr >= \h0400
      BY SMTT(30) DEF is_video_write
    <3>2. addr \notin \h0200..\h03FF
      BY <3>1
    <3>. QED
      BY <3>2 DEF S!write_memory
  <2>4. s2 = event
    BY <2>1, <2>2, <2>3
  <2>. QED
    BY <2>4 DEF event
<1>7. SameScreen(s, s1, SageFields)
  BY DEF Screens, SameScreen, SageFields
<1>8. /\ DOMAIN s2 = SageFields /\ DOMAIN s2.video = SageScreen /\ s2.video.events = more
      /\ s2.video.state = s.video.state /\ s2.video.switches = s.video.switches
      /\ s2.video.values = s.video.values /\ s2.speaker_on = s.speaker_on
  <2> HIDE DEF s1, s2
  <2>. QED
    BY <1>6, <1>7 DEF Screens, SameScreen, SageFields, SageScreen
<1>9. /\ DOMAIN p2 = PortFields /\ DOMAIN p2.video = PortScreen
      /\ p2.video.events = CountOf(more) /\ p2.video.last = <<addr, v>>
      /\ p2.video.state = p.video.state /\ p2.video.switches = p.video.switches
      /\ p2.video.values = p.video.values /\ p2.speaker_on = p.speaker_on
  <2>1. p.video.events = CountOf(events)
    BY DEF Screens, Counted
  <2> HIDE DEF p2, more, events
  <2>. QED
    BY <1>4, <1>5, <2>1 DEF Screens, PortFields, PortScreen
<1> HIDE DEF p2, s2, more, events
<1>10. Counted(p2, s2.video.events) /\ s2.video.events \in Seq(Int \X Values)
  BY <1>2, <1>8, <1>9 DEF Counted
<1>11. Screens(p2, s2)
  BY <1>8, <1>9, <1>10 DEF Screens
<1>. QED
  BY <1>11 DEF p2, s2

(* A write to other memory is no event of the reference. *)
LEMMA SageMemoryOnly ==
  ASSUME NEW s, DOMAIN s = SageFields, NEW addr \in Int, ~is_video_write(addr), NEW v
  PROVE  SameScreen(s, S!write_memory(s, addr, v), SageFields)
<1> DEFINE s1 == [s EXCEPT !.ram = S!Stored(@, addr, v)]
<1>1. S!write_memory(s, addr, v) \in {s, s1}
  BY DEF S!write_memory, S!record_event, is_video_write
<1>2. SameScreen(s, s1, SageFields) /\ SameScreen(s, s, SageFields)
  BY DEF SameScreen, SageFields
<1>. QED
  BY <1>1, <1>2

-----------------------------------------------------------------------------
(* Any access keeps the two screens together: address by address. *)

LEMMA ScreensRead ==
  ASSUME NEW p, NEW s, Screens(p, s), NEW addr \in Int
  PROVE  Screens(bus_read(p, addr).bus, S!read8(s, addr).bus)
<1> DEFINE ported == bus_read(p, addr)
           read == S!read8(s, addr)
           p2 == ported.bus
           s2 == read.bus
<1>1. DOMAIN p = PortFields /\ DOMAIN s = SageFields
  BY DEF Screens
<1>2. \A v, c : Got(v, c).bus = c /\ S!Got(v, c).bus = c
  BY DEF Got, S!Got
<1>0. PortReadArms(p, addr, ported) /\ SageReadArms(s, addr, read)
  BY PortReadAt, SageReadAt
<1> SUFFICES Screens(p2, s2)
  OBVIOUS
<1> HIDE DEF ported, read
<1>3. SameScreen(p, p, PortFields) /\ SameScreen(s, s, SageFields)
  BY <1>1 DEF SameScreen
<1>4. CASE addr = \hC030
  <2>1. p2 = toggle_speaker(p) /\ s2 = S!toggle_speaker(s)
    BY <1>0, <1>2, <1>4 DEF PortReadArms, SageReadArms
  <2>. QED
    BY <2>1, ScreensClick
<1>5. CASE addr \in VideoSwitches
  <2>1. p2 = video_switch(p, addr)
    BY <1>0, <1>2, <1>5 DEF PortReadArms
  <2>2. s2 = S!apply_video_switch(s, addr)
    BY <1>0, <1>2, <1>5 DEF SageReadArms
  <2>. QED
    BY <1>5, <2>1, <2>2, ScreensSwitched
<1>6. CASE addr # \hC030 /\ addr \notin VideoSwitches
  <2>1. SameScreen(p, p2, PortFields)
    <3>1. CASE addr = \hC000
      <4>1. p2 = keyboard_read_latch(p).bus
        BY <1>0, <3>1 DEF PortReadArms
      <4>. QED
        BY <1>1, <4>1, PortScreenKept
    <3>2. CASE addr = \hC010
      <4>1. p2 = keyboard_read_strobe(p).bus
        BY <1>0, <3>2 DEF PortReadArms
      <4>. QED
        BY <1>1, <4>1, PortScreenKept
    <3>3. CASE addr = \hC081
      <4>1. p2 = p \/ p2 = uart_rx(p).bus
        BY <1>0, <1>2, <3>3 DEF PortReadArms, uart_data
      <4>2. SameScreen(p, uart_rx(p).bus, PortFields)
        BY <1>1 DEF SameScreen, PortFields, uart_rx, Got
      <4>. QED
        BY <1>3, <4>1, <4>2
    <3>4. CASE addr \in CardSwitches
      <4>1. ported = Got(0, language_card_switch(p, addr, FALSE))
        BY <1>0, <3>4 DEF PortReadArms
      <4>2. p2 = language_card_switch(p, addr, FALSE)
        BY <4>1 DEF Got
      <4>. QED
        BY <1>1, <4>2, PortScreenKept
    <3>5. CASE addr < \h0400
      BY <1>0, <1>2, <1>3, <3>5 DEF PortReadArms
    <3>6. CASE addr >= \hD000
      BY <1>0, <1>2, <1>3, <3>6 DEF PortReadArms
    <3>7. CASE addr >= \h0400 /\ addr < \hD000 /\ ~PortRegister(addr)
      BY <1>0, <1>2, <1>3, <3>7 DEF PortReadArms
    <3>. QED
      BY <1>6, <3>1, <3>2, <3>3, <3>4, <3>5, <3>6, <3>7 DEF PortRegister
  <2>2. SameScreen(s, s2, SageFields)
    <3>1. CASE addr = \hC000
      <4>1. s2 = S!read_keyboard_latch(s).bus
        BY <1>0, <3>1 DEF SageReadArms
      <4>. QED
        BY <1>1, <4>1, SageScreenKept
    <3>2. CASE addr = \hC010
      <4>1. s2 = S!read_keyboard_strobe(s).bus
        BY <1>0, <3>2 DEF SageReadArms
      <4>. QED
        BY <1>1, <4>1, SageScreenKept
    <3>3. CASE addr = \hC0EB
      BY <1>0, <1>2, <1>3, <3>3 DEF SageReadArms
    <3>4. CASE addr \in CardSwitches
      <4>1. read = S!Got(0, S!language_card_soft_switch(s, addr, FALSE))
        BY <1>0, <3>4 DEF SageReadArms
      <4>2. s2 = S!language_card_soft_switch(s, addr, FALSE)
        BY <4>1 DEF S!Got
      <4>. QED
        BY <1>1, <4>2, SageScreenKept
    <3>5. CASE addr < \hC000
      BY <1>0, <1>2, <1>3, <3>5 DEF SageReadArms
    <3>6. CASE addr >= \hD000
      BY <1>0, <1>2, <1>3, <3>6 DEF SageReadArms
    <3>7. CASE InDevices(addr) /\ ~SageRegister(addr)
      BY <1>0, <1>2, <1>3, <3>7 DEF SageReadArms
    <3>. QED
      BY <1>6, <3>1, <3>2, <3>3, <3>4, <3>5, <3>6, <3>7 DEF SageRegister, InDevices
  <2>. QED
    BY <2>1, <2>2, ScreensElsewhere
<1>. QED
  BY <1>4, <1>5, <1>6

LEMMA ScreensWrite ==
  ASSUME NEW p, NEW s, Screens(p, s), NEW addr \in Int, NEW v \in Values
  PROVE  Screens(bus_write(p, addr, v), S!write8(s, addr, v))
<1> DEFINE p2 == bus_write(p, addr, v)
           s2 == S!write8(s, addr, v)
<1>1. DOMAIN p = PortFields /\ DOMAIN s = SageFields
  BY DEF Screens
<1>0. PortWriteArms(p, addr, v, p2) /\ SageWriteArms(s, addr, v, s2)
  BY PortWriteAt, SageWriteAt
<1> SUFFICES Screens(p2, s2)
  OBVIOUS
<1> HIDE DEF p2, s2
<1>2. SameScreen(p, p, PortFields) /\ SameScreen(s, s, SageFields)
  BY <1>1 DEF SameScreen
<1>3. is_video_write(addr) => addr >= \h0400 /\ addr < \hC000
  BY DEF is_video_write
<1>4. CASE addr = \hC030
  BY <1>0, <1>4, ScreensClick DEF PortWriteArms, SageWriteArms
<1>5. CASE addr \in VideoSwitches
  <2>1. p2 = video_write(p, addr, v)
    BY <1>0, <1>5 DEF PortWriteArms
  <2>2. s2 = S!write_video_switch(s, addr, v)
    BY <1>0, <1>5 DEF SageWriteArms
  <2>. QED
    BY <1>5, <2>1, <2>2, ScreensSet
<1>6. CASE is_video_write(addr)
  <2>1. p2 = record_video_write(p, addr, v)
    BY <1>0, <1>6 DEF PortWriteArms
  <2>2. s2 = S!write_memory(s, addr, v)
    BY <1>0, <1>3, <1>6 DEF SageWriteArms
  <2>. QED
    BY <1>6, <2>1, <2>2, ScreensRecord
<1>7. CASE addr # \hC030 /\ addr \notin VideoSwitches /\ ~is_video_write(addr)
  <2>1. SameScreen(p, p2, PortFields)
    <3>1. CASE addr = \hC010
      <4>1. p2 = keyboard_read_strobe(p).bus
        BY <1>0, <3>1 DEF PortWriteArms
      <4>. QED
        BY <1>1, <4>1, PortScreenKept
    <3>2. CASE addr = \hC080
      <4>1. p2 = uart_tx(p, v)
        BY <1>0, <3>2 DEF PortWriteArms
      <4>. QED
        BY <1>1, <4>1, PortScreenKept
    <3>3. CASE addr \in CardSwitches
      <4>1. p2 = language_card_switch(p, addr, TRUE)
        BY <1>0, <3>3 DEF PortWriteArms
      <4>. QED
        BY <1>1, <4>1, PortScreenKept
    <3>4. CASE addr < \h0400
      <4>1. p2 = [p EXCEPT !.ram = Stored(@, addr, v)]
        BY <1>0, <3>4 DEF PortWriteArms
      <4>. QED
        BY <1>1, <4>1, PortScreenKept
    <3>5. CASE addr >= \hD000
      <4>1. p2 = write_high(p, addr, v)
        BY <1>0, <3>5 DEF PortWriteArms
      <4>. QED
        BY <1>1, <4>1, PortScreenKept
    <3>6. CASE addr >= \h0400 /\ addr < \hD000 /\ ~PortStore(addr)
      BY <1>0, <1>2, <1>7, <3>6 DEF PortWriteArms
    <3>. QED
      BY <1>7, <3>1, <3>2, <3>3, <3>4, <3>5, <3>6 DEF PortStore
  <2>2. SameScreen(s, s2, SageFields)
    <3>1. CASE addr = \hC010
      <4>1. s2 = S!read_keyboard_strobe(s).bus
        BY <1>0, <3>1 DEF SageWriteArms
      <4>. QED
        BY <1>1, <4>1, SageScreenKept
    <3>2. CASE addr = \hC0EB
      <4>1. s2 = [s EXCEPT !.ram_write = v < 128]
        BY <1>0, <3>2 DEF SageWriteArms
      <4>. QED
        BY <1>1, <4>1, SageScreenKept
    <3>3. CASE addr \in CardSwitches
      <4>1. s2 = S!language_card_soft_switch(s, addr, TRUE)
        BY <1>0, <3>3 DEF SageWriteArms
      <4>. QED
        BY <1>1, <4>1, SageScreenKept
    <3>4. CASE addr < \hC000
      <4>1. s2 = S!write_memory(s, addr, v)
        BY <1>0, <3>4 DEF SageWriteArms
      <4>. QED
        BY <1>1, <1>7, <4>1, SageMemoryOnly
    <3>5. CASE addr >= \hD000
      <4>1. s2 = S!write_card(s, addr, v)
        BY <1>0, <3>5 DEF SageWriteArms
      <4>. QED
        BY <1>1, <4>1, SageScreenKept
    <3>6. CASE InDevices(addr) /\ ~SageStore(addr)
      BY <1>0, <1>2, <3>6 DEF SageWriteArms
    <3>. QED
      BY <1>7, <3>1, <3>2, <3>3, <3>4, <3>5, <3>6 DEF SageStore, InDevices
  <2>. QED
    BY <2>1, <2>2, ScreensElsewhere
<1>. QED
  BY <1>4, <1>5, <1>6, <1>7

-----------------------------------------------------------------------------
SInv == program \in Programs /\ Screens(port, sage)

LEMMA ScreensInit == Init => SInv
<1> SUFFICES ASSUME Init PROVE SInv
  OBVIOUS
<1>1. /\ DOMAIN port = PortFields /\ DOMAIN port.video = PortScreen
      /\ port.video = [state |-> {"text"}, switches |-> {}, values |-> [i \in 0..7 |-> 0],
                       events |-> 0, last |-> <<0, 0>>]
      /\ port.speaker_on = FALSE
  BY DEF Init, bus_reset, PortFields, PortScreen
<1>2. /\ DOMAIN sage = SageFields /\ DOMAIN sage.video = SageScreen
      /\ sage.video = [state |-> {"text"}, switches |-> {}, values |-> [i \in 0..7 |-> 0],
                       events |-> <<>>]
      /\ sage.speaker_on = FALSE
  BY DEF Init, S!PowerOn, SageFields, SageScreen
<1>3. Counted(port, sage.video.events) /\ sage.video.events \in Seq(Int \X Values)
  <2>1. sage.video.events = <<>> /\ Len(<<>>) = 0
    BY <1>2
  <2>2. port.video.events = 0
    BY <1>1
  <2>3. CountOf(<<>>) = 0
    BY <2>1, BusApple2Assumption DEF CountOf
  <2>. QED
    BY <2>1, <2>2, <2>3 DEF Counted
<1>4. /\ port.video.state = sage.video.state /\ port.video.switches = sage.video.switches
      /\ port.video.values = sage.video.values
  BY <1>1, <1>2
<1>5. port.speaker_on = sage.speaker_on
  BY <1>1, <1>2, Zenon
<1>. QED
  BY <1>1, <1>2, <1>3, <1>4, <1>5 DEF SInv, Screens, Init

LEMMA ScreensStep == SInv /\ [Next]_vars => SInv'
<1> SUFFICES ASSUME SInv, [Next]_vars PROVE SInv'
  OBVIOUS
<1>1. /\ program \in Programs /\ Screens(port, sage) /\ program \subseteq Int
      /\ DOMAIN port = PortFields /\ DOMAIN sage = SageFields
  BY AddressesAreNumbers DEF SInv, Screens
<1>2. ASSUME NEW p, NEW s, Screens(p, s), port' = p, sage' = s, program' = program
      PROVE  SInv'
  BY <1>1, <1>2 DEF SInv, Screens, Counted
<1>3. ASSUME NEW addr \in program, Read(addr)
      PROVE  SInv'
  <2> DEFINE p == bus_read(port, addr).bus
             s == S!read8(sage, addr).bus
  <2>1. port' = p /\ sage' = s /\ program' = program
    BY <1>3 DEF Read
  <2>2. Screens(p, s)
    BY <1>1, ScreensRead
  <2> HIDE DEF p, s
  <2>. QED
    BY <1>2, <2>1, <2>2
<1>4. ASSUME NEW addr \in program, NEW v \in Values, Write(addr, v)
      PROVE  SInv'
  <2> DEFINE p == bus_write(port, addr, v)
             s == S!write8(sage, addr, v)
  <2>1. port' = p /\ sage' = s /\ program' = program
    BY <1>4 DEF Write
  <2>2. Screens(p, s)
    BY <1>1, ScreensWrite
  <2> HIDE DEF p, s
  <2>. QED
    BY <1>2, <2>1, <2>2
<1>5. ASSUME NEW key \in Keys, Type(key)
      PROVE  SInv'
  <2> DEFINE p == host_uart_feed(port, key)
             s == S!queue_keyboard(sage, S!encode_keyboard_char(key))
  <2>1. port' = p /\ sage' = s /\ program' = program
    BY <1>5 DEF Type
  <2>2. SameScreen(port, p, PortFields) /\ SameScreen(sage, s, SageFields)
    BY <1>1, PortScreenKept, SageScreenKept
  <2> HIDE DEF p, s
  <2>. QED
    BY <1>1, <1>2, <2>1, <2>2, ScreensElsewhere
<1>6. CASE PressReset
  <2> DEFINE s == S!reset_key(sage)
  <2>1. port' = port /\ sage' = s /\ program' = program
    BY <1>6 DEF PressReset
  <2>2. SameScreen(port, port, PortFields) /\ SameScreen(sage, s, SageFields)
    BY <1>1, SageScreenKept DEF SameScreen
  <2> HIDE DEF s
  <2>. QED
    BY <1>1, <1>2, <2>1, <2>2, ScreensElsewhere
<1>7. CASE UNCHANGED vars
  BY <1>1, <1>2, <1>7 DEF vars
<1>. QED
  BY <1>3, <1>4, <1>5, <1>6, <1>7 DEF Next

LEMMA ScreensInvariant == Spec => []SInv
BY ScreensInit, ScreensStep, PTL DEF Spec

(* Whatever a guest reads and writes, and wherever, the port knows of the    *)
(* reference's log of video writes its last entry and its length as far as   *)
(* the counter goes (record_video_write of avr/bus_apple2.c), and has its    *)
(* video switches, the values stored in them and the speaker.                *)
THEOREM VideoStaysAgreed == Spec => []VideoAgree
<1>1. SInv => VideoAgree
  BY DEF SInv, Screens, Counted, CountOf, VideoAgree
<1>. QED
  BY <1>1, ScreensInvariant, PTL

-----------------------------------------------------------------------------
(* The keyboards.  n is the number of keys taken from a bus, t the keys      *)
(* typed: those from n + 1 on wait in the latch, the queue or the ring.      *)
SageKbd == [reset : BOOLEAN, queue : Seq(Int), latch : Int, strobe : BOOLEAN, valid : BOOLEAN]
PortKbd == [latch : Int, strobe : {FALSE}, valid : BOOLEAN]
latched(k) == IF k.strobe THEN 1 ELSE 0

(* The keys of t that are not taken wait in order behind the latch; a key    *)
(* that was taken stays in the latch until it is read.                       *)
SageWaits(k, n, t) ==
  /\ k \in SageKbd /\ t \in Seq(Int) /\ n \in 0..Len(t)
  /\ n + latched(k) + Len(k.queue) = Len(t)
  /\ k.strobe => k.valid /\ Byte7(k.latch) = t[n + 1]
  /\ \A i \in 1..Len(k.queue) : Byte7(k.queue[i]) = t[n + latched(k) + i]
  /\ k.valid /\ ~k.strobe => n > 0 /\ k.latch = t[n]
SageHolds(k, n, t) == SageWaits(k, n, t) /\ (k.queue # <<>> => k.valid)

PortHolds(k, rx, n, t) ==
  /\ k \in PortKbd /\ rx \in Seq(0..127) /\ t \in Seq(Int) /\ n \in 0..Len(t)
  /\ n + Len(rx) = Len(t)
  /\ \A i \in 1..Len(rx) : Byte7(apple_key_from_uart(rx[i])) = t[n + i]
  /\ k.valid => n > 0 /\ k.latch = t[n]

LEMMA Byte7Type == ASSUME NEW v \in Int PROVE Byte7(v) \in Int /\ S!Byte7(v) = Byte7(v)
BY DEF Byte7, S!Byte7

(* The reading of $C010 takes the key in the latch. *)
LEMMA AckHolds ==
  ASSUME NEW k, NEW n, NEW t, SageHolds(k, n, t), k.strobe,
         NEW l, l = [k EXCEPT !.strobe = FALSE, !.latch = S!Byte7(@)]
  PROVE  SageHolds(l, n + 1, t)
<1>1. /\ k \in SageKbd /\ t \in Seq(Int) /\ n \in 0..Len(t) /\ latched(k) = 1
      /\ n + 1 + Len(k.queue) = Len(t) /\ Byte7(k.latch) = t[n + 1] /\ k.valid
      /\ \A i \in 1..Len(k.queue) : Byte7(k.queue[i]) = t[n + 1 + i]
  BY DEF SageHolds, SageWaits, latched
<1>2. /\ k.latch \in Int /\ Byte7(k.latch) \in Int /\ S!Byte7(k.latch) = Byte7(k.latch)
      /\ k.queue \in Seq(Int) /\ Len(k.queue) \in Nat /\ Len(t) \in Nat
  BY <1>1, Byte7Type DEF SageKbd
<1>3. /\ l.queue = k.queue /\ l.latch = Byte7(k.latch) /\ l.valid = k.valid
      /\ ~l.strobe /\ l.reset = k.reset
  BY <1>1, <1>2 DEF SageKbd
<1>4. l \in SageKbd /\ latched(l) = 0
  BY <1>1, <1>2, <1>3 DEF SageKbd, latched
<1>5. n + 1 \in 0..Len(t) /\ n + 1 > 0 /\ (n + 1) + 0 + Len(k.queue) = Len(t)
  BY <1>1, <1>2
<1>6. \A i \in 1..Len(l.queue) : Byte7(l.queue[i]) = t[(n + 1) + latched(l) + i]
  <2> SUFFICES ASSUME NEW i \in 1..Len(l.queue)
               PROVE  Byte7(l.queue[i]) = t[(n + 1) + latched(l) + i]
    OBVIOUS
  <2>1. (n + 1) + latched(l) + i = n + 1 + i
    BY <1>1, <1>2, <1>3, <1>4
  <2>. QED
    BY <1>1, <1>3, <2>1
<1>. QED
  BY SMTT(30), <1>1, <1>3, <1>4, <1>5, <1>6 DEF SageHolds, SageWaits

(* The first key of the queue moves into an empty latch. *)
LEMMA PromoteHolds ==
  ASSUME NEW k, NEW n, NEW t, SageWaits(k, n, t), ~k.strobe, k.queue # <<>>,
         NEW l, l = [k EXCEPT !.latch = Head(k.queue), !.queue = Tail(@),
                              !.strobe = TRUE, !.valid = TRUE]
  PROVE  SageHolds(l, n, t)
<1>1. /\ k \in SageKbd /\ t \in Seq(Int) /\ n \in 0..Len(t) /\ latched(k) = 0
      /\ n + 0 + Len(k.queue) = Len(t)
      /\ \A i \in 1..Len(k.queue) : Byte7(k.queue[i]) = t[n + 0 + i]
  BY DEF SageWaits, latched
<1>2. k.queue \in Seq(Int) /\ Len(k.queue) \in Nat /\ Len(t) \in Nat
  BY <1>1 DEF SageKbd
<1>3. /\ Tail(k.queue) \in Seq(Int) /\ Head(k.queue) = k.queue[1] /\ Head(k.queue) \in Int
      /\ Len(k.queue) >= 1 /\ Len(Tail(k.queue)) = Len(k.queue) - 1
      /\ \A i \in 1..Len(Tail(k.queue)) : Tail(k.queue)[i] = k.queue[i + 1]
  BY <1>2
<1>4. /\ l.queue = Tail(k.queue) /\ l.latch = Head(k.queue) /\ l.valid /\ l.strobe
      /\ l.reset = k.reset
  BY <1>1 DEF SageKbd
<1>5. l \in SageKbd /\ latched(l) = 1
  BY <1>1, <1>3, <1>4 DEF SageKbd, latched
<1>6. n + latched(l) + Len(l.queue) = Len(t)
  BY <1>1, <1>2, <1>3, <1>4, <1>5
<1>7. Byte7(l.latch) = t[n + 1]
  BY <1>1, <1>2, <1>3, <1>4
<1>8. \A i \in 1..Len(l.queue) : Byte7(l.queue[i]) = t[n + latched(l) + i]
  <2> SUFFICES ASSUME NEW i \in 1..Len(l.queue)
               PROVE  Byte7(l.queue[i]) = t[n + latched(l) + i]
    OBVIOUS
  <2>1. i + 1 \in 1..Len(k.queue) /\ l.queue[i] = k.queue[i + 1]
    BY <1>2, <1>3, <1>4
  <2>2. n + latched(l) + i = n + 0 + (i + 1)
    <3>1. n \in Int /\ i \in Int
      BY <1>1, <1>2
    <3>. QED
      BY <1>5, <3>1
  <2>. QED
    BY <1>1, <2>1, <2>2
<1>. QED
  BY <1>1, <1>4, <1>5, <1>6, <1>7, <1>8 DEF SageHolds, SageWaits

(* Reading $C000 frees the latch of a key that was taken. *)
LEMMA TakenWaits ==
  ASSUME NEW k, NEW n, NEW t, SageHolds(k, n, t), ~k.strobe,
         NEW l, l = [k EXCEPT !.valid = FALSE]
  PROVE  /\ SageWaits(l, n, t) /\ ~l.strobe
         /\ l.queue = k.queue
         /\ l.queue = <<>> => SageHolds(l, n, t)
<1>1. k \in SageKbd /\ SageWaits(k, n, t)
  BY DEF SageHolds, SageWaits
<1>2. /\ l.queue = k.queue /\ l.latch = k.latch /\ ~l.valid /\ l.strobe = k.strobe
      /\ l.reset = k.reset /\ l \in SageKbd
  BY <1>1 DEF SageKbd
<1>3. latched(l) = latched(k)
  BY <1>2 DEF latched
<1>4. SageWaits(l, n, t)
  BY <1>1, <1>2, <1>3 DEF SageWaits
<1>. QED
  BY <1>2, <1>4 DEF SageHolds

(* A key typed goes to the end of the queue. *)
QueuedBehind(k, l, n, t) ==
  /\ SageWaits(l, n, t)
  /\ l.strobe = k.strobe /\ l.valid = k.valid /\ l.queue # <<>>

LEMMA QueuedWaits ==
  ASSUME NEW k, NEW n, NEW t, SageHolds(k, n, t), NEW v \in Int,
         NEW l, l = [k EXCEPT !.queue = Append(@, v)]
  PROVE  QueuedBehind(k, l, n, Append(t, Byte7(v)))
<1> DEFINE t2 == Append(t, Byte7(v))
<1>1. /\ k \in SageKbd /\ t \in Seq(Int) /\ n \in 0..Len(t)
      /\ n + latched(k) + Len(k.queue) = Len(t)
      /\ k.strobe => k.valid /\ Byte7(k.latch) = t[n + 1]
      /\ \A i \in 1..Len(k.queue) : Byte7(k.queue[i]) = t[n + latched(k) + i]
      /\ k.valid /\ ~k.strobe => n > 0 /\ k.latch = t[n]
  BY DEF SageHolds, SageWaits
<1>2. /\ k.queue \in Seq(Int) /\ Len(k.queue) \in Nat /\ Len(t) \in Nat
      /\ latched(k) \in {0, 1} /\ Byte7(v) \in Int
  BY <1>1, Byte7Type DEF SageKbd, latched
<1>3. /\ Append(k.queue, v) \in Seq(Int) /\ Len(Append(k.queue, v)) = Len(k.queue) + 1
      /\ \A i \in 1..Len(k.queue) : Append(k.queue, v)[i] = k.queue[i]
      /\ Append(k.queue, v)[Len(k.queue) + 1] = v
      /\ Append(k.queue, v) # <<>>
  BY <1>2
<1>4. /\ t2 \in Seq(Int) /\ Len(t2) = Len(t) + 1
      /\ \A i \in 1..Len(t) : t2[i] = t[i]
      /\ t2[Len(t) + 1] = Byte7(v)
  BY <1>1, <1>2
<1>5. /\ l.queue = Append(k.queue, v) /\ l.latch = k.latch /\ l.valid = k.valid
      /\ l.strobe = k.strobe /\ l.reset = k.reset /\ l \in SageKbd
  BY <1>1, <1>3 DEF SageKbd
<1>6. latched(l) = latched(k)
  BY <1>5 DEF latched
<1> HIDE DEF t2
<1> DEFINE ahead == latched(l)
           long == Len(k.queue)
           end == Len(t)
<1>0. /\ ahead \in {0, 1} /\ long \in Nat /\ end \in Nat /\ n \in 0..end
      /\ n + ahead + long = end
      /\ Len(l.queue) = long + 1 /\ Len(t2) = end + 1
  BY <1>1, <1>2, <1>3, <1>4, <1>5, <1>6
<1>7. n + ahead + (long + 1) = end + 1 /\ n \in 0..(end + 1)
  <2>1. /\ ahead \in Int /\ long \in Int /\ end \in Int /\ n \in 0..end
        /\ n + ahead + long = end
    BY <1>0
  <2> HIDE DEF ahead, long, end
  <2>. QED
    BY <2>1
<1>8. k.strobe => t2[n + 1] = t[n + 1]
  <2> SUFFICES ASSUME k.strobe PROVE t2[n + 1] = t[n + 1]
    OBVIOUS
  <2>1. n + 1 \in 1..Len(t)
    BY <1>1, <1>2 DEF latched
  <2>. QED
    BY <1>4, <2>1
<1>9. k.valid /\ ~k.strobe => n > 0 /\ k.latch = t2[n]
  BY <1>1, <1>2, <1>4
<1>10. \A i \in 1..Len(l.queue) : Byte7(l.queue[i]) = t2[n + latched(l) + i]
  <2> SUFFICES ASSUME NEW i \in 1..Len(l.queue)
               PROVE  Byte7(l.queue[i]) = t2[n + latched(l) + i]
    OBVIOUS
  <2>1. CASE i \in 1..Len(k.queue)
    <3>1. n + ahead + i \in 1..end
      <4> HIDE DEF ahead, end
      <4>1. i \in 1..long
        BY <2>1
      <4> HIDE DEF long
      <4>. QED
        BY <1>0, <4>1
    <3>. QED
      BY <1>1, <1>3, <1>4, <1>5, <1>6, <2>1, <3>1
  <2>2. CASE i = Len(k.queue) + 1
    <3>1. n + ahead + i = end + 1
      <4> HIDE DEF ahead, end
      <4>1. i = long + 1
        BY <2>2
      <4> HIDE DEF long
      <4>. QED
        BY <1>7, <4>1
    <3>. QED
      BY <1>3, <1>4, <1>5, <2>2, <3>1
  <2>. QED
    BY <1>2, <1>3, <1>5, <2>1, <2>2
<1>11. SageWaits(l, n, t2)
  BY <1>0, <1>1, <1>4, <1>5, <1>7, <1>8, <1>9, <1>10 DEF SageWaits
<1>. QED
  BY <1>3, <1>5, <1>11 DEF t2, QueuedBehind

(* The first access after RESET clears its flag and nothing else. *)
LEMMA ResetSeenHolds ==
  ASSUME NEW k, NEW n, NEW t, SageHolds(k, n, t), NEW l, l = [k EXCEPT !.reset = FALSE]
  PROVE  SageHolds(l, n, t) /\ SageHolds(l, n + 0, t)
<1>1. k \in SageKbd /\ n + 0 = n
  BY DEF SageHolds, SageWaits
<1>2. /\ l.queue = k.queue /\ l.latch = k.latch /\ l.valid = k.valid /\ l.strobe = k.strobe
      /\ l \in SageKbd
  BY <1>1 DEF SageKbd
<1>3. latched(l) = latched(k)
  BY <1>2 DEF latched
<1>. QED
  BY <1>1, <1>2, <1>3 DEF SageHolds, SageWaits

LEMMA SeenKbd ==
  ASSUME NEW b, DOMAIN b = SageFields, NEW n, NEW t, SageHolds(b.kbd, n, t)
  PROVE  /\ SageHolds(S!reset_seen(b).kbd, n, t)
         /\ SageHolds(S!reset_seen(b).kbd, n + 0, t)
<1> DEFINE l == [b.kbd EXCEPT !.reset = FALSE]
<1>1. S!reset_seen(b) = [b EXCEPT !.kbd = l]
  BY DEF S!reset_seen
<1>2. SageHolds(l, n, t) /\ SageHolds(l, n + 0, t)
  BY ResetSeenHolds
<1> HIDE DEF l
<1>. QED
  BY <1>1, <1>2 DEF SageFields

LEMMA PromotedIs ==
  ASSUME NEW b, DOMAIN b = SageFields
  PROVE  S!promote_keyboard(b).kbd =
           [b.kbd EXCEPT !.latch = Head(b.kbd.queue), !.queue = Tail(@),
                         !.strobe = TRUE, !.valid = TRUE]
<1> DEFINE l == [b.kbd EXCEPT !.latch = Head(b.kbd.queue), !.queue = Tail(@),
                               !.strobe = TRUE, !.valid = TRUE]
           c == S!promote_keyboard(b)
<1> DEFINE b1 == [b EXCEPT !.kbd.latch = Head(b.kbd.queue)]
           b2 == [b1 EXCEPT !.kbd.queue = Tail(@)]
           b3 == [b2 EXCEPT !.kbd.strobe = TRUE]
           b4 == [b3 EXCEPT !.kbd.valid = TRUE]
           l1 == [b.kbd EXCEPT !.latch = Head(b.kbd.queue)]
           l2 == [l1 EXCEPT !.queue = Tail(@)]
           l3 == [l2 EXCEPT !.strobe = TRUE]
           l4 == [l3 EXCEPT !.valid = TRUE]
<1>1. c = b4 /\ l = l4
  BY DEF S!promote_keyboard
<1>2. b1.kbd = l1 /\ DOMAIN b1 = SageFields
  BY DEF SageFields
<1> HIDE DEF l1, b1
<1>3. b2.kbd = l2 /\ DOMAIN b2 = SageFields
  BY <1>2 DEF SageFields
<1> HIDE DEF l2, b2
<1>4. b3.kbd = l3 /\ DOMAIN b3 = SageFields
  BY <1>3 DEF SageFields
<1> HIDE DEF l3, b3
<1>5. b4.kbd = l4
  BY <1>4 DEF SageFields
<1> HIDE DEF l4, b4
<1>. QED
  BY <1>1, <1>5

LEMMA PromotedKbd ==
  ASSUME NEW b, DOMAIN b = SageFields, NEW n, NEW t, SageWaits(b.kbd, n, t),
         ~b.kbd.strobe, b.kbd.queue # <<>>,
         NEW c, c = S!promote_keyboard(b)
  PROVE  SageHolds(c.kbd, n, t)
<1> DEFINE l == [b.kbd EXCEPT !.latch = Head(b.kbd.queue), !.queue = Tail(@),
                               !.strobe = TRUE, !.valid = TRUE]
<1>1. b.kbd \in SageKbd
  BY DEF SageWaits
<1>2. c.kbd = l
  BY PromotedIs
<1>3. SageHolds(l, n, t)
  BY PromoteHolds
<1>. QED
  BY <1>2, <1>3


(* The same key code comes out of the UART and of the reference. *)
LEMMA SameCode ==
  ASSUME NEW v \in 0..127
  PROVE  /\ apple_key_from_uart(v) \in Int
         /\ S!encode_keyboard_char(v) = apple_key_from_uart(v)
<1> DEFINE upper == IF v \in 97..122 THEN v - 32 ELSE v
<1>1. upper \in 0..127
  OBVIOUS
<1>2. /\ apple_key_from_uart(v) =
           (CASE upper \in {10, 13} -> 141
              [] upper \notin {10, 13} /\ upper < 128 -> upper + 128
              [] OTHER -> upper)
      /\ S!encode_keyboard_char(v) =
           (IF upper \in {10, 13} THEN 141 ELSE IF upper < 128 THEN upper + 128 ELSE upper)
  BY DEF apple_key_from_uart, S!encode_keyboard_char
<1> HIDE DEF upper
<1>3. CASE upper \in {10, 13}
  BY <1>1, <1>2, <1>3
<1>4. CASE upper \notin {10, 13}
  BY <1>1, <1>2, <1>4
<1>. QED
  BY <1>3, <1>4

(* What a read of addr that returns v takes of the keys *)
one(addr, v) == IF addr = \hC010 /\ v >= 128 THEN 1 ELSE 0

-----------------------------------------------------------------------------
(* The keyboard of the reference, register by register *)
LEMMA SageStrobe ==
  ASSUME NEW b, DOMAIN b = SageFields, NEW n, NEW t, SageHolds(b.kbd, n, t),
         NEW r, r = S!read_keyboard_strobe(b)
  PROVE  SageHolds(r.bus.kbd, n + one(\hC010, r.v), t)
<1>1. /\ b.kbd \in SageKbd /\ n \in Int /\ (b.kbd.queue # <<>> => b.kbd.valid)
  BY DEF SageHolds, SageWaits
<1>2. CASE b.kbd.reset
  <2>1. r = S!Got(0, S!reset_seen(b))
    BY <1>2 DEF S!read_keyboard_strobe
  <2>2. r.v = 0 /\ r.bus = S!reset_seen(b)
    BY <2>1 DEF S!Got
  <2>. QED
    BY <1>1, <2>2, SeenKbd DEF one
<1>3. CASE ~b.kbd.reset /\ b.kbd.strobe
  <2>1. r = S!Got(128, S!acknowledged(b))
    BY <1>3 DEF S!read_keyboard_strobe
  <2> DEFINE l == [b.kbd EXCEPT !.strobe = FALSE, !.latch = S!Byte7(@)]
  <2>2. r.v = 128 /\ r.bus = S!acknowledged(b)
    BY <2>1 DEF S!Got
  <2>4. S!acknowledged(b).kbd = l
    <3> DEFINE b1 == [b EXCEPT !.kbd.strobe = FALSE]
               b2 == [b1 EXCEPT !.kbd.latch = S!Byte7(@)]
               l1 == [b.kbd EXCEPT !.strobe = FALSE]
               l2 == [l1 EXCEPT !.latch = S!Byte7(@)]
    <3>1. S!acknowledged(b) = b2 /\ l = l2
      BY DEF S!acknowledged
    <3>2. b1.kbd = l1 /\ DOMAIN b1 = SageFields
      BY DEF SageFields
    <3> HIDE DEF b1, l1
    <3>3. b2.kbd = l2
      BY <3>2 DEF SageFields
    <3> HIDE DEF b2, l2, l
    <3>. QED
      BY <3>1, <3>3
  <2>3. SageHolds(l, n + 1, t)
    BY <1>3, AckHolds
  <2> HIDE DEF l
  <2>. QED
    BY <2>2, <2>3, <2>4 DEF one
<1>4. CASE ~b.kbd.reset /\ ~b.kbd.strobe
  <2>1. r = S!Got(0, b)
    BY <1>1, <1>4 DEF S!read_keyboard_strobe
  <2>2. r.v = 0 /\ r.bus = b
    BY <2>1 DEF S!Got
  <2>. QED
    BY <1>1, <2>2 DEF one
<1>. QED
  BY <1>2, <1>3, <1>4

LEMMA SageLatch ==
  ASSUME NEW b, DOMAIN b = SageFields, NEW n, NEW t, SageHolds(b.kbd, n, t),
         NEW r, r = S!read_keyboard_latch(b)
  PROVE  SageHolds(r.bus.kbd, n, t)
<1>1. b.kbd \in SageKbd
  BY DEF SageHolds, SageWaits
<1>2. CASE b.kbd.reset
  <2>1. r = S!Got(0, S!reset_seen(b))
    BY <1>2 DEF S!read_keyboard_latch
  <2>2. r.bus = S!reset_seen(b)
    BY <2>1 DEF S!Got
  <2>. QED
    BY <2>2, SeenKbd
<1>3. CASE ~b.kbd.reset /\ ~b.kbd.strobe /\ b.kbd.valid
  <2> DEFINE taken == [b EXCEPT !.kbd.valid = FALSE]
  <2>1. r = S!Got(S!Byte7(b.kbd.latch),
                  IF b.kbd.queue # <<>> THEN S!promote_keyboard(taken) ELSE taken)
    BY <1>3 DEF S!read_keyboard_latch
  <2>2. taken.kbd = [b.kbd EXCEPT !.valid = FALSE] /\ DOMAIN taken = SageFields
    BY DEF SageFields
  <2> HIDE DEF taken
  <2>3. /\ SageWaits(taken.kbd, n, t) /\ ~taken.kbd.strobe
        /\ taken.kbd.queue = b.kbd.queue
        /\ taken.kbd.queue = <<>> => SageHolds(taken.kbd, n, t)
    BY <1>3, <2>2, TakenWaits
  <2>4. CASE b.kbd.queue # <<>>
    <3>1. r.bus = S!promote_keyboard(taken)
      BY <2>1, <2>4 DEF S!Got
    <3>. QED
      BY <2>2, <2>3, <2>4, <3>1, PromotedKbd
  <2>5. CASE b.kbd.queue = <<>>
    <3>1. r.bus = taken
      BY <2>1, <2>5 DEF S!Got
    <3>. QED
      BY <2>3, <2>5, <3>1
  <2>. QED
    BY <2>4, <2>5
<1>4. CASE ~b.kbd.reset /\ ~(~b.kbd.strobe /\ b.kbd.valid)
  <2>1. r = S!Got(b.kbd.latch, b)
    BY <1>4 DEF S!read_keyboard_latch
  <2>. QED
    BY <2>1 DEF S!Got
<1>. QED
  BY <1>2, <1>3, <1>4

LEMMA SageTyped ==
  ASSUME NEW b, DOMAIN b = SageFields, NEW n, NEW t, SageHolds(b.kbd, n, t),
         NEW v \in Int, NEW c, c = S!queue_keyboard(b, v)
  PROVE  SageHolds(c.kbd, n, Append(t, Byte7(v)))
<1> DEFINE queued == [b EXCEPT !.kbd.queue = Append(@, v)]
<1>1. c = IF ~b.kbd.strobe /\ ~b.kbd.valid THEN S!promote_keyboard(queued) ELSE queued
  BY DEF S!queue_keyboard
<1>2. queued.kbd = [b.kbd EXCEPT !.queue = Append(@, v)] /\ DOMAIN queued = SageFields
  BY DEF SageFields
<1> HIDE DEF queued
<1> DEFINE t2 == Append(t, Byte7(v))
<1>0. QueuedBehind(b.kbd, queued.kbd, n, t2)
  BY <1>2, QueuedWaits
<1> HIDE DEF t2
<1>3. /\ SageWaits(queued.kbd, n, t2)
      /\ queued.kbd.strobe = b.kbd.strobe /\ queued.kbd.valid = b.kbd.valid
      /\ queued.kbd.queue # <<>>
  BY <1>0 DEF QueuedBehind
<1> SUFFICES SageHolds(c.kbd, n, t2)
  BY DEF t2
<1>4. CASE ~b.kbd.strobe /\ ~b.kbd.valid
  BY <1>1, <1>2, <1>3, <1>4, PromotedKbd
<1>5. CASE b.kbd.strobe \/ b.kbd.valid
  <2>1. b.kbd.valid
    BY <1>5 DEF SageHolds, SageWaits
  <2>2. c = queued
    BY <1>1, <1>5
  <2>. QED
    BY <1>3, <2>1, <2>2 DEF SageHolds
<1>. QED
  BY <1>4, <1>5

-----------------------------------------------------------------------------
(* The keyboard of the port *)
LEMMA StrobeOff ==
  ASSUME NEW key, NEW on \in BOOLEAN, NEW off \in BOOLEAN
  PROVE  [[latch |-> key, strobe |-> on, valid |-> on] EXCEPT !.strobe = off]
           = [latch |-> key, strobe |-> off, valid |-> on]
OBVIOUS

LEMMA PortStrobe ==
  ASSUME NEW b, DOMAIN b = PortFields, NEW n, NEW t, PortHolds(b.kbd, b.rx, n, t),
         NEW r, r = keyboard_read_strobe(b)
  PROVE  PortHolds(r.bus.kbd, r.bus.rx, n + one(\hC010, r.v), t)
<1>0. /\ b.kbd \in PortKbd /\ b.rx \in Seq(0..127)
      /\ t \in Seq(Int) /\ n \in 0..Len(t) /\ n + Len(b.rx) = Len(t)
      /\ \A i \in 1..Len(b.rx) : Byte7(apple_key_from_uart(b.rx[i])) = t[n + i]
  BY DEF PortHolds
<1>1. ~b.kbd.strobe /\ n \in Int /\ Len(t) \in Nat /\ Len(b.rx) \in Nat
  <2>1. b.kbd.strobe \in {FALSE}
    BY <1>0 DEF PortKbd
  <2>2. ~b.kbd.strobe
    BY <2>1, Zenon
  <2>3. n \in Int
    BY <1>0
  <2>. QED
    BY <1>0, <2>2, <2>3
<1>2. CASE b.kbd.valid \/ b.rx = <<>>
  <2>1. keyboard_poll_uart(b) = b
    BY <1>2 DEF keyboard_poll_uart, uart_rx_ready
  <2>2. r = Got(0, b)
    BY <1>1, <2>1 DEF keyboard_read_strobe
  <2>3. r.v = 0 /\ r.bus = b /\ n + 0 = n
    BY <1>1, <2>2 DEF Got
  <2>. QED
    BY <2>3 DEF one
<1>3. CASE ~b.kbd.valid /\ b.rx # <<>>
  <2> DEFINE key == apple_key_from_uart(Head(b.rx))
             k1 == [latch |-> key, strobe |-> TRUE, valid |-> TRUE]
             k2 == [latch |-> Byte7(key), strobe |-> FALSE, valid |-> TRUE]
             b1 == [b EXCEPT !.rx = Tail(@)]
             b2 == [b1 EXCEPT !.kbd = k1]
             b3 == [b2 EXCEPT !.kbd.strobe = FALSE, !.kbd.latch = Byte7(@)]
  <2>1. uart_rx(b).v = Head(b.rx) /\ uart_rx(b).bus = b1
    BY DEF uart_rx, Got
  <2>2. keyboard_poll_uart(b) = b2
    BY <1>1, <1>3, <2>1 DEF keyboard_poll_uart, uart_rx_ready
  <2>3. DOMAIN b1 = PortFields /\ b1.rx = Tail(b.rx)
    BY DEF PortFields
  <2> HIDE DEF b1
  <2>4. DOMAIN b2 = PortFields /\ b2.rx = Tail(b.rx) /\ b2.kbd = k1
    BY <2>3 DEF PortFields
  <2> HIDE DEF b2
  <2>5. b3.rx = Tail(b.rx)
    BY <2>4 DEF PortFields
  <2>6. b3.kbd = k2
    <3> DEFINE c == [b2 EXCEPT !.kbd.strobe = FALSE]
               l == [latch |-> key, strobe |-> FALSE, valid |-> TRUE]
    <3>1. b3 = [c EXCEPT !.kbd.latch = Byte7(@)]
      OBVIOUS
    <3>2. c.kbd = [k1 EXCEPT !.strobe = FALSE] /\ DOMAIN c = PortFields
      BY <2>4 DEF PortFields
    <3> HIDE DEF c, key, b3
    <3>3. [k1 EXCEPT !.strobe = FALSE] = l
      BY StrobeOff
    <3>4. b3.kbd = [l EXCEPT !.latch = Byte7(@)]
      BY <3>1, <3>2, <3>3 DEF PortFields
    <3>. QED
      BY <3>4
  <2>7. r = Got(128, b3)
    <3>1. b2.kbd.strobe
      BY <2>4
    <3>. QED
      BY <2>2, <3>1 DEF keyboard_read_strobe
  <2>8. r.v = 128 /\ r.bus = b3
    BY <2>7 DEF Got
  <2> HIDE DEF b3, key
  <2>9. /\ Tail(b.rx) \in Seq(0..127) /\ Head(b.rx) = b.rx[1] /\ Head(b.rx) \in 0..127
        /\ Len(b.rx) \in Nat /\ Len(b.rx) >= 1 /\ Len(Tail(b.rx)) = Len(b.rx) - 1
        /\ \A i \in 1..Len(Tail(b.rx)) : Tail(b.rx)[i] = b.rx[i + 1]
    <3> DEFINE rx == b.rx
    <3>1. rx \in Seq(0..127) /\ rx # <<>>
      BY <1>0, <1>3
    <3> HIDE DEF rx
    <3> DEFINE codes == 0..127
    <3>2. rx \in Seq(codes) /\ rx # <<>>
      BY <3>1
    <3> HIDE DEF codes
    <3>3. /\ Tail(rx) \in Seq(codes) /\ Head(rx) = rx[1] /\ Head(rx) \in codes
          /\ Len(rx) \in Nat /\ Len(rx) >= 1 /\ Len(Tail(rx)) = Len(rx) - 1
          /\ \A i \in 1..Len(Tail(rx)) : Tail(rx)[i] = rx[i + 1]
      BY <3>2
    <3>. QED
      BY <3>3 DEF rx, codes
  <2>10. /\ n + 1 \in 0..Len(t) /\ n + 1 + Len(Tail(b.rx)) = Len(t) /\ n + 1 > 0
         /\ (n + 1) + 0 = n + 1
    <3> DEFINE end == Len(t)
               long == Len(b.rx)
               left == Len(Tail(b.rx))
    <3>1. /\ n \in 0..end /\ n + long = end /\ end \in Nat /\ long \in Nat
          /\ left = long - 1 /\ long >= 1
      BY <1>0, <1>1, <2>9
    <3> HIDE DEF end, long, left
    <3>2. n + 1 \in 0..end /\ n + 1 + left = end /\ n + 1 > 0 /\ (n + 1) + 0 = n + 1
      BY <3>1
    <3>. QED
      BY <3>2 DEF end, long, left
  <2>11. Byte7(key) \in Int /\ Byte7(key) = t[n + 1]
    <3>1. key \in Int
      BY <2>9, SameCode DEF key
    <3>2. Byte7(key) = t[n + 1]
      BY <1>0, <2>9 DEF key
    <3>. QED
      BY <3>1, <3>2, Byte7Type
  <2>12. \A i \in 1..Len(Tail(b.rx)) : Byte7(apple_key_from_uart(Tail(b.rx)[i])) = t[n + 1 + i]
    <3> SUFFICES ASSUME NEW i \in 1..Len(Tail(b.rx))
                 PROVE  Byte7(apple_key_from_uart(Tail(b.rx)[i])) = t[n + 1 + i]
      OBVIOUS
    <3>1. i + 1 \in 1..Len(b.rx) /\ n + (i + 1) = n + 1 + i
      <4> DEFINE long == Len(b.rx)
                 left == Len(Tail(b.rx))
      <4>1. n \in Int /\ long \in Nat /\ left = long - 1 /\ i \in 1..left
        BY <1>1, <2>9
      <4> HIDE DEF long, left
      <4>2. i + 1 \in 1..long /\ n + (i + 1) = n + 1 + i
        BY <4>1
      <4>. QED
        BY <4>2 DEF long
    <3>2. Tail(b.rx)[i] = b.rx[i + 1]
      BY <2>9
    <3>. QED
      BY <1>0, <3>1, <3>2
  <2>13. k2 \in PortKbd /\ k2.valid /\ k2.latch = t[n + 1]
    BY <2>11 DEF PortKbd
  <2> HIDE DEF k2
  <2>14. PortHolds(k2, Tail(b.rx), n + 1, t)
    BY <1>0, <2>9, <2>10, <2>12, <2>13 DEF PortHolds
  <2>. QED
    BY <2>5, <2>6, <2>8, <2>14 DEF one
<1>. QED
  BY <1>2, <1>3

LEMMA PortLatch ==
  ASSUME NEW b, DOMAIN b = PortFields, NEW n, NEW t, PortHolds(b.kbd, b.rx, n, t),
         NEW r, r = keyboard_read_latch(b)
  PROVE  PortHolds(r.bus.kbd, r.bus.rx, n, t)
<1> DEFINE b1 == [b EXCEPT !.kbd.valid = FALSE]
           k1 == [b.kbd EXCEPT !.valid = FALSE]
<1>1. r.bus = b \/ r.bus = b1
  BY DEF keyboard_read_latch, Got
<1>2. b1.rx = b.rx /\ b1.kbd = k1
  BY DEF PortFields
<1>3. k1 \in PortKbd /\ ~k1.valid
  BY DEF PortHolds, PortKbd
<1> HIDE DEF b1, k1
<1>4. PortHolds(k1, b.rx, n, t)
  BY <1>3 DEF PortHolds
<1>. QED
  BY <1>1, <1>2, <1>4

(* A key is fed while the ring has room for it. *)
LEMMA PortTyped ==
  ASSUME NEW b, DOMAIN b = PortFields, NEW n, NEW t, PortHolds(b.kbd, b.rx, n, t),
         NEW key \in 0..127, Len(b.rx) + 1 < HOST_RX_CAPACITY,
         NEW v, v = Byte7(apple_key_from_uart(key)),
         NEW c, c = host_uart_feed(b, key)
  PROVE  PortHolds(c.kbd, c.rx, n, Append(t, v))
<1> DEFINE t2 == Append(t, v)
           rx2 == Append(b.rx, key)
<1>1. /\ b.kbd \in PortKbd /\ b.rx \in Seq(0..127) /\ n \in Int
      /\ t \in Seq(Int) /\ n \in 0..Len(t) /\ n + Len(b.rx) = Len(t)
      /\ Len(t) \in Nat /\ Len(b.rx) \in Nat
      /\ \A i \in 1..Len(b.rx) : Byte7(apple_key_from_uart(b.rx[i])) = t[n + i]
      /\ b.kbd.valid => n > 0 /\ b.kbd.latch = t[n]
  BY DEF PortHolds
<1>2. c = [b EXCEPT !.rx = rx2]
  BY DEF host_uart_feed
<1>3. v \in Int
  BY SameCode, Byte7Type
<1>4. /\ t2 \in Seq(Int) /\ Len(t2) = Len(t) + 1
      /\ \A i \in 1..Len(t) : t2[i] = t[i]
      /\ t2[Len(t) + 1] = v
  BY <1>1, <1>3
<1>5. /\ rx2 \in Seq(0..127) /\ Len(rx2) = Len(b.rx) + 1
      /\ \A i \in 1..Len(b.rx) : rx2[i] = b.rx[i]
      /\ rx2[Len(b.rx) + 1] = key
  BY <1>1
<1> HIDE DEF t2, rx2
<1>6. c.kbd = b.kbd /\ c.rx = rx2
  BY <1>2 DEF PortFields
<1> DEFINE end == Len(t)
           long == Len(b.rx)
<1>0. n \in 0..end /\ n + long = end /\ end \in Nat /\ long \in Nat
  BY <1>1
<1>7. n \in 0..Len(t2) /\ n + Len(rx2) = Len(t2)
  <2>1. Len(t2) = end + 1 /\ Len(rx2) = long + 1
    BY <1>4, <1>5
  <2> HIDE DEF end, long
  <2>2. n \in 0..(end + 1) /\ n + (long + 1) = end + 1
    BY <1>0
  <2>. QED
    BY <2>1, <2>2
<1>8. b.kbd.valid => n > 0 /\ b.kbd.latch = t2[n]
  BY <1>1, <1>4
<1>9. \A i \in 1..Len(rx2) : Byte7(apple_key_from_uart(rx2[i])) = t2[n + i]
  <2> SUFFICES ASSUME NEW i \in 1..Len(rx2)
               PROVE  Byte7(apple_key_from_uart(rx2[i])) = t2[n + i]
    OBVIOUS
  <2>1. CASE i \in 1..Len(b.rx)
    <3>1. n + i \in 1..Len(t)
      BY <1>1, <2>1
    <3>. QED
      BY <1>1, <1>4, <1>5, <2>1, <3>1
  <2>2. CASE i = Len(b.rx) + 1
    <3>1. n + i = end + 1
      <4>1. i = long + 1
        BY <2>2
      <4> HIDE DEF end, long
      <4>. QED
        BY <1>0, <4>1
    <3>. QED
      BY <1>4, <1>5, <2>2, <3>1
  <2>. QED
    BY <1>1, <1>5, <2>1, <2>2
<1>10. PortHolds(b.kbd, rx2, n, t2)
  BY <1>1, <1>4, <1>5, <1>7, <1>8, <1>9 DEF PortHolds
<1>. QED
  BY <1>6, <1>10 DEF t2

-----------------------------------------------------------------------------
(* What is no register of the keyboard leaves it alone. *)
SameKeys(b, c) == c.kbd = b.kbd /\ c.rx = b.rx

LEMMA PortVideoKeys ==
  ASSUME NEW b, DOMAIN b = PortFields, NEW addr, NEW v
  PROVE  SameKeys(b, video_write(b, addr, v))
<1>1. SameKeys(b, video_switch(b, addr)) /\ DOMAIN video_switch(b, addr) = PortFields
  BY DEF SameKeys, PortFields, video_switch
<1>. QED
  BY <1>1 DEF SameKeys, PortFields, video_write

LEMMA SageKeysKept ==
  ASSUME NEW b, DOMAIN b = SageFields, NEW addr, NEW v
  PROVE  /\ S!write_card(b, addr, v).kbd = b.kbd
         /\ S!write_memory(b, addr, v).kbd = b.kbd
         /\ [b EXCEPT !.ram_write = v < 128].kbd = b.kbd
         /\ S!toggle_speaker(b).kbd = b.kbd
         /\ S!apply_video_switch(b, addr).kbd = b.kbd
         /\ S!write_video_switch(b, addr, v).kbd \in {b.kbd, S!reset_seen(b).kbd}
         /\ ~b.kbd.reset => S!write_video_switch(b, addr, v).kbd = b.kbd
<1>2. S!write_card(b, addr, v).kbd = b.kbd
  BY DEF SageFields, S!write_card
<1>3. S!write_memory(b, addr, v).kbd = b.kbd
  <2> DEFINE c == [b EXCEPT !.ram = S!Stored(@, addr, v)]
             d == [c EXCEPT !.video.events = Append(@, <<addr, v>>)]
  <2>1. S!write_memory(b, addr, v) \in {b, c, d}
    BY DEF S!write_memory, S!record_event
  <2>2. c.kbd = b.kbd /\ DOMAIN c = SageFields
    BY DEF SageFields
  <2> HIDE DEF c
  <2>3. d.kbd = b.kbd
    BY <2>2 DEF SageFields
  <2> HIDE DEF d
  <2>. QED
    BY <2>1, <2>2, <2>3
<1>4. [b EXCEPT !.ram_write = v < 128].kbd = b.kbd /\ S!toggle_speaker(b).kbd = b.kbd
  BY DEF SageFields, S!toggle_speaker
<1>5. ASSUME NEW c, DOMAIN c = SageFields
      PROVE  /\ S!apply_video_switch(c, addr).kbd = c.kbd
             /\ DOMAIN S!apply_video_switch(c, addr) = SageFields
  BY <1>5 DEF SageFields, S!apply_video_switch
<1>6. /\ S!write_video_switch(b, addr, v).kbd \in {b.kbd, S!reset_seen(b).kbd}
      /\ ~b.kbd.reset => S!write_video_switch(b, addr, v).kbd = b.kbd
  <2> DEFINE seen == IF b.kbd.reset THEN [S!reset_seen(b) EXCEPT !.autostart = TRUE] ELSE b
             c == S!apply_video_switch(seen, addr)
             i == addr - \hC050
             d == [c EXCEPT !.video.switches = @ \cup {i}, !.video.values[i] = v]
  <2>1. S!write_video_switch(b, addr, v) = d
    BY DEF S!write_video_switch
  <2>2. DOMAIN S!reset_seen(b) = SageFields
    BY DEF SageFields, S!reset_seen
  <2>3. /\ seen.kbd \in {b.kbd, S!reset_seen(b).kbd} /\ DOMAIN seen = SageFields
        /\ ~b.kbd.reset => seen.kbd = b.kbd
    BY <2>2 DEF SageFields
  <2> HIDE DEF seen
  <2>4. c.kbd = seen.kbd /\ DOMAIN c = SageFields
    BY <1>5, <2>3
  <2> HIDE DEF c
  <2>5. d.kbd = c.kbd
    BY <2>4 DEF SageFields
  <2> HIDE DEF d
  <2>. QED
    BY <2>1, <2>3, <2>4, <2>5
<1>. QED
  BY <1>2, <1>3, <1>4, <1>5, <1>6

-----------------------------------------------------------------------------
(* Any access takes of the keys what it reports. *)
LEMMA SageReadKeeps ==
  ASSUME NEW b, DOMAIN b = SageFields, NEW addr \in Int, addr \notin {\hC000, \hC010},
         NEW r, r = S!read8(b, addr)
  PROVE  r.bus.kbd = b.kbd
<1>0. SageReadArms(b, addr, r)
  BY SageReadAt
<1>1. \A v, c : S!Got(v, c).bus = c
  BY DEF S!Got
<1>2. CASE addr = \hC030
  BY <1>0, <1>1, <1>2, SageKeysKept DEF SageReadArms
<1>3. CASE addr \in VideoSwitches
  <2>1. r.bus = S!apply_video_switch(b, addr)
    BY <1>0, <1>1, <1>3 DEF SageReadArms
  <2>. QED
    BY <2>1, SageKeysKept
<1>4. CASE addr = \hC0EB
  BY <1>0, <1>1, <1>4 DEF SageReadArms
<1>5. CASE addr \in CardSwitches
  <2>1. r = S!Got(0, S!language_card_soft_switch(b, addr, FALSE))
    BY <1>0, <1>5 DEF SageReadArms
  <2>2. r.bus = S!language_card_soft_switch(b, addr, FALSE)
    BY <2>1 DEF S!Got
  <2>. QED
    BY <2>2 DEF SageFields, S!language_card_soft_switch
<1>6. CASE addr < \hC000
  BY <1>0, <1>1, <1>6 DEF SageReadArms
<1>7. CASE addr >= \hD000
  BY <1>0, <1>1, <1>7 DEF SageReadArms
<1>8. CASE InDevices(addr) /\ ~SageRegister(addr)
  BY <1>0, <1>1, <1>8 DEF SageReadArms
<1>. QED
  BY <1>2, <1>3, <1>4, <1>5, <1>6, <1>7, <1>8 DEF SageRegister, InDevices

LEMMA SageKeysRead ==
  ASSUME NEW b, DOMAIN b = SageFields, NEW n, NEW t, SageHolds(b.kbd, n, t),
         NEW addr \in Int, NEW r, r = S!read8(b, addr)
  PROVE  SageHolds(r.bus.kbd, n + one(addr, r.v), t)
<1>0. SageReadArms(b, addr, r)
  BY SageReadAt
<1>1. \A v, c : S!Got(v, c).bus = c
  BY DEF S!Got
<1>2. n + 0 = n
  BY DEF SageHolds, SageWaits
<1>3. CASE addr = \hC010
  <2>1. r = S!read_keyboard_strobe(b)
    BY <1>0, <1>3 DEF SageReadArms
  <2>. QED
    BY <1>3, <2>1, SageStrobe
<1>4. CASE addr = \hC000
  <2>1. r = S!read_keyboard_latch(b)
    BY <1>0, <1>4 DEF SageReadArms
  <2>2. SageHolds(r.bus.kbd, n, t)
    BY <2>1, SageLatch
  <2>. QED
    BY <1>2, <1>4, <2>2 DEF one
<1>5. CASE addr # \hC010 /\ addr # \hC000
  <2>1. r.bus.kbd = b.kbd
    BY <1>5, SageReadKeeps
  <2>. QED
    BY <1>2, <1>5, <2>1 DEF one
<1>. QED
  BY <1>3, <1>4, <1>5

LEMMA SageWriteKeeps ==
  ASSUME NEW b, DOMAIN b = SageFields, NEW addr \in Int, addr # \hC010,
         addr \in VideoSwitches => ~b.kbd.reset,
         NEW v, NEW c, c = S!write8(b, addr, v)
  PROVE  c.kbd = b.kbd
<1>0. SageWriteArms(b, addr, v, c)
  BY SageWriteAt
<1>1. CASE addr = \hC030
  BY <1>0, <1>1, SageKeysKept DEF SageWriteArms
<1>2. CASE addr = \hC0EB
  <2>1. c = [b EXCEPT !.ram_write = v < 128]
    BY <1>0, <1>2 DEF SageWriteArms
  <2>. QED
    BY <2>1, SageKeysKept
<1>3. CASE addr \in CardSwitches
  <2>1. c = S!language_card_soft_switch(b, addr, TRUE)
    BY <1>0, <1>3 DEF SageWriteArms
  <2>. QED
    BY <2>1 DEF SageFields, S!language_card_soft_switch
<1>4. CASE addr < \hC000
  <2>1. c = S!write_memory(b, addr, v)
    BY <1>0, <1>4 DEF SageWriteArms
  <2>. QED
    BY <2>1, SageKeysKept
<1>5. CASE addr >= \hD000
  <2>1. c = S!write_card(b, addr, v)
    BY <1>0, <1>5 DEF SageWriteArms
  <2>. QED
    BY <2>1, SageKeysKept
<1>6. CASE InDevices(addr) /\ ~SageStore(addr)
  BY <1>0, <1>6 DEF SageWriteArms
<1>7. CASE addr \in VideoSwitches
  <2>1. c = S!write_video_switch(b, addr, v)
    BY <1>0, <1>7 DEF SageWriteArms
  <2>. QED
    BY <1>7, <2>1, SageKeysKept
<1>. QED
  BY <1>1, <1>2, <1>3, <1>4, <1>5, <1>6, <1>7 DEF SageStore, InDevices

LEMMA SageKeysWrite ==
  ASSUME NEW b, DOMAIN b = SageFields, NEW n, NEW t, SageHolds(b.kbd, n, t),
         NEW addr \in Int, NEW v, NEW c, c = S!write8(b, addr, v)
  PROVE  SageHolds(c.kbd, n + one(addr, S!read8(b, addr).v), t)
<1>0. SageWriteArms(b, addr, v, c)
  BY SageWriteAt
<1>2. n + 0 = n
  BY DEF SageHolds, SageWaits
<1>3. CASE addr = \hC010
  <2> DEFINE r == S!read_keyboard_strobe(b)
  <2>0. SageReadArms(b, addr, S!read8(b, addr))
    BY SageReadAt
  <2>1. S!read8(b, addr) = r
    BY <1>3, <2>0 DEF SageReadArms
  <2>2. c = r.bus
    BY <1>0, <1>3 DEF SageWriteArms
  <2>3. SageHolds(r.bus.kbd, n + one(\hC010, r.v), t)
    BY SageStrobe
  <2> HIDE DEF r
  <2>. QED
    BY <1>3, <2>1, <2>2, <2>3
<1>4. CASE addr \in VideoSwitches
  <2>1. c = S!write_video_switch(b, addr, v) /\ addr # \hC010
    BY <1>0, <1>4 DEF SageWriteArms, VideoSwitches
  <2>2. c.kbd = b.kbd \/ c.kbd = S!reset_seen(b).kbd
    BY <2>1, SageKeysKept
  <2>. QED
    BY <1>2, <2>1, <2>2, SeenKbd DEF one
<1>5. CASE addr # \hC010 /\ addr \notin VideoSwitches
  <2>1. c.kbd = b.kbd
    BY <1>5, SageWriteKeeps
  <2>. QED
    BY <1>2, <1>5, <2>1 DEF one
<1>. QED
  BY <1>3, <1>4, <1>5

(* The data register of the UART would take a key unseen: addr is another. *)
LEMMA PortReadKeeps ==
  ASSUME NEW b, DOMAIN b = PortFields, NEW addr \in Int, addr \notin {\hC000, \hC010, \hC081},
         NEW r, r = bus_read(b, addr)
  PROVE  SameKeys(b, r.bus)
<1>0. PortReadArms(b, addr, r)
  BY PortReadAt
<1>1. \A v, c : Got(v, c).bus = c
  BY DEF Got
<1>2. CASE addr = \hC030
  <2>1. r.bus = toggle_speaker(b)
    BY <1>0, <1>1, <1>2 DEF PortReadArms
  <2>. QED
    BY <2>1 DEF SameKeys, PortFields, toggle_speaker
<1>3. CASE addr \in VideoSwitches
  <2>1. r.bus = video_switch(b, addr)
    BY <1>0, <1>1, <1>3 DEF PortReadArms
  <2>. QED
    BY <2>1 DEF SameKeys, PortFields, video_switch
<1>4. CASE addr \in CardSwitches
  <2>1. r = Got(0, language_card_switch(b, addr, FALSE))
    BY <1>0, <1>4 DEF PortReadArms
  <2>2. r.bus = language_card_switch(b, addr, FALSE)
    BY <2>1 DEF Got
  <2>. QED
    BY <2>2 DEF SameKeys, PortFields, language_card_switch
<1>5. CASE addr < \h0400
  BY <1>0, <1>1, <1>5 DEF PortReadArms, SameKeys
<1>6. CASE addr >= \hD000
  BY <1>0, <1>1, <1>6 DEF PortReadArms, SameKeys
<1>7. CASE addr >= \h0400 /\ addr < \hD000 /\ ~PortRegister(addr)
  BY <1>0, <1>1, <1>7 DEF PortReadArms, SameKeys
<1>. QED
  BY <1>2, <1>3, <1>4, <1>5, <1>6, <1>7 DEF PortRegister

LEMMA PortKeysRead ==
  ASSUME NEW b, DOMAIN b = PortFields, NEW n, NEW t, PortHolds(b.kbd, b.rx, n, t),
         NEW addr \in Int, addr # \hC081, NEW r, r = bus_read(b, addr)
  PROVE  PortHolds(r.bus.kbd, r.bus.rx, n + one(addr, r.v), t)
<1>0. PortReadArms(b, addr, r)
  BY PortReadAt
<1>1. \A v, c : Got(v, c).bus = c
  BY DEF Got
<1>2. n + 0 = n
  BY DEF PortHolds
<1>3. CASE addr = \hC010
  <2>1. r = keyboard_read_strobe(b)
    BY <1>0, <1>3 DEF PortReadArms
  <2>. QED
    BY <1>3, <2>1, PortStrobe
<1>4. CASE addr = \hC000
  <2>1. r = keyboard_read_latch(b)
    BY <1>0, <1>4 DEF PortReadArms
  <2>2. PortHolds(r.bus.kbd, r.bus.rx, n, t)
    BY <2>1, PortLatch
  <2>. QED
    BY <1>2, <1>4, <2>2 DEF one
<1>5. CASE addr # \hC010 /\ addr # \hC000
  <2>1. SameKeys(b, r.bus)
    BY <1>5, PortReadKeeps
  <2>. QED
    BY <1>2, <1>5, <2>1 DEF one, SameKeys
<1>. QED
  BY <1>3, <1>4, <1>5

LEMMA PortWriteKeeps ==
  ASSUME NEW b, DOMAIN b = PortFields, NEW addr \in Int, addr # \hC010,
         NEW v, NEW c, c = bus_write(b, addr, v)
  PROVE  SameKeys(b, c)
<1>0. PortWriteArms(b, addr, v, c)
  BY PortWriteAt
<1>1. CASE addr = \hC030
  <2>1. c = toggle_speaker(b)
    BY <1>0, <1>1 DEF PortWriteArms
  <2>. QED
    BY <2>1 DEF SameKeys, PortFields, toggle_speaker
<1>2. CASE addr = \hC080
  <2>1. c = uart_tx(b, v)
    BY <1>0, <1>2 DEF PortWriteArms
  <2>. QED
    BY <2>1 DEF SameKeys, PortFields, uart_tx
<1>3. CASE addr \in VideoSwitches
  <2>1. c = video_write(b, addr, v)
    BY <1>0, <1>3 DEF PortWriteArms
  <2>. QED
    BY <2>1, PortVideoKeys
<1>4. CASE addr \in CardSwitches
  <2>1. c = language_card_switch(b, addr, TRUE)
    BY <1>0, <1>4 DEF PortWriteArms
  <2>. QED
    BY <2>1 DEF SameKeys, PortFields, language_card_switch
<1>5. CASE is_video_write(addr)
  <2>1. c = record_video_write(b, addr, v)
    BY <1>0, <1>5 DEF PortWriteArms
  <2>. QED
    BY <2>1 DEF SameKeys, PortFields, record_video_write
<1>6. CASE addr < \h0400
  <2>1. c = [b EXCEPT !.ram = Stored(@, addr, v)]
    BY <1>0, <1>6 DEF PortWriteArms
  <2>. QED
    BY <2>1 DEF SameKeys, PortFields
<1>7. CASE addr >= \hD000
  <2>1. c = write_high(b, addr, v)
    BY <1>0, <1>7 DEF PortWriteArms
  <2>. QED
    BY <2>1 DEF SameKeys, PortFields, write_high, language_card_write
<1>8. CASE addr >= \h0400 /\ addr < \hD000 /\ ~is_video_write(addr) /\ ~PortStore(addr)
  BY <1>0, <1>8 DEF PortWriteArms, SameKeys
<1>. QED
  BY <1>1, <1>2, <1>3, <1>4, <1>5, <1>6, <1>7, <1>8 DEF PortStore

LEMMA PortKeysWrite ==
  ASSUME NEW b, DOMAIN b = PortFields, NEW n, NEW t, PortHolds(b.kbd, b.rx, n, t),
         NEW addr \in Int, NEW v, NEW c, c = bus_write(b, addr, v)
  PROVE  PortHolds(c.kbd, c.rx, n + one(addr, bus_read(b, addr).v), t)
<1>0. PortWriteArms(b, addr, v, c)
  BY PortWriteAt
<1>2. n + 0 = n
  BY DEF PortHolds
<1>3. CASE addr = \hC010
  <2> DEFINE r == keyboard_read_strobe(b)
  <2>0. PortReadArms(b, addr, bus_read(b, addr))
    BY PortReadAt
  <2>1. bus_read(b, addr) = r
    BY <1>3, <2>0 DEF PortReadArms
  <2>2. c = r.bus
    BY <1>0, <1>3 DEF PortWriteArms
  <2>3. PortHolds(r.bus.kbd, r.bus.rx, n + one(\hC010, r.v), t)
    BY PortStrobe
  <2> HIDE DEF r
  <2>. QED
    BY <1>3, <2>1, <2>2, <2>3
<1>4. CASE addr # \hC010
  <2>1. SameKeys(b, c)
    BY <1>4, PortWriteKeeps
  <2>. QED
    BY <1>2, <1>4, <2>1 DEF one, SameKeys
<1>. QED
  BY <1>3, <1>4

-----------------------------------------------------------------------------
KInv ==
  /\ took \in [sage : Nat, port : Nat]
  /\ SageHolds(sage.kbd, took.sage, typed)
  /\ PortHolds(port.kbd, port.rx, took.port, typed)

(* No guest takes keys where nobody counts them: from the data register of   *)
(* the UART, which only the port has and its keyboard reads from.            *)
KeyboardAlone == \A used \in Programs : \hC081 \notin used

LEMMA NoKeyHolds ==
  ASSUME NEW t, t \in Seq(Int), NEW reset \in BOOLEAN, NEW off \in BOOLEAN, ~off,
         NEW k, k = [reset |-> reset, queue |-> <<>>, latch |-> 0, strobe |-> off, valid |-> off]
  PROVE  SageHolds(k, Len(t), t)
<1>1. k \in SageKbd /\ ~k.strobe /\ ~k.valid /\ k.queue = <<>> /\ Len(k.queue) = 0
  BY DEF SageKbd
<1>2. latched(k) = 0
  BY <1>1 DEF latched
<1>3. Len(t) \in Nat
  OBVIOUS
<1>4. Len(t) \in 0..Len(t) /\ Len(t) + latched(k) + Len(k.queue) = Len(t)
  BY <1>1, <1>2, <1>3
<1>. QED
  BY <1>1, <1>4 DEF SageHolds, SageWaits

LEMMA KeysInit == Init => KInv
<1> SUFFICES ASSUME Init PROVE KInv
  OBVIOUS
<1>1. typed = <<>> /\ Len(typed) = 0 /\ typed \in Seq(Int)
  BY DEF Init
<1>2. took \in [sage : Nat, port : Nat] /\ took.sage = 0 /\ took.port = 0
  BY DEF Init
<1>3. SageHolds(sage.kbd, took.sage, typed)
  <2>1. sage.kbd = S!no_key(FALSE)
    BY DEF Init, S!PowerOn
  <2>2. sage.kbd = [reset |-> FALSE, queue |-> <<>>, latch |-> 0,
                    strobe |-> FALSE, valid |-> FALSE]
    BY <2>1 DEF S!no_key
  <2>3. SageHolds(sage.kbd, Len(typed), typed)
    BY <1>1, <2>2, NoKeyHolds
  <2>. QED
    BY <1>1, <1>2, <2>3
<1>4. PortHolds(port.kbd, port.rx, took.port, typed)
  <2>1. port.kbd = [latch |-> 0, strobe |-> FALSE, valid |-> FALSE]
    BY DEF Init, bus_reset
  <2>2. port.rx = <<>>
    BY DEF Init, bus_reset, PowerOn
  <2>3. port.kbd \in PortKbd /\ ~port.kbd.valid
    BY <2>1 DEF PortKbd
  <2>4. port.rx \in Seq(0..127) /\ Len(port.rx) = 0
    BY <2>2
  <2>. QED
    BY <1>1, <1>2, <2>3, <2>4 DEF PortHolds
<1>. QED
  BY <1>2, <1>3, <1>4 DEF KInv

LEMMA KeysStep ==
  ASSUME KeyboardAlone, SInv, KInv, [Next]_vars
  PROVE  KInv'
<1>1. /\ DOMAIN port = PortFields /\ DOMAIN sage = SageFields
      /\ program \subseteq Int /\ \hC081 \notin program
      /\ took \in [sage : Nat, port : Nat]
  BY AddressesAreNumbers DEF SInv, Screens, KeyboardAlone, KInv
<1>2. /\ SageHolds(sage.kbd, took.sage, typed)
      /\ PortHolds(port.kbd, port.rx, took.port, typed)
  BY DEF KInv
<1>3. ASSUME NEW s, NEW p, NEW n \in {0, 1}, NEW m \in {0, 1},
             sage' = s, port' = p, typed' = typed,
             took' = [sage |-> took.sage + n, port |-> took.port + m],
             SageHolds(s.kbd, took.sage + n, typed),
             PortHolds(p.kbd, p.rx, took.port + m, typed)
      PROVE  KInv'
  <2>1. took'.sage = took.sage + n /\ took'.port = took.port + m
    BY <1>3
  <2>2. took' \in [sage : Nat, port : Nat]
    BY <1>1, <1>3
  <2>. QED
    BY <1>3, <2>1, <2>2 DEF KInv
<1>4. \A addr, v : one(addr, v) \in {0, 1}
  BY DEF one
<1>5. ASSUME NEW addr \in program, Read(addr)
      PROVE  KInv'
  <2> DEFINE r == S!read8(sage, addr)
             q == bus_read(port, addr)
             s == r.bus
             p == q.bus
             n == one(addr, r.v)
             m == one(addr, q.v)
  <2>1. /\ sage' = s /\ port' = p /\ typed' = typed
        /\ took' = [sage |-> took.sage + n, port |-> took.port + m]
    BY <1>5 DEF Read, Taking, one
  <2>2. SageHolds(s.kbd, took.sage + n, typed)
    BY <1>1, <1>2, SageKeysRead
  <2>3. PortHolds(p.kbd, p.rx, took.port + m, typed)
    BY <1>1, <1>2, PortKeysRead
  <2>4. n \in {0, 1} /\ m \in {0, 1}
    BY <1>4
  <2> HIDE DEF s, p, n, m
  <2>. QED
    BY <1>3, <2>1, <2>2, <2>3, <2>4
<1>6. ASSUME NEW addr \in program, NEW v \in Values, Write(addr, v)
      PROVE  KInv'
  <2> DEFINE s == S!write8(sage, addr, v)
             p == bus_write(port, addr, v)
             n == one(addr, S!read8(sage, addr).v)
             m == one(addr, bus_read(port, addr).v)
  <2>1. /\ sage' = s /\ port' = p /\ typed' = typed
        /\ took' = [sage |-> took.sage + n, port |-> took.port + m]
    BY <1>6 DEF Write, Taking, one
  <2>2. SageHolds(s.kbd, took.sage + n, typed)
    BY <1>1, <1>2, SageKeysWrite
  <2>3. PortHolds(p.kbd, p.rx, took.port + m, typed)
    BY <1>1, <1>2, PortKeysWrite
  <2>4. n \in {0, 1} /\ m \in {0, 1}
    BY <1>4
  <2> HIDE DEF s, p, n, m
  <2>. QED
    BY <1>3, <2>1, <2>2, <2>3, <2>4
<1>7. ASSUME NEW key \in Keys, Type(key)
      PROVE  KInv'
  <2> DEFINE code == S!encode_keyboard_char(key)
             v == Byte7(code)
             s == S!queue_keyboard(sage, code)
             p == host_uart_feed(port, key)
             t2 == Append(typed, v)
  <2>1. /\ sage' = s /\ port' = p /\ typed' = t2 /\ took' = took
        /\ Len(port.rx) + 1 < HOST_RX_CAPACITY
    BY <1>7 DEF Type
  <2>2. key \in 0..127
    BY BusesAssumption
  <2>3. code \in Int /\ code = apple_key_from_uart(key)
    BY <2>2, SameCode
  <2> HIDE DEF code
  <2>4. SageHolds(s.kbd, took.sage, t2)
    BY <1>1, <1>2, <2>3, SageTyped
  <2>5. PortHolds(p.kbd, p.rx, took.port, t2)
    <3>1. v = Byte7(apple_key_from_uart(key))
      BY <2>3
    <3>2. Len(port.rx) + 1 < HOST_RX_CAPACITY
      BY <2>1
    <3> HIDE DEF v, p
    <3>3. p = host_uart_feed(port, key)
      BY DEF p
    <3> DEFINE n == took.port
    <3>4. DOMAIN port = PortFields /\ PortHolds(port.kbd, port.rx, n, typed)
      BY <1>1, <1>2
    <3> HIDE DEF n
    <3>5. PortHolds(p.kbd, p.rx, n, Append(typed, v))
      BY <2>2, <3>1, <3>2, <3>3, <3>4, PortTyped
    <3>. QED
      BY <3>5 DEF n
  <2> HIDE DEF s, p, t2
  <2>. QED
    BY <1>1, <2>1, <2>4, <2>5 DEF KInv
<1>8. CASE PressReset
  <2>1. /\ sage' = S!reset_key(sage) /\ port' = port /\ typed' = typed
        /\ took' = [took EXCEPT !.sage = Len(typed)]
    BY <1>8 DEF PressReset
  <2>2. sage'.kbd = [reset |-> TRUE, queue |-> <<>>, latch |-> 0,
                     strobe |-> FALSE, valid |-> FALSE]
    BY <1>1, <2>1 DEF S!reset_key, S!no_key, SageFields
  <2>3. typed \in Seq(Int)
    BY <1>2 DEF PortHolds
  <2>4. SageHolds(sage'.kbd, Len(typed), typed)
    BY <2>2, <2>3, NoKeyHolds
  <2>5. took'.sage = Len(typed) /\ took'.port = took.port /\ took' \in [sage : Nat, port : Nat]
    BY <1>1, <2>1, <2>3
  <2>. QED
    BY <1>2, <2>1, <2>4, <2>5 DEF KInv
<1>9. CASE UNCHANGED vars
  BY <1>1, <1>2, <1>9 DEF vars, KInv
<1>. QED
  BY <1>5, <1>6, <1>7, <1>8, <1>9 DEF Next

-----------------------------------------------------------------------------
(* A sequence that has the elements of t from n + 1 on is the rest of t. *)
LEMMA RestOf ==
  ASSUME NEW t, t \in Seq(Int), NEW n, n \in 0..Len(t),
         NEW w, w \in Seq(Int), n + Len(w) = Len(t),
         \A i \in 1..Len(w) : w[i] = t[n + i]
  PROVE  w = SubSeq(t, n + 1, Len(t))
<1> DEFINE end == Len(t)
           rest == SubSeq(t, n + 1, end)
           long == Len(w)
<1>1. end \in Nat /\ long \in Nat /\ n \in 0..end /\ n + long = end
  OBVIOUS
<1>2. \A i \in (n + 1)..end : t[i] \in Int
  <2>1. \A i \in (n + 1)..end : i \in 1..end
    <3> HIDE DEF end
    <3>. QED
      BY <1>1
  <2>. QED
    BY <2>1
<1>3. n + 1 \in Int /\ end \in Int
  BY <1>1
<1>4. /\ rest \in Seq(Int) /\ Len(rest) = IF n + 1 <= end THEN end - (n + 1) + 1 ELSE 0
      /\ \A i \in 1..(end - (n + 1) + 1) : rest[i] = t[(n + 1) + i - 1]
  <2> HIDE DEF end
  <2>. QED
    BY <1>2, <1>3, SubSeqProperties
<1> HIDE DEF rest, end, long
<1>5. Len(rest) = long /\ end - (n + 1) + 1 = long
  BY <1>1, <1>4
<1>6. \A i \in 1..long : rest[i] = t[n + i]
  <2> SUFFICES ASSUME NEW i \in 1..long PROVE rest[i] = t[n + i]
    OBVIOUS
  <2>1. (n + 1) + i - 1 = n + i
    BY <1>1
  <2>. QED
    BY <1>4, <1>5, <2>1
<1>7. w \in Seq(Int) /\ Len(w) = long /\ \A i \in 1..long : w[i] = t[n + i]
  BY DEF long
<1>8. w \in Seq(Int) /\ rest \in Seq(Int) /\ Len(w) = Len(rest)
      /\ \A i \in 1..Len(w) : w[i] = rest[i]
  BY <1>4, <1>5, <1>6, <1>7
<1>9. w = rest
  BY <1>8, SeqEqual
<1>. QED
  BY <1>9 DEF rest, end

LEMMA SevenOf ==
  ASSUME NEW keys, keys \in Seq(Int)
  PROVE  /\ seven(keys) \in Seq(Int) /\ Len(seven(keys)) = Len(keys)
         /\ \A i \in 1..Len(keys) : seven(keys)[i] = Byte7(keys[i])
<1>1. DOMAIN keys = 1..Len(keys) /\ Len(keys) \in Nat
  OBVIOUS
<1>2. \A i \in 1..Len(keys) : Byte7(keys[i]) \in Int
  BY Byte7Type
<1>. QED
  BY <1>1, <1>2 DEF seven

LEMMA SageKeysWaiting ==
  ASSUME SageHolds(sage.kbd, took.sage, typed)
  PROVE  sage_waiting = yet(took.sage)
<1> DEFINE k == sage.kbd
           n == took.sage
           front == IF k.strobe THEN <<k.latch>> ELSE <<>>
           keys == front \o k.queue
           w == seven(keys)
<1>1. /\ k \in SageKbd /\ typed \in Seq(Int) /\ n \in 0..Len(typed)
      /\ n + latched(k) + Len(k.queue) = Len(typed)
      /\ k.strobe => Byte7(k.latch) = typed[n + 1]
      /\ \A i \in 1..Len(k.queue) : Byte7(k.queue[i]) = typed[n + latched(k) + i]
  BY DEF SageHolds, SageWaits
<1>2. k.queue \in Seq(Int) /\ k.latch \in Int
  BY <1>1 DEF SageKbd
<1>3. front \in Seq(Int) /\ Len(front) = latched(k) /\ (k.strobe => front[1] = k.latch)
  BY <1>2 DEF latched
<1> DEFINE ahead == latched(k)
           long == Len(k.queue)
<1>4. ahead \in {0, 1} /\ (ahead = 1 => k.strobe) /\ long \in Nat
  BY <1>2 DEF latched
<1> HIDE DEF front
<1>5. /\ keys \in Seq(Int) /\ Len(keys) = ahead + long
      /\ \A i \in 1..(ahead + long) : keys[i] = IF i <= ahead THEN front[i] ELSE k.queue[i - ahead]
  <2> DEFINE q == k.queue
             c == front \o q
  <2>1. front \in Seq(Int) /\ q \in Seq(Int) /\ Len(front) = ahead /\ Len(q) = long
    BY <1>2, <1>3
  <2> HIDE DEF q, ahead, long
  <2>2. /\ c \in Seq(Int) /\ Len(c) = Len(front) + Len(q)
        /\ \A i \in 1..(Len(front) + Len(q)) : c[i] = IF i <= Len(front) THEN front[i]
                                                      ELSE q[i - Len(front)]
    BY <2>1, ConcatProperties
  <2> HIDE DEF c
  <2>3. /\ c \in Seq(Int) /\ Len(c) = ahead + long
        /\ \A i \in 1..(ahead + long) : c[i] = IF i <= ahead THEN front[i] ELSE q[i - ahead]
    BY <2>1, <2>2
  <2>. QED
    BY <2>3 DEF c, q
<1>6. /\ w \in Seq(Int) /\ Len(w) = ahead + long
      /\ \A i \in 1..(ahead + long) : w[i] = Byte7(keys[i])
  BY <1>5, SevenOf
<1> HIDE DEF keys, w
<1>7. n \in 0..Len(typed) /\ n + Len(w) = Len(typed)
  <2> DEFINE end == Len(typed)
             all == Len(w)
  <2>1. n \in 0..end /\ n + ahead + long = end /\ all = ahead + long
    BY <1>1, <1>6
  <2> HIDE DEF end, all, n, ahead, long
  <2>2. n + all = end
    BY <1>4, <2>1
  <2>. QED
    BY <2>1, <2>2 DEF end, all
<1>8. \A i \in 1..Len(w) : w[i] = typed[n + i]
  <2> SUFFICES ASSUME NEW i \in 1..Len(w) PROVE w[i] = typed[n + i]
    OBVIOUS
  <2>1. i \in 1..(ahead + long) /\ w[i] = Byte7(keys[i])
    BY <1>6
  <2>2. CASE i <= ahead
    <3>1. i = 1 /\ ahead = 1
      <4> HIDE DEF ahead, long
      <4>. QED
        BY <1>4, <2>1, <2>2
    <3>2. keys[i] = k.latch
      BY <1>3, <1>4, <1>5, <2>1, <2>2, <3>1
    <3>. QED
      BY <1>1, <1>4, <2>1, <3>1, <3>2
  <2>3. CASE ~(i <= ahead)
    <3>1. i - ahead \in 1..long /\ n + ahead + (i - ahead) = n + i
      <4>1. n \in Int
        BY <1>1
      <4> HIDE DEF ahead, long, n
      <4>. QED
        BY <1>4, <2>1, <2>3, <4>1
    <3>2. keys[i] = k.queue[i - ahead]
      BY <1>5, <2>1, <2>3
    <3>3. Byte7(k.queue[i - ahead]) = typed[n + ahead + (i - ahead)]
      BY <1>1, <3>1
    <3>. QED
      BY <2>1, <3>1, <3>2, <3>3
  <2>. QED
    BY <2>2, <2>3
<1>9. w = SubSeq(typed, n + 1, Len(typed))
  BY <1>1, <1>6, <1>7, <1>8, RestOf
<1>. QED
  BY <1>9 DEF w, keys, front, sage_waiting, yet

LEMMA PortKeysWaiting ==
  ASSUME PortHolds(port.kbd, port.rx, took.port, typed)
  PROVE  port_waiting = yet(took.port)
<1> DEFINE keys == [i \in DOMAIN port.rx |-> apple_key_from_uart(port.rx[i])]
           n == took.port
           w == seven(keys)
<1>1. /\ port.rx \in Seq(0..127) /\ typed \in Seq(Int) /\ n \in 0..Len(typed)
      /\ n + Len(port.rx) = Len(typed)
      /\ \A i \in 1..Len(port.rx) : Byte7(apple_key_from_uart(port.rx[i])) = typed[n + i]
  BY DEF PortHolds
<1>2. \A i \in 1..Len(port.rx) : apple_key_from_uart(port.rx[i]) \in Int
  <2>1. \A i \in 1..Len(port.rx) : port.rx[i] \in 0..127
    BY <1>1, ElementOfSeq
  <2>. QED
    BY <2>1, SameCode
<1>3. DOMAIN port.rx = 1..Len(port.rx) /\ Len(port.rx) \in Nat
  BY <1>1
<1>4. /\ keys \in Seq(Int) /\ Len(keys) = Len(port.rx)
      /\ \A i \in 1..Len(port.rx) : keys[i] = apple_key_from_uart(port.rx[i])
  BY <1>2, <1>3
<1> HIDE DEF keys
<1>5. /\ w \in Seq(Int) /\ Len(w) = Len(port.rx)
      /\ \A i \in 1..Len(port.rx) : w[i] = Byte7(keys[i])
  BY <1>4, SevenOf
<1> HIDE DEF w
<1>6. n + Len(w) = Len(typed) /\ \A i \in 1..Len(w) : w[i] = typed[n + i]
  BY <1>1, <1>4, <1>5
<1>7. w = SubSeq(typed, n + 1, Len(typed))
  BY <1>1, <1>5, <1>6, RestOf
<1>. QED
  BY <1>7 DEF w, keys, port_waiting, yet

(* Whatever a guest does with the two keyboards, and whenever keys come,     *)
(* queue_keyboard, promote_keyboard and the two registers of the reference   *)
(* (bus/apple2bus.sage), and the ring, the poll and the registers of the     *)
(* port (avr/bus_apple2.c), give the keys typed in their order, each once.   *)
THEOREM KeysStayInOrder ==
  ASSUME KeyboardAlone
  PROVE  Spec => []KeysInOrder
<1>1. KInv => KeysInOrder
  <2> SUFFICES ASSUME KInv PROVE KeysInOrder
    OBVIOUS
  <2>1. /\ SageHolds(sage.kbd, took.sage, typed)
        /\ PortHolds(port.kbd, port.rx, took.port, typed)
    BY DEF KInv
  <2>2. sage_waiting = yet(took.sage) /\ port_waiting = yet(took.port)
    BY <2>1, SageKeysWaiting, PortKeysWaiting
  <2>3. ~port.kbd.strobe
    <3>1. port.kbd.strobe \in {FALSE}
      BY <2>1 DEF PortHolds, PortKbd
    <3>. QED
      BY <3>1, Zenon
  <2>4. /\ sage.kbd.valid /\ ~sage.kbd.strobe => sage.kbd.latch = typed[took.sage]
        /\ sage.kbd.queue # <<>> => sage.kbd.valid
        /\ port.kbd.valid => port.kbd.latch = typed[took.port]
    BY <2>1 DEF SageHolds, SageWaits, PortHolds
  <2>. QED
    BY <2>2, <2>3, <2>4 DEF KeysInOrder
<1>2. SInv /\ KInv /\ [Next]_vars => KInv'
  BY KeysStep
<1>. QED
  BY <1>1, <1>2, KeysInit, ScreensInvariant, PTL DEF Spec

-----------------------------------------------------------------------------
(* Two keyboards in step: until RESET a key is valid on the port as soon as  *)
(* it was acknowledged on the reference, and then the latches are the same.  *)
Together(k, l) ==
  /\ ~k.reset
  /\ l.valid <=> (k.valid /\ ~k.strobe)
  /\ ~k.strobe => k.latch = l.latch

(* The two keyboards of the same keys t, of which n were taken *)
Twins(s, p, n, t) ==
  /\ DOMAIN s = SageFields /\ DOMAIN p = PortFields
  /\ SageHolds(s.kbd, n, t) /\ PortHolds(p.kbd, p.rx, n, t)
  /\ Together(s.kbd, p.kbd)

LEMMA PortNotStrobed ==
  ASSUME NEW k, k \in PortKbd
  PROVE  ~k.strobe
<1>1. k.strobe \in {FALSE}
  BY DEF PortKbd
<1>. QED
  BY <1>1, Zenon

(* A key waits on either bus or on neither. *)
LEMMA TwinsWait ==
  ASSUME NEW s, NEW p, NEW n, NEW t, Twins(s, p, n, t)
  PROVE  s.kbd.strobe <=> (~p.kbd.valid /\ p.rx # <<>>)
<1> DEFINE queue == s.kbd.queue
           long == Len(queue)
           left == Len(p.rx)
           end == Len(t)
           ahead == latched(s.kbd)
<1>1. /\ s.kbd \in SageKbd /\ t \in Seq(Int) /\ n \in 0..end /\ n + ahead + long = end
      /\ (queue # <<>> => s.kbd.valid) /\ (s.kbd.strobe => s.kbd.valid)
      /\ (p.kbd.valid <=> (s.kbd.valid /\ ~s.kbd.strobe))
      /\ p.rx \in Seq(0..127) /\ n + left = end
  BY DEF Twins, SageHolds, SageWaits, PortHolds, Together
<1>2. queue \in Seq(Int)
  BY <1>1 DEF SageKbd
<1>3. long \in Nat /\ left \in Nat /\ end \in Nat
  BY <1>1, <1>2
<1>4. /\ p.rx = <<>> <=> left = 0
      /\ queue = <<>> <=> long = 0
  BY <1>1, <1>2
<1>5. ahead = IF s.kbd.strobe THEN 1 ELSE 0
  BY DEF latched
<1> HIDE DEF queue, long, left, end, ahead
<1>6. left = ahead + long
  BY <1>1, <1>3, <1>5
<1>7. CASE s.kbd.strobe
  BY <1>1, <1>3, <1>4, <1>5, <1>6, <1>7
<1>8. CASE ~s.kbd.strobe
  <2>1. left = long
    BY <1>3, <1>5, <1>6, <1>8
  <2>. QED
    BY <1>1, <1>4, <1>8, <2>1
<1>. QED
  BY <1>7, <1>8

(* The strobe reads the same on both, and leaves them in step. *)
LEMMA TwinsStrobe ==
  ASSUME NEW s, NEW p, NEW n, NEW t, Twins(s, p, n, t),
         NEW r, r = S!read_keyboard_strobe(s), NEW q, q = keyboard_read_strobe(p)
  PROVE  r.v = q.v /\ Together(r.bus.kbd, q.bus.kbd)
<1>1. /\ DOMAIN s = SageFields /\ DOMAIN p = PortFields
      /\ SageHolds(s.kbd, n, t) /\ PortHolds(p.kbd, p.rx, n, t)
      /\ Together(s.kbd, p.kbd) /\ ~s.kbd.reset
  BY DEF Twins, Together
<1>2. s.kbd \in SageKbd /\ ~p.kbd.strobe /\ (s.kbd.queue # <<>> => s.kbd.valid)
  BY <1>1, PortNotStrobed DEF SageHolds, SageWaits, PortHolds
<1>3. SageHolds(r.bus.kbd, n + one(\hC010, r.v), t)
  BY <1>1, SageStrobe
<1>4. PortHolds(q.bus.kbd, q.bus.rx, n + one(\hC010, q.v), t)
  BY <1>1, PortStrobe
<1>5. CASE s.kbd.strobe
  <2>1. ~p.kbd.valid /\ p.rx # <<>>
    BY <1>5, TwinsWait
  <2>2. r = S!Got(128, S!acknowledged(s))
    BY <1>1, <1>5 DEF S!read_keyboard_strobe
  <2>3. r.v = 128 /\ r.bus = S!acknowledged(s)
    BY <2>2 DEF S!Got
  <2>4. /\ S!acknowledged(s).kbd.reset = s.kbd.reset
        /\ S!acknowledged(s).kbd.valid = s.kbd.valid
        /\ ~S!acknowledged(s).kbd.strobe
    BY <1>1, <1>2 DEF S!acknowledged, SageFields, SageKbd
  <2>5. s.kbd.valid
    BY <1>1, <1>5 DEF SageHolds, SageWaits
  <2>6. q.v = 128 /\ q.bus.kbd.valid
    <3> DEFINE polled == keyboard_poll_uart(p)
    <3>1. polled.kbd.strobe /\ polled.kbd.valid /\ DOMAIN polled = PortFields
          /\ DOMAIN polled.kbd = {"latch", "strobe", "valid"}
      BY <1>1, <1>2, <2>1 DEF keyboard_poll_uart, uart_rx_ready, uart_rx, Got, PortFields
    <3>2. q = IF polled.kbd.strobe
              THEN Got(128, [polled EXCEPT !.kbd.strobe = FALSE, !.kbd.latch = Byte7(@)])
              ELSE Got(0, polled)
      BY DEF keyboard_read_strobe
    <3> HIDE DEF polled
    <3> DEFINE b1 == [polled EXCEPT !.kbd.strobe = FALSE]
               b2 == [b1 EXCEPT !.kbd.latch = Byte7(@)]
    <3>3. q = Got(128, b2)
      BY <3>1, <3>2
    <3>4. b1.kbd.valid /\ DOMAIN b1 = PortFields /\ DOMAIN b1.kbd = {"latch", "strobe", "valid"}
      BY <3>1 DEF PortFields
    <3> HIDE DEF b1
    <3>5. b2.kbd.valid
      BY <3>4 DEF PortFields
    <3> HIDE DEF b2
    <3>. QED
      BY <3>3, <3>5 DEF Got
  <2>7. /\ r.bus.kbd.latch = t[n + 1] /\ q.bus.kbd.latch = t[n + 1]
    BY <1>3, <1>4, <2>3, <2>4, <2>5, <2>6 DEF one, SageHolds, SageWaits, PortHolds
  <2>. QED
    BY <1>1, <2>3, <2>4, <2>5, <2>6, <2>7 DEF Together
<1>6. CASE ~s.kbd.strobe
  <2>1. p.kbd.valid \/ p.rx = <<>>
    BY <1>6, TwinsWait
  <2>2. r = S!Got(0, s)
    BY <1>1, <1>2, <1>6 DEF S!read_keyboard_strobe
  <2>3. keyboard_poll_uart(p) = p
    BY <2>1 DEF keyboard_poll_uart, uart_rx_ready
  <2>4. q = Got(0, p)
    BY <1>2, <2>3 DEF keyboard_read_strobe
  <2>. QED
    BY <1>1, <2>2, <2>4 DEF Got, S!Got
<1>. QED
  BY <1>5, <1>6

(* So does the latch, but for a key the reference shows early. *)
LEMMA TwinsLatch ==
  ASSUME NEW s, NEW p, NEW n, NEW t, Twins(s, p, n, t),
         NEW r, r = S!read_keyboard_latch(s), NEW q, q = keyboard_read_latch(p)
  PROVE  /\ r.v = q.v \/ (s.kbd.strobe /\ ~p.kbd.valid)
         /\ Together(r.bus.kbd, q.bus.kbd)
<1>1. /\ DOMAIN s = SageFields /\ DOMAIN p = PortFields
      /\ s.kbd \in SageKbd /\ p.kbd \in PortKbd /\ ~s.kbd.reset
      /\ Together(s.kbd, p.kbd)
      /\ p.kbd.valid <=> (s.kbd.valid /\ ~s.kbd.strobe)
      /\ ~s.kbd.strobe => s.kbd.latch = p.kbd.latch
  BY DEF Twins, Together, SageHolds, SageWaits, PortHolds
<1>2. ~p.kbd.strobe
  BY <1>1, PortNotStrobed
<1>3. CASE ~s.kbd.strobe /\ s.kbd.valid
  <2> DEFINE taken == [s EXCEPT !.kbd.valid = FALSE]
             read == [p EXCEPT !.kbd.valid = FALSE]
  <2>1. r = S!Got(S!Byte7(s.kbd.latch),
                  IF s.kbd.queue # <<>> THEN S!promote_keyboard(taken) ELSE taken)
    BY <1>1, <1>3 DEF S!read_keyboard_latch
  <2>2. q = Got(Byte7(p.kbd.latch), read)
    BY <1>1, <1>2, <1>3 DEF keyboard_read_latch
  <2>3. /\ taken.kbd = [s.kbd EXCEPT !.valid = FALSE] /\ DOMAIN taken = SageFields
        /\ read.kbd = [p.kbd EXCEPT !.valid = FALSE]
    BY <1>1 DEF SageFields, PortFields
  <2> HIDE DEF taken, read
  <2>4. /\ ~taken.kbd.reset /\ ~taken.kbd.valid /\ ~taken.kbd.strobe
        /\ taken.kbd.latch = s.kbd.latch /\ taken.kbd \in SageKbd
    BY <1>1, <1>3, <2>3 DEF SageKbd
  <2>5. ~read.kbd.valid /\ read.kbd.latch = p.kbd.latch
    BY <1>1, <2>3 DEF PortKbd
  <2>6. r.v = q.v
    <3>1. s.kbd.latch = p.kbd.latch /\ s.kbd.latch \in Int
      BY <1>1, <1>3 DEF SageKbd
    <3>2. r.v = S!Byte7(s.kbd.latch) /\ q.v = Byte7(p.kbd.latch)
      BY <2>1, <2>2 DEF Got, S!Got
    <3>. QED
      BY <3>1, <3>2, Byte7Type
  <2>7. q.bus = read
    BY <2>2 DEF Got
  <2>8. CASE s.kbd.queue # <<>>
    <3>1. r.bus = S!promote_keyboard(taken)
      BY <2>1, <2>8 DEF S!Got
    <3>2. r.bus.kbd = [taken.kbd EXCEPT !.latch = Head(taken.kbd.queue), !.queue = Tail(@),
                                        !.strobe = TRUE, !.valid = TRUE]
      BY <2>3, <3>1, PromotedIs
    <3>3. r.bus.kbd.strobe /\ ~r.bus.kbd.reset
      BY <2>4, <3>2 DEF SageKbd
    <3>. QED
      BY <2>5, <2>6, <2>7, <3>3 DEF Together
  <2>9. CASE s.kbd.queue = <<>>
    <3>1. r.bus = taken
      BY <2>1, <2>9 DEF S!Got
    <3>2. taken.kbd.latch = read.kbd.latch
      BY <1>1, <1>3, <2>4, <2>5
    <3>. QED
      BY <2>4, <2>5, <2>6, <2>7, <3>1, <3>2 DEF Together
  <2>. QED
    BY <2>8, <2>9
<1>4. CASE ~(~s.kbd.strobe /\ s.kbd.valid)
  <2>1. r = S!Got(s.kbd.latch, s)
    BY <1>1, <1>4 DEF S!read_keyboard_latch
  <2>2. q = Got(p.kbd.latch, p)
    BY <1>1, <1>4 DEF keyboard_read_latch
  <2>3. r.v = s.kbd.latch /\ r.bus = s /\ q.v = p.kbd.latch /\ q.bus = p
    BY <2>1, <2>2 DEF Got, S!Got
  <2>. QED
    BY <1>1, <1>4, <2>3
<1>. QED
  BY <1>3, <1>4

LEMMA TwinsTyped ==
  ASSUME NEW s, NEW p, NEW n, NEW t, Twins(s, p, n, t), NEW v, NEW key,
         NEW c, c = S!queue_keyboard(s, v), NEW d, d = host_uart_feed(p, key)
  PROVE  Together(c.kbd, d.kbd)
<1> DEFINE queued == [s EXCEPT !.kbd.queue = Append(@, v)]
<1>1. /\ DOMAIN s = SageFields /\ DOMAIN p = PortFields
      /\ s.kbd \in SageKbd /\ ~s.kbd.reset /\ Together(s.kbd, p.kbd)
      /\ p.kbd.valid <=> (s.kbd.valid /\ ~s.kbd.strobe)
  BY DEF Twins, Together, SageHolds, SageWaits
<1>2. c = IF ~s.kbd.strobe /\ ~s.kbd.valid THEN S!promote_keyboard(queued) ELSE queued
  BY DEF S!queue_keyboard
<1>3. queued.kbd = [s.kbd EXCEPT !.queue = Append(@, v)] /\ DOMAIN queued = SageFields
  BY <1>1 DEF SageFields
<1>4. d.kbd = p.kbd
  BY <1>1 DEF host_uart_feed, PortFields
<1> HIDE DEF queued
<1>5. /\ queued.kbd.reset = s.kbd.reset /\ queued.kbd.valid = s.kbd.valid
      /\ queued.kbd.strobe = s.kbd.strobe /\ queued.kbd.latch = s.kbd.latch
      /\ DOMAIN queued.kbd = DOMAIN s.kbd
  BY <1>1, <1>3 DEF SageKbd
<1>6. CASE ~s.kbd.strobe /\ ~s.kbd.valid
  <2>1. c.kbd = [queued.kbd EXCEPT !.latch = Head(queued.kbd.queue), !.queue = Tail(@),
                                   !.strobe = TRUE, !.valid = TRUE]
    BY <1>2, <1>3, <1>6, PromotedIs
  <2>2. c.kbd.strobe /\ c.kbd.reset = queued.kbd.reset
    BY <1>1, <1>5, <2>1 DEF SageKbd
  <2>. QED
    BY <1>1, <1>4, <1>5, <1>6, <2>2 DEF Together
<1>7. CASE s.kbd.strobe \/ s.kbd.valid
  BY <1>1, <1>2, <1>4, <1>5, <1>7 DEF Together
<1>. QED
  BY <1>6, <1>7

-----------------------------------------------------------------------------
TInv == ~was_reset => took.sage = took.port /\ Together(sage.kbd, port.kbd)

LEMMA TogetherInit == Init => TInv
<1> SUFFICES ASSUME Init PROVE took.sage = took.port /\ Together(sage.kbd, port.kbd)
  BY DEF TInv
<1>1. took.sage = took.port
  BY DEF Init
<1>2. port.kbd = [latch |-> 0, strobe |-> FALSE, valid |-> FALSE]
  BY DEF Init, bus_reset
<1>3. sage.kbd = [reset |-> FALSE, queue |-> <<>>, latch |-> 0,
                  strobe |-> FALSE, valid |-> FALSE]
  BY DEF Init, S!PowerOn, S!no_key
<1>. QED
  BY <1>1, <1>2, <1>3 DEF Together

LEMMA TogetherRead ==
  ASSUME NEW s, NEW p, NEW n, NEW t, Twins(s, p, n, t), NEW addr \in Int, addr # \hC081,
         NEW r, r = S!read8(s, addr), NEW q, q = bus_read(p, addr)
  PROVE  Together(r.bus.kbd, q.bus.kbd) /\ one(addr, r.v) = one(addr, q.v)
<1>1. SageReadArms(s, addr, r) /\ PortReadArms(p, addr, q)
  BY SageReadAt, PortReadAt
<1>2. CASE addr = \hC010
  <2>1. r = S!read_keyboard_strobe(s) /\ q = keyboard_read_strobe(p)
    BY <1>1, <1>2 DEF SageReadArms, PortReadArms
  <2>2. r.v = q.v /\ Together(r.bus.kbd, q.bus.kbd)
    BY <2>1, TwinsStrobe
  <2>. QED
    BY <2>2
<1>3. CASE addr = \hC000
  <2>1. r = S!read_keyboard_latch(s) /\ q = keyboard_read_latch(p)
    BY <1>1, <1>3 DEF SageReadArms, PortReadArms
  <2>2. Together(r.bus.kbd, q.bus.kbd)
    BY <2>1, TwinsLatch
  <2>. QED
    BY <1>3, <2>2 DEF one
<1>4. CASE addr # \hC010 /\ addr # \hC000
  <2>1. r.bus.kbd = s.kbd
    BY <1>4, SageReadKeeps DEF Twins
  <2>2. q.bus.kbd = p.kbd
    BY <1>4, PortReadKeeps DEF Twins, SameKeys
  <2>. QED
    BY <1>4, <2>1, <2>2 DEF Twins, one
<1>. QED
  BY <1>2, <1>3, <1>4

LEMMA TogetherWrite ==
  ASSUME NEW s, NEW p, NEW n, NEW t, Twins(s, p, n, t), NEW addr \in Int, addr # \hC081, NEW v,
         NEW c, c = S!write8(s, addr, v), NEW d, d = bus_write(p, addr, v)
  PROVE  Together(c.kbd, d.kbd)
<1>1. SageWriteArms(s, addr, v, c) /\ PortWriteArms(p, addr, v, d)
  BY SageWriteAt, PortWriteAt
<1>2. CASE addr = \hC010
  <2> DEFINE r == S!read_keyboard_strobe(s)
             q == keyboard_read_strobe(p)
  <2>1. c = r.bus /\ d = q.bus
    BY <1>1, <1>2 DEF SageWriteArms, PortWriteArms
  <2>2. Together(r.bus.kbd, q.bus.kbd)
    BY TwinsStrobe
  <2> HIDE DEF r, q
  <2>. QED
    BY <2>1, <2>2
<1>3. CASE addr # \hC010
  <2>1. ~s.kbd.reset
    BY DEF Twins, Together
  <2>2. c.kbd = s.kbd
    BY <1>3, <2>1, SageWriteKeeps DEF Twins
  <2>3. d.kbd = p.kbd
    BY <1>3, PortWriteKeeps DEF Twins, SameKeys
  <2>. QED
    BY <2>2, <2>3 DEF Twins
<1>. QED
  BY <1>2, <1>3

LEMMA TogetherStep ==
  ASSUME KeyboardAlone, SInv, KInv, TInv, [Next]_vars
  PROVE  TInv'
<1> SUFFICES ASSUME ~was_reset' PROVE TInv'
  BY DEF TInv
<1> DEFINE n == took.sage
<1>1. /\ DOMAIN port = PortFields /\ DOMAIN sage = SageFields
      /\ program \subseteq Int /\ \hC081 \notin program
      /\ took \in [sage : Nat, port : Nat]
      /\ SageHolds(sage.kbd, took.sage, typed)
      /\ PortHolds(port.kbd, port.rx, took.port, typed)
  BY AddressesAreNumbers DEF SInv, Screens, KeyboardAlone, KInv
<1>2. ~PressReset
  BY DEF PressReset
<1>3. was_reset' = was_reset
  BY <1>2 DEF Next, vars, Read, Write, Type
<1>4. took.sage = took.port /\ Twins(sage, port, took.sage, typed)
  BY <1>1, <1>3 DEF TInv, Twins
<1>5. ASSUME NEW s, NEW p, NEW i, sage' = s, port' = p,
             took' = [sage |-> took.sage + i, port |-> took.port + i],
             Together(s.kbd, p.kbd)
      PROVE  TInv'
  BY <1>4, <1>5 DEF TInv
<1>6. ASSUME NEW addr \in program, Read(addr)
      PROVE  TInv'
  <2> DEFINE r == S!read8(sage, addr)
             q == bus_read(port, addr)
             s == r.bus
             p == q.bus
             i == one(addr, r.v)
             j == one(addr, q.v)
  <2>1. /\ sage' = s /\ port' = p
        /\ took' = [sage |-> took.sage + i, port |-> took.port + j]
    BY <1>6 DEF Read, Taking, one
  <2>2. Together(s.kbd, p.kbd) /\ i = j
    BY <1>1, <1>4, TogetherRead
  <2> HIDE DEF s, p, i, j
  <2>. QED
    BY <1>5, <2>1, <2>2
<1>7. ASSUME NEW addr \in program, NEW v \in Values, Write(addr, v)
      PROVE  TInv'
  <2> DEFINE s == S!write8(sage, addr, v)
             p == bus_write(port, addr, v)
             r == S!read8(sage, addr)
             q == bus_read(port, addr)
             i == one(addr, r.v)
             j == one(addr, q.v)
  <2>1. /\ sage' = s /\ port' = p
        /\ took' = [sage |-> took.sage + i, port |-> took.port + j]
    BY <1>7 DEF Write, Taking, one
  <2>2. i = j
    BY <1>1, <1>4, TogetherRead
  <2>3. Together(s.kbd, p.kbd)
    BY <1>1, <1>4, TogetherWrite
  <2> HIDE DEF s, p, i, j
  <2>. QED
    BY <1>5, <2>1, <2>2, <2>3
<1>8. ASSUME NEW key \in Keys, Type(key)
      PROVE  TInv'
  <2> DEFINE code == S!encode_keyboard_char(key)
             s == S!queue_keyboard(sage, code)
             p == host_uart_feed(port, key)
  <2>1. sage' = s /\ port' = p /\ took' = took
    BY <1>8 DEF Type
  <2> HIDE DEF code
  <2>2. Together(s.kbd, p.kbd)
    BY <1>4, TwinsTyped
  <2> HIDE DEF s, p
  <2>. QED
    BY <1>4, <2>1, <2>2 DEF TInv
<1>9. CASE UNCHANGED vars
  BY <1>4, <1>9 DEF vars, TInv, Twins
<1>. QED
  BY <1>2, <1>6, <1>7, <1>8, <1>9 DEF Next

-----------------------------------------------------------------------------
(* What ReadsAgree needs of a guest: that it keeps to the registers both     *)
(* buses have.  Only the port has a UART at $C081, only the reference a      *)
(* write protection at $C0EB, and of the card the port has the first 128     *)
(* bytes of each bank and the first 256 of the shared part.                  *)
CommonGround ==
  \A used \in Programs :
    /\ \hC081 \notin used /\ \hC0EB \notin used
    /\ \A addr \in used : \hD000 <= addr /\ addr < \hF800 =>
                            addr <= \hD07F \/ (\hE000 <= addr /\ addr <= \hE0FF)

(* Where main memory is; its bounds are named because the provers take a      *)
(* range of numerals for the set of its members. *)
LEMMA MemoryRange == \A n \in Int : n \in main_memory <=> 0 <= n /\ n < \hC000
<1> DEFINE first == 0
           last == \hBFFF
<1>1. main_memory = first..last
  BY DEF main_memory
<1>2. first \in Int /\ last \in Int
  OBVIOUS
<1>3. \A n \in Int : first <= n /\ n <= last <=> 0 <= n /\ n < \hC000
  OBVIOUS
<1> HIDE DEF first, last
<1>4. \A n \in Int : n \in main_memory <=> first <= n /\ n <= last
  BY <1>1, <1>2
<1>. QED
  BY <1>3, <1>4

LEMMA SameRom == S!APPLE2ROM = APPLE2ROM
BY DEF APPLE2ROM, S!APPLE2ROM, LineEditor, S!LineEditor, Autostart, S!Autostart,
       Vectors, S!Vectors

LEMMA CellsRead ==
  ASSUME NEW p, NEW s, Agree(p, s), NEW addr \in card_cells, addr \in Int
  PROVE  language_card_read(p, addr) = S!At(s.card_ram, S!language_card_ram_offset(s, addr))
<1> DEFINE bank == s.card.bank
           c == c_offset(bank, addr)
           o == s_offset(bank, addr)
<1>1. bank \in {1, 2} /\ p.card = s.card
  BY DEF Agree, CardStates
<1>2. At(p.card_ram, c) = At(s.card_ram, o)
  BY <1>1 DEF Agree, SameBytes
<1>3. language_card_offset(p, addr) = c /\ S!language_card_ram_offset(s, addr) = o
  <2>1. /\ language_card_offset(p, addr) = c_offset(p.card.bank, addr)
        /\ S!language_card_ram_offset(s, addr) = s_offset(s.card.bank, addr)
    BY OffsetOfBank
  <2>. QED
    BY <1>1, <2>1
<1>4. \/ \hD000 <= addr /\ addr <= \hD07F
      \/ \hE000 <= addr /\ addr <= \hE0FF
  BY DEF card_cells
<1>5. c # Uncovered
  <2>1. /\ \hD000 <= addr /\ addr <= \hD07F => c = IF bank = 1 THEN 0 ELSE 128
        /\ \hE000 <= addr /\ addr <= \hE1FF => c = 256 + (addr - \hE000)
    BY <1>1, PortCell
  <2> HIDE DEF c, bank
  <2>. QED
    BY <1>4, <2>1 DEF Uncovered
<1> HIDE DEF c, o
<1>6. language_card_read(p, addr) = At(p.card_ram, c)
  BY <1>3, <1>5 DEF language_card_read
<1>. QED
  BY <1>2, <1>3, <1>6 DEF At, S!At

LEMMA SameRead ==
  ASSUME CommonGround, program \in Programs, NEW addr \in registers,
         NEW s, NEW p, NEW n, NEW t, Twins(s, p, n, t), Screens(p, s), Agree(p, s),
         NEW r, r = S!read8(s, addr), NEW q, q = bus_read(p, addr)
  PROVE  r.v = q.v \/ (addr = \hC000 /\ s.kbd.strobe /\ ~p.kbd.valid)
<1>1. addr \in program /\ addr \notin main_memory
  BY DEF registers
<1>2. addr \in Int /\ addr >= \hC000
  <2>1. addr \in Int /\ addr >= 0
    BY <1>1, AddressesAreNumbers
  <2>. QED
    BY <1>1, <2>1, MemoryRange
<1>0. /\ addr # \hC081 /\ addr # \hC0EB
      /\ addr >= \hD000 /\ addr < \hF800 => addr \in card_cells
  <2>1. /\ addr # \hC081 /\ addr # \hC0EB
        /\ addr >= \hD000 /\ addr < \hF800 =>
             addr <= \hD07F \/ (\hE000 <= addr /\ addr <= \hE0FF)
    BY <1>1 DEF CommonGround
  <2>. QED
    BY <1>1, <1>2, <2>1 DEF card_cells
<1>3. SageReadArms(s, addr, r) /\ PortReadArms(p, addr, q)
  BY <1>2, SageReadAt, PortReadAt
<1>4. \A v, b : Got(v, b).v = v /\ S!Got(v, b).v = v
  BY DEF Got, S!Got
<1>5. CASE addr = \hC000
  <2>1. r = S!read_keyboard_latch(s) /\ q = keyboard_read_latch(p)
    BY <1>3, <1>5 DEF SageReadArms, PortReadArms
  <2>. QED
    BY <1>5, <2>1, TwinsLatch
<1>6. CASE addr = \hC010
  <2>1. r = S!read_keyboard_strobe(s) /\ q = keyboard_read_strobe(p)
    BY <1>3, <1>6 DEF SageReadArms, PortReadArms
  <2>. QED
    BY <2>1, TwinsStrobe
<1>7. CASE addr = \hC030
  <2>1. /\ r.v = S!High(S!toggle_speaker(s).speaker_on)
        /\ q.v = High(toggle_speaker(p).speaker_on)
    BY <1>3, <1>4, <1>7 DEF SageReadArms, PortReadArms
  <2>2. S!toggle_speaker(s).speaker_on = toggle_speaker(p).speaker_on
    BY DEF Screens, S!toggle_speaker, toggle_speaker, PortFields, SageFields
  <2>. QED
    BY <2>1, <2>2 DEF High, S!High
<1>8. CASE addr \in VideoSwitches
  <2>1. r.v = S!High(addr - \hC050 \in s.video.switches)
    BY <1>3, <1>4, <1>8 DEF SageReadArms
  <2>2. q.v = High(addr - \hC050 \in p.video.switches)
    BY <1>3, <1>4, <1>8 DEF PortReadArms
  <2>3. p.video.switches = s.video.switches
    BY DEF Screens
  <2>. QED
    BY <2>1, <2>2, <2>3 DEF High, S!High
<1>9. CASE addr \in CardSwitches
  <2>1. r = S!Got(0, S!language_card_soft_switch(s, addr, FALSE))
    BY <1>3, <1>9 DEF SageReadArms
  <2>2. q = Got(0, language_card_switch(p, addr, FALSE))
    BY <1>3, <1>9 DEF PortReadArms
  <2>. QED
    BY <2>1, <2>2 DEF Got, S!Got
<1>10. CASE addr >= \hD000
  <2>1. r.v = (IF addr < \hF800 /\ s.card.read_ram
               THEN S!At(s.card_ram, S!language_card_ram_offset(s, addr))
               ELSE S!APPLE2ROM[addr - \hD000])
    BY <1>3, <1>4, <1>10 DEF SageReadArms
  <2>2. q.v = (IF addr < \hF800 /\ p.card.read_ram THEN language_card_read(p, addr)
               ELSE read_rom(addr))
    BY <1>3, <1>4, <1>10 DEF PortReadArms
  <2>3. p.card.read_ram = s.card.read_ram
    BY DEF Agree
  <2>4. read_rom(addr) = S!APPLE2ROM[addr - \hD000]
    BY SameRom DEF read_rom
  <2>5. addr < \hF800 =>
          language_card_read(p, addr) = S!At(s.card_ram, S!language_card_ram_offset(s, addr))
    <3> SUFFICES ASSUME addr < \hF800
                 PROVE  language_card_read(p, addr) =
                          S!At(s.card_ram, S!language_card_ram_offset(s, addr))
      OBVIOUS
    <3>1. addr \in card_cells /\ addr \in Int
      BY <1>0, <1>2, <1>10
    <3>. QED
      BY <3>1, CellsRead
  <2>. QED
    BY <2>1, <2>2, <2>3, <2>4, <2>5
<1>11. CASE InDevices(addr) /\ ~SageRegister(addr)
  <2>1. r.v = 0
    BY <1>3, <1>4, <1>11 DEF SageReadArms
  <2>2. ~PortRegister(addr) /\ addr >= \h0400 /\ addr < \hD000
    BY <1>0, <1>2, <1>11 DEF InDevices, SageRegister, PortRegister
  <2>3. q.v = 0
    BY <1>3, <1>4, <2>2 DEF PortReadArms
  <2>. QED
    BY <2>1, <2>3
<1>. QED
  BY <1>0, <1>1, <1>2, <1>5, <1>6, <1>7, <1>8, <1>9, <1>10, <1>11 DEF InDevices, SageRegister

(* Until RESET is pressed, a guest that keeps to the registers of both buses *)
(* reads the same from read8 of bus/apple2bus.sage and from bus_read of      *)
(* avr/bus_apple2.c, at any of its addresses and after any sequence of       *)
(* accesses and keys: the two keyboards, cards, switches and speakers cannot *)
(* be told apart, but for a key the reference shows before it is             *)
(* acknowledged.                                                             *)
THEOREM BusesReadAlike ==
  ASSUME OneCellPerBank, CommonGround
  PROVE  Spec => []ReadsAgree
<1>1. KeyboardAlone
  BY DEF CommonGround, KeyboardAlone
<1>2. ASSUME SInv, KInv, TInv, IInv
      PROVE  ReadsAgree
  <2> SUFFICES ASSUME ~was_reset, NEW addr \in registers
               PROVE  LET s == S!read8(sage, addr).v
                          p == bus_read(port, addr).v
                      IN s = p \/ (addr = \hC000 /\ sage.kbd.strobe /\ ~port.kbd.valid)
    BY DEF ReadsAgree
  <2>1. Twins(sage, port, took.sage, typed)
    BY <1>2 DEF SInv, KInv, TInv, Screens, Twins
  <2>2. Screens(port, sage) /\ Agree(port, sage) /\ program \in Programs
    BY <1>2 DEF SInv, IInv
  <2>. QED
    BY <2>1, <2>2, SameRead
<1>3. SInv /\ KInv /\ [Next]_vars => KInv'
  BY <1>1, KeysStep
<1>4. SInv /\ KInv /\ TInv /\ [Next]_vars => TInv'
  BY <1>1, TogetherStep
<1>5. IInv /\ [Next]_vars => IInv'
  BY CardStep
<1>. QED
  BY <1>2, <1>3, <1>4, <1>5, KeysInit, TogetherInit, CardInit, ScreensInvariant, PTL DEF Spec

=============================================================================
