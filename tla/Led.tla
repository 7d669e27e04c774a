--------------------------------- MODULE Led ---------------------------------
(***************************************************************************)
(* The status LEDs of the AVR firmware: avr/led.c, and the main loop of    *)
(* avr/main.c that drives it.  Two actors share the blink sequencer: the   *)
(* watchdog interrupt, one beat every 125 ms, and the main loop, whose     *)
(* stores the interrupt may split at any point.  Interrupts are off until  *)
(* the end of boot, which is one step here.                                *)
(*                                                                         *)
(* With one LED the pin shows blink patterns; with several, led_state      *)
(* shows one stage per LED.  What several LEDs show is taken to be         *)
(* led_state: their pins follow it at the next beat.                       *)
(***************************************************************************)
EXTENDS Naturals, Sequences

CONSTANTS
  LedCounts, \* how many LEDs a build may have wired
  MaxResets  \* bound: resets after power on

ASSUME LedAssumption == LedCounts \subseteq 1..4 /\ MaxResets \in Nat

BEAT_PULSE_SHORT == 2
BEAT_PULSE_LONG == 6
BEAT_BETWEEN == 2
BEAT_GROUP_GAP == 8

POWER == 0   UART == 1   CPU == 2   MONITOR == 3
Stages == POWER..MONITOR

NONE == 0   BROWNOUT == 1   WATCHDOG == 2   EXTERNAL == 3
UART_OVERRUN == 4   UART_FRAMING == 5
Faults == NONE..UART_FRAMING

\* The reset sources of the MCU, and the fault led_init makes of each.
Causes == {"power on", "brownout", "watchdog", "external"}

VARIABLES
  seq,          \* the sequencer: the seq_ variables of led.c and the pin
  todo,         \* stores of led_arm and led_idle the main loop has still to make
  interrupted,  \* a beat has fallen among the stores now being made
  pc,           \* where the main loop is
  led_n,        \* LEDs wired, fixed by the build
  led_state, latched, monitor_seen,
  mcusr,        \* reset flags
  frames, dor,  \* UART receiver: framing errors of the waiting bytes, overrun
  resets,
  shown, repeated  \* history: pulses shown in this group; it is a repetition

sequencer == <<seq, todo, interrupted, shown, repeated>>
serial == <<frames, dor>>
reset == <<led_n, mcusr, resets>>
vars == <<sequencer, pc, led_state, latched, monitor_seen, serial, reset>>

-----------------------------------------------------------------------------
Single == led_n = 1

Set(f, v) == [field |-> f, value |-> v]

\* Mutants: one pulse too many; no reload of the beats left lit.
led_arm_extra(beats, count, repeat) ==
  << Set("mode", "pattern"), Set("beats", beats), Set("left", count + 1),
     Set("repeat", repeat), Set("pulse", beats), Set("gap", 0),
     Set("phase", "pulse"), Set("paint", 0) >>
led_arm_stale(beats, count, repeat) ==
  << Set("mode", "pattern"), Set("beats", beats), Set("left", count),
     Set("repeat", repeat), Set("gap", 0), Set("phase", "pulse"), Set("paint", 0) >>

\* The stores of led_arm, in order; the paint at the end reads the phase and
\* then writes the pin.
led_arm(beats, count, repeat) ==
  << Set("mode", "pattern"), Set("beats", beats), Set("left", count),
     Set("repeat", repeat), Set("pulse", beats), Set("gap", 0),
     Set("phase", "pulse"), Set("paint", 0) >>

Armed(beats, count, repeat) ==
  [mode |-> "pattern", phase |-> "pulse", pulse |-> beats, beats |-> beats,
   left |-> count, gap |-> 0, repeat |-> repeat, lit |-> TRUE]

Painted(s) == s.mode = "idle" \/ s.phase = "pulse"

idle_stores == << Set("mode", "idle"), Set("lit", TRUE) >>
AllSolid == [s \in Stages |-> IF s < led_n THEN "solid" ELSE led_state[s]]

\* led_fault with several LEDs: all dark but the one whose number is the code.
Marked(f) ==
  [s \in Stages |-> IF s >= led_n THEN led_state[s]
                    ELSE IF s = f THEN "fault" ELSE "off"]

ResetFault(flags) == IF "brownout" \in flags THEN BROWNOUT
                     ELSE IF "watchdog" \in flags THEN WATCHDOG
                     ELSE IF "external" \in flags THEN EXTERNAL ELSE NONE

\* Mutant: the boot counts the monitor among its stages.
BootVisualsAll(f) == [s \in Stages |-> IF Single THEN "off" ELSE "solid"]

\* main up to sei(): led_init, which latches the reset source, then the three
\* stages POWER, UART and CPU entered and done.  Each arms the single LED
\* afresh, so the last one is what is left of them.
BootVisuals(f) ==
  [s \in Stages |-> IF ~Single /\ s # MONITOR THEN "solid"
                    ELSE IF ~Single /\ s = f /\ s < led_n THEN "fault" ELSE "off"]

Unused == [Armed(BEAT_PULSE_SHORT, 0, 0) EXCEPT !.phase = "idle", !.pulse = 0, !.lit = FALSE]

Booted(flags) ==
  [seq |-> IF Single THEN Armed(BEAT_PULSE_SHORT, CPU + 1, 0) ELSE Unused,
   led_state |-> BootVisuals(ResetFault(flags)),
   latched |-> ResetFault(flags)]

-----------------------------------------------------------------------------
\* Mutants of WDT_vect: seq_left not counted down; a group reloaded one short;
\* no repetition.
PulseBeatEndless(s) ==
  IF s.pulse > 1 THEN [s EXCEPT !.pulse = @ - 1]
  ELSE IF s.left > 1
  THEN [s EXCEPT !.pulse = 0, !.gap = BEAT_BETWEEN, !.phase = "gap"]
  ELSE [s EXCEPT !.pulse = 0, !.left = 0, !.gap = BEAT_GROUP_GAP, !.phase = "gap"]
GapBeatShort(s) ==
  IF s.gap > 1 THEN [s EXCEPT !.gap = @ - 1]
  ELSE IF s.left > 0 \/ s.repeat > 0
  THEN [s EXCEPT !.gap = 0, !.pulse = s.beats, !.phase = "pulse",
                 !.left = IF @ > 0 THEN @ ELSE s.repeat - 1]
  ELSE [s EXCEPT !.gap = 0, !.phase = "idle"]
GapBeatOnce(s) ==
  IF s.gap > 1 THEN [s EXCEPT !.gap = @ - 1]
  ELSE IF s.left > 0 THEN [s EXCEPT !.gap = 0, !.pulse = s.beats, !.phase = "pulse"]
  ELSE [s EXCEPT !.gap = 0, !.phase = "idle"]

\* WDT_vect: one beat of the pattern.
PulseBeat(s) ==
  IF s.pulse > 1 THEN [s EXCEPT !.pulse = @ - 1]
  ELSE IF s.left > 1
  THEN [s EXCEPT !.pulse = 0, !.left = @ - 1, !.gap = BEAT_BETWEEN, !.phase = "gap"]
  ELSE [s EXCEPT !.pulse = 0, !.left = 0, !.gap = BEAT_GROUP_GAP, !.phase = "gap"]

NextPulse(s, left) == [s EXCEPT !.gap = 0, !.left = left, !.pulse = s.beats, !.phase = "pulse"]

GapBeat(s) ==
  IF s.gap > 1 THEN [s EXCEPT !.gap = @ - 1]
  ELSE IF s.left > 0 THEN NextPulse(s, s.left)
  ELSE IF s.repeat > 0 THEN NextPulse(s, s.repeat)
  ELSE [s EXCEPT !.gap = 0, !.phase = "idle"]

Beat(s) ==
  IF s.mode = "pattern" /\ s.phase = "pulse" THEN PulseBeat(s)
  ELSE IF s.mode = "pattern" /\ s.phase = "gap" THEN GapBeat(s)
  ELSE s

Settled == todo = <<>>
PulseEnds == seq.phase = "pulse" /\ seq'.phase = "gap"
GroupEnds == PulseEnds /\ seq'.left = 0
GroupStarts == seq.phase = "gap" /\ seq'.phase = "pulse" /\ seq.left = 0

\* A history counter of pulses, kept below MaxShown: no group is that long.
MaxShown == 7
Counted(k) == IF k < MaxShown THEN k + 1 ELSE k

\* A beat is much longer than the stores of one led_arm: at most one falls
\* among them.
Tick ==
  /\ Single
  /\ ~interrupted
  /\ seq' = [Beat(seq) EXCEPT !.lit = Painted(Beat(seq))]
  /\ interrupted' = (todo # <<>>)
  /\ shown' = IF Settled /\ PulseEnds THEN Counted(shown)
              ELSE IF Settled /\ GroupStarts THEN 0 ELSE shown
  /\ repeated' = (repeated \/ (Settled /\ GroupStarts))
  /\ UNCHANGED <<todo, pc, led_state, latched, monitor_seen, serial, reset>>

-----------------------------------------------------------------------------
\* One store of led_arm or led_idle.
Store ==
  /\ todo # <<>>
  /\ LET w == Head(todo) IN
       IF w.field = "paint"
       THEN seq' = seq /\ todo' = << Set("lit", Painted(seq)) >> \o Tail(todo)
       ELSE seq' = [seq EXCEPT ![w.field] = w.value] /\ todo' = Tail(todo)
  /\ interrupted' = (interrupted /\ todo' # <<>>)
  /\ UNCHANGED <<shown, repeated, pc, led_state, latched, monitor_seen, serial, reset>>

\* Start on a list of stores; a new pattern starts a new count.
Begin(stores) == todo' = stores /\ shown' = 0 /\ repeated' = FALSE
                 /\ UNCHANGED <<seq, interrupted>>

\* cpu_step: the 6502 may read a waiting byte, which clears the overrun flag.
cpu_step ==
  /\ todo = <<>> /\ pc = "cpu"
  /\ pc' = "check"
  /\ \/ UNCHANGED serial
     \/ /\ frames # <<>>
        /\ frames' = Tail(frames) /\ dor' = FALSE
  /\ UNCHANGED <<sequencer, led_state, latched, monitor_seen, reset>>

\* led_stage_is_done(LED_STAGE_MONITOR)
MonitorDone == IF Single THEN monitor_seen ELSE led_state[MONITOR] = "solid"

\* led_stage_done(LED_STAGE_MONITOR) and led_idle, when a byte waits.
CheckMonitor ==
  /\ todo = <<>> /\ pc = "check"
  /\ pc' = "poll"
  /\ \/ /\ ~MonitorDone /\ frames # <<>>
        /\ monitor_seen' = TRUE
        /\ IF Single
           THEN /\ Begin(led_arm(BEAT_PULSE_SHORT, MONITOR + 1, 0) \o idle_stores)
                /\ UNCHANGED led_state
           ELSE /\ led_state' = [AllSolid EXCEPT ![MONITOR] = "solid"]
                /\ UNCHANGED sequencer
     \/ /\ MonitorDone \/ frames = <<>>
        /\ UNCHANGED <<sequencer, led_state, monitor_seen>>
  /\ UNCHANGED <<latched, serial, reset>>

\* Mutant: a fault blinked with the pulses of a stage.
led_fault_short(f) ==
  /\ latched' = f
  /\ IF Single
     THEN Begin(led_arm(BEAT_PULSE_SHORT, f, f)) /\ UNCHANGED led_state
     ELSE led_state' = Marked(f) /\ UNCHANGED sequencer

led_fault(f) ==
  /\ latched' = f
  /\ IF Single
     THEN Begin(led_arm(BEAT_PULSE_LONG, f, f)) /\ UNCHANGED led_state
     ELSE led_state' = Marked(f) /\ UNCHANGED sequencer

SerialFault == IF dor THEN UART_OVERRUN
               ELSE IF frames # <<>> /\ Head(frames) THEN UART_FRAMING ELSE NONE

led_poll ==
  /\ todo = <<>> /\ pc = "poll"
  /\ pc' = "cpu"
  /\ \/ latched = NONE /\ SerialFault # NONE /\ led_fault(SerialFault)
     \/ /\ latched # NONE \/ SerialFault = NONE
        /\ UNCHANGED <<sequencer, led_state, latched>>
  /\ UNCHANGED <<monitor_seen, serial, reset>>

-----------------------------------------------------------------------------
\* A byte arrives, well framed or not.  Two fit in the receiver; the next one
\* is lost and sets the overrun flag.
Receive ==
  /\ \/ /\ Len(frames) < 2
        /\ \E bad \in BOOLEAN : frames' = Append(frames, bad)
        /\ UNCHANGED dor
     \/ Len(frames) = 2 /\ dor' = TRUE /\ UNCHANGED frames
  /\ UNCHANGED <<sequencer, pc, led_state, latched, monitor_seen, reset>>

\* Only a power-on clears the flags of earlier resets: led_init reads MCUSR
\* and does not write it.
Flags(c) == IF c = "power on" THEN {c} ELSE mcusr \cup {c}

Reset(c) ==
  /\ resets < MaxResets
  /\ resets' = resets + 1 /\ led_n' = led_n
  /\ mcusr' = Flags(c)
  /\ seq' = Booted(Flags(c)).seq
  /\ led_state' = Booted(Flags(c)).led_state
  /\ latched' = Booted(Flags(c)).latched
  /\ todo' = <<>> /\ interrupted' = FALSE /\ shown' = 0 /\ repeated' = FALSE
  /\ pc' = "cpu" /\ monitor_seen' = FALSE
  /\ frames' = <<>> /\ dor' = FALSE

Init ==
  /\ resets = 0 /\ led_n \in LedCounts
  /\ mcusr = {"power on"}
  /\ seq = Booted(mcusr).seq
  /\ led_state = Booted(mcusr).led_state
  /\ latched = Booted(mcusr).latched
  /\ todo = <<>> /\ interrupted = FALSE /\ shown = 0 /\ repeated = FALSE
  /\ pc = "cpu" /\ monitor_seen = FALSE
  /\ frames = <<>> /\ dor = FALSE

Main == Store \/ cpu_step \/ CheckMonitor \/ led_poll

Next == Tick \/ Main \/ Receive \/ \E c \in Causes : Reset(c)

\* The watchdog beats for ever and the main loop never waits; nothing makes
\* the other side of the serial line send.
Spec == Init /\ [][Next]_vars /\ WF_vars(Tick) /\ WF_vars(Main)

-----------------------------------------------------------------------------
Sequencer ==
  [mode : {"idle", "pattern"}, phase : {"idle", "pulse", "gap"}, pulse : 0..6,
   beats : {BEAT_PULSE_SHORT, BEAT_PULSE_LONG}, left : 0..5, gap : 0..8,
   repeat : 0..5, lit : BOOLEAN]

TypeOK ==
  /\ seq \in Sequencer /\ interrupted \in BOOLEAN
  /\ pc \in {"cpu", "check", "poll"} /\ led_n \in LedCounts
  /\ led_state \in [Stages -> {"off", "solid", "fault"}]
  /\ latched \in Faults /\ monitor_seen \in BOOLEAN
  /\ mcusr \subseteq Causes
  /\ frames \in Seq(BOOLEAN) /\ Len(frames) <= 2
  /\ dor \in BOOLEAN
  /\ shown \in 0..5 /\ repeated \in BOOLEAN

Blinking == Settled /\ Single /\ seq.mode = "pattern"

\* Wherever the interrupt fell among the stores of led_arm, the sequencer they
\* leave is one it can run: a lit phase has beats to go, so has a gap, and the
\* pin shows the phase (led_arm, led_paint_single, WDT_vect).
PatternRuns ==
  Blinking => /\ seq.phase = "pulse" => seq.pulse \in 1..seq.beats /\ seq.left > 0
              /\ seq.phase = "gap" => seq.gap > 0
              /\ seq.lit = (seq.phase = "pulse")

\* Long pulses and repetition mean a fault, short pulses a stage shown once,
\* and the code being blinked is the latched one (led.h: "distinguished by
\* pulse width").
LongMeansFault ==
  Blinking => /\ seq.beats = BEAT_PULSE_LONG <=> seq.repeat > 0
              /\ seq.repeat > 0 => seq.repeat = latched

FaultGroupEnds == GroupEnds /\ Settled /\ seq.repeat > 0

\* "N long pulses: fault code N" holds of every repetition whichever beats
\* fell where, for WDT_vect reloads seq_left from seq_repeat.  The first group
\* may be one short: a beat between the stores of led_arm can count down the
\* new seq_left while the old pulse is still lit.
GroupsCount ==
  [][FaultGroupEnds => /\ shown' \in {latched - 1, latched}
                       /\ repeated => shown' = latched]_vars

\* A fault code goes on blinking: the LED comes on again and again.
FaultKeepsBlinking == [](Blinking /\ seq.repeat > 0 => <>(seq.lit))

\* The burst of a boot stage ends: the LED goes dark, turns steady, or shows a
\* fault.
StageBurstEnds ==
  (Blinking /\ seq.repeat = 0) ~>
    (seq.phase = "idle" \/ seq.mode = "idle" \/ seq.repeat > 0)

\* With no fault the row of LEDs is the trace of the boot: a stage is solid
\* when it is done, the monitor's as soon as a byte was seen and no earlier.
RowIsTrace ==
  ~Single /\ latched = NONE =>
    \A s \in Stages : led_state[s] = IF s = MONITOR /\ ~monitor_seen THEN "off" ELSE "solid"

Steady == /\ Settled
          /\ IF Single THEN seq.mode = "idle"
             ELSE \A s \in Stages : s < led_n => led_state[s] = "solid"

\* "Healthy running state": no fault is latched while the LEDs say so.
SteadyMeansHealthy == Steady => latched = NONE
=============================================================================
