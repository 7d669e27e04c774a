------------------------------ MODULE LedProofs ------------------------------
(***************************************************************************)
(* The blink sequencer survives its interrupt: wherever the beat falls     *)
(* among the stores of led_arm and led_idle, what they leave is a pattern  *)
(* the interrupt can run, with the pulses of the fault that is latched.    *)
(*                                                                         *)
(* The invariant follows the stores one by one.  It says which of them     *)
(* have been made, what the sequencer holds because of that, and which two *)
(* values one beat may have counted down meanwhile.                        *)
(***************************************************************************)
EXTENDS Led, SequenceTheorems, TLAPS

(* The two jobs the main loop starts: a fault, and the burst of the monitor   *)
(* with the steady light after it.  Once the paint has read the phase, what   *)
(* is left of it is a store to the pin.                                       *)
Pulses(idle) == IF idle THEN MONITOR + 1 ELSE latched
Repeats(idle) == IF idle THEN 0 ELSE latched
Width(idle) == IF idle THEN BEAT_PULSE_SHORT ELSE BEAT_PULSE_LONG

LastStore(painted) == IF painted THEN Set("lit", TRUE) ELSE Set("paint", 0)

Job(idle, painted) ==
  IF idle
  THEN << Set("mode", "pattern"), Set("beats", Width(idle)), Set("left", Pulses(idle)),
          Set("repeat", Repeats(idle)), Set("pulse", Width(idle)), Set("gap", 0),
          Set("phase", "pulse"), LastStore(painted), Set("mode", "idle"), Set("lit", TRUE) >>
  ELSE << Set("mode", "pattern"), Set("beats", Width(idle)), Set("left", Pulses(idle)),
          Set("repeat", Repeats(idle)), Set("pulse", Width(idle)), Set("gap", 0),
          Set("phase", "pulse"), LastStore(painted) >>
Length(idle) == IF idle THEN 10 ELSE 8

(* What the first k stores of a job have left in the sequencer s: a beat that *)
(* hit among them may have counted seq_left or seq_pulse down by one.         *)
Counting(value, first, hit) == value = first \/ (hit /\ value = first - 1)
Stored(s, idle, k, hit) ==
  /\ 1 <= k /\ k <= 8 => s.mode = "pattern"
  /\ k >= 2 => s.beats = Width(idle)
  /\ k >= 3 => Counting(s.left, Pulses(idle), hit)
  /\ k >= 4 => s.repeat = Repeats(idle)
  /\ k >= 5 => Counting(s.pulse, Width(idle), hit)
  /\ k >= 7 => s.phase = "pulse"
  /\ k = 8 => s.lit
  /\ k >= 9 => s.mode = "idle"

At(idle, painted, k) ==
  /\ k < Length(idle)
  /\ painted => k >= 7
  /\ ~painted => k <= 7
  /\ idle \/ latched \in {UART_OVERRUN, UART_FRAMING}
  /\ todo = SubSeq(Job(idle, painted), k + 1, Length(idle))
  /\ Stored(seq, idle, k, interrupted)

Arming ==
  todo # <<>> =>
    /\ Single /\ shown = 0 /\ ~repeated
    /\ \E idle \in BOOLEAN, painted \in BOOLEAN, k \in 0..9 : At(idle, painted, k)

(* A pattern that runs: the phase has beats to go and the pin shows it; long  *)
(* pulses are those of the latched fault; the pulses shown and those to come  *)
(* make up the code, the first group apart.                                   *)
Runs == /\ seq.phase = "pulse" => seq.pulse \in 1..seq.beats /\ seq.left > 0
        /\ seq.phase = "gap" => seq.gap > 0
        /\ seq.lit = (seq.phase = "pulse")
Tells == /\ seq.beats = BEAT_PULSE_LONG <=> seq.repeat > 0
         /\ seq.repeat > 0 => seq.repeat = latched
Counts == /\ shown + seq.left <= 5
          /\ seq.repeat > 0 => /\ shown + seq.left \in {latched - 1, latched}
                               /\ repeated => shown + seq.left = latched

Running == Blinking => Runs /\ Tells /\ Counts

(* The inductive invariant. *)
IInv == TypeOK /\ Arming /\ Running /\ RowIsTrace

-----------------------------------------------------------------------------
(* Sequences written out one after the other *)
LEMMA Joined ==
  ASSUME NEW S, NEW s \in Seq(S), NEW t \in Seq(S), NEW u \in Seq(S),
         Len(u) = Len(s) + Len(t),
         \A k \in 1..Len(s) : u[k] = s[k],
         \A k \in 1..Len(t) : u[Len(s) + k] = t[k]
  PROVE  s \o t = u
<1>1. Len(s) \in Nat /\ Len(t) \in Nat
  BY LenProperties
<1>2. /\ s \o t \in Seq(S) /\ Len(s \o t) = Len(s) + Len(t)
      /\ \A k \in 1..(Len(s) + Len(t)) :
           (s \o t)[k] = IF k <= Len(s) THEN s[k] ELSE t[k - Len(s)]
  BY ConcatProperties
<1>3. ASSUME NEW k \in 1..(Len(s) + Len(t))
      PROVE  (s \o t)[k] = u[k]
  <2>1. CASE k <= Len(s)
    BY <1>1, <1>2, <2>1
  <2>2. CASE k > Len(s)
    <3>1. k - Len(s) \in 1..Len(t) /\ Len(s) + (k - Len(s)) = k
      BY <1>1, <2>2
    <3>. QED
      BY <1>1, <1>2, <2>2, <3>1
  <2>. QED
    BY <1>1, <2>1, <2>2
<1>. QED
  BY <1>2, <1>3, SeqEqual

LEMMA EightAndTwo ==
  ASSUME NEW a, NEW b, NEW c, NEW d, NEW e, NEW f, NEW g, NEW h, NEW i, NEW j
  PROVE  << a, b, c, d, e, f, g, h >> \o << i, j >> = << a, b, c, d, e, f, g, h, i, j >>
<1> DEFINE S == {a, b, c, d, e, f, g, h, i, j}
           s == << a, b, c, d, e, f, g, h >>
           t == << i, j >>
           u == << a, b, c, d, e, f, g, h, i, j >>
<1>1. s \in Seq(S) /\ t \in Seq(S) /\ u \in Seq(S)
  OBVIOUS
<1>2. Len(u) = Len(s) + Len(t)
  OBVIOUS
<1>3. \A k \in 1..Len(s) : u[k] = s[k]
  OBVIOUS
<1>4. \A k \in 1..Len(t) : u[Len(s) + k] = t[k]
  OBVIOUS
<1> HIDE DEF s, t, u, S
<1>5. s \o t = u
  BY <1>1, <1>2, <1>3, <1>4, Joined
<1>. QED
  BY <1>5 DEF s, t, u

(* The lists CheckMonitor and led_fault start on are the two jobs. *)
LEMMA JobsStart ==
  /\ led_arm(BEAT_PULSE_SHORT, MONITOR + 1, 0) \o idle_stores = Job(TRUE, FALSE)
  /\ led_arm(BEAT_PULSE_LONG, latched, latched) = Job(FALSE, FALSE)
<1>1. led_arm(BEAT_PULSE_SHORT, MONITOR + 1, 0) \o idle_stores = Job(TRUE, FALSE)
  <2> DEFINE a == Set("mode", "pattern")       b == Set("beats", Width(TRUE))
             c == Set("left", Pulses(TRUE))    d == Set("repeat", Repeats(TRUE))
             e == Set("pulse", Width(TRUE))    f == Set("gap", 0)
             g == Set("phase", "pulse")        h == LastStore(FALSE)
             i == Set("mode", "idle")          j == Set("lit", TRUE)
  <2>1. Job(TRUE, FALSE) = << a, b, c, d, e, f, g, h, i, j >>
    BY DEF Job
  <2>2. led_arm(BEAT_PULSE_SHORT, MONITOR + 1, 0) = << a, b, c, d, e, f, g, h >>
    BY DEF led_arm, Width, Pulses, Repeats, LastStore
  <2>3. idle_stores = << i, j >>
    BY DEF idle_stores
  <2> HIDE DEF a, b, c, d, e, f, g, h, i, j
  <2>4. << a, b, c, d, e, f, g, h >> \o << i, j >> = << a, b, c, d, e, f, g, h, i, j >>
    BY EightAndTwo
  <2>. QED
    BY <2>1, <2>2, <2>3, <2>4, Zenon
<1>2. led_arm(BEAT_PULSE_LONG, latched, latched) = Job(FALSE, FALSE)
  BY DEF led_arm, Job, Width, Pulses, Repeats, LastStore
<1>. QED
  BY <1>1, <1>2

LEMMA JobSeq ==
  ASSUME NEW idle \in BOOLEAN, NEW painted \in BOOLEAN
  PROVE  \E S : Job(idle, painted) \in Seq(S) /\ Len(Job(idle, painted)) = Length(idle)
<1> DEFINE a == Set("mode", "pattern")       b == Set("beats", Width(idle))
           c == Set("left", Pulses(idle))    d == Set("repeat", Repeats(idle))
           e == Set("pulse", Width(idle))    f == Set("gap", 0)
           g == Set("phase", "pulse")        h == LastStore(painted)
           i == Set("mode", "idle")          j == Set("lit", TRUE)
           S == {a, b, c, d, e, f, g, h, i, j}
<1>1. Job(idle, painted) = IF idle THEN << a, b, c, d, e, f, g, h, i, j >>
                                   ELSE << a, b, c, d, e, f, g, h >>
  BY DEF Job
<1> HIDE DEF a, b, c, d, e, f, g, h, i, j
<1>2. /\ << a, b, c, d, e, f, g, h, i, j >> \in Seq(S)
      /\ << a, b, c, d, e, f, g, h >> \in Seq(S)
  OBVIOUS
<1>3. /\ Len(<< a, b, c, d, e, f, g, h, i, j >>) = 10
      /\ Len(<< a, b, c, d, e, f, g, h >>) = 8
  OBVIOUS
<1>4. Job(idle, painted) \in Seq(S) /\ Len(Job(idle, painted)) = Length(idle)
  <2> HIDE DEF S
  <2>. QED
    BY <1>1, <1>2, <1>3 DEF Length
<1>. QED
  BY <1>4

(* The store a job is at, and what remains after it *)
Splits(list, first, rest) == list # <<>> /\ Head(list) = first /\ Tail(list) = rest

LEMMA NextStore ==
  ASSUME NEW idle \in BOOLEAN, NEW painted \in BOOLEAN, NEW k \in 0..9,
         k < Length(idle), NEW list,
         list = SubSeq(Job(idle, painted), k + 1, Length(idle))
  PROVE  Splits(list, Job(idle, painted)[k + 1],
                SubSeq(Job(idle, painted), k + 2, Length(idle)))
<1> DEFINE n == Length(idle)
           job == Job(idle, painted)
<1>1. n \in Nat /\ k + 1 \in 1..n /\ n \in (k + 1)..n /\ (k + 1) + 1 = k + 2
  BY DEF Length
<1>2. PICK S : job \in Seq(S) /\ Len(job) = n
  BY JobSeq
<1> HIDE DEF n, job
<1>3. \A i \in (k + 1)..n : job[i] \in S
  BY <1>1, <1>2, ElementOfSeq
<1>4. Len(SubSeq(job, k + 1, n)) = n - (k + 1) + 1
  BY <1>1, <1>3, SubSeqProperties
<1>5. SubSeq(job, k + 1, n) # <<>>
  <2>1. Len(<<>>) = 0
    OBVIOUS
  <2>2. n - (k + 1) + 1 # 0
    BY <1>1
  <2>. QED
    BY <1>4, <2>1, <2>2
<1>6. /\ Head(SubSeq(job, k + 1, n)) = job[k + 1]
      /\ Tail(SubSeq(job, k + 1, n)) = SubSeq(job, (k + 1) + 1, n)
  BY <1>1, <1>2, HeadTailOfSubSeq
<1>. QED
  BY <1>1, <1>5, <1>6 DEF n, job, Splits

-----------------------------------------------------------------------------
(* What one beat makes of the sequencer: nothing, or one of the seven ways    *)
(* through WDT_vect.                                                          *)
Same(s, t) == t.phase = s.phase /\ t.pulse = s.pulse /\ t.left = s.left /\ t.gap = s.gap
PulseGoesOn(s, t) ==
  s.phase = "pulse" /\ t.phase = "pulse" /\ s.pulse > 1 /\ t.pulse = s.pulse - 1
  /\ t.left = s.left /\ t.gap = s.gap
PulseStops(s, t) ==
  /\ s.phase = "pulse" /\ t.phase = "gap" /\ s.pulse <= 1 /\ t.pulse = 0
  /\ t.left = IF s.left > 1 THEN s.left - 1 ELSE 0
  /\ t.gap > 0
GapGoesOn(s, t) ==
  s.phase = "gap" /\ t.phase = "gap" /\ s.gap > 1 /\ t.gap = s.gap - 1
  /\ t.left = s.left /\ t.pulse = s.pulse
PulseFollows(s, t) ==
  s.phase = "gap" /\ t.phase = "pulse" /\ s.left > 0 /\ t.left = s.left
  /\ t.pulse = s.beats
GroupFollows(s, t) ==
  s.phase = "gap" /\ t.phase = "pulse" /\ s.left = 0 /\ s.repeat > 0 /\ t.left = s.repeat
  /\ t.pulse = s.beats
BurstEnds(s, t) ==
  s.phase = "gap" /\ t.phase = "idle" /\ s.left = 0 /\ s.repeat = 0 /\ t.left = s.left
  /\ t.pulse = s.pulse

BeatTaken(s, t) ==
  /\ t \in Sequencer
  /\ t.mode = s.mode /\ t.beats = s.beats /\ t.repeat = s.repeat
  /\ t.lit = (t.mode = "idle" \/ t.phase = "pulse")
  /\ \/ (s.mode = "idle" \/ s.phase = "idle") /\ Same(s, t)
     \/ /\ s.mode = "pattern"
        /\ \/ PulseGoesOn(s, t) \/ PulseStops(s, t) \/ GapGoesOn(s, t)
           \/ PulseFollows(s, t) \/ GroupFollows(s, t) \/ BurstEnds(s, t)

(* A sequencer that differs from s in these four variables at most *)
Rewrites(s, t, phase, pulse, left, gap) ==
  /\ t \in Sequencer
  /\ t.mode = s.mode /\ t.beats = s.beats /\ t.repeat = s.repeat /\ t.lit = s.lit
  /\ t.phase = phase /\ t.pulse = pulse /\ t.left = left /\ t.gap = gap

LEMMA Rewritten ==
  ASSUME NEW s \in Sequencer, NEW phase \in {"idle", "pulse", "gap"}, NEW pulse \in 0..6,
         NEW left \in 0..5, NEW gap \in 0..8,
         NEW t, t = [s EXCEPT !.phase = phase, !.pulse = pulse, !.left = left, !.gap = gap]
  PROVE  Rewrites(s, t, phase, pulse, left, gap)
BY DEF Sequencer, Rewrites

(* The constants the beat stores are of their variables' types. *)
LEMMA BeatConstants ==
  /\ "idle" \in {"idle", "pulse", "gap"} /\ "pulse" \in {"idle", "pulse", "gap"}
  /\ "gap" \in {"idle", "pulse", "gap"}
  /\ 0 \in 0..6 /\ 0 \in 0..5 /\ 0 \in 0..8 /\ 2 \in 0..8 /\ 8 \in 0..8
OBVIOUS

LEMMA SequencerFields ==
  ASSUME NEW s \in Sequencer
  PROVE  /\ s.phase \in {"idle", "pulse", "gap"} /\ s.mode \in {"idle", "pattern"}
         /\ s.pulse \in 0..6 /\ s.left \in 0..5 /\ s.gap \in 0..8 /\ s.repeat \in 0..5
         /\ s.beats \in {2, 6}
BY DEF Sequencer, BEAT_PULSE_SHORT, BEAT_PULSE_LONG

LEMMA PulseBeatShape ==
  ASSUME NEW s \in Sequencer, s.mode = "pattern", s.phase = "pulse",
         NEW b, b = PulseBeat(s)
  PROVE  /\ b \in Sequencer
         /\ b.mode = s.mode /\ b.beats = s.beats /\ b.repeat = s.repeat
         /\ PulseGoesOn(s, b) \/ PulseStops(s, b)
<1>1. CASE s.pulse > 1
  BY <1>1 DEF PulseBeat, Sequencer, PulseGoesOn
<1>2. CASE ~(s.pulse > 1) /\ s.left > 1
  <2>1. s.left - 1 \in 0..5 /\ s.pulse \in 0..6
    BY <1>2, SequencerFields
  <2>2. b = [s EXCEPT !.phase = "gap", !.pulse = 0, !.left = s.left - 1, !.gap = 2]
    BY <1>2 DEF PulseBeat, Sequencer, BEAT_BETWEEN
  <2>3. Rewrites(s, b, "gap", 0, s.left - 1, 2)
    BY <2>1, <2>2, Rewritten, BeatConstants, Zenon
  <2>. QED
    BY <1>2, <2>1, <2>3 DEF Rewrites, PulseStops
<1>3. CASE ~(s.pulse > 1) /\ ~(s.left > 1)
  <2>1. s.pulse \in 0..6
    BY SequencerFields
  <2>2. b = [s EXCEPT !.phase = "gap", !.pulse = 0, !.left = 0, !.gap = 8]
    BY <1>3 DEF PulseBeat, Sequencer, BEAT_GROUP_GAP
  <2>3. Rewrites(s, b, "gap", 0, 0, 8)
    BY <2>1, <2>2, Rewritten, BeatConstants, Zenon
  <2>. QED
    BY <1>3, <2>1, <2>3, SequencerFields DEF Rewrites, PulseStops
<1>. QED
  BY <1>1, <1>2, <1>3

LEMMA GapBeatShape ==
  ASSUME NEW s \in Sequencer, s.mode = "pattern", s.phase = "gap",
         NEW b, b = GapBeat(s)
  PROVE  /\ b \in Sequencer
         /\ b.mode = s.mode /\ b.beats = s.beats /\ b.repeat = s.repeat
         /\ \/ GapGoesOn(s, b) \/ PulseFollows(s, b)
            \/ GroupFollows(s, b) \/ BurstEnds(s, b)
<1>1. /\ s.gap \in 0..8 /\ s.left \in 0..5 /\ s.repeat \in 0..5 /\ s.pulse \in 0..6
      /\ s.beats \in 0..6
  BY SequencerFields
<1>2. CASE s.gap > 1
  BY <1>2 DEF GapBeat, Sequencer, GapGoesOn
<1>3. CASE ~(s.gap > 1) /\ s.left > 0
  <2>1. b = [s EXCEPT !.phase = "pulse", !.pulse = s.beats, !.left = s.left, !.gap = 0]
    BY <1>3 DEF GapBeat, NextPulse, Sequencer
  <2>2. Rewrites(s, b, "pulse", s.beats, s.left, 0)
    BY <1>1, <2>1, Rewritten, BeatConstants, Zenon
  <2>. QED
    BY <1>3, <2>2 DEF Rewrites, PulseFollows
<1>4. CASE ~(s.gap > 1) /\ ~(s.left > 0) /\ s.repeat > 0
  <2>1. b = [s EXCEPT !.phase = "pulse", !.pulse = s.beats, !.left = s.repeat, !.gap = 0]
    BY <1>4 DEF GapBeat, NextPulse, Sequencer
  <2>2. s.left = 0
    BY <1>1, <1>4
  <2>3. Rewrites(s, b, "pulse", s.beats, s.repeat, 0)
    BY <1>1, <2>1, Rewritten, BeatConstants, Zenon
  <2>. QED
    BY <1>4, <2>2, <2>3 DEF Rewrites, GroupFollows
<1>5. CASE ~(s.gap > 1) /\ ~(s.left > 0) /\ ~(s.repeat > 0)
  <2>1. b = [s EXCEPT !.phase = "idle", !.pulse = s.pulse, !.left = s.left, !.gap = 0]
    BY <1>5 DEF GapBeat, Sequencer
  <2>2. s.left = 0 /\ s.repeat = 0
    BY <1>1, <1>5
  <2>3. Rewrites(s, b, "idle", s.pulse, s.left, 0)
    BY <1>1, <2>1, Rewritten, BeatConstants, Zenon
  <2>. QED
    BY <2>2, <2>3 DEF Rewrites, BurstEnds
<1>. QED
  BY <1>2, <1>3, <1>4, <1>5

LEMMA BeatShape ==
  ASSUME NEW s \in Sequencer, NEW t, t = [Beat(s) EXCEPT !.lit = Painted(Beat(s))]
  PROVE  BeatTaken(s, t)
<1> DEFINE b == Beat(s)
<1>1. /\ b \in Sequencer
      /\ b.mode = s.mode /\ b.beats = s.beats /\ b.repeat = s.repeat
      /\ \/ (s.mode = "idle" \/ s.phase = "idle") /\ Same(s, b)
         \/ /\ s.mode = "pattern"
            /\ \/ PulseGoesOn(s, b) \/ PulseStops(s, b) \/ GapGoesOn(s, b)
               \/ PulseFollows(s, b) \/ GroupFollows(s, b) \/ BurstEnds(s, b)
  <2>1. CASE s.mode = "pattern" /\ s.phase = "pulse"
    BY <2>1, PulseBeatShape DEF Beat
  <2>2. CASE s.mode = "pattern" /\ s.phase = "gap"
    BY <2>2, GapBeatShape DEF Beat
  <2>3. CASE s.mode = "idle" \/ s.phase = "idle"
    BY <2>3 DEF Beat, Same
  <2>. QED
    BY <2>1, <2>2, <2>3 DEF Sequencer
<1> HIDE DEF b
<1>2. Painted(b) \in BOOLEAN /\ (Painted(b) <=> (b.mode = "idle" \/ b.phase = "pulse"))
  BY DEF Painted
<1>3. t = [b EXCEPT !.lit = Painted(b)]
  BY DEF b
<1>4. /\ t \in Sequencer
      /\ t.mode = b.mode /\ t.beats = b.beats /\ t.repeat = b.repeat
      /\ Same(b, t)
  BY <1>1, <1>2, <1>3 DEF Sequencer, Same
<1>5. t.lit = (t.mode = "idle" \/ t.phase = "pulse")
  <2>1. t.lit = Painted(b)
    BY <1>1, <1>3 DEF Sequencer
  <2>. QED
    BY <2>1, <1>4 DEF Painted, Same
<1>. QED
  BY <1>1, <1>4, <1>5
     DEF BeatTaken, Same, PulseGoesOn, PulseStops, GapGoesOn, PulseFollows, GroupFollows,
         BurstEnds

-----------------------------------------------------------------------------
(* A beat among the stores: it counts down what has been stored, once. *)
LEMMA BeatAmongStores ==
  ASSUME NEW idle \in BOOLEAN, NEW k \in 0..9, NEW s \in Sequencer, NEW t,
         idle \/ latched \in {UART_OVERRUN, UART_FRAMING},
         Stored(s, idle, k, FALSE), BeatTaken(s, t)
  PROVE  Stored(t, idle, k, TRUE)
<1>1. /\ Width(idle) \in {2, 6} /\ Pulses(idle) \in {4, 5}
  BY DEF Width, Pulses, BEAT_PULSE_SHORT, BEAT_PULSE_LONG, MONITOR, UART_OVERRUN,
         UART_FRAMING
<1>2. k >= 3 => s.left = Pulses(idle)
  BY DEF Stored, Counting
<1>3. k >= 5 => s.pulse = Width(idle)
  BY DEF Stored, Counting
<1>4. k >= 2 => s.beats = Width(idle)
  BY DEF Stored
<1>5. k >= 3 => Counting(t.left, Pulses(idle), TRUE)
  BY <1>1, <1>2
     DEF Counting, BeatTaken, Same, PulseGoesOn, PulseStops, GapGoesOn, PulseFollows,
         GroupFollows, BurstEnds
<1>6. k >= 5 => Counting(t.pulse, Width(idle), TRUE)
  BY <1>1, <1>2, <1>3, <1>4
     DEF Counting, BeatTaken, Same, PulseGoesOn, PulseStops, GapGoesOn, PulseFollows,
         GroupFollows, BurstEnds
<1>7. k >= 7 => t.phase = "pulse"
  BY <1>1, <1>3
     DEF Stored, BeatTaken, Same, PulseGoesOn, PulseStops, GapGoesOn, PulseFollows,
         GroupFollows, BurstEnds
<1>8. /\ 1 <= k /\ k <= 8 => t.mode = "pattern"
      /\ k >= 2 => t.beats = Width(idle)
      /\ k >= 4 => t.repeat = Repeats(idle)
      /\ k >= 9 => t.mode = "idle"
  BY DEF Stored, BeatTaken
<1>9. k = 8 => t.lit
  <2> SUFFICES ASSUME k = 8 PROVE t.lit
    OBVIOUS
  <2>1. t.phase = "pulse"
    BY <1>7
  <2>. QED
    BY <2>1, Zenon DEF BeatTaken
<1>. QED
  BY <1>5, <1>6, <1>7, <1>8, <1>9 DEF Stored

(* The stores of a job, one by one *)
LEMMA Stores ==
  ASSUME NEW idle \in BOOLEAN, NEW painted \in BOOLEAN
  PROVE  /\ Job(idle, painted)[1] = Set("mode", "pattern")
         /\ Job(idle, painted)[2] = Set("beats", Width(idle))
         /\ Job(idle, painted)[3] = Set("left", Pulses(idle))
         /\ Job(idle, painted)[4] = Set("repeat", Repeats(idle))
         /\ Job(idle, painted)[5] = Set("pulse", Width(idle))
         /\ Job(idle, painted)[6] = Set("gap", 0)
         /\ Job(idle, painted)[7] = Set("phase", "pulse")
         /\ Job(idle, painted)[8] = LastStore(painted)
         /\ idle => /\ Job(idle, painted)[9] = Set("mode", "idle")
                    /\ Job(idle, painted)[10] = Set("lit", TRUE)
<1> DEFINE a == Set("mode", "pattern")       b == Set("beats", Width(idle))
           c == Set("left", Pulses(idle))    d == Set("repeat", Repeats(idle))
           e == Set("pulse", Width(idle))    f == Set("gap", 0)
           g == Set("phase", "pulse")        h == LastStore(painted)
           i == Set("mode", "idle")          j == Set("lit", TRUE)
<1>1. Job(idle, painted) = IF idle THEN << a, b, c, d, e, f, g, h, i, j >>
                                   ELSE << a, b, c, d, e, f, g, h >>
  BY DEF Job
<1> HIDE DEF a, b, c, d, e, f, g, h, i, j
<1>2. CASE idle
  <2>1. Job(idle, painted) = << a, b, c, d, e, f, g, h, i, j >>
    BY <1>1, <1>2
  <2>2. /\ Job(idle, painted)[1] = a /\ Job(idle, painted)[2] = b
        /\ Job(idle, painted)[3] = c /\ Job(idle, painted)[4] = d
        /\ Job(idle, painted)[5] = e /\ Job(idle, painted)[6] = f
        /\ Job(idle, painted)[7] = g /\ Job(idle, painted)[8] = h
        /\ Job(idle, painted)[9] = i /\ Job(idle, painted)[10] = j
    BY <2>1
  <2>. QED
    BY <2>2, Zenon DEF a, b, c, d, e, f, g, h, i, j
<1>3. CASE ~idle
  <2>1. Job(idle, painted) = << a, b, c, d, e, f, g, h >>
    BY <1>1, <1>3
  <2>2. /\ Job(idle, painted)[1] = a /\ Job(idle, painted)[2] = b
        /\ Job(idle, painted)[3] = c /\ Job(idle, painted)[4] = d
        /\ Job(idle, painted)[5] = e /\ Job(idle, painted)[6] = f
        /\ Job(idle, painted)[7] = g /\ Job(idle, painted)[8] = h
    BY <2>1
  <2>. QED
    BY <1>3, <2>2, Zenon DEF a, b, c, d, e, f, g, h, i, j
<1>. QED
  BY <1>2, <1>3

(* Each store but the paint puts its value where the next position expects it. *)
Advances(w, t, idle, k, hit) ==
  t \in Sequencer /\ w.field # "paint" /\ Stored(t, idle, k, hit)

LEMMA StoreMade ==
  ASSUME NEW idle \in BOOLEAN, NEW painted \in BOOLEAN, NEW k \in 0..9,
         k < Length(idle), painted => k >= 7, ~painted => k <= 6,
         idle \/ latched \in {UART_OVERRUN, UART_FRAMING},
         NEW s \in Sequencer, NEW hit \in BOOLEAN, Stored(s, idle, k, hit),
         NEW w, w = Job(idle, painted)[k + 1],
         NEW t, t = [s EXCEPT ![w.field] = w.value]
  PROVE  Advances(w, t, idle, k + 1, hit)
<1>1. /\ Width(idle) \in {BEAT_PULSE_SHORT, BEAT_PULSE_LONG} /\ Width(idle) \in 0..6
      /\ Pulses(idle) \in 0..5 /\ Repeats(idle) \in 0..5
  BY DEF Width, Pulses, Repeats, BEAT_PULSE_SHORT, BEAT_PULSE_LONG, MONITOR, UART_OVERRUN,
         UART_FRAMING
<1>2. CASE k = 0
  <2>1. w.field = "mode" /\ w.value = "pattern"
    <3>1. w = Job(idle, painted)[1]
      BY <1>2
    <3>2. w = Set("mode", "pattern")
      BY <3>1, Stores
    <3>. QED
      BY <3>2 DEF Set
  <2>2. t \in Sequencer
    BY <2>1 DEF Sequencer
  <2>3. /\ t.phase = s.phase /\ t.pulse = s.pulse /\ t.beats = s.beats
        /\ t.left = s.left /\ t.repeat = s.repeat /\ t.lit = s.lit
        /\ t.mode = "pattern"
    BY <2>1 DEF Sequencer
  <2>. QED
    BY <1>2, <2>1, <2>2, <2>3 DEF Advances, Stored, Counting
<1>3. CASE k = 1
  <2>1. w.field = "beats" /\ w.value = Width(idle)
    <3>1. w = Job(idle, painted)[2]
      BY <1>3
    <3>2. w = Set("beats", Width(idle))
      BY <3>1, Stores
    <3>. QED
      BY <3>2 DEF Set
  <2>2. t \in Sequencer
    BY <1>1, <2>1 DEF Sequencer
  <2>3. /\ t.mode = s.mode /\ t.phase = s.phase /\ t.pulse = s.pulse
        /\ t.left = s.left /\ t.repeat = s.repeat /\ t.lit = s.lit
        /\ t.beats = Width(idle)
    BY <2>1 DEF Sequencer
  <2>. QED
    BY <1>3, <2>1, <2>2, <2>3 DEF Advances, Stored, Counting
<1>4. CASE k = 2
  <2>1. w.field = "left" /\ w.value = Pulses(idle)
    <3>1. w = Job(idle, painted)[3]
      BY <1>4
    <3>2. w = Set("left", Pulses(idle))
      BY <3>1, Stores
    <3>. QED
      BY <3>2 DEF Set
  <2>2. t \in Sequencer
    BY <1>1, <2>1 DEF Sequencer
  <2>3. /\ t.mode = s.mode /\ t.phase = s.phase /\ t.pulse = s.pulse
        /\ t.beats = s.beats /\ t.repeat = s.repeat /\ t.lit = s.lit
        /\ t.left = Pulses(idle)
    BY <2>1 DEF Sequencer
  <2>. QED
    BY <1>4, <2>1, <2>2, <2>3 DEF Advances, Stored, Counting
<1>5. CASE k = 3
  <2>1. w.field = "repeat" /\ w.value = Repeats(idle)
    <3>1. w = Job(idle, painted)[4]
      BY <1>5
    <3>2. w = Set("repeat", Repeats(idle))
      BY <3>1, Stores
    <3>. QED
      BY <3>2 DEF Set
  <2>2. t \in Sequencer
    BY <1>1, <2>1 DEF Sequencer
  <2>3. /\ t.mode = s.mode /\ t.phase = s.phase /\ t.pulse = s.pulse
        /\ t.beats = s.beats /\ t.left = s.left /\ t.lit = s.lit
        /\ t.repeat = Repeats(idle)
    BY <2>1 DEF Sequencer
  <2>. QED
    BY <1>5, <2>1, <2>2, <2>3 DEF Advances, Stored, Counting
<1>6. CASE k = 4
  <2>1. w.field = "pulse" /\ w.value = Width(idle)
    <3>1. w = Job(idle, painted)[5]
      BY <1>6
    <3>2. w = Set("pulse", Width(idle))
      BY <3>1, Stores
    <3>. QED
      BY <3>2 DEF Set
  <2>2. t \in Sequencer
    BY <1>1, <2>1 DEF Sequencer
  <2>3. /\ t.mode = s.mode /\ t.phase = s.phase /\ t.beats = s.beats
        /\ t.left = s.left /\ t.repeat = s.repeat /\ t.lit = s.lit
        /\ t.pulse = Width(idle)
    BY <2>1 DEF Sequencer
  <2>. QED
    BY <1>6, <2>1, <2>2, <2>3 DEF Advances, Stored, Counting
<1>7. CASE k = 5
  <2>1. w.field = "gap" /\ w.value = 0
    <3>1. w = Job(idle, painted)[6]
      BY <1>7
    <3>2. w = Set("gap", 0)
      BY <3>1, Stores
    <3>. QED
      BY <3>2 DEF Set
  <2>2. t \in Sequencer
    BY <2>1 DEF Sequencer
  <2>3. /\ t.mode = s.mode /\ t.phase = s.phase /\ t.pulse = s.pulse
        /\ t.beats = s.beats /\ t.left = s.left /\ t.repeat = s.repeat /\ t.lit = s.lit
    BY <2>1 DEF Sequencer
  <2>. QED
    BY <1>7, <2>1, <2>2, <2>3 DEF Advances, Stored, Counting
<1>8. CASE k = 6
  <2>1. w.field = "phase" /\ w.value = "pulse"
    <3>1. w = Job(idle, painted)[7]
      BY <1>8
    <3>2. w = Set("phase", "pulse")
      BY <3>1, Stores
    <3>. QED
      BY <3>2 DEF Set
  <2>2. t \in Sequencer
    BY <2>1 DEF Sequencer
  <2>3. /\ t.mode = s.mode /\ t.pulse = s.pulse /\ t.beats = s.beats
        /\ t.left = s.left /\ t.repeat = s.repeat /\ t.lit = s.lit
        /\ t.phase = "pulse"
    BY <2>1 DEF Sequencer
  <2>. QED
    BY <1>8, <2>1, <2>2, <2>3 DEF Advances, Stored, Counting
<1>9. CASE k = 7
  <2>1. w.field = "lit" /\ w.value = TRUE
    <3>1. w = Job(idle, painted)[8] /\ painted
      BY <1>9
    <3>2. w = LastStore(painted)
      BY <3>1, Stores
    <3>3. w = Set("lit", TRUE)
      BY <3>1, <3>2, Zenon DEF LastStore
    <3>. QED
      BY <3>3 DEF Set
  <2>2. t \in Sequencer
    BY <2>1 DEF Sequencer
  <2>3. /\ t.mode = s.mode /\ t.phase = s.phase /\ t.pulse = s.pulse
        /\ t.beats = s.beats /\ t.left = s.left /\ t.repeat = s.repeat
        /\ t.lit = TRUE
    BY <2>1 DEF Sequencer
  <2>. QED
    BY <1>9, <2>1, <2>2, <2>3 DEF Advances, Stored, Counting
<1>10. CASE k = 8
  <2>1. w.field = "mode" /\ w.value = "idle"
    <3>1. w = Job(idle, painted)[9] /\ idle
      BY <1>10 DEF Length
    <3>2. w = Set("mode", "idle")
      BY <3>1, Stores
    <3>. QED
      BY <3>2 DEF Set
  <2>2. t \in Sequencer
    BY <2>1 DEF Sequencer
  <2>3. /\ t.phase = s.phase /\ t.pulse = s.pulse /\ t.beats = s.beats
        /\ t.left = s.left /\ t.repeat = s.repeat /\ t.lit = s.lit
        /\ t.mode = "idle"
    BY <2>1 DEF Sequencer
  <2>. QED
    BY <1>10, <2>1, <2>2, <2>3 DEF Advances, Stored, Counting
<1>11. CASE k = 9
  <2>1. w.field = "lit" /\ w.value = TRUE
    <3>1. w = Job(idle, painted)[10] /\ idle
      BY <1>11 DEF Length
    <3>2. w = Set("lit", TRUE)
      BY <3>1, Stores
    <3>. QED
      BY <3>2 DEF Set
  <2>2. t \in Sequencer
    BY <2>1 DEF Sequencer
  <2>3. /\ t.mode = s.mode /\ t.phase = s.phase /\ t.pulse = s.pulse
        /\ t.beats = s.beats /\ t.left = s.left /\ t.repeat = s.repeat
        /\ t.lit = TRUE
    BY <2>1 DEF Sequencer
  <2>. QED
    BY <1>11, <2>1, <2>2, <2>3 DEF Advances, Stored, Counting
<1>. QED
  BY <1>2, <1>3, <1>4, <1>5, <1>6, <1>7, <1>8, <1>9, <1>10, <1>11

LEMMA SamePart ==
  ASSUME NEW S, NEW s, NEW t, NEW m \in Nat, NEW n \in Nat,
         \A i \in m..n : s[i] = t[i] /\ t[i] \in S
  PROVE  SubSeq(s, m, n) = SubSeq(t, m, n)
<1>1. /\ SubSeq(t, m, n) \in Seq(S)
      /\ Len(SubSeq(t, m, n)) = IF m <= n THEN n - m + 1 ELSE 0
      /\ \A i \in 1..n - m + 1 : SubSeq(t, m, n)[i] = t[m + i - 1]
  BY SubSeqProperties
<1>2. \A i \in m..n : s[i] \in S
  OBVIOUS
<1>3. /\ SubSeq(s, m, n) \in Seq(S)
      /\ Len(SubSeq(s, m, n)) = IF m <= n THEN n - m + 1 ELSE 0
      /\ \A i \in 1..n - m + 1 : SubSeq(s, m, n)[i] = s[m + i - 1]
  BY <1>2, SubSeqProperties
<1>4. ASSUME NEW i \in 1..Len(SubSeq(s, m, n))
      PROVE  SubSeq(s, m, n)[i] = SubSeq(t, m, n)[i]
  <2>1. m <= n /\ i \in 1..n - m + 1 /\ m + i - 1 \in m..n
    BY <1>3
  <2>. QED
    BY <1>1, <1>3, <2>1
<1>. QED
  BY <1>1, <1>3, <1>4, SeqEqual

(* The paint reads a lit phase and puts the store to the pin in its own place. *)
LEMMA PaintMade ==
  ASSUME NEW idle \in BOOLEAN
  PROVE  << Set("lit", TRUE) >> \o SubSeq(Job(idle, FALSE), 9, Length(idle))
           = SubSeq(Job(idle, TRUE), 8, Length(idle))
<1> DEFINE n == Length(idle)
           before == Job(idle, FALSE)
           after == Job(idle, TRUE)
<1>1. n \in 8..10 /\ 8 \in 1..n /\ n \in 8..n
  BY DEF Length
<1>2. /\ after[8] = Set("lit", TRUE)
      /\ idle => after[9] = before[9] /\ after[10] = before[10]
  <2>1. after[8] = LastStore(TRUE)
    BY Stores
  <2>2. idle => after[9] = before[9] /\ after[10] = before[10]
    BY Stores
  <2>. QED
    BY <2>1, <2>2, Zenon DEF LastStore
<1>3. PICK S : before \in Seq(S) /\ Len(before) = n
  BY JobSeq
<1>4. PICK R : after \in Seq(R) /\ Len(after) = n
  BY JobSeq
<1> HIDE DEF before, after, n
<1>5. SubSeq(after, 8, n) = << after[8] >> \o SubSeq(after, 8 + 1, n)
  <2>1. 8 \in 1..Len(after) /\ n \in 8..Len(after)
    BY <1>1, <1>4
  <2>. QED
    BY <1>4, <2>1, SubSeqRecursiveFirst
<1>6. SubSeq(after, 9, n) = SubSeq(before, 9, n)
  <2>1. CASE ~idle
    <3>1. n < 9 /\ n \in Int
      BY <2>1 DEF n, Length
    <3>. QED
      BY <3>1, SubSeqEmpty
  <2>2. CASE idle
    <3>1. n = 10
      BY <2>2 DEF n, Length
    <3>2. \A i \in 9..10 : after[i] = before[i] /\ before[i] \in S
      <4>1. after[9] = before[9] /\ after[10] = before[10]
        BY <1>2, <2>2
      <4>2. \A i \in 1..Len(before) : before[i] \in S
        BY <1>3, ElementOfSeq
      <4>3. before[9] \in S /\ before[10] \in S
        BY <1>3, <3>1, <4>2
      <4>. QED
        BY <4>1, <4>3
    <3>. QED
      BY <3>1, <3>2, SamePart
  <2>. QED
    BY <2>1, <2>2
<1>7. << Set("lit", TRUE) >> \o SubSeq(before, 9, n) = SubSeq(after, 8, n)
  <2>1. 8 + 1 = 9
    OBVIOUS
  <2>. QED
    BY <1>2, <1>5, <1>6, <2>1
<1>. QED
  BY <1>7 DEF before, after, n
-----------------------------------------------------------------------------
(* The position a step that keeps the latched fault has reached *)
LEMMA Reached ==
  ASSUME NEW idle \in BOOLEAN, NEW painted \in BOOLEAN, NEW k \in 0..9,
         latched' = latched, led_n' = led_n,
         Single, shown' = 0, ~repeated', k < Length(idle),
         painted => k >= 7, ~painted => k <= 7,
         idle \/ latched \in {UART_OVERRUN, UART_FRAMING},
         todo' = SubSeq(Job(idle, painted), k + 1, Length(idle)),
         Stored(seq', idle, k, interrupted')
  PROVE  Arming'
<1>1. /\ Pulses(idle)' = Pulses(idle) /\ Repeats(idle)' = Repeats(idle)
      /\ Width(idle)' = Width(idle)
  BY DEF Pulses, Repeats, Width
<1>2. Job(idle, painted)' = Job(idle, painted) /\ Length(idle)' = Length(idle)
  BY <1>1 DEF Job, Length, LastStore
<1>3. Stored(seq, idle, k, interrupted)'
  BY <1>1 DEF Stored, Counting
<1>4. At(idle, painted, k)'
  BY <1>2, <1>3 DEF At
<1>. QED
  BY <1>4 DEF Arming, Single

(* Steps that leave the sequencer, the latched fault and the build alone *)
LEMMA Undisturbed ==
  ASSUME Arming, Running, UNCHANGED <<sequencer, latched, led_n>>
  PROVE  Arming' /\ Running'
<1>1. UNCHANGED <<seq, todo, interrupted, shown, repeated, latched, led_n>>
  BY DEF sequencer
<1>2. ASSUME todo = <<>> PROVE Arming'
  BY <1>1, <1>2 DEF Arming
<1>3. ASSUME todo # <<>> PROVE Arming'
  <2>1. Single /\ shown = 0 /\ ~repeated
    BY <1>3 DEF Arming
  <2>2. PICK idle \in BOOLEAN, painted \in BOOLEAN, k \in 0..9 : At(idle, painted, k)
    BY <1>3 DEF Arming
  <2>3. /\ k < Length(idle) /\ (painted => k >= 7) /\ (~painted => k <= 7)
        /\ idle \/ latched \in {UART_OVERRUN, UART_FRAMING}
        /\ todo = SubSeq(Job(idle, painted), k + 1, Length(idle))
        /\ Stored(seq, idle, k, interrupted)
    BY <2>2 DEF At
  <2>4. todo' = SubSeq(Job(idle, painted), k + 1, Length(idle))
    BY <1>1, <2>3
  <2>5. Stored(seq', idle, k, interrupted')
    BY <1>1, <2>3
  <2>6. shown' = 0 /\ ~repeated'
    BY <1>1, <2>1
  <2>. QED
    BY <1>1, <2>1, <2>3, <2>4, <2>5, <2>6, Reached
<1>4. Running'
  BY <1>1 DEF Running, Blinking, Settled, Single, Runs, Tells, Counts
<1>. QED
  BY <1>2, <1>3, <1>4

LEMMA StoreStep ==
  ASSUME IInv, Store
  PROVE  seq' \in Sequencer /\ interrupted' \in BOOLEAN /\ Arming' /\ Running'
<1>a. /\ seq \in Sequencer /\ interrupted \in BOOLEAN
  BY DEF IInv, TypeOK
<1>b. /\ latched' = latched /\ led_n' = led_n /\ shown' = shown /\ repeated' = repeated
      /\ todo # <<>>
  BY DEF Store, reset
<1>c. Single /\ shown = 0 /\ ~repeated
  BY <1>b DEF IInv, Arming
<1>1. /\ seq \in Sequencer /\ interrupted \in BOOLEAN
      /\ latched' = latched /\ led_n' = led_n
      /\ todo # <<>> /\ Single /\ shown' = 0 /\ ~repeated'
  BY <1>a, <1>b, <1>c
<1>2. PICK idle \in BOOLEAN, painted \in BOOLEAN, k \in 0..9 : At(idle, painted, k)
  BY <1>1 DEF IInv, Arming
<1> DEFINE n == Length(idle)
           w == Job(idle, painted)[k + 1]
<1>3. /\ k < n /\ (painted => k >= 7) /\ (~painted => k <= 7)
      /\ idle \/ latched \in {UART_OVERRUN, UART_FRAMING}
      /\ todo = SubSeq(Job(idle, painted), k + 1, n)
      /\ Stored(seq, idle, k, interrupted)
  BY <1>2 DEF At
<1>4. /\ Head(todo) = w /\ Tail(todo) = SubSeq(Job(idle, painted), k + 2, n)
      /\ k + 1 = n => Tail(todo) = <<>>
  <2>1. Splits(todo, w, SubSeq(Job(idle, painted), k + 2, n))
    BY <1>3, NextStore
  <2>2. k + 1 = n => SubSeq(Job(idle, painted), k + 2, n) = <<>>
    <3>1. k + 2 \in Int /\ n \in Int /\ (k + 1 = n => n < k + 2)
      BY DEF Length
    <3> HIDE DEF n
    <3>. QED
      BY <3>1, SubSeqEmpty
  <2>. QED
    BY <2>1, <2>2 DEF Splits
<1>5. CASE ~painted /\ k = 7
  <2>1. w = Set("paint", 0)
    <3>1. w = Job(idle, painted)[8]
      BY <1>5
    <3>2. w = LastStore(painted)
      BY <3>1, Stores
    <3>. QED
      BY <1>5, <3>2 DEF LastStore
  <2>2. seq' = seq /\ todo' = << Set("lit", Painted(seq)) >> \o Tail(todo)
    BY <1>4, <2>1 DEF Store, Set
  <2>3. Painted(seq) = TRUE
    <3>1. seq.phase = "pulse"
      BY <1>3, <1>5 DEF Stored
    <3>. QED
      BY <3>1, Zenon DEF Painted
  <2>4. Tail(todo) = SubSeq(Job(idle, FALSE), 9, n)
    <3>1. k + 2 = 9 /\ painted = FALSE
      BY <1>5
    <3>. QED
      BY <1>4, <3>1
  <2>5. todo' = SubSeq(Job(idle, TRUE), 8, n)
    BY <2>2, <2>3, <2>4, PaintMade
  <2>6. 7 \in 0..9 /\ 7 < n /\ 7 + 1 = 8
    BY DEF Length
  <2>7. todo' = SubSeq(Job(idle, TRUE), 7 + 1, n)
    BY <2>5, <2>6
  <2>8. todo' # <<>>
    BY <2>6, <2>7, NextStore DEF Splits
  <2>9. interrupted' = interrupted
    BY <1>1, <2>8, Zenon DEF Store
  <2>10. Stored(seq', idle, 7, interrupted')
    BY <1>3, <1>5, <2>2, <2>9
  <2>11. Arming'
    <3>1. TRUE \in BOOLEAN /\ (TRUE => 7 >= 7) /\ (~TRUE => 7 <= 7)
      OBVIOUS
    <3>. QED
      BY <1>1, <1>3, <2>6, <2>7, <2>10, <3>1, Reached
  <2>12. Running'
    BY <2>8 DEF Running, Blinking, Settled
  <2>. QED
    BY <1>1, <2>2, <2>9, <2>11, <2>12
<1>6. CASE ~(~painted /\ k = 7)
  <2>1. ~painted => k <= 6
    BY <1>3, <1>6
  <2> DEFINE t == [seq EXCEPT ![w.field] = w.value]
  <2>2. t \in Sequencer /\ w.field # "paint" /\ Stored(t, idle, k + 1, interrupted)
    <3>1. Advances(w, t, idle, k + 1, interrupted)
      BY <1>1, <1>3, <2>1, StoreMade
    <3>. QED
      BY <3>1 DEF Advances
  <2>3. seq' = t /\ todo' = Tail(todo) /\ interrupted' = (interrupted /\ todo' # <<>>)
    BY <1>4, <2>2 DEF Store
  <2> HIDE DEF t
  <2>4. interrupted' \in BOOLEAN
    BY <1>1, <2>3, Zenon
  <2>5. CASE k + 1 < n
    <3>1. k + 1 \in 0..9 /\ (k + 1) + 1 = k + 2 /\ (painted => k + 1 >= 7)
          /\ (~painted => k + 1 <= 7)
      BY <1>3, <2>1, <2>5 DEF Length
    <3>2. todo' = SubSeq(Job(idle, painted), (k + 1) + 1, n)
      BY <1>4, <2>3, <3>1
    <3>3. todo' # <<>>
      BY <2>5, <3>1, <3>2, NextStore DEF Splits
    <3>4. interrupted' = interrupted
      BY <1>1, <2>3, <3>3, Zenon
    <3>5. Stored(seq', idle, k + 1, interrupted')
      BY <2>2, <2>3, <3>4
    <3>6. Arming'
      BY <1>1, <1>3, <2>5, <3>1, <3>2, <3>5, Reached
    <3>7. Running'
      BY <3>3 DEF Running, Blinking, Settled
    <3>. QED
      BY <2>2, <2>3, <2>4, <3>6, <3>7
  <2>6. CASE k + 1 = n
    <3>1. todo' = <<>>
      BY <1>4, <2>3, <2>6
    <3>2. Arming'
      BY <3>1 DEF Arming
    <3>3. CASE idle
      <4>1. t.mode = "idle"
        BY <2>2, <2>6, <3>3 DEF Stored, Length
      <4>. QED
        BY <2>2, <2>3, <2>4, <3>2, <4>1 DEF Running, Blinking
    <3>4. CASE ~idle
      <4>1. k + 1 = 8
        BY <2>6, <3>4 DEF Length
      <4>2. /\ t.beats = 6 /\ t.repeat = latched /\ t.phase = "pulse" /\ t.lit
            /\ t.left \in {latched - 1, latched} /\ t.pulse \in {5, 6}
            /\ latched \in {4, 5}
        BY <1>3, <2>2, <3>4, <4>1
           DEF Stored, Counting, Pulses, Repeats, Width, BEAT_PULSE_LONG, UART_OVERRUN,
               UART_FRAMING
      <4>3. t.lit = (t.phase = "pulse")
        BY <2>2, <4>2 DEF Sequencer
      <4>4. Runs'
        <5>1. t.pulse \in 1..t.beats /\ t.left > 0 /\ t.phase # "gap"
          BY <4>2
        <5>. QED
          BY <2>3, <4>3, <5>1, Zenon DEF Runs
      <4>5. Tells'
        BY <1>1, <2>3, <4>2 DEF Tells, BEAT_PULSE_LONG
      <4>6. Counts'
        BY <1>1, <2>3, <4>2 DEF Counts
      <4>. QED
        BY <2>2, <2>3, <2>4, <3>2, <4>4, <4>5, <4>6 DEF Running
    <3>. QED
      BY <3>3, <3>4
  <2>7. k + 1 < n \/ k + 1 = n
    BY <1>3 DEF Length
  <2>. QED
    BY <2>5, <2>6, <2>7
<1>. QED
  BY <1>5, <1>6
(* A beat that falls between two jobs moves a pattern that runs to one that   *)
(* runs; a pulse that ends leaves the code one pulse less to show.            *)
LEMMA BeatOfPattern ==
  ASSUME Running, Blinking, seq \in Sequencer, latched' = latched,
         shown \in 0..5, repeated \in BOOLEAN,
         BeatTaken(seq, seq'),
         shown' = IF PulseEnds THEN Counted(shown) ELSE IF GroupStarts THEN 0 ELSE shown,
         repeated' = (repeated \/ GroupStarts)
  PROVE  /\ shown' \in 0..5 /\ repeated' \in BOOLEAN /\ Runs' /\ Tells' /\ Counts'
         /\ PulseEnds /\ seq'.left = 0 => shown' = shown + seq.left
<1>1. Runs /\ Tells /\ Counts /\ seq.mode = "pattern"
  BY DEF Running, Blinking
<1>2. /\ seq' \in Sequencer
      /\ seq'.mode = "pattern" /\ seq'.beats = seq.beats /\ seq'.repeat = seq.repeat
  BY <1>1 DEF BeatTaken
<1>3. seq'.lit = (seq'.phase = "pulse")
  <2>1. seq'.lit = (seq'.mode = "idle" \/ seq'.phase = "pulse")
    BY DEF BeatTaken
  <2>2. seq'.mode # "idle"
    BY <1>2
  <2>. QED
    BY <2>1, <2>2, <1>2 DEF Sequencer
<1>4. Tells'
  BY <1>1, <1>2 DEF Tells
<1>5. /\ seq.left \in 0..5 /\ seq'.left \in 0..5 /\ seq.repeat \in 0..5
      /\ seq.pulse \in 0..6 /\ seq.beats \in {2, 6}
  BY <1>2, SequencerFields
<1>6. repeated' \in BOOLEAN
  BY Zenon DEF GroupStarts
<1>7. ASSUME ~PulseEnds, ~GroupStarts, seq'.left = seq.left,
             (seq'.phase = "pulse" => seq'.pulse \in 1..seq'.beats /\ seq'.left > 0),
             (seq'.phase = "gap" => seq'.gap > 0)
      PROVE  shown' \in 0..5 /\ Runs' /\ Counts'
  <2>1. shown' = shown /\ (repeated' <=> repeated)
    BY <1>7
  <2>2. Runs'
    BY <1>3, <1>7, Zenon DEF Runs
  <2>3. Counts'
    BY <1>1, <1>2, <1>7, <2>1 DEF Counts
  <2>. QED
    BY <2>1, <2>2, <2>3
<1>8. CASE seq.phase = "idle" /\ Same(seq, seq')
  <2>1. ~PulseEnds /\ ~GroupStarts
    BY <1>8 DEF PulseEnds, GroupStarts
  <2>. QED
    BY <1>4, <1>6, <1>7, <1>8, <2>1 DEF Same
<1>9. CASE PulseGoesOn(seq, seq')
  <2>1. ~PulseEnds /\ ~GroupStarts
    BY <1>9 DEF PulseEnds, GroupStarts, PulseGoesOn
  <2>2. seq'.pulse \in 1..seq'.beats /\ seq'.left > 0
    BY <1>1, <1>2, <1>5, <1>9 DEF Runs, PulseGoesOn
  <2>. QED
    BY <1>4, <1>6, <1>7, <1>9, <2>1, <2>2 DEF PulseGoesOn
<1>10. CASE PulseStops(seq, seq')
  <2>1. PulseEnds
    BY <1>10 DEF PulseEnds, PulseStops
  <2>2. seq.left > 0 /\ seq'.left = seq.left - 1
    BY <1>1, <1>5, <1>10 DEF Runs, PulseStops
  <2>3. shown' = shown + 1 /\ shown' \in 0..5
    BY <1>1, <1>5, <2>1, <2>2 DEF Counts, Counted, MaxShown
  <2>4. repeated' <=> repeated
    BY <2>1 DEF PulseEnds, GroupStarts
  <2>5. Runs'
    <3>1. seq'.phase = "gap" /\ seq'.gap > 0
      BY <1>10 DEF PulseStops
    <3>. QED
      BY <1>3, <3>1, Zenon DEF Runs
  <2>6. Counts'
    <3>1. shown' + seq'.left = shown + seq.left
      BY <1>5, <2>2, <2>3
    <3>. QED
      BY <1>1, <1>2, <2>4, <3>1 DEF Counts
  <2>7. seq'.left = 0 => shown' = shown + seq.left
    BY <1>5, <2>2, <2>3
  <2>. QED
    BY <1>4, <1>6, <2>3, <2>5, <2>6, <2>7
<1>11. CASE GapGoesOn(seq, seq')
  <2>1. ~PulseEnds /\ ~GroupStarts
    BY <1>11 DEF PulseEnds, GroupStarts, GapGoesOn
  <2>2. seq'.gap > 0 /\ seq'.left = seq.left /\ seq'.phase = "gap"
    BY <1>2, <1>11, SequencerFields DEF GapGoesOn
  <2>. QED
    BY <1>4, <1>6, <1>7, <2>1, <2>2
<1>12. CASE PulseFollows(seq, seq')
  <2>1. ~PulseEnds /\ ~GroupStarts
    BY <1>12 DEF PulseEnds, GroupStarts, PulseFollows
  <2>2. /\ seq'.pulse \in 1..seq'.beats /\ seq'.left > 0 /\ seq'.left = seq.left
        /\ seq'.phase = "pulse"
    BY <1>2, <1>5, <1>12 DEF PulseFollows
  <2>. QED
    BY <1>4, <1>6, <1>7, <2>1, <2>2
<1>13. CASE GroupFollows(seq, seq')
  <2>1. GroupStarts /\ ~PulseEnds
    BY <1>13 DEF PulseEnds, GroupStarts, GroupFollows
  <2>2. shown' = 0
    BY <2>1
  <2>3. /\ seq'.left = seq.repeat /\ seq.repeat > 0 /\ seq.repeat = latched
        /\ seq'.phase = "pulse" /\ seq'.pulse = seq.beats
    BY <1>1, <1>13 DEF Tells, GroupFollows
  <2>4. Runs'
    <3>1. seq'.pulse \in 1..seq'.beats /\ seq'.left > 0 /\ seq'.phase # "gap"
      BY <1>2, <1>5, <2>3
    <3>. QED
      BY <1>3, <3>1, Zenon DEF Runs
  <2>5. Counts'
    BY <1>5, <2>2, <2>3 DEF Counts
  <2>. QED
    BY <1>4, <1>6, <2>1, <2>2, <2>4, <2>5
<1>14. CASE BurstEnds(seq, seq')
  <2>1. ~PulseEnds /\ ~GroupStarts
    BY <1>14 DEF PulseEnds, GroupStarts, BurstEnds
  <2>2. seq'.left = seq.left /\ seq'.phase = "idle"
    BY <1>14 DEF BurstEnds
  <2>. QED
    BY <1>4, <1>6, <1>7, <2>1, <2>2
<1>. QED
  BY <1>1, <1>8, <1>9, <1>10, <1>11, <1>12, <1>13, <1>14 DEF BeatTaken

LEMMA TickStep ==
  ASSUME IInv, Tick
  PROVE  /\ seq' \in Sequencer /\ interrupted' \in BOOLEAN
         /\ shown' \in 0..5 /\ repeated' \in BOOLEAN
         /\ Arming' /\ Running'
<1>1. /\ seq \in Sequencer /\ shown \in 0..5 /\ repeated \in BOOLEAN
      /\ ~interrupted /\ interrupted \in BOOLEAN
  BY DEF IInv, TypeOK, Tick
<1>2. latched' = latched /\ led_n' = led_n /\ todo' = todo
  BY DEF Tick, reset
<1>3. BeatTaken(seq, seq')
  BY <1>1, BeatShape DEF Tick
<1>4. seq' \in Sequencer
  BY <1>3 DEF BeatTaken
<1>5. interrupted' = (todo # <<>>)
  BY DEF Tick
<1>6. CASE todo # <<>>
  <2>1. Single /\ shown = 0 /\ ~repeated
    BY <1>6 DEF IInv, Arming
  <2>2. shown' = shown /\ repeated' = repeated
    <3>1. ~Settled
      BY <1>6 DEF Settled
    <3>2. shown' = shown
      BY <3>1 DEF Tick
    <3>3. repeated' = (repeated \/ (Settled /\ GroupStarts))
      BY DEF Tick
    <3>. QED
      BY <1>1, <3>1, <3>2, <3>3
  <2>3. interrupted' = TRUE
    BY <1>5, <1>6
  <2>4. PICK idle \in BOOLEAN, painted \in BOOLEAN, k \in 0..9 : At(idle, painted, k)
    BY <1>6 DEF IInv, Arming
  <2>5. /\ k < Length(idle) /\ (painted => k >= 7) /\ (~painted => k <= 7)
        /\ idle \/ latched \in {UART_OVERRUN, UART_FRAMING}
        /\ todo = SubSeq(Job(idle, painted), k + 1, Length(idle))
        /\ Stored(seq, idle, k, interrupted)
    BY <2>4 DEF At
  <2>6. Stored(seq, idle, k, FALSE)
    <3>1. interrupted = FALSE
      BY <1>1
    <3>. QED
      BY <2>5, <3>1
  <2>7. Stored(seq', idle, k, TRUE)
    BY <1>1, <1>3, <2>5, <2>6, BeatAmongStores
  <2>8. Stored(seq', idle, k, interrupted')
    BY <2>3, <2>7
  <2>9. todo' = SubSeq(Job(idle, painted), k + 1, Length(idle))
    BY <1>2, <2>5
  <2>10. shown' = 0 /\ ~repeated'
    BY <2>1, <2>2
  <2>11. Arming'
    BY <1>2, <2>1, <2>5, <2>8, <2>9, <2>10, Reached
  <2>12. Running'
    BY <1>2, <1>6 DEF Running, Blinking, Settled
  <2>. QED
    BY <1>1, <1>4, <2>2, <2>3, <2>11, <2>12
<1>7. CASE todo = <<>>
  <2>1. Settled
    BY <1>7 DEF Settled
  <2>2. Arming' /\ interrupted' \in BOOLEAN
    BY <1>2, <1>5, <1>7 DEF Arming
  <2>3. shown' = IF PulseEnds THEN Counted(shown) ELSE IF GroupStarts THEN 0 ELSE shown
    BY <2>1 DEF Tick
  <2>4. repeated' = (repeated \/ GroupStarts)
    BY <2>1, Zenon DEF Tick
  <2>5. CASE seq.mode = "pattern"
    <3>1. Running /\ Blinking
      BY <2>1, <2>5 DEF IInv, Blinking, Tick
    <3>2. /\ shown' \in 0..5 /\ repeated' \in BOOLEAN /\ Runs' /\ Tells' /\ Counts'
      BY <1>1, <1>2, <1>3, <2>3, <2>4, <3>1, BeatOfPattern
    <3>. QED
      BY <1>4, <2>2, <3>2 DEF Running
  <2>6. CASE seq.mode = "idle"
    <3>1. seq'.mode = "idle" /\ seq'.phase = seq.phase
      BY <1>3, <2>6 DEF BeatTaken, Same
    <3>2. ~PulseEnds /\ ~GroupStarts
      BY <3>1 DEF PulseEnds, GroupStarts
    <3>3. shown' = shown /\ repeated' \in BOOLEAN
      BY <1>1, <2>3, <2>4, <3>2
    <3>4. Running'
      BY <3>1 DEF Running, Blinking
    <3>. QED
      BY <1>1, <1>4, <2>2, <3>3, <3>4
  <2>. QED
    BY <1>1, <2>5, <2>6, SequencerFields
<1>. QED
  BY <1>6, <1>7
-----------------------------------------------------------------------------
(* A list of eight or ten is its own part from the first to the last. *)
LEMMA Whole ==
  ASSUME NEW a, NEW b, NEW c, NEW d, NEW e, NEW f, NEW g, NEW h, NEW i, NEW j
  PROVE  /\ SubSeq(<< a, b, c, d, e, f, g, h >>, 0 + 1, 8) = << a, b, c, d, e, f, g, h >>
         /\ SubSeq(<< a, b, c, d, e, f, g, h, i, j >>, 0 + 1, 10)
              = << a, b, c, d, e, f, g, h, i, j >>
<1> DEFINE S == {a, b, c, d, e, f, g, h, i, j}
           s == << a, b, c, d, e, f, g, h >>
           u == << a, b, c, d, e, f, g, h, i, j >>
<1>1. s \in Seq(S) /\ u \in Seq(S)
  OBVIOUS
<1>2. Len(u) = 10 /\ Len(s) = 8 /\ 0 + 1 = 1
  OBVIOUS
<1> HIDE DEF s, u, S
<1>3. SubSeq(s, 1, 8) = s /\ SubSeq(u, 1, 10) = u
  BY <1>1, <1>2, SubSeqFull
<1>. QED
  BY <1>2, <1>3 DEF s, u

(* led_arm begun: no store made yet, whatever the sequencer holds *)
LEMMA JobBegins ==
  ASSUME NEW idle \in BOOLEAN, Single', shown' = 0, ~repeated',
         idle \/ latched' \in {UART_OVERRUN, UART_FRAMING},
         todo' = Job(idle, FALSE)'
  PROVE  Arming'
<1>1. Job(idle, FALSE)' = SubSeq(Job(idle, FALSE)', 0 + 1, Length(idle))
  <2>1. CASE idle
    <3>1. \E a, b, c, d, e, f, g, h, i, j :
            Job(idle, FALSE)' = << a, b, c, d, e, f, g, h, i, j >>
      BY <2>1 DEF Job
    <3>2. Length(idle) = 10
      BY <2>1 DEF Length
    <3>. QED
      BY <3>1, <3>2, Whole
  <2>2. CASE ~idle
    <3>1. \E a, b, c, d, e, f, g, h : Job(idle, FALSE)' = << a, b, c, d, e, f, g, h >>
      BY <2>2 DEF Job
    <3>2. Length(idle) = 8
      BY <2>2 DEF Length
    <3>. QED
      BY <3>1, <3>2, Whole
  <2>. QED
    BY <2>1, <2>2
<1>2. Stored(seq, idle, 0, interrupted)'
  BY DEF Stored
<1>3. 0 \in 0..9 /\ 0 < Length(idle) /\ FALSE \in BOOLEAN
  BY DEF Length
<1>4. At(idle, FALSE, 0)'
  <2>1. (todo = SubSeq(Job(idle, FALSE), 0 + 1, Length(idle)))'
    BY <1>1
  <2>2. (FALSE => 0 >= 7) /\ (~FALSE => 0 <= 7)
    OBVIOUS
  <2>. QED
    BY <1>2, <1>3, <2>1, <2>2, Zenon DEF At
<1>. QED
  BY <1>3, <1>4, Zenon DEF Arming

LEMMA MonitorStep ==
  ASSUME IInv, CheckMonitor
  PROVE  Arming' /\ Running' /\ RowIsTrace'
<1>1. UNCHANGED <<latched, led_n>>
  BY DEF CheckMonitor, reset
<1>2. ASSUME UNCHANGED <<sequencer, led_state, monitor_seen>>
      PROVE  Arming' /\ Running' /\ RowIsTrace'
  <2>1. Arming' /\ Running'
    BY <1>1, <1>2, Undisturbed DEF IInv
  <2>2. RowIsTrace'
    BY <1>1, <1>2 DEF IInv, RowIsTrace, Single
  <2>. QED
    BY <2>1, <2>2
<1>3. ASSUME Single, Begin(led_arm(BEAT_PULSE_SHORT, MONITOR + 1, 0) \o idle_stores)
      PROVE  Arming' /\ Running' /\ RowIsTrace'
  <2>1. Single'
    BY <1>1, <1>3 DEF Single
  <2>2. Job(TRUE, FALSE)' = Job(TRUE, FALSE)
    BY DEF Job, Pulses, Repeats, Width, LastStore
  <2>3. todo' = Job(TRUE, FALSE)' /\ shown' = 0 /\ ~repeated'
    BY <1>3, <2>2, JobsStart DEF Begin
  <2>4. Arming'
    BY <2>1, <2>3, JobBegins
  <2>5. Running'
    <3>1. todo' # <<>>
      BY <2>3 DEF Job
    <3>. QED
      BY <3>1 DEF Running, Blinking, Settled
  <2>6. RowIsTrace'
    BY <2>1 DEF RowIsTrace
  <2>. QED
    BY <2>4, <2>5, <2>6
<1>4. ASSUME ~Single, monitor_seen' = TRUE, UNCHANGED sequencer,
             led_state' = [AllSolid EXCEPT ![MONITOR] = "solid"]
      PROVE  Arming' /\ Running' /\ RowIsTrace'
  <2>1. Arming' /\ Running'
    BY <1>1, <1>4, Undisturbed DEF IInv
  <2>2. ASSUME latched = NONE
        PROVE  \A s \in Stages : led_state'[s] = "solid"
    <3>1. \A s \in Stages : s # MONITOR => led_state[s] = "solid"
      BY <1>4, <2>2 DEF IInv, RowIsTrace
    <3>. QED
      BY <1>4, <3>1 DEF AllSolid
  <2>3. RowIsTrace'
    BY <1>1, <1>4, <2>2 DEF RowIsTrace, Single
  <2>. QED
    BY <2>1, <2>3
<1>. QED
  BY <1>2, <1>3, <1>4 DEF CheckMonitor

LEMMA PollStep ==
  ASSUME IInv, led_poll
  PROVE  latched' \in Faults /\ Arming' /\ Running' /\ RowIsTrace'
<1>1. led_n' = led_n
  BY DEF led_poll, reset
<1>2. latched \in Faults
  BY DEF IInv, TypeOK
<1>3. ASSUME UNCHANGED <<sequencer, led_state, latched>>
      PROVE  latched' \in Faults /\ Arming' /\ Running' /\ RowIsTrace'
  <2>1. Arming' /\ Running'
    BY <1>1, <1>3, Undisturbed DEF IInv
  <2>2. RowIsTrace'
    BY <1>1, <1>3 DEF IInv, RowIsTrace, Single, led_poll
  <2>. QED
    BY <1>2, <1>3, <2>1, <2>2
<1>4. ASSUME SerialFault # NONE, led_fault(SerialFault), todo = <<>>, latched = NONE
      PROVE  latched' \in Faults /\ Arming' /\ Running' /\ RowIsTrace'
  <2>1. SerialFault \in {UART_OVERRUN, UART_FRAMING} /\ latched' = SerialFault
    BY <1>4 DEF SerialFault, led_fault
  <2>2. latched' \in Faults /\ latched' # NONE
    BY <2>1 DEF Faults, NONE, UART_OVERRUN, UART_FRAMING
  <2>3. RowIsTrace'
    BY <2>2 DEF RowIsTrace
  <2>4. CASE Single
    <3>1. /\ todo' = led_arm(BEAT_PULSE_LONG, latched', latched')
          /\ shown' = 0 /\ ~repeated'
      BY <1>4, <2>1, <2>4 DEF led_fault, Begin
    <3>2. todo' = Job(FALSE, FALSE)'
      BY <3>1 DEF led_arm, Job, Pulses, Repeats, Width, LastStore
    <3>3. Arming'
      BY <1>1, <2>1, <2>4, <3>1, <3>2, JobBegins DEF Single
    <3>4. todo' # <<>>
      BY <3>1 DEF led_arm
    <3>5. Running'
      BY <3>4 DEF Running, Blinking, Settled
    <3>. QED
      BY <2>2, <2>3, <3>3, <3>5
  <2>5. CASE ~Single
    <3>1. UNCHANGED sequencer
      BY <1>4, <2>5 DEF led_fault
    <3>2. Arming'
      BY <1>4, <3>1 DEF Arming, sequencer
    <3>3. Running'
      BY <1>1, <2>5 DEF Running, Blinking, Single
    <3>. QED
      BY <2>2, <2>3, <3>2, <3>3
  <2>. QED
    BY <2>4, <2>5
<1>. QED
  BY <1>3, <1>4 DEF led_poll
-----------------------------------------------------------------------------
(* The sequencer of a build with several LEDs *)
LEMMA Darkened ==
  ASSUME NEW s \in Sequencer, NEW phase \in {"idle", "pulse", "gap"}, NEW pulse \in 0..6,
         NEW lit \in BOOLEAN,
         NEW t, t = [s EXCEPT !.phase = phase, !.pulse = pulse, !.lit = lit]
  PROVE  t \in Sequencer /\ t.phase = phase
BY DEF Sequencer

LEMMA UnusedShape == Unused \in Sequencer /\ Unused.phase = "idle"
<1>1. Armed(BEAT_PULSE_SHORT, 0, 0) \in Sequencer
  BY DEF Armed, Sequencer, BEAT_PULSE_SHORT, BEAT_PULSE_LONG
<1>2. FALSE \in BOOLEAN /\ "idle" \in {"idle", "pulse", "gap"} /\ 0 \in 0..6
  OBVIOUS
<1>. QED
  BY <1>1, <1>2, Darkened, Zenon DEF Unused

(* What led_init and the boot leave *)
LEMMA BootedOK ==
  ASSUME NEW flags
  PROVE  /\ Booted(flags).seq \in Sequencer /\ Booted(flags).latched \in Faults
         /\ Booted(flags).led_state \in [Stages -> {"off", "solid", "fault"}]
<1>1. ResetFault(flags) \in Faults
  BY DEF ResetFault, Faults, BROWNOUT, WATCHDOG, EXTERNAL, NONE, UART_FRAMING
<1>2. BootVisuals(ResetFault(flags)) \in [Stages -> {"off", "solid", "fault"}]
  BY DEF BootVisuals
<1>3. Armed(BEAT_PULSE_SHORT, CPU + 1, 0) \in Sequencer /\ Unused \in Sequencer
  <2>1. Armed(BEAT_PULSE_SHORT, CPU + 1, 0) \in Sequencer
    BY DEF Armed, Sequencer, BEAT_PULSE_SHORT, BEAT_PULSE_LONG, CPU
  <2>3. Unused \in Sequencer
    BY UnusedShape
  <2>. QED
    BY <2>1, <2>3
<1>. QED
  BY <1>1, <1>2, <1>3 DEF Booted

(* The boot leaves nothing to store, a burst of three, and the trace. *)
LEMMA BootedRuns ==
  ASSUME NEW flags, todo = <<>>, shown = 0, ~monitor_seen,
         seq = Booted(flags).seq, led_state = Booted(flags).led_state,
         latched = Booted(flags).latched
  PROVE  Arming /\ Running /\ RowIsTrace
<1>1. Arming
  BY DEF Arming
<1>2. ASSUME Blinking PROVE Runs /\ Tells /\ Counts
  <2>1. seq = Armed(BEAT_PULSE_SHORT, CPU + 1, 0)
    BY <1>2 DEF Blinking, Booted
  <2>2. /\ seq.phase = "pulse" /\ seq.lit = TRUE /\ seq.pulse = 2 /\ seq.beats = 2
        /\ seq.left = 3 /\ seq.repeat = 0
    BY <2>1 DEF Armed, BEAT_PULSE_SHORT, CPU
  <2>3. seq.pulse \in 1..seq.beats /\ seq.left > 0 /\ seq.phase # "gap"
    BY <2>2
  <2>4. Runs
    BY <2>2, <2>3, Zenon DEF Runs
  <2>. QED
    BY <2>2, <2>4 DEF Tells, Counts, BEAT_PULSE_LONG
<1>3. RowIsTrace
  BY DEF RowIsTrace, Booted, BootVisuals, NONE, MONITOR, Stages, POWER
<1>. QED
  BY <1>1, <1>2, <1>3 DEF Running

LEMMA InitIInv ==
  ASSUME Init
  PROVE  IInv
<1>1. Arming /\ Running /\ RowIsTrace
  BY BootedRuns DEF Init
<1>2. TypeOK
  <2>1. /\ seq \in Sequencer /\ latched \in Faults
        /\ led_state \in [Stages -> {"off", "solid", "fault"}]
    BY BootedOK DEF Init
  <2>2. interrupted \in BOOLEAN /\ monitor_seen \in BOOLEAN /\ dor \in BOOLEAN
        /\ repeated \in BOOLEAN
    BY Zenon DEF Init
  <2>3. frames \in Seq(BOOLEAN) /\ Len(frames) <= 2 /\ shown \in 0..5
    <3>1. frames = <<>> /\ shown = 0
      BY DEF Init
    <3>. QED
      BY <3>1
  <2>. QED
    BY <2>1, <2>2, <2>3 DEF Init, TypeOK, Causes
<1>. QED
  BY <1>1, <1>2 DEF IInv

LEMMA ResetStep ==
  ASSUME IInv, NEW c \in Causes, Reset(c)
  PROVE  IInv'
<1>1. Arming' /\ Running' /\ RowIsTrace'
  <2> DEFINE flags == Flags(c)
  <2>1. /\ todo' = <<>> /\ shown' = 0 /\ monitor_seen' = FALSE /\ repeated' = FALSE
        /\ seq' = Booted(flags).seq /\ led_state' = Booted(flags).led_state
        /\ latched' = Booted(flags).latched /\ led_n' = led_n
    BY DEF Reset
  <2> HIDE DEF flags
  <2>2. Arming'
    BY <2>1 DEF Arming
  <2>3. ASSUME Blinking' PROVE Runs' /\ Tells' /\ Counts'
    <3>1. seq' = Armed(BEAT_PULSE_SHORT, CPU + 1, 0)
      BY <2>1, <2>3 DEF Blinking, Booted, Single
    <3>2. /\ seq'.phase = "pulse" /\ seq'.lit = TRUE /\ seq'.pulse = 2 /\ seq'.beats = 2
          /\ seq'.left = 3 /\ seq'.repeat = 0
      BY <3>1 DEF Armed, BEAT_PULSE_SHORT, CPU
    <3>3. seq'.pulse \in 1..seq'.beats /\ seq'.left > 0 /\ seq'.phase # "gap"
      BY <3>2
    <3>4. Runs'
      BY <3>2, <3>3, Zenon DEF Runs
    <3>. QED
      BY <2>1, <3>2, <3>4 DEF Tells, Counts, BEAT_PULSE_LONG
  <2>4. RowIsTrace'
    BY <2>1 DEF RowIsTrace, Booted, BootVisuals, Single, NONE, MONITOR, Stages, POWER
  <2>. QED
    BY <2>2, <2>3, <2>4 DEF Running
<1>2. TypeOK'
  <2>1. /\ seq' \in Sequencer /\ latched' \in Faults
        /\ led_state' \in [Stages -> {"off", "solid", "fault"}]
    BY BootedOK DEF Reset
  <2>2. mcusr' \subseteq Causes
    BY DEF Reset, Flags, IInv, TypeOK
  <2>3. interrupted' \in BOOLEAN /\ monitor_seen' \in BOOLEAN /\ dor' \in BOOLEAN
        /\ repeated' \in BOOLEAN
    BY Zenon DEF Reset
  <2>4. frames' \in Seq(BOOLEAN) /\ Len(frames') <= 2 /\ shown' \in 0..5
    BY DEF Reset
  <2>5. pc' = "cpu" /\ led_n' \in LedCounts
    BY DEF Reset, IInv, TypeOK
  <2>. QED
    BY <2>1, <2>2, <2>3, <2>4, <2>5 DEF TypeOK
<1>. QED
  BY <1>1, <1>2 DEF IInv

(* Steps of the serial line: only the receiver and the program counter move. *)
LEMMA SerialStep ==
  ASSUME IInv, cpu_step \/ Receive
  PROVE  IInv'
<1>1. UNCHANGED <<sequencer, latched, led_state, monitor_seen, reset>>
  BY DEF cpu_step, Receive
<1>2. Arming' /\ Running'
  BY <1>1, Undisturbed DEF IInv, reset
<1>3. RowIsTrace'
  BY <1>1 DEF IInv, RowIsTrace, Single, reset
<1>4. frames \in Seq(BOOLEAN) /\ Len(frames) <= 2 /\ dor \in BOOLEAN
  BY DEF IInv, TypeOK
<1>5. frames' \in Seq(BOOLEAN) /\ Len(frames') <= 2 /\ dor' \in BOOLEAN
  <2>1. CASE cpu_step
    <3>1. CASE UNCHANGED serial
      BY <1>4, <3>1 DEF serial
    <3>2. CASE frames # <<>> /\ frames' = Tail(frames) /\ dor' = FALSE
      <4>1. Tail(frames) \in Seq(BOOLEAN) /\ Len(Tail(frames)) = Len(frames) - 1
        BY <1>4, <3>2, HeadTailProperties
      <4>2. Len(Tail(frames)) <= 2
        BY <1>4, <4>1, LenProperties
      <4>3. dor' \in BOOLEAN
        BY <3>2, Zenon
      <4>. QED
        BY <3>2, <4>1, <4>2, <4>3
    <3>. QED
      BY <2>1, <3>1, <3>2 DEF cpu_step
  <2>2. CASE Receive
    <3>1. ASSUME NEW bad \in BOOLEAN, Len(frames) < 2, frames' = Append(frames, bad)
          PROVE  frames' \in Seq(BOOLEAN) /\ Len(frames') <= 2
      <4>1. frames' \in Seq(BOOLEAN) /\ Len(frames') = Len(frames) + 1
        BY <1>4, <3>1, AppendProperties
      <4>. QED
        BY <1>4, <3>1, <4>1, LenProperties
    <3>2. CASE Len(frames) = 2 /\ dor' = TRUE /\ UNCHANGED frames
      <4>1. dor' \in BOOLEAN
        BY <3>2, Zenon
      <4>. QED
        BY <1>4, <3>2, <4>1
    <3>. QED
      BY <1>4, <2>2, <3>1, <3>2 DEF Receive
  <2>. QED
    BY <2>1, <2>2
<1>6. pc' \in {"cpu", "check", "poll"}
  BY DEF IInv, TypeOK, cpu_step, Receive
<1>7. TypeOK'
  BY <1>1, <1>5, <1>6 DEF IInv, TypeOK, sequencer, reset
<1>. QED
  BY <1>2, <1>3, <1>7 DEF IInv

LEMMA StepIInv ==
  ASSUME IInv, [Next]_vars
  PROVE  IInv'
<1>1. CASE Tick
  <2>1. /\ seq' \in Sequencer /\ interrupted' \in BOOLEAN
        /\ shown' \in 0..5 /\ repeated' \in BOOLEAN /\ Arming' /\ Running'
    BY <1>1, TickStep
  <2>2. UNCHANGED <<pc, led_state, latched, monitor_seen, serial, reset>>
    BY <1>1 DEF Tick
  <2>3. RowIsTrace'
    BY <2>2 DEF IInv, RowIsTrace, Single, reset
  <2>. QED
    BY <2>1, <2>2, <2>3 DEF IInv, TypeOK, serial, reset
<1>2. CASE Store
  <2>1. seq' \in Sequencer /\ interrupted' \in BOOLEAN /\ Arming' /\ Running'
    BY <1>2, StoreStep
  <2>2. UNCHANGED <<shown, repeated, pc, led_state, latched, monitor_seen, serial, reset>>
    BY <1>2 DEF Store
  <2>3. RowIsTrace'
    BY <2>2 DEF IInv, RowIsTrace, Single, reset
  <2>. QED
    BY <2>1, <2>2, <2>3 DEF IInv, TypeOK, serial, reset
<1>3. CASE CheckMonitor
  <2>1. Arming' /\ Running' /\ RowIsTrace'
    BY <1>3, MonitorStep
  <2>2. UNCHANGED <<latched, serial, reset, seq, interrupted>>
    BY <1>3 DEF CheckMonitor, Begin, sequencer
  <2>3. shown' \in 0..5 /\ repeated' \in BOOLEAN
    <3>1. shown \in 0..5 /\ repeated \in BOOLEAN
      BY DEF IInv, TypeOK
    <3>2. UNCHANGED <<shown, repeated>> \/ (shown' = 0 /\ repeated' = FALSE)
      BY <1>3 DEF CheckMonitor, Begin, sequencer
    <3>3. repeated' \in BOOLEAN
      BY <3>1, <3>2, Zenon
    <3>. QED
      BY <3>1, <3>2, <3>3
  <2>4. led_state' \in [Stages -> {"off", "solid", "fault"}]
    BY <1>3 DEF CheckMonitor, AllSolid, IInv, TypeOK
  <2>5. pc' \in {"cpu", "check", "poll"} /\ monitor_seen' \in BOOLEAN
    BY <1>3 DEF CheckMonitor, IInv, TypeOK
  <2>. QED
    BY <2>1, <2>2, <2>3, <2>4, <2>5 DEF IInv, TypeOK, serial, reset
<1>4. CASE led_poll
  <2>1. latched' \in Faults /\ Arming' /\ Running' /\ RowIsTrace'
    BY <1>4, PollStep
  <2>2. UNCHANGED <<monitor_seen, serial, reset, seq, interrupted>>
    BY <1>4 DEF led_poll, led_fault, Begin, sequencer
  <2>3. shown' \in 0..5 /\ repeated' \in BOOLEAN
    <3>1. shown \in 0..5 /\ repeated \in BOOLEAN
      BY DEF IInv, TypeOK
    <3>2. UNCHANGED <<shown, repeated>> \/ (shown' = 0 /\ repeated' = FALSE)
      BY <1>4 DEF led_poll, led_fault, Begin, sequencer
    <3>3. repeated' \in BOOLEAN
      BY <3>1, <3>2, Zenon
    <3>. QED
      BY <3>1, <3>2, <3>3
  <2>4. led_state' \in [Stages -> {"off", "solid", "fault"}]
    BY <1>4 DEF led_poll, led_fault, Marked, IInv, TypeOK
  <2>5. pc' \in {"cpu", "check", "poll"}
    BY <1>4 DEF led_poll
  <2>. QED
    BY <2>1, <2>2, <2>3, <2>4, <2>5 DEF IInv, TypeOK, serial, reset
<1>5. CASE cpu_step \/ Receive
  BY <1>5, SerialStep
<1>6. CASE \E c \in Causes : Reset(c)
  BY <1>6, ResetStep
<1>7. CASE UNCHANGED vars
  <2>1. UNCHANGED <<sequencer, pc, led_state, latched, monitor_seen, serial, reset>>
    BY <1>7 DEF vars
  <2>2. Arming' /\ Running'
    BY <2>1, Undisturbed DEF IInv, reset
  <2>3. RowIsTrace'
    BY <2>1 DEF IInv, RowIsTrace, Single, reset
  <2>4. TypeOK'
    BY <2>1 DEF IInv, TypeOK, sequencer, serial, reset
  <2>. QED
    BY <2>2, <2>3, <2>4 DEF IInv
<1>. QED
  BY <1>1, <1>2, <1>3, <1>4, <1>5, <1>6, <1>7 DEF Next, Main
-----------------------------------------------------------------------------
(* A group of a fault ends as GroupsCount says, whatever the step. *)
LEMMA StepGroups ==
  ASSUME IInv, [Next]_vars
  PROVE  FaultGroupEnds => /\ shown' \in {latched - 1, latched}
                           /\ repeated => shown' = latched
<1> SUFFICES ASSUME FaultGroupEnds
             PROVE  shown' \in {latched - 1, latched} /\ (repeated => shown' = latched)
  OBVIOUS
<1>1. /\ Settled /\ seq.phase = "pulse" /\ seq'.phase = "gap" /\ seq'.left = 0
      /\ seq.repeat > 0
  BY DEF FaultGroupEnds, GroupEnds, PulseEnds
<1>2. /\ seq \in Sequencer /\ shown \in 0..5 /\ repeated \in BOOLEAN /\ latched \in 0..5
      /\ seq.left \in 0..5
  BY SequencerFields DEF IInv, TypeOK, Faults, NONE, UART_FRAMING
<1>3. CASE Tick
  <2>1. BeatTaken(seq, seq')
    BY <1>2, <1>3, BeatShape DEF Tick
  <2>2. seq.mode = "pattern" /\ seq'.left = (IF seq.left > 1 THEN seq.left - 1 ELSE 0)
    BY <1>1, <2>1
       DEF BeatTaken, Same, PulseGoesOn, PulseStops, GapGoesOn, PulseFollows, GroupFollows,
           BurstEnds
  <2>3. Running /\ Blinking
    BY <1>1, <1>3, <2>2 DEF IInv, Blinking, Tick
  <2>4. Runs /\ Counts
    BY <2>3 DEF Running
  <2>5. seq.left = 1
    BY <1>1, <1>2, <2>2, <2>4 DEF Runs
  <2>6. shown' = Counted(shown)
    BY <1>1, <1>3 DEF Tick, PulseEnds
  <2>7. shown' = shown + seq.left
    BY <1>2, <2>5, <2>6 DEF Counted, MaxShown
  <2>. QED
    BY <1>1, <2>4, <2>7 DEF Counts
<1>4. CASE \E c \in Causes : Reset(c)
  <2>1. PICK flags : seq' = Booted(flags).seq
    BY <1>4 DEF Reset
  <2>2. seq' = Armed(BEAT_PULSE_SHORT, CPU + 1, 0) \/ seq' = Unused
    BY <2>1 DEF Booted
  <2>3. Armed(BEAT_PULSE_SHORT, CPU + 1, 0).phase = "pulse"
    BY DEF Armed
  <2>4. seq'.phase # "gap"
    BY <2>2, <2>3, UnusedShape
  <2>. QED
    BY <1>1, <2>4
<1>5. CASE cpu_step \/ CheckMonitor \/ led_poll \/ Receive \/ UNCHANGED vars
  <2>1. seq' = seq
    BY <1>5 DEF cpu_step, CheckMonitor, led_poll, led_fault, Receive, Begin, sequencer, vars
  <2>. QED
    BY <1>1, <2>1
<1>6. ~Store
  BY <1>1 DEF Store, Settled
<1>. QED
  BY <1>3, <1>4, <1>5, <1>6 DEF Next, Main

-----------------------------------------------------------------------------
(* Every variable keeps its type, the sequencer's beats, pulses and gaps the  *)
(* range of the bytes led.c keeps them in.                                    *)
THEOREM LedTyped == Spec => []TypeOK
<1>1. Init => IInv
  BY InitIInv
<1>2. IInv /\ [Next]_vars => IInv'
  BY StepIInv
<1>3. IInv => TypeOK
  BY DEF IInv
<1>. QED
  BY <1>1, <1>2, <1>3, PTL DEF Spec

(* Wherever the beat fell among the stores, the pattern they leave runs. *)
THEOREM PatternsRun == Spec => []PatternRuns
<1>1. Init => IInv
  BY InitIInv
<1>2. IInv /\ [Next]_vars => IInv'
  BY StepIInv
<1>3. IInv => PatternRuns
  BY DEF IInv, Running, Runs, PatternRuns
<1>. QED
  BY <1>1, <1>2, <1>3, PTL DEF Spec

(* The LED blinks long pulses only for the fault that is latched. *)
THEOREM LongPulsesTell == Spec => []LongMeansFault
<1>1. Init => IInv
  BY InitIInv
<1>2. IInv /\ [Next]_vars => IInv'
  BY StepIInv
<1>3. IInv => LongMeansFault
  BY DEF IInv, Running, Tells, LongMeansFault
<1>. QED
  BY <1>1, <1>2, <1>3, PTL DEF Spec

(* A group of long pulses shows the code, or one less for the first one. *)
THEOREM GroupsTell == Spec => GroupsCount
<1>1. Init => IInv
  BY InitIInv
<1>2. IInv /\ [Next]_vars => IInv'
  BY StepIInv
<1>3. IInv /\ [Next]_vars =>
        [FaultGroupEnds => /\ shown' \in {latched - 1, latched}
                           /\ repeated => shown' = latched]_vars
  BY StepGroups
<1>. QED
  BY <1>1, <1>2, <1>3, PTL DEF Spec, GroupsCount

(* With several LEDs and no fault the row is the trace of the boot. *)
THEOREM RowStaysTrace == Spec => []RowIsTrace
<1>1. Init => IInv
  BY InitIInv
<1>2. IInv /\ [Next]_vars => IInv'
  BY StepIInv
<1>3. IInv => RowIsTrace
  BY DEF IInv
<1>. QED
  BY <1>1, <1>2, <1>3, PTL DEF Spec

=============================================================================
