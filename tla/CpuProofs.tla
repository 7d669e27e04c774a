----------------------------- MODULE CpuProofs ------------------------------
(* The processor loop with any ROM and any program: registers and memory     *)
(* keep their widths, RTI undoes the service of an interrupt, and an IRQ     *)
(* handler that leaves I alone is not entered again before it returns.       *)
EXTENDS Cpu, AluProofs, SequenceTheorems, FiniteSetTheorems

-----------------------------------------------------------------------------
(* What an instruction leaves behind: a machine, and I set if it was *)
Kept(s, r) == r \in Machine /\ ("I" \in s.p => "I" \in r.p)

LEMMA MachineFields ==
  ASSUME NEW s \in Machine
  PROVE  /\ s.a \in Byte /\ s.x \in Byte /\ s.y \in Byte /\ s.sp \in Byte
         /\ s.pc \in Address /\ s.p \in SUBSET Flags /\ s.mem \in [Ram -> Byte]
         /\ s.uart.rx \in Seq(Byte) /\ s.uart.tx \in Seq(Byte)
BY DEF Machine

(* One register set *)
LEMMA SetByte ==
  ASSUME NEW s \in Machine, NEW v \in Byte
  PROVE  /\ Kept(s, [s EXCEPT !.a = v]) /\ Kept(s, [s EXCEPT !.x = v])
         /\ Kept(s, [s EXCEPT !.y = v]) /\ Kept(s, [s EXCEPT !.sp = v])
BY DEF Machine, Kept

LEMMA SetPc ==
  ASSUME NEW s \in Machine, NEW v \in Address
  PROVE  Kept(s, [s EXCEPT !.pc = v])
BY DEF Machine, Kept

LEMMA SetP ==
  ASSUME NEW s \in Machine, NEW q \in SUBSET Flags
  PROVE  [s EXCEPT !.p = q] \in Machine /\ [s EXCEPT !.p = q].p = q
BY DEF Machine

(* Flags set that keep I *)
LEMMA SetFlags ==
  ASSUME NEW s \in Machine, NEW q \in SUBSET Flags, "I" \in s.p => "I" \in q
  PROVE  Kept(s, [s EXCEPT !.p = q])
BY SetP DEF Kept

LEMMA KeptTwice ==
  ASSUME NEW s, NEW n, NEW r, Kept(s, n), Kept(n, r)
  PROVE  Kept(s, r)
BY DEF Kept

LEMMA KeptSame == ASSUME NEW s \in Machine PROVE Kept(s, s)
BY DEF Kept

(* Numbers: what fits an address and a byte *)
LEMMA AddressSet == \A n : n \in Address <=> n \in Int /\ 0 <= n /\ n < 65536
<1> DEFINE last == 65535
<1>1. Address = 0..last
  BY DEF Address
<1>2. last \in Int /\ \A n \in Int : n <= last <=> n < 65536
  OBVIOUS
<1> HIDE DEF last
<1>. QED
  BY <1>1, <1>2

LEMMA Wrapped == ASSUME NEW n \in Int PROVE n % 65536 \in Address
BY AddressSet

LEMMA ByteSet == \A n : n \in Byte <=> n \in Int /\ 0 <= n /\ n < 256
BY DEF Byte

LEMMA Cut == ASSUME NEW n \in Int PROVE n % 256 \in Byte
BY ByteSet

LEMMA WordType ==
  ASSUME NEW lo \in Byte, NEW hi \in Byte
  PROVE  Word(lo, hi) \in Address
BY ByteSet, AddressSet DEF Word

LEMMA Halves ==
  ASSUME NEW w \in Address
  PROVE  w \div 256 \in Byte /\ w % 256 \in Byte /\ Word(w % 256, w \div 256) = w
BY ByteSet, AddressSet DEF Word

-----------------------------------------------------------------------------
(* The bus *)
LEMMA FirstByte ==
  ASSUME NEW s \in Machine, s.uart.rx # << >>
  PROVE  Head(s.uart.rx) \in Byte
<1> DEFINE rx == s.uart.rx
<1>1. rx \in Seq(Byte) /\ rx # << >>
  BY MachineFields
<1> HIDE DEF rx
<1>2. Head(rx) \in Byte
  BY <1>1, HeadTailProperties, EmptySeq
<1>. QED
  BY <1>2 DEF rx

LEMMA TakeByte ==
  ASSUME NEW s \in Machine, s.uart.rx # << >>
  PROVE  Head(s.uart.rx) \in Byte /\ Kept(s, [s EXCEPT !.uart.rx = Tail(s.uart.rx)])
<1> DEFINE rx == s.uart.rx
           r == Tail(rx)
<1>1. rx \in Seq(Byte) /\ s.uart.tx \in Seq(Byte) /\ rx # << >>
  BY MachineFields
<1>2. Head(rx) \in Byte /\ r \in Seq(Byte)
  <2> HIDE DEF rx
  <2>. QED
    BY <1>1, HeadTailProperties, EmptySeq
<1> HIDE DEF r
<1>3. Kept(s, [s EXCEPT !.uart.rx = r])
  BY <1>2 DEF Machine, Kept
<1>4. [s EXCEPT !.uart.rx = Tail(s.uart.rx)] = [s EXCEPT !.uart.rx = r]
  BY DEF r
<1>. QED
  BY <1>2, <1>3, <1>4

LEMMA SmallBytes == 0 \in Byte /\ 2 \in Byte /\ 3 \in Byte
BY ByteSet

LEMMA ReadIsByte ==
  ASSUME NEW s \in Machine, NEW addr
  PROVE  read8(s, addr) \in Byte
<1>1. CASE addr \in Ram
  <2>1. s.mem[addr] \in Byte
    BY <1>1, MachineFields
  <2>. QED
    BY <1>1, <2>1, BusAssumption DEF read8
<1>2. CASE addr \in DOMAIN Rom
  BY <1>2, BusAssumption DEF read8
<1>3. CASE addr = \h2000
  <2>1. status(s.uart) \in Byte
    BY SmallBytes DEF status
  <2>. QED
    BY <1>3, <2>1, BusAssumption DEF read8
<1>4. CASE addr \notin Ram /\ addr \notin DOMAIN Rom /\ addr # \h2000
  <2>1. CASE addr = \h2001 /\ s.uart.rx # << >>
    <3>1. Head(s.uart.rx) \in Byte
      BY <2>1, FirstByte
    <3>. QED
      BY <1>4, <2>1, <3>1 DEF read8
  <2>2. CASE ~(addr = \h2001 /\ s.uart.rx # << >>)
    BY <1>4, <2>2, SmallBytes DEF read8
  <2>. QED
    BY <2>1, <2>2
<1>. QED
  BY <1>1, <1>2, <1>3, <1>4

LEMMA ReadIsWord ==
  ASSUME NEW s \in Machine, NEW addr
  PROVE  read16(s, addr) \in Address
BY ReadIsByte, WordType DEF read16

LEMMA RxReadKept ==
  ASSUME NEW s \in Machine, NEW addr
  PROVE  Kept(s, rx_read(s, addr))
<1>1. CASE addr = \h2001 /\ s.uart.rx # << >>
  <2>1. rx_read(s, addr) = [s EXCEPT !.uart.rx = Tail(s.uart.rx)]
    BY <1>1 DEF rx_read
  <2>. QED
    BY <1>1, <2>1, TakeByte
<1>2. CASE ~(addr = \h2001 /\ s.uart.rx # << >>)
  BY <1>2, KeptSame DEF rx_read
<1>. QED
  BY <1>1, <1>2

LEMMA WriteKept ==
  ASSUME NEW s \in Machine, NEW addr, NEW v \in Byte
  PROVE  Kept(s, write8(s, addr, v))
<1>1. CASE addr \in Ram
  <2>1. write8(s, addr, v) = [s EXCEPT !.mem[addr] = v]
    BY <1>1, BusAssumption DEF write8
  <2>2. Kept(s, [s EXCEPT !.mem[addr] = v])
    BY DEF Machine, Kept
  <2>. QED
    BY <2>1, <2>2
<1>2. CASE addr \notin Ram /\ addr \in {\h2001, \h3000}
  <2> DEFINE t == Append(s.uart.tx, v)
  <2>1. write8(s, addr, v) = [s EXCEPT !.uart.tx = t]
    BY <1>2 DEF write8, tx_write
  <2>2. t \in Seq(Byte)
    BY MachineFields, AppendProperties
  <2> HIDE DEF t
  <2>3. Kept(s, [s EXCEPT !.uart.tx = t])
    BY <2>2 DEF Machine, Kept
  <2>. QED
    BY <2>1, <2>3
<1>3. CASE addr \notin Ram /\ addr \notin {\h2001, \h3000}
  BY <1>3, KeptSame DEF write8
<1>. QED
  BY <1>1, <1>2, <1>3

(* The status register and the stack pointer are none of the bus's business. *)
LEMMA WriteLeaves ==
  ASSUME NEW s \in Machine, NEW addr, NEW v
  PROVE  write8(s, addr, v).p = s.p /\ write8(s, addr, v).sp = s.sp
BY DEF write8, tx_write, Machine

-----------------------------------------------------------------------------
(* The stack *)
LEMMA PushKept ==
  ASSUME NEW s \in Machine, NEW v \in Byte
  PROVE  Kept(s, push(s, v))
<1> DEFINE n == write8(s, 256 + s.sp, v)
           sp == (n.sp - 1) % 256
<1>1. Kept(s, n)
  BY WriteKept
<1>2. push(s, v) = [n EXCEPT !.sp = sp]
  BY DEF push
<1> HIDE DEF n
<1>3. n \in Machine /\ n.sp \in Int
  BY <1>1, MachineFields, ByteSet DEF Kept
<1>4. sp \in Byte
  BY <1>3, Cut
<1> HIDE DEF sp
<1>5. Kept(n, [n EXCEPT !.sp = sp])
  BY <1>3, <1>4, SetByte
<1>. QED
  BY <1>1, <1>2, <1>5, KeptTwice

LEMMA PoppedKept ==
  ASSUME NEW s \in Machine
  PROVE  Kept(s, popped(s)) /\ popped(s).p = s.p
<1> DEFINE sp == (s.sp + 1) % 256
<1>1. popped(s) = [s EXCEPT !.sp = sp]
  BY DEF popped
<1>2. sp \in Byte
  BY MachineFields, ByteSet, Cut
<1> HIDE DEF sp
<1>3. Kept(s, [s EXCEPT !.sp = sp])
  BY <1>2, SetByte
<1>4. [s EXCEPT !.sp = sp].p = s.p
  BY DEF Machine
<1>. QED
  BY <1>1, <1>3, <1>4

LEMMA PulledType ==
  ASSUME NEW s \in Machine
  PROVE  pulled(s) \in Byte /\ pulled16(s) \in Address
<1>1. pulled(s) \in Byte
  BY ReadIsByte DEF pulled
<1>2. pulled(popped(s)) \in Byte
  BY PoppedKept, ReadIsByte DEF pulled, Kept
<1>. QED
  BY <1>1, <1>2, WordType DEF pulled16

LEMMA Push16Kept ==
  ASSUME NEW s \in Machine, NEW w \in Address
  PROVE  Kept(s, push16(s, w))
<1> DEFINE n == push(s, w \div 256)
<1>1. Kept(s, n)
  BY Halves, PushKept
<1> HIDE DEF n
<1>2. Kept(n, push(n, w % 256))
  BY <1>1, Halves, PushKept DEF Kept
<1>3. push16(s, w) = push(n, w % 256)
  BY DEF push16, n
<1>. QED
  BY <1>1, <1>2, <1>3, KeptTwice

LEMMA Popped16Kept ==
  ASSUME NEW s \in Machine
  PROVE  Kept(s, popped16(s)) /\ popped16(s).p = s.p
<1> DEFINE n == popped(s)
<1>1. Kept(s, n) /\ n.p = s.p
  BY PoppedKept
<1> HIDE DEF n
<1>2. Kept(n, popped(n)) /\ popped(n).p = n.p
  BY <1>1, PoppedKept DEF Kept
<1>3. popped16(s) = popped(n)
  BY DEF popped16, n
<1>. QED
  BY <1>1, <1>2, <1>3, KeptTwice
-----------------------------------------------------------------------------
(* The operations.  Every one leaves a machine, and all but three leave I    *)
(* set that find it set.                                                     *)
Unmasking == {"CLI", "PLP", "RTI"}
Ends(s, op, r) == r \in Machine /\ (op \notin Unmasking => Kept(s, r))

LEMMA KeptEnds == ASSUME NEW s, NEW op, NEW r, Kept(s, r) PROVE Ends(s, op, r)
BY DEF Ends, Kept

(* A register set together with flags that keep I *)
LEMMA SetWithFlags ==
  ASSUME NEW s \in Machine, NEW v \in Byte, NEW q \in SUBSET Flags,
         "I" \in s.p => "I" \in q
  PROVE  /\ Kept(s, [s EXCEPT !.a = v, !.p = q])
         /\ Kept(s, [s EXCEPT !.x = v, !.p = q])
         /\ Kept(s, [s EXCEPT !.y = v, !.p = q])
<1>1. Kept(s, [s EXCEPT !.a = v, !.p = q])
  BY DEF Machine, Kept
<1>2. Kept(s, [s EXCEPT !.x = v, !.p = q])
  BY DEF Machine, Kept
<1>3. Kept(s, [s EXCEPT !.y = v, !.p = q])
  BY DEF Machine, Kept
<1>. QED
  BY <1>1, <1>2, <1>3

(* The arithmetic writes C, V, N and Z. *)
LEMMA PutKeepsI ==
  ASSUME NEW q, NEW f, NEW on, "I" \in q, f # "I"
  PROVE  "I" \in Put(q, f, on)
BY DEF Put

LEMMA UpdKeepsI ==
  ASSUME NEW q, NEW v, "I" \in q
  PROVE  "I" \in upd_nz(q, v)
BY DEF upd_nz, Put

LEMMA SumsKeepI ==
  ASSUME NEW v, NEW w, NEW q, "I" \in q
  PROVE  "I" \in adc(v, w, q).p /\ "I" \in sbc(v, w, q).p
<1>1. \A f, on, c : f # "I" => "I" \in Put(upd_nz(q, c), f, on)
  BY DEF upd_nz, Put
<1>2. \A c, d, n : "I" \in upd_nz(Put(Put(q, "C", c), "V", d), n)
  BY DEF upd_nz, Put
<1>3. \A c, d, n : "I" \in Put(upd_nz(Put(q, "V", c), n), "C", d)
  BY DEF upd_nz, Put
<1>4. "I" \in adc_binary(v, w, q).p /\ "I" \in sbc_binary(v, w, q).p
  BY <1>2 DEF adc_binary, sbc_binary
<1>5. "I" \in adc_decimal_nmos(v, w, q).p /\ "I" \in sbc_decimal_nmos(v, w, q).p
  BY <1>3 DEF adc_decimal_nmos, sbc_decimal_nmos
<1>. QED
  BY <1>4, <1>5 DEF adc, sbc

LEMMA ShiftKeepsI ==
  ASSUME NEW op, NEW v, NEW w, NEW q, "I" \in q
  PROVE  "I" \in shift(op, v, q).p /\ "I" \in compare(v, w, q)
<1>1. \A c, n : "I" \in upd_nz(Put(q, "C", c), n) /\ "I" \in Put(upd_nz(q, n), "C", c)
  BY DEF upd_nz, Put
<1>. QED
  BY <1>1 DEF shift, compare

LEMMA LoadKept ==
  ASSUME NEW s \in Machine, NEW v \in Byte
  PROVE  Kept(s, Load(s, "a", v)) /\ Kept(s, Load(s, "x", v)) /\ Kept(s, Load(s, "y", v))
<1> DEFINE q == upd_nz(s.p, v)
<1>1. q \in SUBSET Flags /\ ("I" \in s.p => "I" \in q)
  BY MachineFields, UpdType, UpdKeepsI
<1>2. /\ Load(s, "a", v) = [s EXCEPT !.a = v, !.p = q]
      /\ Load(s, "x", v) = [s EXCEPT !.x = v, !.p = q]
      /\ Load(s, "y", v) = [s EXCEPT !.y = v, !.p = q]
  BY DEF Load
<1> HIDE DEF q
<1>3. /\ Kept(s, [s EXCEPT !.a = v, !.p = q])
      /\ Kept(s, [s EXCEPT !.x = v, !.p = q])
      /\ Kept(s, [s EXCEPT !.y = v, !.p = q])
  BY <1>1, SetWithFlags
<1>. QED
  BY <1>2, <1>3

LEMMA ArithKept ==
  ASSUME NEW s \in Machine, NEW r, r.v \in Byte, r.p \in SUBSET Flags, "I" \in s.p => "I" \in r.p
  PROVE  Kept(s, Arith(s, r))
BY SetWithFlags DEF Arith

LEMMA ShiftType ==
  ASSUME NEW s \in Machine, NEW op \in {"ASL", "LSR", "ROL", "ROR"}, NEW v \in Byte,
         NEW r, r = shift(op, v, s.p)
  PROVE  r.v \in Byte /\ r.p \in SUBSET Flags /\ ("I" \in s.p => "I" \in r.p)
BY MachineFields, ShiftAgrees, ShiftKeepsI

(* Store and set N and Z *)
LEMMA RewriteKept ==
  ASSUME NEW s \in Machine, NEW addr, NEW v \in Byte
  PROVE  Kept(s, Rewrite(s, addr, v))
<1> DEFINE n == write8(s, addr, v)
           q == upd_nz(n.p, v)
<1>1. Kept(s, n)
  BY WriteKept
<1>2. Rewrite(s, addr, v) = [n EXCEPT !.p = q]
  BY DEF Rewrite
<1> HIDE DEF n
<1>3. q \in SUBSET Flags /\ ("I" \in n.p => "I" \in q)
  BY <1>1, MachineFields, UpdType, UpdKeepsI DEF Kept
<1> HIDE DEF q
<1>4. Kept(n, [n EXCEPT !.p = q])
  BY <1>1, <1>3, SetFlags DEF Kept
<1>. QED
  BY <1>1, <1>2, <1>4, KeptTwice
-----------------------------------------------------------------------------
(* Returns, BRK and the service of an interrupt *)
LEMMA SetFlagsAndPc ==
  ASSUME NEW s \in Machine, NEW q \in SUBSET Flags, NEW w \in Address
  PROVE  /\ [s EXCEPT !.p = q, !.pc = w] \in Machine
         /\ [s EXCEPT !.p = q, !.pc = w].p = q
BY DEF Machine

LEMMA MaskedFlags ==
  ASSUME NEW q \in SUBSET Flags
  PROVE  q \cup {"I"} \in SUBSET Flags
BY DEF Flags

(* Three bytes pushed, then I set and the vector fetched *)
Pushed(s, w, on) == push(push16(s, w), to_push_byte(s.p, on))
Vectored(n, vector) == [n EXCEPT !.p = @ \cup {"I"}, !.pc = read16(n, vector)]

LEMMA PushedKept ==
  ASSUME NEW s \in Machine, NEW w \in Address, NEW on
  PROVE  Kept(s, Pushed(s, w, on))
<1> DEFINE n == push16(s, w)
           b == to_push_byte(s.p, on)
<1>1. Kept(s, n) /\ b \in Byte
  BY Push16Kept, StatusType
<1>2. Pushed(s, w, on) = push(n, b)
  BY DEF Pushed
<1> HIDE DEF n, b
<1>3. Kept(n, push(n, b))
  BY <1>1, PushKept DEF Kept
<1>. QED
  BY <1>1, <1>2, <1>3, KeptTwice

LEMMA VectoredType ==
  ASSUME NEW n \in Machine, NEW vector
  PROVE  Vectored(n, vector) \in Machine /\ "I" \in Vectored(n, vector).p
<1> DEFINE q == n.p \cup {"I"}
           to == read16(n, vector)
<1>1. q \in SUBSET Flags /\ to \in Address /\ "I" \in q
  BY MachineFields, MaskedFlags, ReadIsWord
<1>2. Vectored(n, vector) = [n EXCEPT !.p = q, !.pc = to]
  BY DEF Vectored
<1> HIDE DEF q, to
<1>3. [n EXCEPT !.p = q, !.pc = to] \in Machine /\ [n EXCEPT !.p = q, !.pc = to].p = q
  BY <1>1, SetFlagsAndPc
<1>. QED
  BY <1>1, <1>2, <1>3

LEMMA BrkKept ==
  ASSUME NEW s \in Machine
  PROVE  Kept(s, BRK(s))
<1> DEFINE w == (s.pc + 1) % 65536
           n == Pushed(s, w, TRUE)
           vector == \hFFFE
<1>1. w \in Address
  BY MachineFields, AddressSet, Wrapped
<1>2. BRK(s) = Vectored(n, vector)
  BY DEF BRK, Vectored, Pushed
<1> HIDE DEF w, vector
<1>3. n \in Machine
  BY <1>1, PushedKept DEF Kept
<1> HIDE DEF n
<1>4. Vectored(n, vector) \in Machine /\ "I" \in Vectored(n, vector).p
  BY <1>3, VectoredType
<1>. QED
  BY <1>2, <1>4 DEF Kept

LEMMA ServeType ==
  ASSUME NEW s \in Machine, NEW vector
  PROVE  serve_interrupt(s, vector) \in Machine /\ "I" \in serve_interrupt(s, vector).p
<1>1. serve_interrupt(s, vector) = Vectored(Pushed(s, s.pc, FALSE), vector)
  BY DEF serve_interrupt, Vectored, Pushed
<1>2. Kept(s, Pushed(s, s.pc, FALSE))
  BY MachineFields, PushedKept
<1>. QED
  BY <1>1, <1>2, VectoredType DEF Kept

(* RTI takes the flags from the stack, whatever they are. *)
LEMMA RtiType ==
  ASSUME NEW s \in Machine
  PROVE  RTI(s) \in Machine /\ RTI(s).p = from_byte(pulled(s))
<1> DEFINE q == from_byte(pulled(s))
           n == [popped(s) EXCEPT !.p = q]
           w == pulled16(n)
<1>1. q \in SUBSET Flags
  BY StatusType
<1>2. RTI(s) = [popped16(n) EXCEPT !.pc = w]
  BY DEF RTI
<1> HIDE DEF q
<1>3. popped(s) \in Machine
  BY PoppedKept DEF Kept
<1>4. n \in Machine /\ n.p = q
  BY <1>1, <1>3, SetP
<1> HIDE DEF n
<1>5. popped16(n) \in Machine /\ popped16(n).p = q /\ w \in Address
  BY <1>4, Popped16Kept, PulledType DEF Kept
<1> HIDE DEF w
<1>6. [popped16(n) EXCEPT !.pc = w] \in Machine /\ [popped16(n) EXCEPT !.pc = w].p = q
  <2> DEFINE k == popped16(n)
  <2> HIDE DEF k
  <2>1. k \in Machine /\ k.p = q
    BY <1>5 DEF k
  <2>2. [k EXCEPT !.pc = w] \in Machine
    BY <1>5, <2>1, SetPc DEF Kept
  <2>3. [k EXCEPT !.pc = w].p = q
    BY <2>1 DEF Machine
  <2>. QED
    BY <2>2, <2>3 DEF k
<1>. QED
  BY <1>2, <1>6 DEF q

LEMMA RtsKept ==
  ASSUME NEW s \in Machine
  PROVE  Kept(s, [popped16(s) EXCEPT !.pc = (pulled16(s) + 1) % 65536])
<1> DEFINE n == popped16(s)
           w == (pulled16(s) + 1) % 65536
<1>1. Kept(s, n)
  BY Popped16Kept
<1>2. w \in Address
  BY PulledType, AddressSet, Wrapped
<1> HIDE DEF n, w
<1>3. Kept(n, [n EXCEPT !.pc = w])
  BY <1>1, <1>2, SetPc DEF Kept
<1>. QED
  BY <1>1, <1>3, KeptTwice DEF n, w

(* PLP, like RTI, takes the flags from the stack. *)
LEMMA PlpType ==
  ASSUME NEW s \in Machine
  PROVE  [popped(s) EXCEPT !.p = from_byte(pulled(s))] \in Machine
<1>1. popped(s) \in Machine
  BY PoppedKept DEF Kept
<1>2. from_byte(pulled(s)) \in SUBSET Flags
  BY StatusType
<1>. QED
  BY <1>1, <1>2, SetP

LEMMA ControlEnds ==
  ASSUME NEW s \in Machine, NEW op
  PROVE  Ends(s, op, control(s, op))
<1>1. CASE op = "RTS"
  BY <1>1, RtsKept, KeptEnds DEF control
<1>2. CASE op = "BRK"
  BY <1>2, BrkKept, KeptEnds DEF control
<1>3. CASE op = "RTI"
  BY <1>3, RtiType DEF control, Ends, Unmasking
<1>4. CASE op \in {"CLC", "CLD", "CLV"}
  <2> DEFINE without(f) == [s EXCEPT !.p = s.p \ {f}]
  <2>1. \A f : f # "I" => Kept(s, without(f))
    <3> SUFFICES ASSUME NEW f, f # "I" PROVE Kept(s, without(f))
      OBVIOUS
    <3>1. s.p \ {f} \in SUBSET Flags /\ ("I" \in s.p => "I" \in s.p \ {f})
      BY MachineFields
    <3>. QED
      BY <3>1, SetFlags
  <2>2. /\ op = "CLC" => control(s, op) = without("C")
        /\ op = "CLD" => control(s, op) = without("D")
        /\ op = "CLV" => control(s, op) = without("V")
    BY DEF control
  <2> HIDE DEF without
  <2>. QED
    BY <1>4, <2>1, <2>2, KeptEnds
<1>5. CASE op = "CLI"
  <2>1. s.p \ {"I"} \in SUBSET Flags
    BY MachineFields
  <2>2. control(s, op) = [s EXCEPT !.p = s.p \ {"I"}]
    BY <1>5 DEF control
  <2>. QED
    BY <1>5, <2>1, <2>2, SetP DEF Ends, Unmasking
<1>6. CASE op \in {"SEC", "SED", "SEI"}
  <2> DEFINE with(f) == [s EXCEPT !.p = s.p \cup {f}]
  <2>1. \A f \in Flags : Kept(s, with(f))
    <3> SUFFICES ASSUME NEW f \in Flags PROVE Kept(s, with(f))
      OBVIOUS
    <3>1. s.p \cup {f} \in SUBSET Flags /\ ("I" \in s.p => "I" \in s.p \cup {f})
      BY MachineFields
    <3>. QED
      BY <3>1, SetFlags
  <2>2. "C" \in Flags /\ "D" \in Flags /\ "I" \in Flags
    BY DEF Flags
  <2>3. /\ op = "SEC" => control(s, op) = with("C")
        /\ op = "SED" => control(s, op) = with("D")
        /\ op = "SEI" => control(s, op) = with("I")
    BY DEF control
  <2> HIDE DEF with
  <2>. QED
    BY <1>6, <2>1, <2>2, <2>3, KeptEnds
<1>7. CASE op \notin {"RTS", "BRK", "RTI", "CLC", "CLD", "CLV", "CLI", "SEC", "SED", "SEI"}
  <2>1. control(s, op) = s
    BY <1>7 DEF control
  <2>. QED
    BY <2>1, KeptSame, KeptEnds
<1>. QED
  BY <1>1, <1>2, <1>3, <1>4, <1>5, <1>6, <1>7

LEMMA Op0Ends ==
  ASSUME NEW s \in Machine, NEW op
  PROVE  Ends(s, op, op0(s, op))
<1>1. s.a \in Byte /\ s.x \in Byte /\ s.y \in Byte /\ s.sp \in Byte /\ s.p \in SUBSET Flags
  BY MachineFields
<1>2. CASE op \in {"TAX", "TXA", "TAY", "TYA", "TSX"}
  <2>1. /\ Kept(s, Load(s, "x", s.a)) /\ Kept(s, Load(s, "a", s.x)) /\ Kept(s, Load(s, "y", s.a))
        /\ Kept(s, Load(s, "a", s.y)) /\ Kept(s, Load(s, "x", s.sp))
    BY <1>1, LoadKept
  <2>2. /\ op = "TAX" => op0(s, op) = Load(s, "x", s.a)
        /\ op = "TXA" => op0(s, op) = Load(s, "a", s.x)
        /\ op = "TAY" => op0(s, op) = Load(s, "y", s.a)
        /\ op = "TYA" => op0(s, op) = Load(s, "a", s.y)
        /\ op = "TSX" => op0(s, op) = Load(s, "x", s.sp)
    BY DEF op0
  <2>3. Kept(s, op0(s, op))
    BY <1>2, <2>1, <2>2, Zenon
  <2>. QED
    BY <2>3, KeptEnds
<1>3. CASE op = "TXS"
  <2>1. Kept(s, [s EXCEPT !.sp = s.x])
    BY <1>1, SetByte
  <2>2. op0(s, op) = [s EXCEPT !.sp = s.x]
    BY <1>3 DEF op0
  <2>. QED
    BY <2>1, <2>2, KeptEnds
<1>4. CASE op \in {"PHA", "PHP"}
  <2>1. Kept(s, push(s, s.a)) /\ Kept(s, push(s, to_push_byte(s.p, TRUE)))
    BY <1>1, StatusType, PushKept
  <2>. QED
    BY <1>4, <2>1, KeptEnds DEF op0
<1>5. CASE op = "PLA"
  <2> DEFINE n == popped(s)
             v == pulled(s)
  <2>1. Kept(s, n) /\ v \in Byte
    BY PoppedKept, PulledType
  <2>2. op0(s, op) = Load(n, "a", v)
    BY <1>5 DEF op0
  <2> HIDE DEF n, v
  <2>3. Kept(n, Load(n, "a", v))
    BY <2>1, LoadKept DEF Kept
  <2>. QED
    BY <2>1, <2>2, <2>3, KeptTwice, KeptEnds
<1>6. CASE op = "PLP"
  <2>1. op0(s, op) = [popped(s) EXCEPT !.p = from_byte(pulled(s))]
    BY <1>6 DEF op0
  <2>. QED
    BY <1>6, <2>1, PlpType DEF Ends, Unmasking
<1>7. CASE op \in {"INX", "INY", "DEX", "DEY"}
  <2>1. \A v \in Byte : (v + 1) % 256 \in Byte /\ (v - 1) % 256 \in Byte
    BY ByteSet, Cut
  <2>2. /\ Kept(s, Load(s, "x", (s.x + 1) % 256)) /\ Kept(s, Load(s, "y", (s.y + 1) % 256))
        /\ Kept(s, Load(s, "x", (s.x - 1) % 256)) /\ Kept(s, Load(s, "y", (s.y - 1) % 256))
    BY <1>1, <2>1, LoadKept
  <2>3. CASE op = "INX"
    <3>1. op0(s, op) = Load(s, "x", (s.x + 1) % 256)
      BY <2>3 DEF op0
    <3>. QED
      BY <2>2, <3>1, KeptEnds
  <2>4. CASE op = "INY"
    <3>1. op0(s, op) = Load(s, "y", (s.y + 1) % 256)
      BY <2>4 DEF op0
    <3>. QED
      BY <2>2, <3>1, KeptEnds
  <2>5. CASE op = "DEX"
    <3>1. op0(s, op) = Load(s, "x", (s.x - 1) % 256)
      BY <2>5 DEF op0
    <3>. QED
      BY <2>2, <3>1, KeptEnds
  <2>6. CASE op = "DEY"
    <3>1. op0(s, op) = Load(s, "y", (s.y - 1) % 256)
      BY <2>6 DEF op0
    <3>. QED
      BY <2>2, <3>1, KeptEnds
  <2>. QED
    BY <1>7, <2>3, <2>4, <2>5, <2>6
<1>8. CASE op \notin {"TAX", "TXA", "TAY", "TYA", "TSX", "TXS", "PHA", "PHP", "PLA", "PLP",
                      "INX", "INY", "DEX", "DEY"}
  <2>1. op0(s, op) = control(s, op)
    BY <1>8 DEF op0
  <2>. QED
    BY <2>1, ControlEnds
<1>. QED
  BY <1>2, <1>3, <1>4, <1>5, <1>6, <1>7, <1>8

-----------------------------------------------------------------------------
(* The operations that have an operand: immediate or in memory, in memory    *)
(* only, or the accumulator                                                  *)
Operand == {"LDA", "LDX", "LDY", "ADC", "SBC", "AND", "ORA", "EOR", "CMP", "CPX", "CPY"}
Shifts == {"ASL", "LSR", "ROL", "ROR"}
MemoryOnly == {"STA", "STX", "STY", "BIT", "INC", "DEC", "JMP", "JSR"}

LEMMA Op1Kept ==
  ASSUME NEW s \in Machine, NEW op \in Operand, NEW v \in Byte
  PROVE  Kept(s, op1(s, op, v))
<1>1. s.a \in Byte /\ s.x \in Byte /\ s.y \in Byte /\ s.p \in SUBSET Flags
  BY MachineFields
<1>2. CASE op \in {"LDA", "LDX", "LDY"}
  BY <1>2, LoadKept DEF op1
<1>3. CASE op = "ADC"
  <2> DEFINE r == adc(s.a, v, s.p)
  <2>1. r.v \in Byte /\ r.p \in SUBSET Flags /\ ("I" \in s.p => "I" \in r.p)
    BY <1>1, AdcAgrees, SumsKeepI
  <2>2. op1(s, op, v) = Arith(s, r)
    BY <1>3 DEF op1
  <2> HIDE DEF r
  <2>. QED
    BY <2>1, <2>2, ArithKept
<1>4. CASE op = "SBC"
  <2> DEFINE r == sbc(s.a, v, s.p)
  <2>1. r.v \in Byte /\ r.p \in SUBSET Flags /\ ("I" \in s.p => "I" \in r.p)
    BY <1>1, SbcAgrees, SumsKeepI
  <2>2. op1(s, op, v) = Arith(s, r)
    BY <1>4 DEF op1
  <2> HIDE DEF r
  <2>. QED
    BY <2>1, <2>2, ArithKept
<1>5. CASE op \in {"AND", "ORA", "EOR"}
  <2>1. /\ Kept(s, Load(s, "a", byte_and(s.a, v))) /\ Kept(s, Load(s, "a", byte_or(s.a, v)))
        /\ Kept(s, Load(s, "a", byte_xor(s.a, v)))
    BY BitwiseType, LoadKept
  <2>. QED
    BY <1>5, <2>1 DEF op1
<1>6. CASE op \in {"CMP", "CPX", "CPY"}
  <2> DEFINE flags(q) == [s EXCEPT !.p = q]
  <2>1. \A w \in Byte : Kept(s, flags(compare(w, v, s.p)))
    <3> SUFFICES ASSUME NEW w \in Byte PROVE Kept(s, flags(compare(w, v, s.p)))
      OBVIOUS
    <3>1. compare(w, v, s.p) \in SUBSET Flags
      BY <1>1, CompareAgrees
    <3>2. "I" \in s.p => "I" \in compare(w, v, s.p)
      BY ShiftKeepsI
    <3>. QED
      BY <3>1, <3>2, SetFlags
  <2>2. /\ op = "CMP" => op1(s, op, v) = flags(compare(s.a, v, s.p))
        /\ op = "CPX" => op1(s, op, v) = flags(compare(s.x, v, s.p))
        /\ op = "CPY" => op1(s, op, v) = flags(compare(s.y, v, s.p))
    BY DEF op1
  <2> HIDE DEF flags
  <2>. QED
    BY <1>1, <1>6, <2>1, <2>2
<1>. QED
  BY <1>2, <1>3, <1>4, <1>5, <1>6 DEF Operand

LEMMA BitKept ==
  ASSUME NEW s \in Machine, NEW v
  PROVE  Kept(s, [s EXCEPT !.p = Put(Put(Put(@, "Z", byte_and(s.a, v) = 0), "N", Neg(v)),
                                     "V", (v \div 64) % 2 = 1)])
<1>1. \A zero, neg, over :
        /\ Put(Put(Put(s.p, "Z", zero), "N", neg), "V", over) \in SUBSET Flags
        /\ "I" \in s.p => "I" \in Put(Put(Put(s.p, "Z", zero), "N", neg), "V", over)
  <2>1. s.p \in SUBSET Flags /\ {"Z", "N", "V"} \subseteq Flags
    BY MachineFields DEF Flags
  <2>. QED
    BY <2>1 DEF Put
<1> DEFINE q == Put(Put(Put(s.p, "Z", byte_and(s.a, v) = 0), "N", Neg(v)),
                    "V", (v \div 64) % 2 = 1)
<1>2. q \in SUBSET Flags /\ ("I" \in s.p => "I" \in q)
  BY Zenon, <1>1
<1>3. Kept(s, [s EXCEPT !.p = q])
  <2> HIDE DEF q
  <2>. QED
    BY <1>2, SetFlags
<1>. QED
  BY <1>3

LEMMA OpWithAddrKept ==
  ASSUME NEW s \in Machine, NEW op \in Operand \cup Shifts \cup MemoryOnly,
         NEW v \in Byte, NEW addr \in Address
  PROVE  Kept(s, op_with_addr(s, op, v, addr))
<1>1. s.a \in Byte /\ s.x \in Byte /\ s.y \in Byte /\ s.pc \in Address
  BY MachineFields
<1>2. CASE op \in {"STA", "STX", "STY"}
  BY <1>1, <1>2, WriteKept DEF op_with_addr
<1>3. CASE op = "BIT"
  BY <1>3, BitKept DEF op_with_addr
<1>4. CASE op \in {"INC", "DEC"}
  <2>1. (v + 1) % 256 \in Byte /\ (v - 1) % 256 \in Byte
    BY ByteSet, Cut
  <2>. QED
    BY <1>4, <2>1, RewriteKept DEF op_with_addr
<1>5. CASE op \in Shifts
  <2> DEFINE r == shift(op, v, s.p)
             n == write8(s, addr, r.v)
             w == r.v
             q == r.p
  <2>1. w \in Byte /\ q \in SUBSET Flags /\ ("I" \in s.p => "I" \in q)
    BY <1>5, ShiftType DEF Shifts
  <2>2. op_with_addr(s, op, v, addr) = [n EXCEPT !.p = q]
    BY <1>5 DEF op_with_addr, Shifts
  <2>3. Kept(s, n) /\ n.p = s.p
    BY <2>1, WriteKept, WriteLeaves
  <2> HIDE DEF n, q
  <2>4. Kept(n, [n EXCEPT !.p = q])
    BY <2>1, <2>3, SetFlags DEF Kept
  <2>. QED
    BY <2>2, <2>3, <2>4, KeptTwice
<1>6. CASE op = "JMP"
  <2>1. op_with_addr(s, op, v, addr) = [s EXCEPT !.pc = addr]
    BY <1>6 DEF op_with_addr
  <2>. QED
    BY <2>1, SetPc
<1>7. CASE op = "JSR"
  <2> DEFINE n == push16(s, (s.pc - 1) % 65536)
  <2>1. (s.pc - 1) % 65536 \in Address
    BY <1>1, AddressSet, Wrapped
  <2>2. Kept(s, n)
    BY <2>1, Push16Kept
  <2>3. op_with_addr(s, op, v, addr) = [n EXCEPT !.pc = addr]
    BY <1>7 DEF op_with_addr
  <2> HIDE DEF n
  <2>4. Kept(n, [n EXCEPT !.pc = addr])
    BY <2>2, SetPc DEF Kept
  <2>. QED
    BY <2>2, <2>3, <2>4, KeptTwice
<1>8. CASE op \in Operand
  <2>1. op_with_addr(s, op, v, addr) = op1(s, op, v)
    BY <1>8 DEF op_with_addr, Operand
  <2>. QED
    BY <1>8, <2>1, Op1Kept
<1>. QED
  BY <1>2, <1>3, <1>4, <1>5, <1>6, <1>7, <1>8 DEF MemoryOnly

-----------------------------------------------------------------------------
(* The instruction table: which operations each addressing mode has *)
Branches == {"BCC", "BCS", "BEQ", "BMI", "BNE", "BPL", "BVC", "BVS"}
Addressed == {"ZP", "ZPX", "ZPY", "ABS", "ABSX", "ABSY", "INDX", "INDY", "IND"}
Fits(op, mode) ==
  \/ mode = "IMM" /\ op \in Operand
  \/ mode = "ACC" /\ op \in Shifts
  \/ mode = "REL" /\ op \in Branches
  \/ mode = "IMP"
  \/ mode \in Addressed /\ op \in Operand \cup Shifts \cup MemoryOnly

LEMMA OpNames ==
  DOMAIN OPCODES =
    Operand \cup Shifts \cup MemoryOnly \cup Branches \cup
    {"TAX", "TXA", "TAY", "TYA", "TSX", "TXS", "PHA", "PHP", "PLA", "PLP", "INX", "INY",
     "DEX", "DEY", "RTS", "BRK", "RTI", "NOP", "CLC", "CLD", "CLI", "CLV", "SEC", "SED", "SEI"}
BY SMTT(60) DEF OPCODES, Operand, Shifts, MemoryOnly, Branches

LEMMA OperandModes ==
  /\ \A op \in {"LDA", "ADC", "SBC", "AND", "ORA", "EOR", "CMP"} :
       DOMAIN OPCODES[op] = {"IMM", "ZP", "ZPX", "ABS", "ABSX", "ABSY", "INDX", "INDY"}
  /\ DOMAIN OPCODES["LDX"] = {"IMM", "ZP", "ZPY", "ABS", "ABSY"}
  /\ DOMAIN OPCODES["LDY"] = {"IMM", "ZP", "ZPX", "ABS", "ABSX"}
  /\ \A op \in {"CPX", "CPY"} : DOMAIN OPCODES[op] = {"IMM", "ZP", "ABS"}
<1>1. \A op \in {"LDA", "ADC", "SBC", "AND", "ORA", "EOR", "CMP"} :
        DOMAIN OPCODES[op] = {"IMM", "ZP", "ZPX", "ABS", "ABSX", "ABSY", "INDX", "INDY"}
  BY SMTT(60) DEF OPCODES
<1>2. DOMAIN OPCODES["LDX"] = {"IMM", "ZP", "ZPY", "ABS", "ABSY"}
  BY SMTT(60) DEF OPCODES
<1>3. DOMAIN OPCODES["LDY"] = {"IMM", "ZP", "ZPX", "ABS", "ABSX"}
  BY SMTT(60) DEF OPCODES
<1>4. \A op \in {"CPX", "CPY"} : DOMAIN OPCODES[op] = {"IMM", "ZP", "ABS"}
  BY SMTT(60) DEF OPCODES
<1>. QED
  BY <1>1, <1>2, <1>3, <1>4

LEMMA MemoryModes ==
  /\ DOMAIN OPCODES["STA"] = {"ZP", "ZPX", "ABS", "ABSX", "ABSY", "INDX", "INDY"}
  /\ DOMAIN OPCODES["STX"] = {"ZP", "ZPY", "ABS"}
  /\ DOMAIN OPCODES["STY"] = {"ZP", "ZPX", "ABS"}
  /\ DOMAIN OPCODES["BIT"] = {"ZP", "ABS"}
  /\ \A op \in {"INC", "DEC"} : DOMAIN OPCODES[op] = {"ZP", "ZPX", "ABS", "ABSX"}
  /\ DOMAIN OPCODES["JMP"] = {"ABS", "IND"}
  /\ DOMAIN OPCODES["JSR"] = {"ABS"}
<1>1. DOMAIN OPCODES["STA"] = {"ZP", "ZPX", "ABS", "ABSX", "ABSY", "INDX", "INDY"}
  BY SMTT(60) DEF OPCODES
<1>2. DOMAIN OPCODES["STX"] = {"ZP", "ZPY", "ABS"} /\ DOMAIN OPCODES["STY"] = {"ZP", "ZPX", "ABS"}
  BY SMTT(60) DEF OPCODES
<1>3. DOMAIN OPCODES["BIT"] = {"ZP", "ABS"}
  BY SMTT(60) DEF OPCODES
<1>4. \A op \in {"INC", "DEC"} : DOMAIN OPCODES[op] = {"ZP", "ZPX", "ABS", "ABSX"}
  BY SMTT(60) DEF OPCODES
<1>5. DOMAIN OPCODES["JMP"] = {"ABS", "IND"} /\ DOMAIN OPCODES["JSR"] = {"ABS"}
  BY SMTT(60) DEF OPCODES
<1>. QED
  BY <1>1, <1>2, <1>3, <1>4, <1>5

LEMMA ShiftModes ==
  \A op \in Shifts : DOMAIN OPCODES[op] = {"ACC", "ZP", "ZPX", "ABS", "ABSX"}
BY SMTT(60) DEF OPCODES, Shifts

LEMMA BranchModes == \A op \in Branches : DOMAIN OPCODES[op] = {"REL"}
BY SMTT(60) DEF OPCODES, Branches

LEMMA ImpliedModes ==
  /\ \A op \in {"TAX", "TXA", "TAY", "TYA", "TSX", "TXS", "PHA", "PHP", "PLA", "PLP"} :
       DOMAIN OPCODES[op] = {"IMP"}
  /\ \A op \in {"INX", "INY", "DEX", "DEY", "RTS", "BRK", "RTI", "NOP"} :
       DOMAIN OPCODES[op] = {"IMP"}
  /\ \A op \in {"CLC", "CLD", "CLI", "CLV", "SEC", "SED", "SEI"} :
       DOMAIN OPCODES[op] = {"IMP"}
BY SMTT(60) DEF OPCODES

LEMMA TableFits ==
  ASSUME NEW op \in DOMAIN OPCODES, NEW mode \in DOMAIN OPCODES[op]
  PROVE  Fits(op, mode) /\ (op \in {"RTI", "PLP"} => mode = "IMP")
<1>1. CASE op \in Operand
  <2>1. mode \in {"IMM", "ZP", "ZPX", "ZPY", "ABS", "ABSX", "ABSY", "INDX", "INDY"}
    BY <1>1, OperandModes DEF Operand
  <2>. QED
    BY <1>1, <2>1 DEF Fits, Operand, Addressed
<1>2. CASE op \in MemoryOnly
  <2>1. mode \in {"ZP", "ZPX", "ZPY", "ABS", "ABSX", "ABSY", "INDX", "INDY", "IND"}
    BY <1>2, MemoryModes DEF MemoryOnly
  <2>. QED
    BY <1>2, <2>1 DEF Fits, MemoryOnly, Addressed
<1>3. CASE op \in Shifts
  BY <1>3, ShiftModes DEF Fits, Shifts, Addressed
<1>4. CASE op \in Branches
  BY <1>4, BranchModes DEF Fits, Branches
<1>5. CASE op \notin Operand \cup Shifts \cup MemoryOnly \cup Branches
  BY <1>5, OpNames, ImpliedModes DEF Fits
<1>. QED
  BY <1>1, <1>2, <1>3, <1>4, <1>5

LEMMA DecodeFits ==
  ASSUME NEW code \in Byte
  PROVE  Fits(decode[code].op, decode[code].mode) /\
         (decode[code].op \in {"RTI", "PLP"} => decode[code].mode = "IMP")
<1> DEFINE uses(op) == \E mode \in DOMAIN OPCODES[op] : OPCODES[op][mode] = code
           o == CHOOSE op \in DOMAIN OPCODES : uses(op)
           k == CHOOSE mode \in DOMAIN OPCODES[o] : OPCODES[o][mode] = code
<1>1. decode[code] = IF \E op \in DOMAIN OPCODES : uses(op) THEN [op |-> o, mode |-> k]
                     ELSE [op |-> "LDA", mode |-> "IMP"]
  BY DEF decode, Meaning
<1>2. CASE \E op \in DOMAIN OPCODES : uses(op)
  <2>1. o \in DOMAIN OPCODES /\ uses(o)
    BY <1>2
  <2>2. k \in DOMAIN OPCODES[o]
    BY <2>1
  <2> HIDE DEF uses, o, k
  <2>. QED
    BY <1>1, <1>2, <2>1, <2>2, TableFits
<1>3. CASE ~\E op \in DOMAIN OPCODES : uses(op)
  <2>1. decode[code] = [op |-> "LDA", mode |-> "IMP"]
    BY <1>1, <1>3
  <2>. QED
    BY <2>1 DEF Fits
<1>. QED
  BY <1>2, <1>3

-----------------------------------------------------------------------------
(* Where the operand is *)
LEMMA ByteIsAddress == ASSUME NEW v \in Byte PROVE v \in Address
BY ByteSet, AddressSet

LEMMA SumIsAddress ==
  ASSUME NEW w \in Int, NEW v \in Int
  PROVE  (w + v) % 65536 \in Address /\ (w + v) % 256 \in Address
<1>1. w + v \in Int
  OBVIOUS
<1>. QED
  BY <1>1, Wrapped, Cut, ByteIsAddress

LEMMA IndirectType ==
  ASSUME NEW s \in Machine, NEW mode \in {"INDX", "INDY", "IND"}
  PROVE  indirect(s, mode) \in Address
<1> DEFINE b == read8(s, s.pc)
           w == read16(s, s.pc)
           zp16(z) == Word(read8(s, z % 256), read8(s, (z + 1) % 256))
           high == Word(read8(s, w), read8(s, 256 * (w \div 256) + ((w + 1) % 256)))
<1>1. /\ mode = "INDX" => indirect(s, mode) = zp16(b + s.x)
      /\ mode = "INDY" => indirect(s, mode) = (zp16(b) + s.y) % 65536
      /\ mode = "IND"  => indirect(s, mode) = high
  BY DEF indirect
<1>2. high \in Address /\ \A z : zp16(z) \in Address
  BY ReadIsByte, WordType
<1> HIDE DEF zp16, b, high
<1>3. (zp16(b) + s.y) % 65536 \in Address
  <2>1. zp16(b) \in Int /\ s.y \in Int
    BY <1>2, AddressSet, ByteSet, MachineFields
  <2>. QED
    BY <2>1, SumIsAddress
<1>. QED
  BY <1>1, <1>2, <1>3

LEMMA FetchType ==
  ASSUME NEW s \in Machine, NEW mode \in Addressed
  PROVE  fetch(s, mode) \in Address
<1> DEFINE b == read8(s, s.pc)
           w == read16(s, s.pc)
<1>1. /\ mode = "ZP" => fetch(s, mode) = b
      /\ mode = "ZPX" => fetch(s, mode) = (b + s.x) % 256
      /\ mode = "ZPY" => fetch(s, mode) = (b + s.y) % 256
      /\ mode = "ABS" => fetch(s, mode) = w
      /\ mode = "ABSX" => fetch(s, mode) = (w + s.x) % 65536
      /\ mode = "ABSY" => fetch(s, mode) = (w + s.y) % 65536
      /\ mode \in {"INDX", "INDY", "IND"} => fetch(s, mode) = indirect(s, mode)
  BY DEF fetch
<1>2. b \in Byte /\ w \in Address
  BY ReadIsByte, ReadIsWord
<1> HIDE DEF b, w
<1>3. b \in Address /\ b \in Int /\ w \in Int /\ s.x \in Int /\ s.y \in Int
  BY <1>2, ByteIsAddress, AddressSet, ByteSet, MachineFields
<1>4. /\ (b + s.x) % 256 \in Address /\ (b + s.y) % 256 \in Address
      /\ (w + s.x) % 65536 \in Address /\ (w + s.y) % 65536 \in Address
  BY <1>3, SumIsAddress
<1>. QED
  BY <1>1, <1>2, <1>3, <1>4, IndirectType DEF Addressed

-----------------------------------------------------------------------------
(* One instruction *)
LEMMA SkipKept ==
  ASSUME NEW s \in Machine, NEW n \in Int
  PROVE  Kept(s, skip(s, n))
<1> DEFINE w == (s.pc + n) % 65536
<1>1. s.pc \in Int
  BY MachineFields, AddressSet
<1>2. w \in Address
  BY <1>1, SumIsAddress
<1>3. skip(s, n) = [s EXCEPT !.pc = w]
  BY DEF skip
<1> HIDE DEF w
<1>. QED
  BY <1>2, <1>3, SetPc

LEMMA BranchKept ==
  ASSUME NEW s \in Machine, NEW op
  PROVE  Kept(s, branch(s, op))
<1> DEFINE b == read8(s, s.pc)
           n == 1 + (IF taken(s.p, op) THEN sbyte(b) ELSE 0)
<1>1. b \in Int
  BY ReadIsByte, ByteSet
<1> HIDE DEF b
<1>2. sbyte(b) \in Int
  BY <1>1 DEF sbyte
<1>3. n \in Int
  BY <1>2
<1>4. branch(s, op) = skip(s, n)
  BY DEF branch, b
<1> HIDE DEF n
<1>. QED
  BY <1>3, <1>4, SkipKept

LEMMA MemoryKept ==
  ASSUME NEW s \in Machine, NEW op \in Operand \cup Shifts \cup MemoryOnly, NEW addr \in Address
  PROVE  Kept(s, exec_memory(s, op, addr))
<1> DEFINE n == IF op \in Storing THEN s ELSE rx_read(s, addr)
           v == read8(s, addr)
<1>1. Kept(s, n)
  BY KeptSame, RxReadKept
<1>2. v \in Byte
  BY ReadIsByte
<1>3. exec_memory(s, op, addr) = op_with_addr(n, op, v, addr)
  BY DEF exec_memory
<1> HIDE DEF n, v
<1>4. Kept(n, op_with_addr(n, op, v, addr))
  BY <1>1, <1>2, OpWithAddrKept DEF Kept
<1>. QED
  BY <1>1, <1>3, <1>4, KeptTwice

LEMMA ExecEnds ==
  ASSUME NEW s \in Machine
  PROVE  Ends(s, next_op(s), exec(s))
<1> DEFINE d == decode[read8(s, s.pc)]
           n == skip(s, 1)
           k == skip(n, operand_bytes(d.mode))
           at == fetch(n, d.mode)
<1>1. next_op(s) = d.op /\ Fits(d.op, d.mode)
  BY ReadIsByte, DecodeFits DEF next_op
<1>2. Kept(s, n) /\ n \in Machine
  BY SkipKept DEF Kept
<1>3. /\ d.mode = "IMM" => exec(s) = op1(skip(n, 1), d.op, read8(n, n.pc))
      /\ d.mode = "ACC" => exec(s) = Arith(n, shift(d.op, n.a, n.p))
      /\ d.mode = "REL" => exec(s) = branch(n, d.op)
      /\ d.mode = "IMP" => exec(s) = op0(n, d.op)
      /\ d.mode \in Addressed => exec(s) = exec_memory(k, d.op, at)
  BY DEF exec, Addressed
<1> HIDE DEF d, n
<1>4. CASE d.mode = "IMM" /\ d.op \in Operand
  <2> DEFINE j == skip(n, 1)
             v == read8(n, n.pc)
  <2>1. Kept(s, j) /\ v \in Byte
    BY <1>2, SkipKept, KeptTwice, ReadIsByte
  <2>2. exec(s) = op1(j, d.op, v)
    BY <1>3, <1>4
  <2> HIDE DEF j, v
  <2>3. Kept(j, op1(j, d.op, v))
    BY <1>4, <2>1, Op1Kept DEF Kept
  <2>. QED
    BY <1>1, <2>1, <2>2, <2>3, KeptTwice, KeptEnds
<1>5. CASE d.mode = "ACC" /\ d.op \in Shifts
  <2> DEFINE r == shift(d.op, n.a, n.p)
  <2>1. r.v \in Byte /\ r.p \in SUBSET Flags /\ ("I" \in n.p => "I" \in r.p)
    BY <1>2, <1>5, MachineFields, ShiftType DEF Shifts
  <2>2. exec(s) = Arith(n, r)
    BY <1>3, <1>5
  <2> HIDE DEF r
  <2>3. Kept(n, Arith(n, r))
    BY <1>2, <2>1, ArithKept
  <2>. QED
    BY <1>1, <1>2, <2>2, <2>3, KeptTwice, KeptEnds
<1>6. CASE d.mode = "REL" /\ d.op \in Branches
  <2>1. Kept(n, branch(n, d.op))
    BY <1>2, BranchKept
  <2>. QED
    BY <1>1, <1>2, <1>3, <1>6, <2>1, KeptTwice, KeptEnds
<1>7. CASE d.mode = "IMP"
  <2>1. Ends(n, d.op, op0(n, d.op))
    BY <1>2, Op0Ends
  <2>2. exec(s) = op0(n, d.op)
    BY <1>3, <1>7
  <2>. QED
    BY <1>1, <1>2, <2>1, <2>2, KeptTwice DEF Ends
<1>8. CASE d.mode \in Addressed /\ d.op \in Operand \cup Shifts \cup MemoryOnly
  <2>1. operand_bytes(d.mode) \in Int
    BY DEF operand_bytes
  <2>2. Kept(n, k) /\ at \in Address
    BY <1>2, <1>8, <2>1, SkipKept, FetchType
  <2>3. exec(s) = exec_memory(k, d.op, at)
    BY <1>3, <1>8
  <2> HIDE DEF k, at
  <2>4. Kept(k, exec_memory(k, d.op, at))
    BY <1>8, <2>2, MemoryKept DEF Kept
  <2>. QED
    BY <1>1, <1>2, <2>2, <2>3, <2>4, KeptTwice, KeptEnds
<1>. QED
  BY <1>1, <1>4, <1>5, <1>6, <1>7, <1>8 DEF Fits

(* RTI loads the status it pulls. *)
LEMMA ExecRti ==
  ASSUME NEW s \in Machine, next_op(s) = "RTI"
  PROVE  exec(s) = RTI(skip(s, 1)) /\ exec(s).p = from_byte(pulled(s))
<1> DEFINE d == decode[read8(s, s.pc)]
           n == skip(s, 1)
<1>1. d.op = "RTI" /\ d.mode = "IMP"
  BY ReadIsByte, DecodeFits DEF next_op
<1>2. exec(s) = op0(n, d.op)
  BY <1>1 DEF exec
<1> HIDE DEF d
<1>3. exec(s) = RTI(n)
  BY <1>1, <1>2 DEF op0, control
<1>4. n \in Machine
  BY SkipKept DEF Kept
<1>5. pulled(n) = pulled(s)
  BY DEF pulled, read8, skip, Machine
<1> HIDE DEF n
<1>. QED
  BY <1>3, <1>4, <1>5, RtiType DEF n

-----------------------------------------------------------------------------
(* The processor loop: the machine keeps its widths, and the open            *)
(* activations are interrupts and BRKs with the machines they found.         *)
Frames == {Frame(kind, s) : kind \in {"irq", "nmi", "brk"}, s \in Machine}
Types ==
  /\ m \in Machine /\ frames \in Seq(Frames)
  /\ {irq_pending, nmi_pending, autostart_requested} \subseteq BOOLEAN

(* The whole of page 1 is RAM, as on the machine. *)
WholeStack == \A i \in Byte : 256 + i \in Ram

LEMMA FrameFields ==
  ASSUME NEW kind, NEW s \in Machine
  PROVE  Frame(kind, s).kind = kind /\ Frame(kind, s).at.p = s.p
BY DEF Frame, Machine

LEMMA LiveType ==
  ASSUME NEW s \in Machine
  PROVE  Live(s) \in Machine /\ Live(s).p = s.p
<1> DEFINE f == [i \in Ram |-> IF i \in 256..(256 + s.sp) THEN 0 ELSE s.mem[i]]
<1>1. Live(s) = [s EXCEPT !.mem = f]
  BY DEF Live
<1>2. f \in [Ram -> Byte]
  BY MachineFields, SmallBytes
<1> HIDE DEF f
<1>3. [s EXCEPT !.mem = f] \in Machine /\ [s EXCEPT !.mem = f].p = s.p
  BY <1>2 DEF Machine
<1>. QED
  BY <1>1, <1>3

(* What step() starts from: the entry of the autostart if it was requested *)
start == IF autostart_requested THEN [m EXCEPT !.pc = read16(m, \h03F4)] ELSE m
opened == IF autostart_requested THEN << >> ELSE frames

LEMMA StartType ==
  ASSUME Types
  PROVE  start \in Machine /\ start.p = m.p /\ opened \in Seq(Frames)
<1>1. m \in Machine /\ frames \in Seq(Frames) /\ << >> \in Seq(Frames)
  BY DEF Types
<1>2. read16(m, \h03F4) \in Address
  BY <1>1, ReadIsWord
<1>3. [m EXCEPT !.pc = read16(m, \h03F4)] \in Machine
  BY <1>1, <1>2, SetPc DEF Kept
<1>4. [m EXCEPT !.pc = read16(m, \h03F4)].p = m.p
  BY <1>1 DEF Machine
<1>. QED
  BY <1>1, <1>3, <1>4 DEF start, opened

(* The three ways an instruction changes the activations *)
LEMMA AfterForms ==
  ASSUME NEW s \in Machine, NEW open \in Seq(Frames)
  PROVE  \/ /\ next_op(s) = "BRK" /\ After(s, open) = Append(open, Frame("brk", s))
         \/ /\ next_op(s) = "RTI" /\ open # << >>
            /\ After(s, open) = SubSeq(open, 1, Len(open) - 1)
         \/ /\ next_op(s) # "BRK" /\ (next_op(s) = "RTI" => open = << >>)
            /\ After(s, open) = open
BY DEF After

LEMMA AfterType ==
  ASSUME NEW s \in Machine, NEW open \in Seq(Frames)
  PROVE  After(s, open) \in Seq(Frames)
<1>1. Append(open, Frame("brk", s)) \in Seq(Frames)
  <2>1. Frame("brk", s) \in Frames
    BY DEF Frames
  <2>. QED
    BY <2>1, AppendProperties
<1>2. open # << >> => SubSeq(open, 1, Len(open) - 1) \in Seq(Frames)
  BY SMTT(30)
<1>. QED
  BY <1>1, <1>2, AfterForms

(* The three ends of a step, as functions of the machine s that the           *)
(* instruction left and of the activations open then                         *)
Served(s, left, kind, vector) ==
  m' = Live(serve_interrupt(s, vector)) /\ frames' = Append(left, Frame(kind, s))
Ended(s, left) ==
  \/ Served(s, left, "nmi", nmi_vector)
  \/ "I" \notin s.p /\ Served(s, left, "irq", irq_vector)
  \/ m' = Live(s) /\ frames' = left
Latches == {irq_pending, nmi_pending, autostart_requested} \subseteq BOOLEAN

LEMMA StepForms ==
  ASSUME Types, step, NEW s, s = exec(start), NEW left, left = After(start, opened)
  PROVE  s \in Machine /\ left \in Seq(Frames) /\ Ended(s, left) /\ Latches'
<1>1. start \in Machine /\ opened \in Seq(Frames)
  BY StartType
<1>2. s \in Machine /\ left \in Seq(Frames)
  BY <1>1, ExecEnds, AfterType DEF Ends
<1>3. /\ autostart_requested' = FALSE
      /\ step_nmi(s, left) \/ step_irq(s, left) \/ step_only(s, left)
  BY DEF step, start, opened
<1>4. irq_pending \in BOOLEAN /\ nmi_pending \in BOOLEAN
  BY Zenon DEF Types
<1>5. CASE step_nmi(s, left)
  <2>1. irq_pending' \in BOOLEAN /\ nmi_pending' \in BOOLEAN
    BY <1>4, <1>5, Zenon DEF step_nmi
  <2>2. Ended(s, left)
    BY <1>5, Zenon DEF step_nmi, Serve, Ended, Served
  <2>. QED
    BY <1>2, <1>3, <2>1, <2>2, Zenon DEF Latches
<1>6. CASE step_irq(s, left)
  <2>1. irq_pending' \in BOOLEAN /\ nmi_pending' \in BOOLEAN
    BY <1>4, <1>6, Zenon DEF step_irq
  <2>2. Ended(s, left)
    BY <1>6, Zenon DEF step_irq, Serve, Ended, Served
  <2>. QED
    BY <1>2, <1>3, <2>1, <2>2, Zenon DEF Latches
<1>7. CASE step_only(s, left)
  <2>1. irq_pending' \in BOOLEAN /\ nmi_pending' \in BOOLEAN
    BY <1>4, <1>7, Zenon DEF step_only
  <2>2. Ended(s, left)
    BY <1>7, Zenon DEF step_only, Ended
  <2>. QED
    BY <1>2, <1>3, <2>1, <2>2, Zenon DEF Latches
<1>. QED
  BY <1>3, <1>5, <1>6, <1>7, Zenon

LEMMA ServedType ==
  ASSUME NEW s \in Machine, NEW left \in Seq(Frames), NEW kind \in {"irq", "nmi", "brk"},
         NEW vector
  PROVE  /\ Live(serve_interrupt(s, vector)) \in Machine
         /\ "I" \in Live(serve_interrupt(s, vector)).p
         /\ Append(left, Frame(kind, s)) \in Seq(Frames)
<1>1. Live(serve_interrupt(s, vector)) \in Machine /\ "I" \in Live(serve_interrupt(s, vector)).p
  <2> DEFINE n == serve_interrupt(s, vector)
  <2>1. n \in Machine /\ "I" \in n.p
    BY ServeType
  <2> HIDE DEF n
  <2>2. Live(n) \in Machine /\ Live(n).p = n.p
    BY <2>1, LiveType
  <2>. QED
    BY <2>1, <2>2 DEF n
<1>2. Frame(kind, s) \in Frames
  BY DEF Frames
<1>. QED
  BY <1>1, <1>2, AppendProperties

LEMMA TypesInit == Init => Types
<1> SUFFICES ASSUME Init PROVE Types
  OBVIOUS
<1>1. << >> \in Seq(Frames)
  OBVIOUS
<1>2. m \in Machine /\ frames \in Seq(Frames)
  BY <1>1, CpuAssumption, Zenon DEF Init
<1>3. Latches
  BY Zenon DEF Init, Latches
<1>. QED
  BY <1>2, <1>3, Zenon DEF Types, Latches

LEMMA TypesStep == Types /\ [Next]_vars => Types'
<1> SUFFICES ASSUME Types, [Next]_vars PROVE Types'
  OBVIOUS
<1>1. CASE step
  <2> DEFINE s == exec(start)
             left == After(start, opened)
  <2>1. s \in Machine /\ left \in Seq(Frames) /\ Ended(s, left) /\ Latches'
    BY <1>1, StepForms
  <2> HIDE DEF s, left
  <2>2. CASE Served(s, left, "nmi", nmi_vector)
    <3>1. m' \in Machine /\ frames' \in Seq(Frames)
      BY <2>1, <2>2, ServedType, Zenon DEF Served
    <3>. QED
      BY <2>1, <3>1, Zenon DEF Types, Latches
  <2>3. CASE Served(s, left, "irq", irq_vector)
    <3>1. m' \in Machine /\ frames' \in Seq(Frames)
      BY <2>1, <2>3, ServedType, Zenon DEF Served
    <3>. QED
      BY <2>1, <3>1, Zenon DEF Types, Latches
  <2>4. CASE m' = Live(s) /\ frames' = left
    <3>1. m' \in Machine /\ frames' \in Seq(Frames)
      BY <2>1, <2>4, LiveType, Zenon
    <3>. QED
      BY <2>1, <3>1, Zenon DEF Types, Latches
  <2>. QED
    BY <2>1, <2>2, <2>3, <2>4, Zenon DEF Ended
<1>2. CASE interrupt
  BY <1>2, Zenon DEF interrupt, Types
<1>3. CASE nmi
  BY <1>3, Zenon DEF nmi, Types
<1>4. CASE request_autostart
  BY <1>4, Zenon DEF request_autostart, Types
<1>5. CASE UNCHANGED vars
  BY <1>5 DEF vars, Types
<1>. QED
  BY <1>1, <1>2, <1>3, <1>4, <1>5 DEF Next

(* The processor loop of the Sage core keeps A, X, Y and every byte of memory *)
(* in 0..255, the program counter in 16 bits and the stack pointer in page 1, *)
(* whatever the ROM, the program and the interrupts: no instruction, addressing *)
(* mode or service of an interrupt lets a carry or a borrow out.              *)
THEOREM WidthsKept ==
  ASSUME WholeStack
  PROVE  Spec => []TypeOK
<1>1. Types => TypeOK
  <2> SUFFICES ASSUME Types PROVE TypeOK
    OBVIOUS
  <2>1. m \in Machine /\ {irq_pending, nmi_pending, autostart_requested} \subseteq BOOLEAN
    BY DEF Types
  <2>2. /\ m.a \in Byte /\ m.x \in Byte /\ m.y \in Byte /\ m.sp \in Byte
        /\ m.pc \in Address /\ m.p \in SUBSET Flags /\ m.mem \in [Ram -> Byte]
    BY <2>1, MachineFields
  <2>3. 256 + m.sp \in Ram
    BY <2>2 DEF WholeStack
  <2>. QED
    BY <2>1, <2>2, <2>3 DEF TypeOK
<1>. QED
  BY <1>1, TypesInit, TypesStep, PTL DEF Spec

-----------------------------------------------------------------------------
(* An IRQ handler is not entered again.  The instructions between the entry  *)
(* of an IRQ and its return must not clear I on their own: no CLI, no PLP of *)
(* a status without I, and RTI pulls the status byte that the entry of its   *)
(* handler pushed.  That is a condition on the programs, and the step's own  *)
(* reading of the I flag does the rest.                                      *)
HasIrq(open) == \E i \in DOMAIN open : open[i].kind = "irq"
Found(open) == open[Len(open)]
KeepsI(s, open) ==
  /\ next_op(s) # "CLI"
  /\ next_op(s) = "PLP" => "I" \in from_byte(pulled(s))
  /\ next_op(s) = "RTI" => pulled(s) = to_push_byte(Found(open).at.p, Found(open).kind = "brk")
HandlersKeepI == HasIrq(frames) /\ ~autostart_requested => KeepsI(m, frames)

(* From the entry of an IRQ on, I is set, now and in every status saved.     *)
Masked(p, open) ==
  \A i \in DOMAIN open : open[i].kind = "irq" =>
    "I" \in p /\ \A j \in DOMAIN open : i < j => "I" \in open[j].at.p
(* The status that an IRQ saved has I clear. *)
FoundClear(open) == \A i \in DOMAIN open : open[i].kind = "irq" => "I" \notin open[i].at.p

LEMMA SeqFields ==
  ASSUME NEW open \in Seq(Frames)
  PROVE  /\ DOMAIN open = 1..Len(open) /\ Len(open) \in Nat
         /\ open # << >> => Len(open) >= 1 /\ Len(open) \in DOMAIN open
OBVIOUS

LEMMA Appended ==
  ASSUME NEW open \in Seq(Frames), NEW f \in Frames
  PROVE  /\ DOMAIN Append(open, f) = DOMAIN open \cup {Len(open) + 1}
         /\ \A i \in DOMAIN open : Append(open, f)[i] = open[i] /\ i < Len(open) + 1
         /\ Append(open, f)[Len(open) + 1] = f /\ Len(open) + 1 \notin DOMAIN open
<1>1. /\ Append(open, f) \in Seq(Frames) /\ Len(Append(open, f)) = Len(open) + 1
      /\ \A i \in 1..Len(open) : Append(open, f)[i] = open[i]
      /\ Append(open, f)[Len(open) + 1] = f
  BY AppendProperties
<1>. QED
  BY <1>1, SeqFields

LEMMA Popped ==
  ASSUME NEW open \in Seq(Frames), open # << >>
  PROVE  /\ DOMAIN SubSeq(open, 1, Len(open) - 1) = DOMAIN open \ {Len(open)}
         /\ \A i \in DOMAIN open \ {Len(open)} :
              SubSeq(open, 1, Len(open) - 1)[i] = open[i] /\ i < Len(open)
         /\ Len(open) \in DOMAIN open
<1>1. Len(open) - 1 \in Nat /\ Len(open) \in Nat /\ DOMAIN open = 1..Len(open)
  BY SeqFields
<1>2. /\ DOMAIN SubSeq(open, 1, Len(open) - 1) = 1..(Len(open) - 1)
      /\ \A i \in 1..(Len(open) - 1) : SubSeq(open, 1, Len(open) - 1)[i] = open[i]
  BY <1>1
<1>. QED
  BY <1>1, <1>2

LEMMA MaskedAppend ==
  ASSUME NEW open \in Seq(Frames), NEW f \in Frames, NEW p, NEW q,
         Masked(p, open), FoundClear(open), f.at.p = p,
         "I" \in p \/ f.kind = "irq" => "I" \in q,
         f.kind = "irq" => "I" \notin p
  PROVE  Masked(q, Append(open, f)) /\ FoundClear(Append(open, f))
<1> DEFINE g == Append(open, f)
           last == Len(open) + 1
<1>1. /\ DOMAIN g = DOMAIN open \cup {last} /\ g[last] = f /\ last \notin DOMAIN open
      /\ \A i \in DOMAIN open : g[i] = open[i] /\ i < last
  BY Appended
<1>2. \A j \in DOMAIN open : ~(last < j)
  <2>1. last \in Nat /\ DOMAIN open = 1..Len(open) /\ Len(open) \in Nat
    BY SeqFields
  <2>. QED
    BY <2>1
<1>3. ~(last < last)
  BY SeqFields
<1> HIDE DEF g, last
<1>4. Masked(q, g)
  <2> SUFFICES ASSUME NEW i \in DOMAIN g, g[i].kind = "irq"
               PROVE  "I" \in q /\ \A j \in DOMAIN g : i < j => "I" \in g[j].at.p
    BY Zenon DEF Masked
  <2>1. CASE i \in DOMAIN open
    BY <1>1, <2>1, Zenon DEF Masked
  <2>2. CASE i = last
    BY <1>1, <1>2, <1>3, <2>2, Zenon
  <2>. QED
    BY <1>1, <2>1, <2>2, Zenon
<1>5. FoundClear(g)
  BY <1>1, Zenon DEF FoundClear
<1>. QED
  BY <1>4, <1>5 DEF g

LEMMA MaskedPop ==
  ASSUME NEW open \in Seq(Frames), open # << >>, NEW p, NEW q,
         Masked(p, open), FoundClear(open),
         HasIrq(open) /\ "I" \in Found(open).at.p => "I" \in q
  PROVE  LET g == SubSeq(open, 1, Len(open) - 1) IN Masked(q, g) /\ FoundClear(g)
<1> DEFINE g == SubSeq(open, 1, Len(open) - 1)
           last == Len(open)
<1>1. /\ DOMAIN g = DOMAIN open \ {last} /\ last \in DOMAIN open
      /\ \A i \in DOMAIN g : g[i] = open[i] /\ i < last
  BY Popped
<1>2. Found(open) = open[last]
  BY DEF Found
<1> HIDE DEF g, last
<1>3. Masked(q, g) /\ FoundClear(g)
  BY <1>1, <1>2, Zenon DEF Masked, FoundClear, HasIrq
<1>. QED
  BY <1>3 DEF g

LEMMA MaskedKept ==
  ASSUME NEW open, NEW p, NEW q, Masked(p, open),
         HasIrq(open) /\ "I" \in p => "I" \in q
  PROVE  Masked(q, open)
BY Zenon DEF Masked, HasIrq

LEMMA MaskedFlag ==
  ASSUME NEW open, NEW p, Masked(p, open), HasIrq(open)
  PROVE  "I" \in p
BY Zenon DEF Masked, HasIrq

LEMMA MaskedNone == ASSUME NEW p PROVE Masked(p, << >>) /\ FoundClear(<< >>)
BY DEF Masked, FoundClear

(* PLP loads the status it pulls. *)
LEMMA ExecPlp ==
  ASSUME NEW s \in Machine, next_op(s) = "PLP"
  PROVE  exec(s).p = from_byte(pulled(s))
<1> DEFINE d == decode[read8(s, s.pc)]
           n == skip(s, 1)
           q == from_byte(pulled(n))
<1>1. d.op = "PLP" /\ d.mode = "IMP"
  BY ReadIsByte, DecodeFits DEF next_op
<1>2. exec(s) = op0(n, d.op)
  BY <1>1 DEF exec
<1> HIDE DEF d
<1>3. exec(s) = [popped(n) EXCEPT !.p = q]
  BY <1>1, <1>2 DEF op0
<1>4. n \in Machine
  BY SkipKept DEF Kept
<1>5. pulled(n) = pulled(s)
  BY DEF pulled, read8, skip, Machine
<1> HIDE DEF n
<1>6. popped(n) \in Machine /\ q \in SUBSET Flags
  BY <1>4, PoppedKept, StatusType DEF Kept
<1> HIDE DEF q
<1>7. [popped(n) EXCEPT !.p = q].p = q
  BY <1>6, SetP
<1>. QED
  BY <1>3, <1>5, <1>7 DEF q

LEMMA FrameStatus ==
  ASSUME NEW f \in Frames
  PROVE  f.at.p \in SUBSET Flags
<1>1. PICK kind \in {"irq", "nmi", "brk"}, s \in Machine : f = Frame(kind, s)
  BY DEF Frames
<1>. QED
  BY <1>1, FrameFields, MachineFields

(* RTI with the status of its own entry restores I. *)
LEMMA ReturnsFlag ==
  ASSUME NEW s \in Machine, NEW open \in Seq(Frames), open # << >>,
         next_op(s) = "RTI", KeepsI(s, open), "I" \in Found(open).at.p
  PROVE  "I" \in exec(s).p
<1> DEFINE q == Found(open).at.p
           on == Found(open).kind = "brk"
<1>1. q \in SUBSET Flags
  BY SeqFields, FrameStatus DEF Found
<1>2. exec(s).p = from_byte(pulled(s)) /\ pulled(s) = to_push_byte(q, on)
  BY ExecRti DEF KeepsI
<1>3. on \in BOOLEAN /\ "I" \in q
  OBVIOUS
<1> HIDE DEF q, on
<1>4. exec(s).p = Put(q \cup {"U"}, "B", on)
  BY <1>1, <1>2, <1>3, StatusRestored
<1>. QED
  BY <1>3, <1>4 DEF Put

(* One instruction of the handlers *)
LEMMA ExecMasked ==
  ASSUME NEW s \in Machine, NEW open \in Seq(Frames), Masked(s.p, open), FoundClear(open),
         HasIrq(open) => KeepsI(s, open)
  PROVE  Masked(exec(s).p, After(s, open)) /\ FoundClear(After(s, open))
<1> DEFINE op == next_op(s)
           q == exec(s).p
<1>1. op \notin Unmasking /\ "I" \in s.p => "I" \in q
  BY ExecEnds DEF Ends, Kept
<1>2. CASE op = "BRK"
  <2> DEFINE f == Frame("brk", s)
  <2>1. f \in Frames /\ f.kind = "brk" /\ f.at.p = s.p
    BY FrameFields DEF Frames
  <2>2. After(s, open) = Append(open, f)
    BY <1>2, AfterForms
  <2>3. "I" \in s.p => "I" \in q
    BY <1>1, <1>2 DEF Unmasking
  <2> HIDE DEF f, q
  <2>. QED
    BY <2>1, <2>2, <2>3, MaskedAppend DEF q
<1>3. CASE op = "RTI" /\ open # << >>
  <2>1. HasIrq(open) /\ "I" \in Found(open).at.p => "I" \in q
    BY <1>3, ReturnsFlag
  <2>2. After(s, open) = SubSeq(open, 1, Len(open) - 1)
    BY <1>3, AfterForms
  <2> HIDE DEF q
  <2>. QED
    BY <1>3, <2>1, <2>2, MaskedPop DEF q
<1>4. CASE op # "BRK" /\ (op = "RTI" => open = << >>)
  <2>1. After(s, open) = open
    BY <1>4, AfterForms
  <2>2. op = "RTI" => ~HasIrq(open)
    BY <1>4 DEF HasIrq
  <2>3. op = "PLP" /\ HasIrq(open) => "I" \in q
    BY ExecPlp DEF KeepsI
  <2>4. op = "CLI" => ~HasIrq(open)
    BY DEF KeepsI
  <2>5. HasIrq(open) /\ "I" \in s.p => "I" \in q
    BY <1>1, <2>2, <2>3, <2>4 DEF Unmasking
  <2> HIDE DEF q
  <2>. QED
    BY <2>1, <2>5, MaskedKept DEF q
<1>. QED
  BY <1>2, <1>3, <1>4

HandlerInv == Types /\ Masked(m.p, frames) /\ FoundClear(frames)

LEMMA StartMasked ==
  ASSUME HandlerInv, HandlersKeepI
  PROVE  Masked(start.p, opened) /\ FoundClear(opened) /\ (HasIrq(opened) => KeepsI(start, opened))
<1>1. start.p = m.p
  BY StartType DEF HandlerInv
<1>2. CASE autostart_requested
  <2>1. opened = << >> /\ ~HasIrq(<< >>)
    BY <1>2 DEF opened, HasIrq
  <2>. QED
    BY <2>1, MaskedNone
<1>3. CASE ~autostart_requested
  <2>1. opened = frames /\ start = m
    BY <1>3 DEF opened, start
  <2>. QED
    BY <1>3, <2>1, Zenon DEF HandlerInv, HandlersKeepI
<1>. QED
  BY <1>2, <1>3

LEMMA HandlerStep ==
  ASSUME HandlerInv, HandlersKeepI, step
  PROVE  Masked(m'.p, frames') /\ FoundClear(frames')
<1> DEFINE s == exec(start)
           left == After(start, opened)
<1>1. s \in Machine /\ left \in Seq(Frames) /\ Ended(s, left)
  BY StepForms DEF HandlerInv
<1>2. Masked(s.p, left) /\ FoundClear(left)
  <2>1. start \in Machine /\ opened \in Seq(Frames)
    BY StartType DEF HandlerInv
  <2>. QED
    BY <2>1, StartMasked, ExecMasked
<1> HIDE DEF s, left
<1>3. ASSUME NEW kind \in {"irq", "nmi"}, NEW vector, Served(s, left, kind, vector),
             kind = "irq" => "I" \notin s.p
      PROVE  Masked(m'.p, frames') /\ FoundClear(frames')
  <2> DEFINE f == Frame(kind, s)
             q == m'.p
  <2>1. f \in Frames /\ f.kind = kind /\ f.at.p = s.p
    BY <1>1, FrameFields DEF Frames
  <2>2. "I" \in q
    BY <1>1, <1>3, ServedType, Zenon DEF Served
  <2>3. frames' = Append(left, f)
    BY <1>3 DEF Served
  <2> HIDE DEF f, q
  <2>. QED
    BY <1>1, <1>2, <1>3, <2>1, <2>2, <2>3, MaskedAppend DEF q
<1>4. CASE m' = Live(s) /\ frames' = left
  BY <1>1, <1>2, <1>4, LiveType
<1>. QED
  BY <1>1, <1>3, <1>4, Zenon DEF Ended

LEMMA HandlerAlone == HandlerInv => OneIrqDeep
<1> SUFFICES ASSUME HandlerInv PROVE OneIrqDeep
  OBVIOUS
<1> DEFINE irqs == {i \in DOMAIN frames : frames[i].kind = "irq"}
<1>1. irqs \subseteq Nat
  BY SeqFields DEF HandlerInv, Types
<1>2. \A i, j \in irqs : ~(i < j)
  BY Zenon DEF HandlerInv, Masked, FoundClear
<1> HIDE DEF irqs
<1>3. \A i, j \in irqs : i = j
  BY <1>1, <1>2
<1>4. irqs # {} => Cardinality(irqs) = 1
  <2> SUFFICES ASSUME NEW i \in irqs PROVE Cardinality(irqs) = 1
    OBVIOUS
  <2>1. irqs = {i}
    BY <1>3, Zenon
  <2>. QED
    BY <2>1, FS_Singleton
<1>5. Cardinality(irqs) <= 1
  BY <1>4, FS_EmptySet
<1>. QED
  BY <1>5 DEF OneIrqDeep, irqs

(* While handlers execute no CLI, no PLP of a status without I and an RTI only *)
(* of the status their entry pushed, an IRQ handler is never entered again      *)
(* before it returns, whatever NMIs and BRKs run in between: step() reads I     *)
(* after the instruction and serve_interrupt sets it after the push.            *)
THEOREM HandlerEnteredOnce == Spec /\ []HandlersKeepI => []OneIrqDeep
<1>1. Init => HandlerInv
  BY TypesInit, MaskedNone, Zenon DEF Init, HandlerInv
<1>2. HandlerInv /\ HandlersKeepI /\ [Next]_vars => HandlerInv'
  <2> SUFFICES ASSUME HandlerInv, HandlersKeepI, [Next]_vars PROVE HandlerInv'
    OBVIOUS
  <2>1. Types'
    BY TypesStep DEF HandlerInv
  <2>2. CASE step
    BY <2>1, <2>2, HandlerStep, Zenon DEF HandlerInv
  <2>3. CASE interrupt \/ nmi \/ request_autostart \/ UNCHANGED vars
    <3>1. m' = m /\ frames' = frames
      BY <2>3 DEF interrupt, nmi, request_autostart, vars
    <3>. QED
      BY <2>1, <3>1, Zenon DEF HandlerInv
  <2>. QED
    BY <2>2, <2>3 DEF Next
<1>. QED
  BY <1>1, <1>2, HandlerAlone, PTL DEF Spec

-----------------------------------------------------------------------------
(* What an interrupt saves, RTI gives back. *)
Down(i) == (i - 1) % 256
Up(i) == (i + 1) % 256

LEMMA UpDown ==
  ASSUME NEW i \in Byte
  PROVE  /\ Down(i) \in Byte /\ Up(Down(i)) = i /\ Down(i) # i /\ Down(Down(i)) # i
         /\ Up(i) \in Byte
BY ByteSet DEF Down, Up

(* The bus at an address of the RAM *)
LEMMA RamByte ==
  ASSUME NEW addr \in Ram, NEW s, NEW v
  PROVE  read8(s, addr) = s.mem[addr] /\ write8(s, addr, v) = [s EXCEPT !.mem[addr] = v]
<1>1. addr \notin DOMAIN Rom /\ addr \notin {\h2000, \h2001, \h3000}
  BY BusAssumption
<1>2. write8(s, addr, v) = [s EXCEPT !.mem[addr] = v]
  BY <1>1 DEF write8
<1>3. read8(s, addr) = s.mem[addr]
  BY <1>1 DEF read8
<1>. QED
  BY <1>2, <1>3

(* A push with the whole of page 1 in the RAM *)
LEMMA PushFields ==
  ASSUME WholeStack, NEW s \in Machine, NEW v \in Byte
  PROVE  /\ push(s, v).sp = Down(s.sp) /\ push(s, v).p = s.p
         /\ push(s, v).mem = [s.mem EXCEPT ![256 + s.sp] = v]
         /\ push(s, v) \in Machine
<1> DEFINE f == [s.mem EXCEPT ![256 + s.sp] = v]
           d == Down(s.sp)
<1>1. 256 + s.sp \in Ram /\ s.sp \in Byte /\ d \in Byte
  BY MachineFields, UpDown DEF WholeStack
<1>2. write8(s, 256 + s.sp, v) = [s EXCEPT !.mem = f]
  <2> DEFINE i == 256 + s.sp
  <2>1. i \in Ram
    BY <1>1
  <2> HIDE DEF i
  <2>2. write8(s, i, v) = [s EXCEPT !.mem[i] = v]
    BY <2>1, RamByte
  <2>. QED
    BY <2>2 DEF i
<1>3. push(s, v) = [[s EXCEPT !.mem = f] EXCEPT !.sp = d]
  <2> DEFINE n == [s EXCEPT !.mem = f]
  <2>1. push(s, v) = [n EXCEPT !.sp = (n.sp - 1) % 256]
    BY <1>2 DEF push
  <2>2. n.sp = s.sp
    BY DEF Machine
  <2>. QED
    BY <2>1, <2>2 DEF Down
<1>4. push(s, v) \in Machine
  BY PushKept DEF Kept
<1> HIDE DEF f, d
<1>. QED
  BY <1>3, <1>4 DEF Machine, f, d

LEMMA PopFields ==
  ASSUME WholeStack, NEW s \in Machine
  PROVE  /\ popped(s).sp = Up(s.sp) /\ popped(s).mem = s.mem /\ popped(s) \in Machine
         /\ pulled(s) = s.mem[256 + Up(s.sp)]
<1>1. Up(s.sp) \in Byte
  BY MachineFields, UpDown
<1>2. 256 + Up(s.sp) \in Ram
  BY <1>1 DEF WholeStack
<1>3. pulled(s) = s.mem[256 + Up(s.sp)]
  <2> DEFINE i == 256 + Up(s.sp)
  <2>1. pulled(s) = read8(s, i) /\ i \in Ram
    BY <1>2 DEF pulled, Up
  <2> HIDE DEF i
  <2>2. read8(s, i) = s.mem[i]
    BY <2>1, RamByte
  <2>. QED
    BY <2>1, <2>2 DEF i
<1>4. popped(s).sp = Up(s.sp) /\ popped(s).mem = s.mem
  BY DEF popped, Up, Machine
<1>5. popped(s) \in Machine
  BY PoppedKept DEF Kept
<1>. QED
  BY <1>3, <1>4, <1>5

(* n has the program counter and the flags of s in the three bytes above its *)
(* stack pointer.                                                            *)
Saved(s, n) ==
  /\ n.sp = Down(Down(Down(s.sp)))
  /\ n.mem[256 + s.sp] = s.pc \div 256
  /\ n.mem[256 + Down(s.sp)] = s.pc % 256
  /\ n.mem[256 + Down(Down(s.sp))] = to_push_byte(s.p, FALSE)

LEMMA ServedStack ==
  ASSUME WholeStack, NEW s \in Machine, NEW vector
  PROVE  Saved(s, serve_interrupt(s, vector))
<1> DEFINE hi == s.pc \div 256
           lo == s.pc % 256
           st == to_push_byte(s.p, FALSE)
           n1 == push(s, hi)
           n2 == push(n1, lo)
           n3 == push(n2, st)
           n == serve_interrupt(s, vector)
           d == Down(s.sp)
           e == Down(d)
<1>1. hi \in Byte /\ lo \in Byte /\ st \in Byte
  BY MachineFields, Halves, StatusType
<1> HIDE DEF hi, lo
<1>2. n = Vectored(push(push(push(s, hi), lo), to_push_byte(s.p, FALSE)), vector)
  BY DEF serve_interrupt, Vectored, push16, hi, lo
<1> HIDE DEF st
<1>3. n1 \in Machine /\ n1.sp = d /\ n1.mem = [s.mem EXCEPT ![256 + s.sp] = hi]
  BY <1>1, PushFields
<1> HIDE DEF n1
<1>4. n2 \in Machine /\ n2.sp = e /\ n2.mem = [n1.mem EXCEPT ![256 + d] = lo]
  BY <1>1, <1>3, PushFields
<1> HIDE DEF n2
<1>5. n3 \in Machine /\ n3.sp = Down(e) /\ n3.mem = [n2.mem EXCEPT ![256 + e] = st]
  BY <1>1, <1>4, PushFields
<1> HIDE DEF n3
<1>6. n.sp = n3.sp /\ n.mem = n3.mem
  <2>1. n = Vectored(n3, vector)
    BY <1>2 DEF n1, n2, n3, st
  <2> HIDE DEF n
  <2>. QED
    BY <1>5, <2>1 DEF Vectored, Machine
<1>7. s.sp \in Byte /\ d \in Byte /\ e \in Byte /\ d # s.sp /\ e # s.sp /\ e # d
  BY MachineFields, UpDown
<1> HIDE DEF d, e
<1>8. 256 + s.sp \in Ram /\ 256 + d \in Ram /\ 256 + e \in Ram
  BY <1>7 DEF WholeStack
<1>9. 256 + s.sp # 256 + d /\ 256 + s.sp # 256 + e /\ 256 + d # 256 + e
  BY <1>7, ByteSet
<1>10. s.mem \in [Ram -> Byte] /\ n1.mem \in [Ram -> Byte] /\ n2.mem \in [Ram -> Byte]
  BY <1>3, <1>4, MachineFields
<1>11. n3.mem[256 + s.sp] = hi /\ n3.mem[256 + d] = lo /\ n3.mem[256 + e] = st
  BY <1>3, <1>4, <1>5, <1>8, <1>9, <1>10
<1> HIDE DEF n
<1>12. /\ n.sp = Down(e) /\ n.mem[256 + s.sp] = hi /\ n.mem[256 + d] = lo
       /\ n.mem[256 + e] = st
  BY <1>5, <1>6, <1>11
<1>13. Saved(s, n)
  BY <1>12 DEF hi, lo, st, d, e, Saved
<1>. QED
  BY <1>13 DEF n

(* RTI with an intact stack: whatever the handler did to the registers and to *)
(* the rest of the memory, it returns to the interrupted instruction with the *)
(* stack pointer and the flags of the program it interrupted.                 *)
THEOREM ReturnRestores ==
  ASSUME WholeStack, NEW s \in Machine, NEW vector, NEW h \in Machine, next_op(h) = "RTI",
         h.sp = serve_interrupt(s, vector).sp,
         \A i \in {s.sp, Down(s.sp), Down(Down(s.sp))} :
           h.mem[256 + i] = serve_interrupt(s, vector).mem[256 + i]
  PROVE  /\ exec(h).pc = s.pc /\ exec(h).sp = s.sp
         /\ exec(h).p = Put(s.p \cup {"U"}, "B", FALSE)
         /\ exec(h).a = h.a /\ exec(h).x = h.x /\ exec(h).y = h.y /\ exec(h).mem = h.mem
<1> DEFINE g == skip(h, 1)
           q == from_byte(pulled(g))
           m1 == [popped(g) EXCEPT !.p = q]
           m2 == popped(m1)
           d == Down(s.sp)
           e == Down(d)
           hi == s.pc \div 256
           lo == s.pc % 256
           st == to_push_byte(s.p, FALSE)
<1>1. /\ h.sp = Down(e) /\ h.mem[256 + s.sp] = hi /\ h.mem[256 + d] = lo
      /\ h.mem[256 + e] = st
  <2> DEFINE n == serve_interrupt(s, vector)
  <2>1. Saved(s, n)
    BY ServedStack
  <2>2. /\ n.sp = Down(e) /\ n.mem[256 + s.sp] = hi /\ n.mem[256 + d] = lo
        /\ n.mem[256 + e] = st
    BY <2>1 DEF Saved
  <2>3. /\ h.mem[256 + s.sp] = n.mem[256 + s.sp] /\ h.mem[256 + d] = n.mem[256 + d]
        /\ h.mem[256 + e] = n.mem[256 + e]
    OBVIOUS
  <2>4. h.sp = n.sp
    OBVIOUS
  <2> HIDE DEF n, hi, lo, st, d, e
  <2>. QED
    BY <2>2, <2>3, <2>4
<1>2. s.sp \in Byte /\ d \in Byte /\ e \in Byte /\ Up(Down(e)) = e /\ Up(e) = d /\ Up(d) = s.sp
  BY MachineFields, UpDown
<1>3. hi \in Byte /\ lo \in Byte /\ Word(lo, hi) = s.pc
  BY MachineFields, Halves
<1> HIDE DEF hi, lo, d, e, st
<1>4. /\ g \in Machine /\ g.sp = h.sp /\ g.mem = h.mem
      /\ g.a = h.a /\ g.x = h.x /\ g.y = h.y
  <2>1. g \in Machine
    BY SkipKept DEF Kept
  <2>. QED
    BY <2>1 DEF skip, Machine
<1>5. exec(h) = RTI(g)
  BY ExecRti
<1> HIDE DEF g
<1>6. pulled(g) = st /\ popped(g).sp = e /\ popped(g).mem = h.mem /\ popped(g) \in Machine
  BY <1>1, <1>2, <1>4, PopFields
<1>7. popped(g).a = h.a /\ popped(g).x = h.x /\ popped(g).y = h.y
  BY <1>4 DEF popped, Machine
<1>8. q = Put(s.p \cup {"U"}, "B", FALSE) /\ q \in SUBSET Flags
  <2>1. s.p \in SUBSET Flags /\ FALSE \in BOOLEAN
    BY MachineFields
  <2>2. from_byte(to_push_byte(s.p, FALSE)) = Put(s.p \cup {"U"}, "B", FALSE)
    BY <2>1, StatusRestored
  <2>3. q \in SUBSET Flags
    BY StatusType
  <2>4. q = from_byte(st)
    BY <1>6
  <2>. QED
    BY <2>2, <2>3, <2>4 DEF st
<1> HIDE DEF q
<1>9. /\ m1 \in Machine /\ m1.sp = e /\ m1.mem = h.mem /\ m1.p = q
      /\ m1.a = h.a /\ m1.x = h.x /\ m1.y = h.y
  <2> DEFINE k == popped(g)
  <2>1. /\ k \in Machine /\ q \in SUBSET Flags /\ m1 = [k EXCEPT !.p = q]
        /\ k.sp = e /\ k.mem = h.mem /\ k.a = h.a /\ k.x = h.x /\ k.y = h.y
    BY <1>6, <1>7, <1>8
  <2> HIDE DEF k, m1
  <2>2. [k EXCEPT !.p = q] \in Machine /\ [k EXCEPT !.p = q].p = q
    BY <2>1, SetP
  <2>3. /\ [k EXCEPT !.p = q].sp = k.sp /\ [k EXCEPT !.p = q].mem = k.mem
        /\ [k EXCEPT !.p = q].a = k.a /\ [k EXCEPT !.p = q].x = k.x
        /\ [k EXCEPT !.p = q].y = k.y
    BY <2>1 DEF Machine
  <2>. QED
    BY <2>1, <2>2, <2>3
<1> HIDE DEF m1
<1>10. pulled(m1) = lo /\ m2.sp = d /\ m2.mem = h.mem /\ m2 \in Machine
  BY <1>1, <1>2, <1>9, PopFields
<1>11. m2.a = h.a /\ m2.x = h.x /\ m2.y = h.y /\ m2.p = q
  BY <1>9 DEF popped, Machine
<1> HIDE DEF m2
<1>12. pulled(m2) = hi /\ popped(m2).sp = s.sp /\ popped(m2).mem = h.mem
       /\ popped(m2) \in Machine
  BY <1>1, <1>2, <1>10, PopFields
<1>13. popped(m2).a = h.a /\ popped(m2).x = h.x /\ popped(m2).y = h.y /\ popped(m2).p = q
  BY <1>10, <1>11 DEF popped, Machine
<1>14. exec(h) = [popped(m2) EXCEPT !.pc = s.pc]
  <2>1. pulled16(m1) = s.pc
    BY <1>3, <1>10, <1>12 DEF pulled16, m2
  <2>2. popped16(m1) = popped(m2)
    BY DEF popped16, m2
  <2>3. RTI(g) = [popped16(m1) EXCEPT !.pc = pulled16(m1)]
    BY DEF RTI, m1, q
  <2>. QED
    BY <1>5, <2>1, <2>2, <2>3
<1> DEFINE r == popped(m2)
<1>15. exec(h) = [r EXCEPT !.pc = s.pc] /\ r \in Machine
  BY <1>12, <1>14
<1>16. /\ r.sp = s.sp /\ r.mem = h.mem /\ r.a = h.a /\ r.x = h.x /\ r.y = h.y /\ r.p = q
  BY <1>12, <1>13
<1> HIDE DEF r
<1>17. /\ exec(h).pc = s.pc /\ exec(h).sp = r.sp /\ exec(h).p = r.p /\ exec(h).mem = r.mem
       /\ exec(h).a = r.a /\ exec(h).x = r.x /\ exec(h).y = r.y
  BY <1>15 DEF Machine
<1>. QED
  BY <1>8, <1>16, <1>17
=============================================================================
