------------------------------ MODULE DosProofs ------------------------------
(***************************************************************************)
(* The table of text buffers and the volume under it stay in order for any *)
(* set of names, lines and programs and any number of buffers.             *)
(*                                                                         *)
(* Two facts that no verb tests are needed to prove it: a file of type T   *)
(* holds lines of text, so a buffer may be filled from it, and every       *)
(* number in use is below the next one handed out.                         *)
(***************************************************************************)
EXTENDS Dos, SequenceTheorems, TLAPS

(* Only text is stored under type T. *)
HoldsText(f) == \A n \in Names : HasType(f, n, T) => f[n].data \in Texts

GoodVolume(f) == f \in Volumes /\ HoldsText(f)

(* A table of buffers of which the numbers below next are used: in order,    *)
(* without two of one name.                                                  *)
Numbered(bs, next) ==
  \A i \in 1..Len(bs) : 1 <= bs[i].id /\ bs[i].id < next
Ordered(bs) ==
  \A i, j \in 1..Len(bs) :
    i < j => bs[i].id < bs[j].id /\ bs[i].name # bs[j].name

GoodTable(bs, next) ==
  /\ bs \in Seq(Buffer) /\ next \in Nat /\ next >= 1
  /\ Numbered(bs, next) /\ Ordered(bs)

GoodLimits == maxfiles \in 1..16 /\ lost \in BOOLEAN

(* The inductive invariant. *)
IInv ==
  /\ GoodVolume(files) /\ GoodTable(buffers, nextBuffer)
  /\ GoodLimits /\ ActiveOK

-----------------------------------------------------------------------------
(* What the operations of a volume leave behind *)
LEMMA GoodNoFiles == GoodVolume(NoFiles)
BY DosAssumption DEF GoodVolume, HoldsText, NoFiles, Volumes, HasType, Exists

LEMMA GoodPut ==
  ASSUME NEW f, GoodVolume(f), NEW n \in Names,
         NEW t \in {A, B, T}, NEW c \in Texts \cup Programs \cup Binaries,
         t = T => c \in Texts
  PROVE  GoodVolume(Put(f, n, c, t))
BY DEF GoodVolume, HoldsText, Put, Volumes, File, HasType, Exists

LEMMA GoodRemove ==
  ASSUME NEW f, GoodVolume(f), NEW n \in Names
  PROVE  GoodVolume(Remove(f, n))
BY DEF GoodVolume, HoldsText, Remove, Volumes, HasType, Exists

LEMMA GoodMove ==
  ASSUME NEW f, GoodVolume(f), NEW old \in Names, NEW new \in Names
  PROVE  GoodVolume(Move(f, old, new))
BY DEF GoodVolume, HoldsText, Move, Volumes, HasType, Exists

LEMMA GoodWithLock ==
  ASSUME NEW f, GoodVolume(f), NEW n \in Names, Exists(f, n), NEW l \in BOOLEAN
  PROVE  GoodVolume(WithLock(f, n, l))
<1>1. f[n] \in File
  BY DEF GoodVolume, Volumes, Exists
<1>2. [f[n] EXCEPT !.locked = l] \in File
  BY <1>1 DEF File
<1>3. WithLock(f, n, l) = [f EXCEPT ![n] = [f[n] EXCEPT !.locked = l]]
  BY DEF WithLock
<1>4. WithLock(f, n, l) \in Volumes
  BY <1>2, <1>3 DEF GoodVolume, Volumes
<1>5. ASSUME NEW m \in Names, HasType(WithLock(f, n, l), m, T)
      PROVE  WithLock(f, n, l)[m].data \in Texts
  <2>1. CASE m = n
    BY <1>1, <1>3, <1>5, <2>1 DEF GoodVolume, HoldsText, HasType, Exists, Volumes, File
  <2>2. CASE m # n
    BY <1>3, <1>5, <2>2 DEF GoodVolume, HoldsText, HasType, Exists, Volumes
  <2>. QED
    BY <2>1, <2>2
<1>. QED
  BY <1>4, <1>5 DEF GoodVolume, HoldsText

(* A file of text is read into lines of text, whatever its last line was. *)
LEMMA TextInType ==
  ASSUME GoodVolume(files), NEW n \in Names,
         Exists(files, n) => HasType(files, n, T)
  PROVE  TextIn(n) \in Texts
<1>1. CASE Exists(files, n)
  <2> DEFINE s == files[n].data
  <2>1. s \in Seq(Lines)
    BY <1>1 DEF GoodVolume, HoldsText, Texts
  <2>2. Len(s) \in Nat /\ \A i \in 1..Len(s) : s[i] \in Lines
    BY <2>1, LenProperties, ElementOfSeq
  <2>3. SubSeq(s, 1, Len(s) - 1) \in Seq(Lines)
    <3>1. \A i \in 1..(Len(s) - 1) : s[i] \in Lines
      BY <2>2
    <3>. QED
      BY <2>2, <3>1, SubSeqProperties
  <2>. QED
    BY <1>1, <2>1, <2>3 DEF TextIn, LoadText, Texts
<1>2. CASE ~Exists(files, n)
  BY <1>2, EmptySeq DEF TextIn, Texts
<1>. QED
  BY <1>1, <1>2

-----------------------------------------------------------------------------
(* What the verbs do to the table *)

(* Buffers changed in place keep their numbers and names. *)
LEMMA GoodInPlace ==
  ASSUME NEW bs, NEW next, GoodTable(bs, next), NEW i \in 1..Len(bs),
         NEW b \in Buffer, b.id = bs[i].id, b.name = bs[i].name,
         NEW cs, cs = [bs EXCEPT ![i] = b]
  PROVE  /\ GoodTable(cs, next) /\ Len(cs) = Len(bs)
         /\ \A j \in 1..Len(bs) : cs[j] = IF j = i THEN b ELSE bs[j]
<1>1. bs \in Seq(Buffer) /\ next \in Nat /\ next >= 1
  BY DEF GoodTable
<1>2. /\ cs \in Seq(Buffer) /\ Len(cs) = Len(bs)
      /\ \A j \in 1..Len(bs) : cs[j] = IF j = i THEN b ELSE bs[j]
  BY <1>1, ExceptSeq
<1>3. \A j \in 1..Len(bs) : cs[j].id = bs[j].id /\ cs[j].name = bs[j].name
  BY <1>2
<1>4. Numbered(cs, next) /\ Ordered(cs)
  BY <1>2, <1>3 DEF GoodTable, Numbered, Ordered
<1>. QED
  BY <1>1, <1>2, <1>4 DEF GoodTable

(* A new buffer takes the next number. *)
LEMMA GoodAppended ==
  ASSUME NEW bs, NEW next, GoodTable(bs, next),
         NEW b \in Buffer, b.id = next,
         \A i \in 1..Len(bs) : bs[i].name # b.name
  PROVE  GoodTable(Append(bs, b), next + 1)
<1> DEFINE cs == Append(bs, b)
<1>1. bs \in Seq(Buffer) /\ next \in Nat /\ next >= 1 /\ Len(bs) \in Nat
  BY LenProperties DEF GoodTable
<1>2. /\ cs \in Seq(Buffer) /\ Len(cs) = Len(bs) + 1
      /\ \A i \in 1..Len(bs) : cs[i] = bs[i]
      /\ cs[Len(bs) + 1] = b
  BY <1>1, AppendProperties
<1>3. \A i \in 1..Len(bs) : bs[i].id \in Nat
  <2>1. \A i \in 1..Len(bs) : bs[i] \in Buffer
    BY <1>1, ElementOfSeq
  <2>. QED
    BY <2>1 DEF Buffer
<1>4. Numbered(cs, next + 1)
  <2> HIDE DEF cs
  <2>. QED
    BY <1>1, <1>2, <1>3 DEF GoodTable, Numbered
<1>5. Ordered(cs)
  <2> HIDE DEF cs
  <2>1. ASSUME NEW i \in 1..Len(cs), NEW j \in 1..Len(cs), i < j
        PROVE  cs[i].id < cs[j].id /\ cs[i].name # cs[j].name
    <3>1. i \in 1..Len(bs) /\ cs[i] = bs[i] /\ bs[i].id < next
      BY <1>1, <1>2, <2>1 DEF GoodTable, Numbered
    <3>2. CASE j = Len(bs) + 1
      BY <1>2, <3>1, <3>2
    <3>3. CASE j # Len(bs) + 1
      <4>1. j \in 1..Len(bs) /\ cs[j] = bs[j]
        BY <1>1, <1>2, <3>3
      <4>. QED
        BY <2>1, <3>1, <4>1 DEF GoodTable, Ordered
    <3>. QED
      BY <3>2, <3>3
  <2>. QED
    BY <2>1 DEF Ordered
<1>. QED
  BY <1>1, <1>2, <1>4, <1>5 DEF GoodTable

(* A table whose entries are some of the old ones, in their order *)
LEMMA GoodChosen ==
  ASSUME NEW bs, NEW next, GoodTable(bs, next), NEW cs \in Seq(Buffer),
         NEW p \in [1..Len(cs) -> 1..Len(bs)],
         \A j \in 1..Len(cs) : cs[j] = bs[p[j]],
         \A j, k \in 1..Len(cs) : j < k => p[j] < p[k]
  PROVE  GoodTable(cs, next)
<1>1. Numbered(cs, next)
  BY DEF GoodTable, Numbered
<1>2. ASSUME NEW j \in 1..Len(cs), NEW k \in 1..Len(cs), j < k
      PROVE  cs[j].id < cs[k].id /\ cs[j].name # cs[k].name
  <2>1. p[j] \in 1..Len(bs) /\ p[k] \in 1..Len(bs) /\ p[j] < p[k]
    BY <1>2
  <2>2. bs[p[j]].id < bs[p[k]].id /\ bs[p[j]].name # bs[p[k]].name
    BY <2>1 DEF GoodTable, Ordered
  <2>. QED
    BY <2>2
<1>. QED
  BY <1>1, <1>2 DEF GoodTable, Ordered

(* _close_buf takes one buffer out of the table and moves up the rest. *)
Behind(i, j) == IF j < i THEN j ELSE j + 1

LEMMA Removed ==
  ASSUME buffers \in Seq(Buffer), NEW i \in Indexes
  PROVE  /\ RemoveAt(i) \in Seq(Buffer)
         /\ Len(RemoveAt(i)) = Len(buffers) - 1
         /\ \A j \in 1..(Len(buffers) - 1) : RemoveAt(i)[j] = buffers[Behind(i, j)]
<1> DEFINE n == Len(buffers)
           front == SubSeq(buffers, 1, i - 1)
           back == SubSeq(buffers, i + 1, n)
<1>1. n \in Nat /\ i \in Int /\ 1 <= i /\ i <= n
      /\ \A j \in 1..n : buffers[j] \in Buffer
  BY LenProperties, ElementOfSeq DEF Indexes
<1>2. /\ front \in Seq(Buffer) /\ Len(front) = i - 1
      /\ \A j \in 1..(i - 1) : front[j] = buffers[j]
  <2>1. \A j \in 1..(i - 1) : buffers[j] \in Buffer
    BY <1>1
  <2>2. /\ front \in Seq(Buffer) /\ Len(front) = IF 1 <= i - 1 THEN (i - 1) - 1 + 1 ELSE 0
        /\ \A j \in 1..((i - 1) - 1 + 1) : front[j] = buffers[1 + j - 1]
    BY <1>1, <2>1, SubSeqProperties
  <2> HIDE DEF front
  <2>. QED
    BY <1>1, <2>2
<1>3. /\ back \in Seq(Buffer) /\ Len(back) = n - i
      /\ \A j \in 1..(n - i) : back[j] = buffers[i + j]
  <2>1. \A j \in (i + 1)..n : buffers[j] \in Buffer
    BY <1>1
  <2>2. /\ back \in Seq(Buffer) /\ Len(back) = IF i + 1 <= n THEN n - (i + 1) + 1 ELSE 0
        /\ \A j \in 1..(n - (i + 1) + 1) : back[j] = buffers[(i + 1) + j - 1]
    BY <1>1, <2>1, SubSeqProperties
  <2> HIDE DEF back, n
  <2>. QED
    BY <1>1, <2>2
<1>4. RemoveAt(i) = front \o back
  BY DEF RemoveAt
<1> HIDE DEF front, back, n
<1>5. /\ RemoveAt(i) \in Seq(Buffer)
      /\ Len(RemoveAt(i)) = Len(front) + Len(back)
      /\ \A j \in 1..(Len(front) + Len(back)) :
           RemoveAt(i)[j] = IF j <= Len(front) THEN front[j] ELSE back[j - Len(front)]
  BY <1>2, <1>3, <1>4, ConcatProperties
<1>6. Len(front) + Len(back) = n - 1
  BY <1>1, <1>2, <1>3
<1>7. ASSUME NEW j \in 1..(n - 1)
      PROVE  RemoveAt(i)[j] = buffers[Behind(i, j)]
  <2>1. CASE j < i
    BY <1>1, <1>2, <1>5, <1>6, <2>1 DEF Behind
  <2>2. CASE ~(j < i)
    <3>1. j - (i - 1) \in 1..(n - i) /\ i + (j - (i - 1)) = j + 1
      BY <1>1, <2>2
    <3>2. j \in 1..(Len(front) + Len(back)) /\ ~(j <= Len(front))
      BY <1>1, <1>2, <1>6, <2>2
    <3>3. RemoveAt(i)[j] = back[j - (i - 1)]
      BY <1>2, <1>5, <3>2
    <3>. QED
      BY <1>3, <2>2, <3>1, <3>3 DEF Behind
  <2>. QED
    BY <2>1, <2>2
<1>. QED
  BY <1>5, <1>6, <1>7 DEF n

(* _close_all takes the first k buffers out. *)
LEMMA Dropped ==
  ASSUME buffers \in Seq(Buffer), NEW k \in 0..Len(buffers)
  PROVE  LET rest == SubSeq(buffers, k + 1, Len(buffers))
         IN  /\ rest \in Seq(Buffer) /\ Len(rest) = Len(buffers) - k
             /\ \A j \in 1..(Len(buffers) - k) : rest[j] = buffers[j + k]
<1> DEFINE n == Len(buffers)
           rest == SubSeq(buffers, k + 1, n)
<1>1. n \in Nat /\ k \in Int /\ 0 <= k /\ k <= n
      /\ \A j \in 1..n : buffers[j] \in Buffer
  BY LenProperties, ElementOfSeq
<1>2. \A j \in (k + 1)..n : buffers[j] \in Buffer
  BY <1>1
<1>3. /\ rest \in Seq(Buffer) /\ Len(rest) = IF k + 1 <= n THEN n - (k + 1) + 1 ELSE 0
      /\ \A j \in 1..(n - (k + 1) + 1) : rest[j] = buffers[(k + 1) + j - 1]
  BY <1>1, <1>2, SubSeqProperties
<1> HIDE DEF rest, n
<1>4. rest \in Seq(Buffer) /\ Len(rest) = n - k
      /\ \A j \in 1..(n - k) : rest[j] = buffers[j + k]
  BY <1>1, <1>3
<1>. QED
  BY <1>4 DEF rest, n

-----------------------------------------------------------------------------
(* Each verb keeps the invariant.  Those that leave the table alone: *)
LEMMA KeepTable ==
  ASSUME IInv, Keep, GoodVolume(files'), lost' \in BOOLEAN
  PROVE  IInv'
BY DEF IInv, Keep, active, limits, GoodLimits, GoodTable, Numbered, Ordered, ActiveOK,
       Dirty

LEMMA RefusedStep == ASSUME IInv, UNCHANGED vars PROVE IInv'
BY DEF vars, volume, active, limits, IInv, GoodVolume, HoldsText, GoodLimits,
       GoodTable, Numbered, Ordered, ActiveOK, Dirty

LEMMA SavedVolume ==
  ASSUME IInv, NEW n \in Names, NEW t \in {A, B, T},
         NEW c \in Texts \cup Programs \cup Binaries, t = T => c \in Texts,
         Saved(n, c, t)
  PROVE  GoodVolume(files') /\ lost' \in BOOLEAN
BY GoodPut, GoodNoFiles DEF Saved, IInv, GoodLimits

LEMMA FileVerbStep == ASSUME IInv, FileVerb PROVE IInv'
<1> SUFFICES ASSUME ~UNCHANGED vars
             PROVE  IInv'
  BY RefusedStep
<1>1. GoodVolume(files) /\ lost \in BOOLEAN
  BY DEF IInv, GoodLimits
<1>2. ASSUME NEW n \in Names, Save(n)
      PROVE  IInv'
  <2>1. PICK c \in Programs : Saved(n, c, A) /\ Keep
    BY <1>2 DEF Save, SaveAs, Refused
  <2>. QED
    BY <2>1, SavedVolume, KeepTable DEF A, T
<1>3. ASSUME NEW n \in Names, Bsave(n)
      PROVE  IInv'
  <2>1. PICK c \in Binaries : Saved(n, c, B) /\ Keep
    BY <1>3 DEF Bsave, SaveAs, Refused
  <2>. QED
    BY <2>1, SavedVolume, KeepTable DEF B, T
<1>4. ASSUME NEW n \in Names, Delete(n)
      PROVE  IInv'
  BY <1>1, <1>4, GoodRemove, KeepTable DEF Delete, Refused
<1>5. ASSUME NEW n \in Names, NEW m \in Names, Rename(n, m)
      PROVE  IInv'
  BY <1>1, <1>5, GoodMove, KeepTable DEF Rename, Refused
<1>6. ASSUME NEW n \in Names, NEW l \in BOOLEAN, SetLock(n, l)
      PROVE  IInv'
  BY <1>1, <1>6, GoodWithLock, KeepTable DEF SetLock, Refused
<1>. QED
  BY <1>2, <1>3, <1>4, <1>5, <1>6 DEF FileVerb

LEMMA InitCmdStep == ASSUME IInv, InitCmd PROVE IInv'
<1>1. GoodVolume(files') /\ lost' \in BOOLEAN
  BY GoodNoFiles, GoodPut, DosAssumption DEF InitCmd, A, T
<1>. QED
  BY <1>1, KeepTable DEF InitCmd

LEMMA MaxfilesStep == ASSUME IInv, NEW k \in MaxfilesArgs, Maxfiles(k) PROVE IInv'
<1>1. k \in 1..16
  BY DosAssumption
<1>. QED
  BY <1>1 DEF Maxfiles, volume, active, IInv, GoodVolume, HoldsText, GoodLimits,
              GoodTable, Numbered, Ordered, ActiveOK, Dirty

(* Those that change one buffer where it is, with the active entries they *)
(* leave: *)
LEMMA ChangeBuffer ==
  ASSUME IInv, NEW i \in Indexes, NEW b \in Buffer,
         b.id = buffers[i].id, b.name = buffers[i].name,
         buffers' = [buffers EXCEPT ![i] = b],
         Dirty(buffers[i]) => Dirty(b),
         UNCHANGED <<volume, limits>>,
         \/ UNCHANGED active
         \/ activeRead' = 0 /\ activeWrite' = i /\ Dirty(b)
  PROVE  IInv' /\ Ids' = Ids
<1>1. GoodTable(buffers, nextBuffer)
  BY DEF IInv
<1>2. /\ GoodTable(buffers', nextBuffer') /\ Len(buffers') = Len(buffers)
      /\ \A j \in Indexes : buffers'[j] = IF j = i THEN b ELSE buffers[j]
  <2> DEFINE cs == [buffers EXCEPT ![i] = b]
  <2>1. /\ GoodTable(cs, nextBuffer) /\ Len(cs) = Len(buffers)
        /\ \A j \in Indexes : cs[j] = IF j = i THEN b ELSE buffers[j]
    <3>1. i \in 1..Len(buffers) /\ cs = [buffers EXCEPT ![i] = b]
      BY DEF Indexes
    <3> HIDE DEF cs
    <3>2. GoodTable(cs, nextBuffer)
      BY <1>1, <3>1, GoodInPlace
    <3>3. Len(cs) = Len(buffers)
      BY <1>1, <3>1, GoodInPlace
    <3>4. \A j \in 1..Len(buffers) : cs[j] = IF j = i THEN b ELSE buffers[j]
      BY <1>1, <3>1, GoodInPlace
    <3>. QED
      BY <3>2, <3>3, <3>4 DEF Indexes
  <2>2. buffers' = cs /\ nextBuffer' = nextBuffer
    BY DEF limits
  <2>. QED
    BY <2>1, <2>2
<1>3. Len(buffers) \in Nat
  BY <1>1, LenProperties DEF GoodTable
<1>4. ActiveOK'
  <2>1. activeRead' \in 0..Len(buffers') /\ activeWrite' \in 0..Len(buffers')
    BY <1>2, <1>3 DEF IInv, ActiveOK, active, Indexes
  <2>2. activeRead' = 0 \/ activeWrite' = 0
    BY DEF IInv, ActiveOK, active
  <2>3. ASSUME activeWrite' # 0 PROVE Dirty(buffers'[activeWrite'])
    <3>1. CASE activeWrite' = i
      BY <1>2, <2>3, <3>1 DEF IInv, ActiveOK, active
    <3>2. CASE activeWrite' # i
      BY <1>2, <1>3, <2>3, <3>2 DEF IInv, ActiveOK, active, Indexes
    <3>. QED
      BY <3>1, <3>2
  <2>. QED
    BY <2>1, <2>2, <2>3 DEF ActiveOK, Dirty
<1>5. Ids' = Ids
  BY <1>2 DEF Ids, Indexes
<1>. QED
  BY <1>2, <1>4, <1>5
     DEF IInv, volume, limits, GoodVolume, HoldsText, GoodLimits, GoodTable,
         Numbered, Ordered

(* OPEN and APPEND of a file that is not open yet *)
LEMMA AddBuffer ==
  ASSUME IInv, NEW n \in Names, FindBuf(n) = {}, NEW mode \in Modes,
         Exists(files, n) => HasType(files, n, T),
         buffers' = Append(buffers, NewBuffer(n, mode)),
         nextBuffer' = nextBuffer + 1,
         UNCHANGED <<volume, maxfiles>>,
         \/ UNCHANGED active
         \/ /\ activeRead' = 0 /\ activeWrite' = Len(buffers) + 1
            /\ Dirty(NewBuffer(n, mode))
  PROVE  IInv' /\ nextBuffer \in Ids' \ Ids /\ Ids \subseteq Ids'
<1> DEFINE b == NewBuffer(n, mode)
<1>1. GoodTable(buffers, nextBuffer) /\ GoodVolume(files)
  BY DEF IInv
<1>2. Len(buffers) \in Nat
  BY <1>1, LenProperties DEF GoodTable
<1>3. b \in Buffer /\ b.id = nextBuffer /\ b.name = n
  <2>1. nextBuffer \in Nat
    BY <1>1 DEF GoodTable
  <2>. QED
    BY <1>1, <2>1, TextInType DEF NewBuffer, Buffer
<1> HIDE DEF b
<1>4. \A i \in 1..Len(buffers) : buffers[i].name # b.name
  BY <1>3 DEF FindBuf, Indexes
<1>5. GoodTable(buffers', nextBuffer')
  BY <1>1, <1>3, <1>4, GoodAppended DEF b
<1>6. /\ Len(buffers') = Len(buffers) + 1
      /\ \A i \in 1..Len(buffers) : buffers'[i] = buffers[i]
      /\ buffers'[Len(buffers) + 1] = b
  BY <1>1, <1>3, AppendProperties DEF b, GoodTable
<1>7. ActiveOK'
  <2>1. activeRead' \in 0..Len(buffers') /\ activeWrite' \in 0..Len(buffers')
    BY <1>2, <1>6 DEF IInv, ActiveOK, active
  <2>2. activeRead' = 0 \/ activeWrite' = 0
    BY DEF IInv, ActiveOK, active
  <2>3. ASSUME activeWrite' # 0 PROVE Dirty(buffers'[activeWrite'])
    <3>1. CASE UNCHANGED active
      BY <1>2, <1>6, <2>3, <3>1 DEF IInv, ActiveOK, active
    <3>2. CASE activeWrite' = Len(buffers) + 1 /\ Dirty(b)
      BY <1>6, <3>2
    <3>. QED
      BY <3>1, <3>2 DEF b
  <2>. QED
    BY <2>1, <2>2, <2>3 DEF ActiveOK, Dirty
<1>8. nextBuffer \in Ids'
  <2>1. Len(buffers) + 1 \in 1..Len(buffers')
    BY <1>2, <1>6
  <2>. QED
    BY <1>3, <1>6, <2>1 DEF Ids, Indexes
<1>9. nextBuffer \notin Ids
  <2> SUFFICES ASSUME NEW i \in Indexes, buffers[i].id = nextBuffer
               PROVE  FALSE
    BY DEF Ids
  <2>. QED
    BY <1>1 DEF GoodTable, Numbered, Indexes
<1>10. Ids \subseteq Ids'
  BY <1>2, <1>6 DEF Ids, Indexes
<1>. QED
  BY <1>5, <1>7, <1>8, <1>9, <1>10
     DEF IInv, volume, GoodVolume, HoldsText, GoodLimits, GoodTable,
         Numbered, Ordered

(* What a step does to the table: it closes nothing, or opens one buffer, or  *)
(* closes one (_close_buf), or the first few (_close_all).                    *)
ClosesOne(i) == i \in Indexes /\ CloseBuf(i) /\ Released(i)
ClosesFirst(k) ==
  /\ k \in 0..Len(buffers)
  /\ \/ files' = FilesAfterClosing(k) /\ UNCHANGED lost
     \/ files' = NoFiles /\ lost' = TRUE
  /\ buffers' = SubSeq(buffers, k + 1, Len(buffers))
  /\ activeRead' = Shift(activeRead, k)
  /\ activeWrite' = Shift(activeWrite, k)
  /\ UNCHANGED limits

OpensOne == nextBuffer \in Ids' \ Ids /\ Ids \subseteq Ids'

(* One buffer gone *)
LEMMA RemoveBuffer ==
  ASSUME IInv, NEW i \in Indexes, Released(i), UNCHANGED limits
  PROVE  /\ GoodTable(buffers', nextBuffer') /\ ActiveOK'
         /\ Ids' = Ids \ {buffers[i].id}
<1> DEFINE n == Len(buffers)
           p == [j \in 1..(n - 1) |-> Behind(i, j)]
<1>1. GoodTable(buffers, nextBuffer) /\ buffers \in Seq(Buffer)
  BY DEF IInv, GoodTable
<1>2. n \in Nat /\ i \in Int /\ 1 <= i /\ i <= n
  BY <1>1, LenProperties DEF Indexes
<1>3. /\ buffers' \in Seq(Buffer) /\ Len(buffers') = n - 1
      /\ \A j \in 1..(n - 1) : buffers'[j] = buffers[Behind(i, j)]
  BY <1>1, Removed DEF Released
<1> HIDE DEF n
<1>4. \A j \in 1..(n - 1) : Behind(i, j) \in 1..n /\ Behind(i, j) # i
  BY <1>2 DEF Behind
<1>5. GoodTable(buffers', nextBuffer)
  <2>1. p \in [1..Len(buffers') -> 1..n]
    BY <1>3, <1>4
  <2>2. \A j \in 1..Len(buffers') : buffers'[j] = buffers[p[j]]
    BY <1>3
  <2>3. \A j, k \in 1..Len(buffers') : j < k => p[j] < p[k]
    BY <1>2, <1>3 DEF Behind
  <2> HIDE DEF p
  <2>. QED
    BY ZenonT(30), <1>1, <1>3, <2>1, <2>2, <2>3, GoodChosen DEF n
<1>6. \A a \in 0..n : a # i => /\ Reindex(a, i) \in 0..(n - 1)
                               /\ a # 0 => Reindex(a, i) # 0 /\ Behind(i, Reindex(a, i)) = a
  BY <1>2 DEF Reindex, Behind
<1>7. ActiveOK'
  <2>1. activeRead \in 0..n /\ activeWrite \in 0..n
    BY DEF IInv, ActiveOK, n
  <2>2. activeRead' \in 0..Len(buffers') /\ activeWrite' \in 0..Len(buffers')
    BY <1>2, <1>3, <1>6, <2>1 DEF Released, Reindex
  <2>3. activeRead' = 0 \/ activeWrite' = 0
    BY <1>2, <2>1 DEF IInv, ActiveOK, Released, Reindex
  <2>4. ASSUME activeWrite' # 0 PROVE Dirty(buffers'[activeWrite'])
    <3>1. activeWrite # 0 /\ activeWrite # i
      BY <1>2, <2>4 DEF Released, Reindex
    <3>2. activeWrite' \in 1..(n - 1) /\ Behind(i, activeWrite') = activeWrite
      BY <1>2, <1>6, <2>1, <2>4, <3>1 DEF Released
    <3>. QED
      BY <1>3, <3>1, <3>2 DEF IInv, ActiveOK
  <2>. QED
    BY <2>2, <2>3, <2>4 DEF ActiveOK, Dirty
<1>8. Ids' = Ids \ {buffers[i].id}
  <2>1. \A j, k \in 1..n : j # k => buffers[j].id # buffers[k].id
    <3>1. \A j \in 1..n : buffers[j] \in Buffer
      BY <1>1, ElementOfSeq DEF n
    <3>2. \A j \in 1..n : buffers[j].id \in Nat
      BY <3>1 DEF Buffer
    <3>. QED
      BY <1>1, <1>2, <3>2 DEF GoodTable, Ordered, n
  <2>2. ASSUME NEW j \in 1..(n - 1)
        PROVE  buffers'[j].id \in Ids /\ buffers'[j].id # buffers[i].id
    BY <1>2, <1>3, <1>4, <2>1 DEF Ids, Indexes, n
  <2>3. ASSUME NEW a \in 1..n, buffers[a].id # buffers[i].id
        PROVE  buffers[a].id \in Ids'
    <3>1. Reindex(a, i) \in 1..(n - 1) /\ Behind(i, Reindex(a, i)) = a
      BY <1>2, <1>6, <2>3
    <3>2. buffers'[Reindex(a, i)] = buffers[a]
      BY <1>3, <3>1
    <3>. QED
      BY <1>3, <3>1, <3>2 DEF Ids, Indexes
  <2>. QED
    BY <1>3, <2>2, <2>3 DEF Ids, Indexes, n
<1>. QED
  BY <1>5, <1>7, <1>8 DEF limits

(* The first k buffers gone *)
LEMMA DropBuffers ==
  ASSUME IInv, NEW k \in 0..Len(buffers), ClosesFirst(k)
  PROVE  /\ GoodTable(buffers', nextBuffer') /\ ActiveOK'
         /\ Ids' = {buffers[j].id : j \in (k + 1)..Len(buffers)}
<1> DEFINE n == Len(buffers)
           p == [j \in 1..(n - k) |-> j + k]
<1>1. GoodTable(buffers, nextBuffer) /\ buffers \in Seq(Buffer)
  BY DEF IInv, GoodTable
<1>2. n \in Nat /\ k \in Int /\ 0 <= k /\ k <= n
  BY <1>1, LenProperties
<1>3. /\ buffers' \in Seq(Buffer) /\ Len(buffers') = n - k
      /\ \A j \in 1..(n - k) : buffers'[j] = buffers[j + k]
  BY <1>1, Dropped DEF ClosesFirst
<1> HIDE DEF n
<1>4. GoodTable(buffers', nextBuffer)
  <2>1. p \in [1..Len(buffers') -> 1..n]
    BY <1>2, <1>3
  <2>2. \A j \in 1..Len(buffers') : buffers'[j] = buffers[p[j]]
    BY <1>3
  <2>3. \A j, m \in 1..Len(buffers') : j < m => p[j] < p[m]
    BY <1>2, <1>3
  <2> HIDE DEF p
  <2>. QED
    BY ZenonT(30), <1>1, <1>3, <2>1, <2>2, <2>3, GoodChosen DEF n
<1>5. ActiveOK'
  <2>1. activeRead \in 0..n /\ activeWrite \in 0..n
    BY DEF IInv, ActiveOK, n
  <2>2. activeRead' \in 0..Len(buffers') /\ activeWrite' \in 0..Len(buffers')
    BY <1>2, <1>3, <2>1 DEF ClosesFirst, Shift
  <2>3. activeRead' = 0 \/ activeWrite' = 0
    BY <1>2, <2>1 DEF IInv, ActiveOK, ClosesFirst, Shift
  <2>4. ASSUME activeWrite' # 0 PROVE Dirty(buffers'[activeWrite'])
    <3>1. activeWrite' \in 1..(n - k) /\ activeWrite' + k = activeWrite /\ activeWrite # 0
      BY <1>2, <2>1, <2>4 DEF ClosesFirst, Shift
    <3>. QED
      BY <1>3, <3>1 DEF IInv, ActiveOK
  <2>. QED
    BY <2>2, <2>3, <2>4 DEF ActiveOK, Dirty
<1>6. Ids' = {buffers[j].id : j \in (k + 1)..n}
  <2>1. ASSUME NEW j \in 1..(n - k)
        PROVE  j + k \in (k + 1)..n /\ buffers'[j].id = buffers[j + k].id
    BY <1>2, <1>3
  <2>2. ASSUME NEW a \in (k + 1)..n
        PROVE  a - k \in 1..(n - k) /\ buffers'[a - k].id = buffers[a].id
    BY <1>2, <1>3
  <2>. QED
    BY <1>3, <2>1, <2>2 DEF Ids, Indexes
<1>. QED
  BY <1>4, <1>5, <1>6 DEF ClosesFirst, limits, n

-----------------------------------------------------------------------------
(* No two buffers have one name, so at most one of those CLOSE takes out is  *)
(* the file's.                                                               *)
LEMMA NamesDiffer ==
  ASSUME GoodTable(buffers, nextBuffer), NEW i \in Indexes, NEW j \in Indexes,
         buffers[i].name = buffers[j].name
  PROVE  i = j
<1>1. Len(buffers) \in Nat
  BY LenProperties DEF GoodTable
<1>. QED
  BY <1>1 DEF GoodTable, Ordered, Indexes

TextFile(i) == [data |-> buffers[i].lines, ftype |-> T, locked |-> FALSE]

LEMMA ClosingFiles ==
  ASSUME IInv, NEW k \in 0..Len(buffers), NEW n \in Names
  PROVE  /\ \A i \in 1..k : buffers[i].name = n /\ Dirty(buffers[i])
                              => FilesAfterClosing(k)[n] = TextFile(i)
         /\ (\A i \in 1..k : buffers[i].name = n => ~Dirty(buffers[i]))
              => FilesAfterClosing(k)[n] = files[n]
<1> DEFINE mine == {i \in 1..k : buffers[i].name = n /\ Dirty(buffers[i])}
<1>1. FilesAfterClosing(k)[n] =
        IF mine = {} THEN files[n]
        ELSE [data |-> buffers[CHOOSE i \in mine : \A j \in mine : j <= i].lines,
              ftype |-> T, locked |-> FALSE]
  BY DEF FilesAfterClosing
<1>2. ASSUME NEW i \in 1..k, buffers[i].name = n, Dirty(buffers[i])
      PROVE  FilesAfterClosing(k)[n] = TextFile(i)
  <2>1. GoodTable(buffers, nextBuffer) /\ Len(buffers) \in Nat
    BY LenProperties DEF IInv, GoodTable
  <2>2. \A j \in mine : j = i
    <3>1. \A j \in 1..k : j \in Indexes
      BY <2>1 DEF Indexes
    <3>. QED
      BY <1>2, <2>1, <3>1, NamesDiffer
  <2>3. i \in mine /\ i <= i
    BY <1>2
  <2> HIDE DEF mine
  <2>4. (CHOOSE a \in mine : \A j \in mine : j <= a) = i
    BY <2>2, <2>3
  <2>. QED
    BY <1>1, <2>3, <2>4 DEF TextFile
<1>3. ASSUME \A i \in 1..k : buffers[i].name = n => ~Dirty(buffers[i])
      PROVE  FilesAfterClosing(k)[n] = files[n]
  BY <1>1, <1>3
<1>. QED
  BY <1>2, <1>3

LEMMA ClosingVolume ==
  ASSUME IInv, NEW k \in 0..Len(buffers)
  PROVE  GoodVolume(FilesAfterClosing(k))
<1> DEFINE g == FilesAfterClosing(k)
<1>1. GoodVolume(files) /\ \A i \in Indexes : buffers[i] \in Buffer
  BY ElementOfSeq DEF IInv, GoodTable, Indexes
<1>2. ASSUME NEW n \in Names
      PROVE  g[n] = files[n] \/ \E c \in Texts : g[n] = [data |-> c, ftype |-> T, locked |-> FALSE]
  <2>1. CASE \E i \in 1..k : buffers[i].name = n /\ Dirty(buffers[i])
    <3>1. PICK i \in 1..k : buffers[i].name = n /\ Dirty(buffers[i])
      BY <2>1
    <3>2. i \in Indexes
      BY LenProperties DEF IInv, GoodTable, Indexes
    <3>3. buffers[i].lines \in Texts
      BY <1>1, <3>2 DEF Buffer
    <3>. QED
      BY <3>1, <3>3, ClosingFiles DEF TextFile
  <2>2. CASE ~ \E i \in 1..k : buffers[i].name = n /\ Dirty(buffers[i])
    BY <2>2, ClosingFiles
  <2>. QED
    BY <2>1, <2>2
<1>3. g = [n \in Names |-> g[n]]
  BY DEF FilesAfterClosing
<1> HIDE DEF g
<1>4. ASSUME NEW n \in Names
      PROVE  g[n] \in File \cup {Missing}
  <2>1. CASE g[n] = files[n]
    BY <1>1, <2>1 DEF GoodVolume, Volumes
  <2>2. ASSUME NEW c \in Texts, g[n] = [data |-> c, ftype |-> T, locked |-> FALSE]
        PROVE  g[n] \in File
    BY <2>2 DEF File
  <2>. QED
    BY <1>2, <2>1, <2>2
<1>5. ASSUME NEW n \in Names, HasType(g, n, T)
      PROVE  g[n].data \in Texts
  <2>1. CASE g[n] = files[n]
    BY <1>1, <1>5, <2>1 DEF GoodVolume, HoldsText, HasType, Exists
  <2>2. ASSUME NEW c \in Texts, g[n] = [data |-> c, ftype |-> T, locked |-> FALSE]
        PROVE  g[n].data \in Texts
    BY <2>2
  <2>. QED
    BY <1>2, <2>1, <2>2
<1>6. GoodVolume(g)
  BY <1>3, <1>4, <1>5 DEF GoodVolume, HoldsText, Volumes
<1>. QED
  BY <1>6 DEF g

LEMMA CloseBufStep ==
  ASSUME IInv, NEW i \in Indexes, CloseBuf(i)
  PROVE  IInv' /\ (UNCHANGED vars \/ ClosesOne(i))
<1>1. CASE Refused
  BY <1>1, RefusedStep DEF Refused
<1>2. CASE Released(i) /\ UNCHANGED limits
  <2>1. GoodVolume(files') /\ lost' \in BOOLEAN
    <3>1. CASE UNCHANGED volume
      BY <3>1 DEF volume, IInv, GoodLimits, GoodVolume, HoldsText
    <3>2. CASE Saved(buffers[i].name, buffers[i].lines, T)
      <4>1. buffers[i] \in Buffer
        BY ElementOfSeq DEF IInv, GoodTable, Indexes
      <4>2. buffers[i].name \in Names /\ buffers[i].lines \in Texts
        BY <4>1 DEF Buffer
      <4>. QED
        BY <3>2, <4>2, SavedVolume
    <3>3. CASE Refused
      BY <3>3 DEF Refused, vars, volume, IInv, GoodLimits, GoodVolume, HoldsText
    <3>. QED
      BY <3>1, <3>2, <3>3 DEF CloseBuf
  <2>2. GoodTable(buffers', nextBuffer') /\ ActiveOK'
    BY <1>2, RemoveBuffer
  <2>. QED
    BY <1>2, <2>1, <2>2 DEF IInv, GoodLimits, limits, GoodVolume, HoldsText, GoodTable,
                            Numbered, Ordered, ClosesOne
<1>. QED
  BY <1>1, <1>2 DEF CloseBuf

LEMMA CloseAllStep ==
  ASSUME IInv, CloseAll
  PROVE  IInv' /\ \E k \in 0..Len(buffers) : ClosesFirst(k)
<1>1. PICK k \in 0..Len(buffers) : ClosesFirst(k)
  BY DEF CloseAll, ClosesFirst
<1>2. GoodVolume(files') /\ lost' \in BOOLEAN
  BY <1>1, ClosingVolume, GoodNoFiles DEF ClosesFirst, IInv, GoodLimits
<1>3. GoodTable(buffers', nextBuffer') /\ ActiveOK'
  BY <1>1, DropBuffers
<1>. QED
  BY <1>1, <1>2, <1>3 DEF IInv, GoodLimits, ClosesFirst, limits, GoodVolume, HoldsText,
                          GoodTable, Numbered, Ordered

(* The other verbs of the table, and BASIC's PRINT and INPUT *)
LEMMA OpenStep ==
  ASSUME IInv, NEW n \in Names, Open(n)
  PROVE  IInv' /\ (Ids' = Ids \/ OpensOne)
<1>1. CASE Refused
  <2>1. Ids' = Ids
    BY <1>1 DEF Refused, vars, Ids, Indexes
  <2>. QED
    BY <1>1, <2>1, RefusedStep DEF Refused
<1>2. CASE ~Refused
  <2>1. /\ FindBuf(n) = {} /\ HasType(files, n, T)
        /\ buffers' = Append(buffers, NewBuffer(n, "r"))
        /\ nextBuffer' = nextBuffer + 1
        /\ UNCHANGED <<volume, maxfiles>> /\ UNCHANGED active
    BY <1>2 DEF Open
  <2>2. "r" \in Modes
    BY DEF Modes
  <2>. QED
    BY <2>1, <2>2, AddBuffer DEF OpensOne
<1>. QED
  BY <1>1, <1>2

LEMMA AppendStep ==
  ASSUME IInv, NEW n \in Names, AppendCmd(n)
  PROVE  IInv' /\ (Ids' = Ids \/ OpensOne)
<1>1. CASE Refused
  <2>1. Ids' = Ids
    BY <1>1 DEF Refused, vars, Ids, Indexes
  <2>. QED
    BY <1>1, <2>1, RefusedStep DEF Refused
<1>2. CASE /\ FindBuf(n) = {} /\ (Exists(files, n) => HasType(files, n, T))
           /\ buffers' = Append(buffers, NewBuffer(n, "a"))
           /\ nextBuffer' = nextBuffer + 1
           /\ activeWrite' = Len(buffers) + 1 /\ activeRead' = 0
           /\ UNCHANGED <<volume, maxfiles>>
  <2>1. "a" \in Modes /\ Dirty(NewBuffer(n, "a"))
    BY DEF Modes, Dirty, NewBuffer
  <2>. QED
    BY <1>2, <2>1, AddBuffer DEF OpensOne
<1>3. ASSUME NEW i \in FindBuf(n), buffers' = [buffers EXCEPT ![i].mode = "a"],
             activeWrite' = i, activeRead' = 0, UNCHANGED nextBuffer,
             UNCHANGED <<volume, maxfiles>>
      PROVE  IInv' /\ Ids' = Ids
  <2> DEFINE b == [buffers[i] EXCEPT !.mode = "a"]
  <2>1. i \in Indexes /\ buffers[i] \in Buffer
    BY ElementOfSeq DEF FindBuf, IInv, GoodTable, Indexes
  <2>2. /\ b \in Buffer /\ b.id = buffers[i].id /\ b.name = buffers[i].name
        /\ Dirty(b) /\ buffers' = [buffers EXCEPT ![i] = b]
    BY <1>3, <2>1 DEF Buffer, Modes, Dirty
  <2>3. UNCHANGED <<volume, limits>>
    BY <1>3 DEF limits
  <2> HIDE DEF b
  <2>. QED
    BY <1>3, <2>1, <2>2, <2>3, ChangeBuffer
<1>. QED
  BY <1>1, <1>2, <1>3 DEF AppendCmd

LEMMA ReadStep ==
  ASSUME IInv, NEW k, ReadCmd(k)
  PROVE  IInv' /\ Ids' = Ids
<1>1. CASE Refused
  <2>1. Ids' = Ids
    BY <1>1 DEF Refused, vars, Ids, Indexes
  <2>. QED
    BY <1>1, <2>1, RefusedStep DEF Refused
<1>2. ASSUME NEW i \in FindNum(k), activeRead' = i, activeWrite' = 0,
             UNCHANGED <<volume, buffers, limits>>
      PROVE  IInv' /\ Ids' = Ids
  <2>1. i \in 1..Len(buffers) /\ Len(buffers) \in Nat
    BY LenProperties DEF FindNum, Indexes, IInv, GoodTable
  <2>2. ActiveOK'
    BY <1>2, <2>1 DEF ActiveOK, Dirty
  <2>. QED
    BY <1>2, <2>2 DEF IInv, volume, limits, GoodLimits, GoodVolume, HoldsText, GoodTable,
                      Numbered, Ordered, Ids, Indexes
<1>. QED
  BY <1>1, <1>2 DEF ReadCmd

LEMMA WriteStep ==
  ASSUME IInv, NEW k, WriteCmd(k)
  PROVE  IInv' /\ Ids' = Ids
<1>1. CASE Refused
  <2>1. Ids' = Ids
    BY <1>1 DEF Refused, vars, Ids, Indexes
  <2>. QED
    BY <1>1, <2>1, RefusedStep DEF Refused
<1>2. ASSUME NEW i \in FindNum(k),
             buffers' = [buffers EXCEPT ![i].mode = "w", ![i].lines = <<>>],
             activeWrite' = i, activeRead' = 0, UNCHANGED <<volume, limits>>
      PROVE  IInv' /\ Ids' = Ids
  <2> DEFINE b == [buffers[i] EXCEPT !.mode = "w", !.lines = <<>>]
  <2>1. i \in Indexes /\ buffers[i] \in Buffer /\ buffers \in Seq(Buffer)
    BY ElementOfSeq DEF FindNum, IInv, GoodTable, Indexes
  <2>2. <<>> \in Texts
    BY EmptySeq DEF Texts
  <2>3. /\ b \in Buffer /\ b.id = buffers[i].id /\ b.name = buffers[i].name /\ Dirty(b)
    BY <2>1, <2>2 DEF Buffer, Modes, Dirty
  <2>4. buffers' = [buffers EXCEPT ![i] = b]
    BY <1>2, <2>1 DEF Indexes
  <2> HIDE DEF b
  <2>. QED
    BY <1>2, <2>1, <2>3, <2>4, ChangeBuffer
<1>. QED
  BY <1>1, <1>2 DEF WriteCmd

LEMMA PositionStep ==
  ASSUME IInv, NEW k \in Nat, Position(k)
  PROVE  IInv' /\ Ids' = Ids
<1>1. CASE Refused
  <2>1. Ids' = Ids
    BY <1>1 DEF Refused, vars, Ids, Indexes
  <2>. QED
    BY <1>1, <2>1, RefusedStep DEF Refused
<1>2. CASE ~Refused
  <2> DEFINE i == activeRead
             b == [buffers[i] EXCEPT !.pos = k]
  <2>1. i \in Indexes /\ buffers[i] \in Buffer
    BY <1>2, ElementOfSeq, LenProperties
       DEF Position, IInv, ActiveOK, GoodTable, Indexes
  <2>2. /\ b \in Buffer /\ b.id = buffers[i].id /\ b.name = buffers[i].name
        /\ b.mode = buffers[i].mode
        /\ buffers' = [buffers EXCEPT ![i] = b]
        /\ UNCHANGED <<volume, limits>> /\ UNCHANGED active
    BY <1>2, <2>1 DEF Buffer, Position
  <2>3. Dirty(buffers[i]) => Dirty(b)
    BY <2>2 DEF Dirty
  <2> HIDE DEF b, i
  <2>. QED
    BY <2>1, <2>2, <2>3, ChangeBuffer
<1>. QED
  BY <1>1, <1>2

LEMMA PrintStep ==
  ASSUME IInv, NEW l \in Lines, PrintLine(l)
  PROVE  IInv' /\ Ids' = Ids
<1> DEFINE i == activeWrite
           b == [buffers[i] EXCEPT !.lines = Append(buffers[i].lines, l)]
<1>1. i \in Indexes /\ buffers[i] \in Buffer
  BY ElementOfSeq, LenProperties
     DEF PrintLine, IInv, ActiveOK, GoodTable, Indexes
<1>2. Append(buffers[i].lines, l) \in Texts
  BY <1>1, AppendProperties DEF Buffer, Texts
<1>3. /\ b \in Buffer /\ b.id = buffers[i].id /\ b.name = buffers[i].name
      /\ b.mode = buffers[i].mode
      /\ buffers' = [buffers EXCEPT ![i] = b]
      /\ UNCHANGED <<volume, limits>> /\ UNCHANGED active
  BY <1>1, <1>2 DEF Buffer, PrintLine
<1>4. Dirty(buffers[i]) => Dirty(b)
  BY <1>3 DEF Dirty
<1> HIDE DEF b, i
<1>. QED
  BY <1>1, <1>3, <1>4, ChangeBuffer

LEMMA InputStep ==
  ASSUME IInv, InputLine
  PROVE  IInv' /\ Ids' = Ids
<1> DEFINE i == activeRead
           b == [buffers[i] EXCEPT !.pos = @ + 1]
<1>1. i \in Indexes /\ buffers[i] \in Buffer
  BY ElementOfSeq, LenProperties
     DEF InputLine, IInv, ActiveOK, GoodTable, Indexes
<1>2. /\ b \in Buffer /\ b.id = buffers[i].id /\ b.name = buffers[i].name
      /\ b.mode = buffers[i].mode
      /\ buffers' = [buffers EXCEPT ![i] = b]
      /\ UNCHANGED <<volume, limits>> /\ UNCHANGED active
  BY <1>1 DEF Buffer, InputLine
<1>3. Dirty(buffers[i]) => Dirty(b)
  BY <1>2 DEF Dirty
<1> HIDE DEF b, i
<1>. QED
  BY <1>1, <1>2, <1>3, ChangeBuffer

-----------------------------------------------------------------------------
(* Every step keeps the invariant and is one of: a verb on the volume, which  *)
(* leaves the table alone; a verb on the table, which leaves the volume alone *)
(* and closes nothing; and the two ways to close.                             *)
LEMMA StepShape ==
  ASSUME IInv, Next
  PROVE  /\ IInv'
         /\ \/ UNCHANGED vars
            \/ (FileVerb \/ InitCmd) /\ Ids' = Ids
            \/ UNCHANGED volume /\ (Ids' = Ids \/ OpensOne)
            \/ \E i \in Indexes : ClosesOne(i)
            \/ \E k \in 0..Len(buffers) : ClosesFirst(k)
<1> DEFINE Shape == \/ UNCHANGED vars
                    \/ (FileVerb \/ InitCmd) /\ Ids' = Ids
                    \/ UNCHANGED volume /\ (Ids' = Ids \/ OpensOne)
                    \/ \E i \in Indexes : ClosesOne(i)
                    \/ \E k \in 0..Len(buffers) : ClosesFirst(k)
<1>1. CASE FileVerb
  <2>1. UNCHANGED buffers
    BY <1>1 DEF FileVerb, Save, Bsave, SaveAs, Delete, Rename, SetLock, Keep, Refused, vars
  <2>. QED
    BY <1>1, <2>1, FileVerbStep DEF Ids, Indexes
<1>2. CASE InitCmd
  <2>1. UNCHANGED buffers
    BY <1>2 DEF InitCmd, Keep
  <2>. QED
    BY <1>2, <2>1, InitCmdStep DEF Ids, Indexes
<1>3. ASSUME NEW n \in Names, Open(n)
      PROVE  IInv' /\ Shape
  BY <1>3, OpenStep DEF Open, Refused, vars
<1>4. ASSUME NEW n \in Names, AppendCmd(n)
      PROVE  IInv' /\ Shape
  BY <1>4, AppendStep DEF AppendCmd, Refused, vars
<1>5. ASSUME NEW n \in Names, CloseName(n)
      PROVE  IInv' /\ Shape
  BY <1>5, CloseBufStep, RefusedStep DEF CloseName, FindBuf, Refused
<1>6. ASSUME NEW k, ReadCmd(k)
      PROVE  IInv' /\ Shape
  BY <1>6, ReadStep DEF ReadCmd, Refused, vars
<1>7. ASSUME NEW k, WriteCmd(k)
      PROVE  IInv' /\ Shape
  BY <1>7, WriteStep DEF WriteCmd, Refused, vars
<1>8. ASSUME NEW k, CloseNum(k)
      PROVE  IInv' /\ Shape
  BY <1>8, CloseBufStep, RefusedStep DEF CloseNum, FindNum, Refused
<1>9. ASSUME NEW k \in Nat, Position(k)
      PROVE  IInv' /\ Shape
  BY <1>9, PositionStep DEF Position, Refused, vars
<1>10. CASE CloseAll
  BY <1>10, CloseAllStep
<1>11. ASSUME NEW k \in MaxfilesArgs, Maxfiles(k)
       PROVE  IInv' /\ Shape
  <2>1. UNCHANGED volume /\ Ids' = Ids
    BY <1>11 DEF Maxfiles, Ids, Indexes
  <2>. QED
    BY <1>11, <2>1, MaxfilesStep
<1>12. ASSUME NEW l \in Lines, PrintLine(l)
       PROVE  IInv' /\ Shape
  BY <1>12, PrintStep DEF PrintLine
<1>13. CASE InputLine
  BY <1>13, InputStep DEF InputLine
<1>14. CASE BufferVerb
  <2>1. ASSUME NEW k \in 0..MaxLines, Position(k)
        PROVE  IInv' /\ Shape
    BY <1>9, <2>1
  <2> HIDE DEF Shape
  <2>. QED
    BY <1>3, <1>4, <1>5, <1>6, <1>7, <1>8, <1>10, <1>14, <2>1 DEF BufferVerb, Shape
<1> HIDE DEF Shape
<1>15. IInv' /\ Shape
  BY <1>1, <1>2, <1>11, <1>12, <1>13, <1>14 DEF Next, Shape
<1>. QED
  BY <1>15 DEF Shape

LEMMA Start == Init => IInv
<1> SUFFICES ASSUME Init PROVE IInv
  OBVIOUS
<1>1. buffers \in Seq(Buffer) /\ Len(buffers) = 0
  BY EmptySeq DEF Init
<1>2. GoodVolume(files)
  BY GoodNoFiles DEF Init
<1>3. GoodTable(buffers, nextBuffer)
  BY <1>1 DEF Init, GoodTable, Numbered, Ordered
<1>4. GoodLimits
  <2>1. maxfiles \in 1..16
    BY DEF Init
  <2>2. lost \in BOOLEAN
    BY Zenon DEF Init
  <2>. QED
    BY <2>1, <2>2 DEF GoodLimits
<1>5. ActiveOK
  <2>1. activeRead = 0 /\ activeWrite = 0 /\ 0 \in 0..Len(buffers)
    BY <1>1 DEF Init
  <2>. QED
    BY <2>1 DEF ActiveOK
<1>. QED
  BY <1>2, <1>3, <1>4, <1>5 DEF IInv

LEMMA Invariance == Spec => []IInv
<1>1. IInv /\ [Next]_vars => IInv'
  BY StepShape, RefusedStep
<1>. QED
  BY Start, <1>1, PTL DEF Spec

(* Every variable of the command processor keeps its type: a buffer holds     *)
(* lines of text whatever file it was filled from.                            *)
THEOREM DosTyped == Spec => []TypeOK
<1>1. IInv => TypeOK
  <2> SUFFICES ASSUME IInv PROVE TypeOK
    OBVIOUS
  <2>1. Len(buffers) \in Nat
    BY LenProperties DEF IInv, GoodTable
  <2>. QED
    BY <2>1 DEF IInv, GoodVolume, GoodTable, GoodLimits, ActiveOK, TypeOK
<1>. QED
  BY <1>1, Invariance, PTL

(* After any verbs, closes included, the indexes INPUT and PRINT use name open *)
(* buffers, at most one is set, and what PRINT fills will be written.          *)
THEOREM ActiveStaysOK == Spec => []ActiveOK
<1>1. IInv => ActiveOK
  BY DEF IInv
<1>. QED
  BY <1>1, Invariance, PTL

(* No two open buffers have one number or one name, whatever was opened and   *)
(* closed before: READ n, WRITE n and CLOSE name mean one buffer.             *)
THEOREM BuffersStayDistinct == Spec => []BuffersDistinct
<1>1. IInv => BuffersDistinct
  BY DEF IInv, GoodTable, Numbered, Ordered, BuffersDistinct, Indexes
<1>. QED
  BY <1>1, Invariance, PTL

-----------------------------------------------------------------------------
(* The numbers of different buffers differ. *)
LEMMA IdsDiffer ==
  ASSUME IInv, NEW i \in Indexes, NEW j \in Indexes, i # j
  PROVE  buffers[i].id # buffers[j].id /\ buffers[i].id \in Nat /\ buffers[i].id >= 1
<1>1. buffers[i].id \in Nat /\ buffers[j].id \in Nat
  <2>1. buffers[i] \in Buffer /\ buffers[j] \in Buffer
    BY ElementOfSeq DEF IInv, GoodTable, Indexes
  <2>. QED
    BY <2>1 DEF Buffer
<1>2. Len(buffers) \in Nat
  BY LenProperties DEF IInv, GoodTable
<1>3. i < j \/ j < i
  BY <1>2 DEF Indexes
<1>. QED
  BY <1>1, <1>3 DEF IInv, GoodTable, Ordered, Numbered, Indexes

(* The number of the buffer an active entry stands for *)
Number(bs, a) == IF a \in 1..Len(bs) THEN bs[a].id ELSE 0

(* A buffer that stays keeps its number under the index Reindex gives it; one *)
(* that goes leaves no entry.                                                 *)
LEMMA FollowsOne ==
  ASSUME IInv, NEW i \in Indexes, Released(i), UNCHANGED limits,
         NEW a \in 0..Len(buffers)
  PROVE  Number(buffers', Reindex(a, i)) = StillOpen(Number(buffers, a))
<1> DEFINE n == Len(buffers)
<1>1. n \in Nat /\ i \in 1..n /\ buffers \in Seq(Buffer)
  BY LenProperties DEF IInv, GoodTable, Indexes
<1>2. /\ Len(buffers') = n - 1
      /\ \A j \in 1..(n - 1) : buffers'[j] = buffers[Behind(i, j)]
  BY <1>1, Removed DEF Released, Indexes
<1>3. Ids' = Ids \ {buffers[i].id}
  BY RemoveBuffer
<1> HIDE DEF n
<1>4. CASE a = 0
  BY <1>1, <1>2, <1>4 DEF Number, Reindex, StillOpen, n
<1>5. CASE a = i
  BY <1>1, <1>2, <1>3, <1>5 DEF Number, Reindex, StillOpen, n
<1>6. CASE a # 0 /\ a # i
  <2>1. a \in Indexes /\ a \in 1..n
    BY <1>1, <1>6 DEF Indexes, n
  <2>2. buffers[a].id \in Ids'
    BY <1>3, <1>6, <2>1, IdsDiffer DEF Ids
  <2>3. Reindex(a, i) \in 1..(n - 1) /\ Behind(i, Reindex(a, i)) = a
    BY <1>1, <1>6, <2>1 DEF Reindex, Behind
  <2>4. Number(buffers', Reindex(a, i)) = buffers[a].id
    BY <1>2, <2>3 DEF Number
  <2>. QED
    BY <2>1, <2>2, <2>4 DEF Number, StillOpen, n
<1>. QED
  BY <1>4, <1>5, <1>6

LEMMA FollowsFirst ==
  ASSUME IInv, NEW k \in 0..Len(buffers), ClosesFirst(k),
         NEW a \in 0..Len(buffers)
  PROVE  Number(buffers', Shift(a, k)) = StillOpen(Number(buffers, a))
<1> DEFINE n == Len(buffers)
<1>1. n \in Nat /\ k \in 0..n /\ buffers \in Seq(Buffer)
  BY LenProperties DEF IInv, GoodTable
<1>2. /\ Len(buffers') = n - k
      /\ \A j \in 1..(n - k) : buffers'[j] = buffers[j + k]
  BY <1>1, Dropped DEF ClosesFirst
<1>3. Ids' = {buffers[j].id : j \in (k + 1)..n}
  BY DropBuffers
<1> HIDE DEF n
<1>4. CASE a = 0
  BY <1>1, <1>2, <1>4 DEF Number, Shift, StillOpen, n
<1>5. CASE a # 0 /\ a <= k
  <2>1. a \in Indexes /\ \A j \in (k + 1)..n : j \in Indexes /\ j # a
    BY <1>1, <1>5 DEF Indexes, n
  <2>2. buffers[a].id \notin Ids'
    BY <1>3, <2>1, IdsDiffer
  <2>. QED
    BY <1>1, <1>2, <1>5, <2>1, <2>2 DEF Number, Shift, StillOpen, Indexes, n
<1>6. CASE a > k
  <2>1. a \in (k + 1)..n /\ a \in 1..n
    BY <1>1, <1>6 DEF n
  <2>2. buffers[a].id \in Ids'
    BY <1>3, <2>1
  <2>3. Shift(a, k) \in 1..(n - k) /\ Shift(a, k) + k = a
    BY <1>1, <1>6, <2>1 DEF Shift
  <2>4. Number(buffers', Shift(a, k)) = buffers[a].id
    BY <1>2, <2>3 DEF Number
  <2>. QED
    BY <2>1, <2>2, <2>4 DEF Number, StillOpen, n
<1>. QED
  BY <1>1, <1>4, <1>5, <1>6 DEF n

(* When buffers close, INPUT and PRINT go on with the buffer they used, under *)
(* its new index, or with none if it is among the closed.                     *)
THEOREM ActiveFollows == Spec => ActiveFollowsClose
<1>1. ASSUME IInv, [Next]_vars
      PROVE  [Ids' # Ids /\ Ids' \subseteq Ids =>
                ReadId' = StillOpen(ReadId) /\ WriteId' = StillOpen(WriteId)]_vars
  <2> SUFFICES ASSUME Next, Ids' # Ids, Ids' \subseteq Ids
               PROVE  ReadId' = StillOpen(ReadId) /\ WriteId' = StillOpen(WriteId)
    BY <1>1
  <2>1. /\ ReadId = Number(buffers, activeRead) /\ WriteId = Number(buffers, activeWrite)
        /\ ReadId' = Number(buffers', activeRead') /\ WriteId' = Number(buffers', activeWrite')
    BY DEF ReadId, WriteId, Number, Indexes
  <2>2. activeRead \in 0..Len(buffers) /\ activeWrite \in 0..Len(buffers)
    BY <1>1 DEF IInv, ActiveOK
  <2>3. ~UNCHANGED vars /\ ~OpensOne
    BY DEF vars, Ids, Indexes, OpensOne
  <2>4. ASSUME NEW i \in Indexes, ClosesOne(i)
        PROVE  ReadId' = StillOpen(ReadId) /\ WriteId' = StillOpen(WriteId)
    <3>1. Released(i) /\ UNCHANGED limits
      BY <2>4 DEF ClosesOne, CloseBuf, Refused, vars
    <3>2. activeRead' = Reindex(activeRead, i) /\ activeWrite' = Reindex(activeWrite, i)
      BY <3>1 DEF Released
    <3>. QED
      BY <1>1, <2>1, <2>2, <3>1, <3>2, FollowsOne
  <2>5. ASSUME NEW k \in 0..Len(buffers), ClosesFirst(k)
        PROVE  ReadId' = StillOpen(ReadId) /\ WriteId' = StillOpen(WriteId)
    <3>1. activeRead' = Shift(activeRead, k) /\ activeWrite' = Shift(activeWrite, k)
      BY <2>5 DEF ClosesFirst
    <3>. QED
      BY <1>1, <2>1, <2>2, <2>5, <3>1, FollowsFirst
  <2>. QED
    BY <1>1, <2>3, <2>4, <2>5, StepShape
<1>. QED
  BY <1>1, Invariance, PTL DEF Spec, ActiveFollowsClose

(* A buffer with text to write leaves the table only with its text on the     *)
(* volume, under its own name; a save that fails keeps it open.               *)
THEOREM ClosedTextSaved == Spec => ClosedTextIsSaved
<1>1. ASSUME IInv, [Next]_vars
      PROVE  [\A i \in Indexes :
                Dirty(buffers[i]) /\ buffers[i].id \notin Ids' /\ ~lost' =>
                  files'[buffers[i].name] =
                    [data |-> buffers[i].lines, ftype |-> T, locked |-> FALSE]]_vars
  <2> SUFFICES ASSUME Next, ~UNCHANGED vars, NEW i \in Indexes, Dirty(buffers[i]),
                      buffers[i].id \notin Ids', ~lost'
               PROVE  files'[buffers[i].name] = TextFile(i)
    BY <1>1 DEF TextFile
  <2>1. buffers[i].id \in Ids /\ buffers[i].name \in Names
    <3>1. buffers[i] \in Buffer
      BY <1>1, ElementOfSeq DEF IInv, GoodTable, Indexes
    <3>. QED
      BY <3>1 DEF Ids, Buffer
  <2>2. Ids' # Ids /\ ~OpensOne
    BY <2>1 DEF OpensOne
  <2>3. ASSUME NEW j \in Indexes, ClosesOne(j)
        PROVE  files'[buffers[i].name] = TextFile(i)
    <3>1. Released(j) /\ CloseBuf(j) /\ ~UNCHANGED vars
      BY <2>3 DEF ClosesOne
    <3>2. UNCHANGED limits
      BY <3>1 DEF CloseBuf, Refused
    <3>3. Ids' = Ids \ {buffers[j].id}
      BY <1>1, <3>1, <3>2, RemoveBuffer
    <3>4. i = j
      BY <1>1, <2>1, <3>3, IdsDiffer
    <3>5. Saved(buffers[i].name, buffers[i].lines, T)
      BY <3>1, <3>4 DEF CloseBuf, Refused
    <3>6. files' = Put(files, buffers[i].name, buffers[i].lines, T)
      BY <3>5 DEF Saved
    <3>. QED
      BY <1>1, <2>1, <3>6 DEF Put, TextFile, IInv, GoodVolume, Volumes
  <2>4. ASSUME NEW k \in 0..Len(buffers), ClosesFirst(k)
        PROVE  files'[buffers[i].name] = TextFile(i)
    <3>1. files' = FilesAfterClosing(k)
      BY <2>4 DEF ClosesFirst
    <3>2. Ids' = {buffers[j].id : j \in (k + 1)..Len(buffers)}
      BY <1>1, <2>4, DropBuffers
    <3>3. i \in 1..k
      BY <3>2, LenProperties, <1>1 DEF IInv, GoodTable, Indexes
    <3>. QED
      BY <1>1, <2>1, <3>1, <3>3, ClosingFiles
  <2>. QED
    BY <1>1, <2>2, <2>3, <2>4, StepShape
<1>. QED
  BY <1>1, Invariance, PTL DEF Spec, ClosedTextIsSaved

-----------------------------------------------------------------------------
(* The verbs on the volume, UNLOCK n, RENAME n and INIT apart, leave a locked *)
(* n as it is, if they do not overrun the chip.                               *)
LEMMA VerbsMindLocks ==
  ASSUME IInv, NEW n \in Names, IsLocked(files, n),
         \/ \E m \in Names : Save(m) \/ Bsave(m) \/ Delete(m) \/ SetLock(m, TRUE)
         \/ \E m \in Names \ {n} : SetLock(m, FALSE) \/ (\E new \in Names : Rename(m, new))
  PROVE  Kept(n)
<1>1. files \in Volumes /\ files[n] \in File /\ files[n].locked = TRUE /\ Exists(files, n)
  BY DEF IInv, GoodVolume, Volumes, IsLocked, Exists, File
<1>2. ASSUME Refused
      PROVE  Kept(n)
  BY <1>2 DEF Refused, vars, volume, Kept
<1>3. ASSUME NEW m \in Names, NEW c, NEW t, ~IsLocked(files, m), Saved(m, c, t)
      PROVE  Kept(n)
  <2>1. m # n
    BY <1>3
  <2>2. files' = Put(files, m, c, t) => files'[n] = files[n]
    BY <1>1, <2>1 DEF Put, Volumes
  <2>. QED
    BY <1>3, <2>2 DEF Saved, Kept
<1>4. ASSUME NEW m \in Names, Save(m) \/ Bsave(m)
      PROVE  Kept(n)
  BY <1>2, <1>3, <1>4 DEF Save, Bsave, SaveAs
<1>5. ASSUME NEW m \in Names, Delete(m)
      PROVE  Kept(n)
  <2>1. CASE files' = Remove(files, m) /\ ~IsLocked(files, m)
    <3>1. m # n
      BY <2>1
    <3>. QED
      BY <1>1, <2>1, <3>1 DEF Remove, Volumes, Kept
  <2>. QED
    BY <1>2, <1>5, <2>1 DEF Delete
<1>6. ASSUME NEW m \in Names, NEW l \in BOOLEAN, SetLock(m, l), m # n \/ l = TRUE
      PROVE  Kept(n)
  <2>1. CASE files' = WithLock(files, m, l) /\ m # n
    BY <1>1, <2>1 DEF WithLock, Volumes, Kept
  <2>2. CASE files' = WithLock(files, m, l) /\ m = n /\ l = TRUE
    <3>1. files'[n] = [files[n] EXCEPT !.locked = TRUE]
      BY <1>1, <2>2 DEF WithLock, Volumes
    <3>2. [files[n] EXCEPT !.locked = TRUE] = files[n]
      BY <1>1 DEF File
    <3>. QED
      BY <3>1, <3>2 DEF Kept
  <2>. QED
    BY <1>2, <1>6, <2>1, <2>2 DEF SetLock
<1>7. ASSUME NEW m \in Names \ {n}, NEW new \in Names, Rename(m, new)
      PROVE  Kept(n)
  <2>1. CASE ~Exists(files, new) /\ files' = Move(files, m, new)
    <3>1. new # n
      BY <1>1, <2>1
    <3>. QED
      BY <1>1, <2>1, <3>1 DEF Move, Volumes, Kept
  <2>. QED
    BY <1>2, <1>7, <2>1 DEF Rename
<1>. QED
  BY <1>4, <1>5, <1>6, <1>7

(* A verb on the table of buffers leaves the volume alone or closes buffers.  *)
LEMMA TableShape ==
  ASSUME IInv, BufferVerb
  PROVE  \/ UNCHANGED volume
         \/ \E i \in Indexes : ClosesOne(i)
         \/ \E k \in 0..Len(buffers) : ClosesFirst(k)
<1>1. ASSUME NEW n \in Names, Open(n) \/ AppendCmd(n)
      PROVE  UNCHANGED volume
  BY <1>1 DEF Open, AppendCmd, Refused, vars
<1>2. ASSUME NEW k, ReadCmd(k) \/ WriteCmd(k) \/ Position(k)
      PROVE  UNCHANGED volume
  BY <1>2 DEF ReadCmd, WriteCmd, Position, Refused, vars
<1>3. ASSUME NEW i \in Indexes, CloseBuf(i)
      PROVE  UNCHANGED volume \/ ClosesOne(i)
  BY <1>3, CloseBufStep DEF vars
<1>4. ASSUME NEW n \in Names, CloseName(n)
      PROVE  UNCHANGED volume \/ \E i \in Indexes : ClosesOne(i)
  BY <1>3, <1>4 DEF CloseName, FindBuf, Refused, vars
<1>5. ASSUME NEW k, CloseNum(k)
      PROVE  UNCHANGED volume \/ \E i \in Indexes : ClosesOne(i)
  BY <1>3, <1>5 DEF CloseNum, FindNum, Refused, vars
<1>. QED
  BY <1>1, <1>2, <1>4, <1>5, CloseAllStep DEF BufferVerb

(* A file that is locked stays as it is, contents, type and lock, under every *)
(* command but UNLOCK and RENAME of that file and INIT, until a buffer with   *)
(* text opened under its name is closed or a save overruns the chip: SAVE,    *)
(* BSAVE and DELETE never touch it.                                           *)
THEOREM LockedKept == Spec => LockedKeptUntilClose
<1>1. ASSUME IInv, [Next]_vars
      PROVE  [\A n \in Names :
                IsLocked(files, n) => Kept(n) \/ ClosesText(n) \/ ~SparingVerb(n)]_vars
  <2> SUFFICES ASSUME Next, ~UNCHANGED vars, NEW n \in Names,
                      IsLocked(files, n), SparingVerb(n)
               PROVE  Kept(n) \/ ClosesText(n)
    BY <1>1
  <2>1. files \in Volumes
    BY <1>1 DEF IInv, GoodVolume
  <2>2. ASSUME UNCHANGED volume
        PROVE  Kept(n)
    BY <2>2 DEF volume, Kept
  <2>3. ASSUME NEW i \in Indexes, ClosesOne(i)
        PROVE  Kept(n) \/ ClosesText(n)
    <3>1. Released(i) /\ CloseBuf(i) /\ UNCHANGED limits
      BY <2>3 DEF ClosesOne, CloseBuf, Refused, vars
    <3>2. CASE /\ Dirty(buffers[i]) /\ buffers[i].name = n
               /\ files' = Put(files, buffers[i].name, buffers[i].lines, T)
      <4>1. Ids' = Ids \ {buffers[i].id}
        BY <1>1, <3>1, RemoveBuffer
      <4>. QED
        BY <3>2, <4>1 DEF FindBuf, ClosesText
    <3>3. CASE /\ buffers[i].name # n
               /\ files' = Put(files, buffers[i].name, buffers[i].lines, T)
      BY <2>1, <3>3 DEF Put, Volumes, Kept
    <3>4. CASE lost' = TRUE
      BY <3>4 DEF Kept
    <3>. QED
      BY <2>2, <3>1, <3>2, <3>3, <3>4 DEF CloseBuf, Saved, Refused, vars
  <2>4. ASSUME NEW k \in 0..Len(buffers), ClosesFirst(k)
        PROVE  Kept(n) \/ ClosesText(n)
    <3>1. CASE files' = FilesAfterClosing(k) /\ files'[n] # files[n]
      <4>1. PICK i \in 1..k : buffers[i].name = n /\ Dirty(buffers[i])
        BY <1>1, <3>1, ClosingFiles
      <4>2. Len(buffers) \in Nat
        BY <1>1, LenProperties DEF IInv, GoodTable
      <4>3. i \in Indexes /\ \A j \in (k + 1)..Len(buffers) : j \in Indexes /\ j # i
        BY <4>2 DEF Indexes
      <4>4. buffers[i].id \notin Ids'
        BY <1>1, <2>4, <4>3, DropBuffers, IdsDiffer
      <4>. QED
        BY <4>1, <4>3, <4>4 DEF FindBuf, ClosesText
    <3>. QED
      BY <2>4, <3>1 DEF ClosesFirst, Kept
  <2>5. CASE BufferVerb
    BY <1>1, <2>2, <2>3, <2>4, <2>5, TableShape
  <2>6. ASSUME (\E k \in MaxfilesArgs : Maxfiles(k)) \/ (\E l \in Lines : PrintLine(l)) \/ InputLine
        PROVE  UNCHANGED volume
    BY <2>6 DEF Maxfiles, PrintLine, InputLine
  <2>. QED
    BY <1>1, <2>2, <2>5, <2>6, VerbsMindLocks DEF SparingVerb
<1>. QED
  BY <1>1, Invariance, PTL DEF Spec, LockedKeptUntilClose
=============================================================================
