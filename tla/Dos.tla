-------------------------------- MODULE Dos --------------------------------
(***************************************************************************)
(* The DOS 3.3 command processor of sageapple/dos.sage over a SAGEFS       *)
(* volume: file verbs, the table of text buffers with its active read and  *)
(* write entries, and the two entry points BASIC calls for PRINT and       *)
(* INPUT.  Verbs that leave both the volume and the buffers alone          *)
(* (CATALOG, VERIFY, LOAD, RUN, BLOAD, BRUN, MON, PR#) are not actions     *)
(* here.  A command that is refused changes nothing but the screen.        *)
(***************************************************************************)
EXTENDS Integers, Sequences

CONSTANTS
  Names,     \* file names
  Missing,   \* no file of that name
  Lines,     \* lines of text
  Blank,     \* the empty line
  Programs,  \* contents SAVE and INIT may write
  Binaries,  \* contents BSAVE may write
  Hello,     \* the name INIT saves the program under
  MaxfilesArgs,  \* limits MAXFILES is given
  MaxLines,  \* bound: lines a buffer is grown to
  MaxId      \* bound: buffer numbers handed out

A == "A"
B == "B"
T == "T"
Texts == Seq(Lines)

INSTANCE FileOps WITH Contents <- Texts \cup Programs \cup Binaries,
                      FTypes <- {A, B, T}

ASSUME DosAssumption ==
  /\ Blank \in Lines /\ Hello \in Names
  /\ MaxfilesArgs \subseteq 1..16
  /\ MaxLines \in Nat /\ MaxId \in Nat
  /\ Missing \notin File

VARIABLES
  files,        \* the volume
  lost,         \* the directory has been overwritten
  buffers,      \* open buffers, oldest first
  activeRead,   \* index of the buffer INPUT reads, 0 for none
  activeWrite,  \* index of the buffer PRINT fills, 0 for none
  maxfiles, nextBuffer

volume == <<files, lost>>
active == <<activeRead, activeWrite>>
limits == <<maxfiles, nextBuffer>>
vars == <<volume, buffers, active, limits>>

Indexes == 1..Len(buffers)
Ids == {buffers[i].id : i \in Indexes}
FindNum(k) == {i \in Indexes : buffers[i].id = k}
FindBuf(n) == {i \in Indexes : buffers[i].name = n}
Dirty(b) == b.mode \in {"w", "a"}

-----------------------------------------------------------------------------
\* save_text joins lines with CRLF and load_text splits them again: an empty
\* last line leaves no trace.
LoadText(lines) ==
  IF lines # <<>> /\ lines[Len(lines)] = Blank THEN SubSeq(lines, 1, Len(lines) - 1)
  ELSE lines

TextIn(n) == IF Exists(files, n) THEN LoadText(files[n].data) ELSE <<>>

Refused == UNCHANGED vars
Keep == UNCHANGED <<buffers, active, limits>>

\* A save of the file system: done, or the save that overruns the chip.
Saved(n, c, t) ==
  \/ files' = Put(files, n, c, t) /\ UNCHANGED lost
  \/ files' = NoFiles /\ lost' = TRUE

\* SAVE and BSAVE: refused for a locked file, else saved or out of room.
SaveAs(n, c, t) ==
  /\ ~lost
  /\ \/ IsLocked(files, n) /\ Refused   \* FILE LOCKED
     \/ ~IsLocked(files, n) /\ Saved(n, c, t) /\ Keep
     \/ Refused   \* DISK FULL or DIRECTORY FULL

Save(n) == \E c \in Programs : SaveAs(n, c, A)
Bsave(n) == \E c \in Binaries : SaveAs(n, c, B)

\* Mutant: DELETE without the test of the lock.
DeleteAny(n) ==
  /\ ~lost
  /\ \/ ~Exists(files, n) /\ Refused
     \/ Exists(files, n) /\ files' = Remove(files, n) /\ Keep /\ UNCHANGED lost
Delete(n) ==
  /\ ~lost
  /\ \/ ~Exists(files, n) /\ Refused   \* FILE NOT FOUND
     \/ IsLocked(files, n) /\ Refused   \* FILE LOCKED
     \/ /\ Exists(files, n) /\ ~IsLocked(files, n)
        /\ files' = Remove(files, n)
        /\ Keep /\ UNCHANGED lost

Rename(old, new) ==
  /\ ~lost
  /\ \/ ~Exists(files, old) /\ Refused   \* FILE NOT FOUND
     \/ Exists(files, old) /\ Exists(files, new) /\ Refused   \* DUPLICATE FILENAME
     \/ /\ Exists(files, old) /\ ~Exists(files, new)
        /\ files' = Move(files, old, new)
        /\ Keep /\ UNCHANGED lost

SetLock(n, l) ==
  /\ ~lost
  /\ \/ ~Exists(files, n) /\ Refused   \* FILE NOT FOUND
     \/ /\ Exists(files, n)
        /\ files' = WithLock(files, n, l)
        /\ Keep /\ UNCHANGED lost

\* INIT formats and saves the program in memory as HELLO; buffers stay.
InitCmd ==
  /\ \/ \E c \in Programs : files' = Put(NoFiles, Hello, c, A) /\ lost' = FALSE
     \/ files' = NoFiles /\ lost' = TRUE
  /\ Keep

Maxfiles(k) ==
  /\ maxfiles' = k
  /\ UNCHANGED <<volume, buffers, active, nextBuffer>>

-----------------------------------------------------------------------------
\* Mutant: buffers numbered by their place in the table.
NewBufferAtPlace(n, mode) ==
  [id |-> Len(buffers) + 1, name |-> n, mode |-> mode, pos |-> 0, lines |-> TextIn(n)]
NewBuffer(n, mode) ==
  [id |-> nextBuffer, name |-> n, mode |-> mode, pos |-> 0, lines |-> TextIn(n)]

NoRoom == Len(buffers) >= maxfiles

Open(n) ==
  /\ ~lost
  /\ \/ NoRoom /\ Refused   \* NO BUFFERS AVAILABLE
     \/ ~NoRoom /\ FindBuf(n) # {} /\ Refused   \* FILE ALREADY OPEN
     \/ /\ ~NoRoom /\ FindBuf(n) = {}
        /\ \/ ~Exists(files, n) /\ Refused   \* FILE NOT FOUND
           \/ Exists(files, n) /\ ~HasType(files, n, T) /\ Refused   \* FILE TYPE MISMATCH
           \/ /\ HasType(files, n, T) /\ nextBuffer <= MaxId
              /\ buffers' = Append(buffers, NewBuffer(n, "r"))
              /\ nextBuffer' = nextBuffer + 1
              /\ UNCHANGED <<volume, active, maxfiles>>

\* Mutant: READ leaves the write buffer active.
ReadKeepsWrite(k) ==
  \/ FindNum(k) = {} /\ Refused
  \/ \E i \in FindNum(k) :
       activeRead' = i /\ UNCHANGED <<volume, buffers, limits, activeWrite>>
ReadCmd(k) ==
  \/ FindNum(k) = {} /\ Refused   \* FILE NOT OPEN
  \/ \E i \in FindNum(k) :
       /\ activeRead' = i /\ activeWrite' = 0
       /\ UNCHANGED <<volume, buffers, limits>>

WriteCmd(k) ==
  \/ FindNum(k) = {} /\ Refused   \* FILE NOT OPEN
  \/ \E i \in FindNum(k) :
       /\ buffers' = [buffers EXCEPT ![i].mode = "w", ![i].lines = <<>>]
       /\ activeWrite' = i /\ activeRead' = 0
       /\ UNCHANGED <<volume, limits>>

\* APPEND opens the file if no buffer has its name, else reuses that buffer
\* with the lines it already holds.
AppendCmd(n) ==
  /\ ~lost
  /\ \/ NoRoom /\ Refused   \* NO BUFFERS AVAILABLE
     \/ /\ ~NoRoom /\ Exists(files, n) /\ ~HasType(files, n, T)
        /\ Refused   \* FILE TYPE MISMATCH
     \/ /\ ~NoRoom /\ (Exists(files, n) => HasType(files, n, T))
        /\ \/ /\ FindBuf(n) = {} /\ nextBuffer <= MaxId
              /\ buffers' = Append(buffers, NewBuffer(n, "a"))
              /\ nextBuffer' = nextBuffer + 1
              /\ activeWrite' = Len(buffers) + 1
           \/ \E i \in FindBuf(n) :
                /\ buffers' = [buffers EXCEPT ![i].mode = "a"]
                /\ activeWrite' = i
                /\ UNCHANGED nextBuffer
        /\ activeRead' = 0
        /\ UNCHANGED <<volume, maxfiles>>

Position(k) ==
  \/ activeRead = 0 /\ Refused   \* NO FILE OPEN
  \/ /\ activeRead # 0
     /\ buffers' = [buffers EXCEPT ![activeRead].pos = k]
     /\ UNCHANGED <<volume, active, limits>>

\* _close_buf: the index of an active buffer after the buffer at i has gone.
\* Mutant: a buffer behind the closed one keeps its index.
ReindexOnlySame(a, i) == IF a = i THEN 0 ELSE a
Reindex(a, i) == IF a = i THEN 0 ELSE IF a > i THEN a - 1 ELSE a

RemoveAt(i) == SubSeq(buffers, 1, i - 1) \o SubSeq(buffers, i + 1, Len(buffers))

Released(i) ==
  /\ buffers' = RemoveAt(i)
  /\ activeRead' = Reindex(activeRead, i)
  /\ activeWrite' = Reindex(activeWrite, i)

\* Mutant: the buffer goes even when its save fails.
CloseBufAnyway(i) ==
  \/ ~Dirty(buffers[i]) /\ Released(i) /\ UNCHANGED <<volume, limits>>
  \/ /\ Dirty(buffers[i]) /\ ~lost
     /\ \/ Saved(buffers[i].name, buffers[i].lines, T)
        \/ UNCHANGED volume
     /\ Released(i) /\ UNCHANGED limits
CloseBuf(i) ==
  \/ ~Dirty(buffers[i]) /\ Released(i) /\ UNCHANGED <<volume, limits>>
  \/ /\ Dirty(buffers[i]) /\ ~lost
     /\ \/ /\ Saved(buffers[i].name, buffers[i].lines, T)
           /\ Released(i) /\ UNCHANGED limits
        \/ Refused   \* DISK FULL

CloseNum(k) == \/ FindNum(k) = {} /\ Refused   \* FILE NOT OPEN
               \/ \E i \in FindNum(k) : CloseBuf(i)

CloseName(n) == \/ FindBuf(n) = {} /\ Refused   \* FILE NOT OPEN
                \/ \E i \in FindBuf(n) : CloseBuf(i)

\* _close_all closes from the front and gives up at the first save that
\* fails: the first k buffers are gone and their text is saved.
FilesAfterClosing(k) ==
  [n \in Names |->
     LET mine == {i \in 1..k : buffers[i].name = n /\ Dirty(buffers[i])}
     IN IF mine = {} THEN files[n]
        ELSE [data |-> buffers[CHOOSE i \in mine : \A j \in mine : j <= i].lines,
              ftype |-> T, locked |-> FALSE]]

\* Mutant: no test whether the active buffer is among the closed.
ShiftAlways(a, k) == a - k
Shift(a, k) == IF a <= k THEN 0 ELSE a - k

CloseAll ==
  /\ ~lost
  /\ \E k \in 0..Len(buffers) :
       /\ \/ k = Len(buffers)
          \/ k < Len(buffers) /\ Dirty(buffers[k + 1])   \* DISK FULL
       /\ \/ files' = FilesAfterClosing(k) /\ UNCHANGED lost
          \/ /\ \E i \in 1..k : Dirty(buffers[i])
             /\ files' = NoFiles /\ lost' = TRUE
       /\ buffers' = SubSeq(buffers, k + 1, Len(buffers))
       /\ activeRead' = Shift(activeRead, k)
       /\ activeWrite' = Shift(activeWrite, k)
  /\ UNCHANGED limits

-----------------------------------------------------------------------------
\* print_line: BASIC's PRINT goes to the active write buffer, if there is one.
PrintLine(l) ==
  /\ activeWrite # 0
  /\ Len(buffers[activeWrite].lines) < MaxLines
  /\ buffers' = [buffers EXCEPT ![activeWrite].lines = Append(@, l)]
  /\ UNCHANGED <<volume, active, limits>>

AtEnd(b) == b.pos >= Len(b.lines)

\* input_line: BASIC's INPUT takes the next line of the active read buffer.
InputLine ==
  /\ activeRead # 0 /\ ~AtEnd(buffers[activeRead])
  /\ buffers' = [buffers EXCEPT ![activeRead].pos = @ + 1]
  /\ UNCHANGED <<volume, active, limits>>

Init ==
  /\ files = NoFiles /\ lost = FALSE
  /\ buffers = <<>> /\ activeRead = 0 /\ activeWrite = 0
  /\ maxfiles = 3 /\ nextBuffer = 1

FileVerb == \E n \in Names :
  \/ Save(n) \/ Bsave(n) \/ Delete(n) \/ (\E m \in Names : Rename(n, m))
  \/ SetLock(n, TRUE) \/ SetLock(n, FALSE)

BufferVerb ==
  \/ \E n \in Names : Open(n) \/ AppendCmd(n) \/ CloseName(n)
  \/ \E k \in 1..MaxId : ReadCmd(k) \/ WriteCmd(k) \/ CloseNum(k)
  \/ \E k \in 0..MaxLines : Position(k)
  \/ CloseAll

Next == \/ FileVerb \/ InitCmd \/ BufferVerb
        \/ \E k \in MaxfilesArgs : Maxfiles(k)
        \/ \E l \in Lines : PrintLine(l)
        \/ InputLine

Spec == Init /\ [][Next]_vars

-----------------------------------------------------------------------------
Modes == {"r", "w", "a"}
Buffer == [id : Nat, name : Names, mode : Modes, pos : Nat, lines : Texts]

TypeOK ==
  /\ files \in Volumes /\ lost \in BOOLEAN
  /\ buffers \in Seq(Buffer)
  /\ activeRead \in Nat /\ activeWrite \in Nat
  /\ maxfiles \in 1..16 /\ nextBuffer \in Nat

\* The indexes DOS keeps of the active buffers name open buffers, at most one
\* is set, and what PRINT fills will be written when it closes (read_cmd,
\* write_cmd, append, _close_buf).
ActiveOK ==
  /\ activeRead \in 0..Len(buffers) /\ activeWrite \in 0..Len(buffers)
  /\ activeRead = 0 \/ activeWrite = 0
  /\ activeWrite # 0 => Dirty(buffers[activeWrite])

\* A buffer number is never reused and no two buffers share a file name, so
\* READ n, WRITE n and CLOSE name reach one buffer (open, append, _close_buf).
BuffersDistinct ==
  \A i, j \in Indexes : i < j => /\ buffers[i].id < buffers[j].id
                                 /\ buffers[j].id < nextBuffer
                                 /\ buffers[i].name # buffers[j].name

ReadId == IF activeRead \in Indexes THEN buffers[activeRead].id ELSE 0
WriteId == IF activeWrite \in Indexes THEN buffers[activeWrite].id ELSE 0
StillOpen(k) == IF k \in Ids' THEN k ELSE 0

\* Closing some buffers shifts the others down the table; INPUT and PRINT
\* still go to the buffer they went to before (_close_buf, _close_all).
ActiveFollowsClose ==
  [][Ids' # Ids /\ Ids' \subseteq Ids =>
       ReadId' = StillOpen(ReadId) /\ WriteId' = StillOpen(WriteId)]_vars

\* A buffer with text to write leaves the table only when its text is the
\* contents of its file: a failed save keeps it open (_close_buf, _close_all).
ClosedTextIsSaved ==
  [][\A i \in Indexes :
       Dirty(buffers[i]) /\ buffers[i].id \notin Ids' /\ ~lost' =>
         files'[buffers[i].name] =
           [data |-> buffers[i].lines, ftype |-> T, locked |-> FALSE]]_vars

\* The commands that are not given to release or wipe a locked n: every one but
\* UNLOCK n, RENAME n and INIT.  RENAME of another file to n is among them.
SparingVerb(n) ==
  \/ \E m \in Names : Save(m) \/ Bsave(m) \/ Delete(m) \/ SetLock(m, TRUE)
  \/ \E m \in Names \ {n} : SetLock(m, FALSE) \/ (\E new \in Names : Rename(m, new))
  \/ BufferVerb
  \/ \E k \in MaxfilesArgs : Maxfiles(k)
  \/ \E l \in Lines : PrintLine(l)
  \/ InputLine

\* The entry of n stays, contents, type and lock; a save that overruns the chip
\* takes every file with it.
Kept(n) == files'[n] = files[n] \/ lost'

\* A buffer with text that was opened under the name n is closed.
ClosesText(n) == \E i \in FindBuf(n) : Dirty(buffers[i]) /\ buffers[i].id \notin Ids'

\* A locked file is safe from every command that does not name its lock or its
\* name, INIT apart, as long as no buffer with text for it is closed: no SAVE,
\* BSAVE, DELETE, RENAME onto it, OPEN, APPEND, WRITE or PRINT, nor the CLOSE
\* of other files, changes it (save, bsave, delete, rename, _close_buf).
LockedKeptUntilClose ==
  [][\A n \in Names :
       IsLocked(files, n) => Kept(n) \/ ClosesText(n) \/ ~SparingVerb(n)]_vars

\* "A locked file must refuse a destructive verb", CLOSE of a buffer opened
\* under its name included (_close_buf saves without looking at the lock).
LockedNotOverwritten ==
  [][\A n \in Names : IsLocked(files, n) => Kept(n) \/ ~SparingVerb(n)]_vars
=============================================================================
