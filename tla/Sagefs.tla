------------------------------- MODULE Sagefs -------------------------------
(***************************************************************************)
(* SAGEFS-6502, the flash file system of sageapple/storage.sage: a         *)
(* directory of fixed slots at the head of the chip and files stored as    *)
(* contiguous runs of blocks behind it, allocated first fit.               *)
(*                                                                         *)
(* The chip is modelled block by block.  A block holds Erased ($FF), the   *)
(* Directory, or one part of a file's contents.  File names are compared   *)
(* without case by the code, so a member of Names stands for a class of    *)
(* names equal up to case.  A size is a number of blocks, which is all     *)
(* that allocation and erasure use of the byte count.                      *)
(***************************************************************************)
EXTENDS Naturals

CONSTANTS
  Names,       \* names a caller may pass, none of them empty
  NoName,      \* the empty name: what a free slot shows
  Trunc,       \* Trunc[n] is the name stored for n: its first 12 characters
  Blobs,       \* contents a caller may save
  Parts,       \* Parts[v] is the number of blocks the bytes of v need
  FTypes,      \* file type bytes
  NoType,      \* the type byte of a free slot
  NBlocks,     \* blocks on the chip; addresses are masked to the chip
  FirstBlock,  \* first data block, behind the directory
  NSlots,      \* directory slots
  Erased, Directory

ASSUME SagefsAssumption ==
  /\ NoName \notin Names
  /\ Trunc \in [Names -> Names]
  /\ NBlocks \in Nat /\ FirstBlock \in Nat /\ NSlots \in Nat
  /\ 0 < FirstBlock /\ FirstBlock < NBlocks
  /\ Parts \in [Blobs -> 0..NBlocks]
  /\ NoType \notin FTypes
  /\ Erased # Directory

Slots == 0..(NSlots - 1)
Blocks == 0..(NBlocks - 1)
DirBlocks == 0..(FirstBlock - 1)
Part(v, k) == [blob |-> v, part |-> k]
FileParts == [blob : Blobs, part : Blocks]

ASSUME BlockValuesAssumption ==
  Erased \notin FileParts /\ Directory \notin FileParts

Entry == [name : Names \cup {NoName}, start : Blocks, blocks : 0..NBlocks,
          ftype : FTypes \cup {NoType}, locked : BOOLEAN]
FreeEntry == [name |-> NoName, start |-> 0, blocks |-> 0,
              ftype |-> NoType, locked |-> FALSE]

VARIABLES
  dir,   \* the directory entries
  disk,  \* the blocks of the chip
  ret    \* what the last call returned

vars == <<dir, disk, ret>>

-----------------------------------------------------------------------------
Least(S) == CHOOSE x \in S : \A y \in S : x <= y

Matching(n) == {i \in Slots : dir[i].name = n}
Free == {i \in Slots : dir[i].name = NoName}
Holds(n) == Matching(n) # {}
find(n) == Least(Matching(n))

\* The slot _save writes: the first that shows the name, else the first free.
HasSlot(n) == Holds(n) \/ Free # {}
\* Mutant: the scan stops at the first free slot.
SlotForFirstSeen(n) == Least(Matching(n) \cup Free)
SlotFor(n) == IF Holds(n) THEN find(n) ELSE Least(Free)

\* The blocks an entry owns, cut at the end of the chip as the loops are.
Owned(e) == {b \in Blocks : e.start <= b /\ b < e.start + e.blocks}
\* Mutant: the scan of the directory misses its first slot.
UsedFromSecond(skip) ==
  UNION {Owned(dir[i]) : i \in {j \in Slots \ {0} : j # skip /\ dir[j].name # NoName}}
Used(skip) ==
  UNION {Owned(dir[i]) : i \in {j \in Slots : j # skip /\ dir[j].name # NoName}}

\* Mutant: the search begins one block early.
RunStartsEarly(need, skip) ==
  {s \in (FirstBlock - 1)..(NBlocks - 1) : \A b \in Used(skip) : b < s \/ s + need <= b}
\* The starts find_free_run accepts: no block of the run is used.  The run is
\* not required to end on the chip.
RunStarts(need, skip) ==
  {s \in FirstBlock..(NBlocks - 1) : \A b \in Used(skip) : b < s \/ s + need <= b}
find_free_run(need, skip) == Least(RunStarts(need, skip))

erase_blocks(d, e) == [b \in Blocks |-> IF b \in Owned(e) THEN Erased ELSE d[b]]

\* Mutant: the blocks before the start are not told from the run.
PartAtUnmasked(b, s) == b - s
\* The part of a file starting at s that lands in block b; past the last
\* block the masked address wraps to block 0.
PartAt(b, s) == IF s <= b THEN b - s ELSE b + NBlocks - s
WriteData(d, s, v) ==
  [b \in Blocks |-> IF PartAt(b, s) < Parts[v] THEN Part(v, PartAt(b, s)) ELSE d[b]]

\* Once file data has wrapped over it, what the directory says is an accident
\* of that data: only formatting is modelled from there on.
Intact == \A b \in DirBlocks : disk[b] = Directory

-----------------------------------------------------------------------------
Formatted == [b \in Blocks |-> IF b \in DirBlocks THEN Directory ELSE Erased]

Init ==
  /\ dir = [i \in Slots |-> FreeEntry]
  /\ disk = Formatted
  /\ ret = "ok"

\* format, also taken when an image without the magic is mounted.
Format ==
  /\ dir' = [i \in Slots |-> FreeEntry]
  /\ disk' = Formatted
  /\ ret' = "ok"

Fail(why) == ret' = why /\ UNCHANGED <<dir, disk>>

\* Mutants of Store: the old run is erased after the data is written; the lock
\* of the old file is kept.
StoreErasesLast(n, v, t, i) ==
  LET s   == find_free_run(Parts[v] + 1, i)
      old == dir[i]
      written == WriteData(disk, s, v)
  IN /\ dir' = [dir EXCEPT ![i] = [name |-> Trunc[n], start |-> s, blocks |-> Parts[v],
                                   ftype |-> t, locked |-> FALSE]]
     /\ disk' = IF old.name # NoName /\ old.start # s
                THEN erase_blocks(written, old) ELSE written
     /\ ret' = "ok"
StoreKeepsLock(n, v, t, i) ==
  LET s   == find_free_run(Parts[v] + 1, i)
      old == dir[i]
      cleared == IF old.name # NoName /\ old.start # s
                 THEN erase_blocks(disk, old) ELSE disk
  IN /\ dir' = [dir EXCEPT ![i] = [name |-> Trunc[n], start |-> s, blocks |-> Parts[v],
                                   ftype |-> t, locked |-> old.locked]]
     /\ disk' = WriteData(cleared, s, v)
     /\ ret' = "ok"

\* _save: pick the slot, allocate one block more than the data needs, erase
\* the old run if the file moved, write the entry, write the data.
Store(n, v, t, i) ==
  LET s   == find_free_run(Parts[v] + 1, i)
      old == dir[i]
      cleared == IF old.name # NoName /\ old.start # s
                 THEN erase_blocks(disk, old) ELSE disk
  IN /\ dir' = [dir EXCEPT ![i] = [name |-> Trunc[n], start |-> s, blocks |-> Parts[v],
                                   ftype |-> t, locked |-> FALSE]]
     /\ disk' = WriteData(cleared, s, v)
     /\ ret' = "ok"

Save(n, v, t) ==
  /\ Intact
  /\ \/ /\ HasSlot(n)
        /\ RunStarts(Parts[v] + 1, SlotFor(n)) # {}
        /\ Store(n, v, t, SlotFor(n))
     \/ /\ HasSlot(n) => RunStarts(Parts[v] + 1, SlotFor(n)) = {}
        /\ Fail("full")

Delete(n) ==
  /\ Intact
  /\ \/ /\ Holds(n)
        /\ dir' = [dir EXCEPT ![find(n)] = FreeEntry]
        /\ disk' = erase_blocks(disk, dir[find(n)])
        /\ ret' = "ok"
     \/ ~Holds(n) /\ Fail("missing")

Rename(old, new) ==
  /\ Intact
  /\ \/ /\ Holds(old) /\ ~Holds(new)
        /\ dir' = [dir EXCEPT ![find(old)].name = Trunc[new]]
        /\ ret' = "ok"
        /\ UNCHANGED disk
     \/ ~Holds(old) /\ Fail("missing")
     \/ Holds(old) /\ Holds(new) /\ Fail("duplicate")

SetLock(n, l) ==
  /\ Intact
  /\ \/ /\ Holds(n)
        /\ dir' = [dir EXCEPT ![find(n)].locked = l]
        /\ ret' = "ok"
        /\ UNCHANGED disk
     \/ ~Holds(n) /\ Fail("missing")

lock_file(n) == SetLock(n, TRUE)
unlock_file(n) == SetLock(n, FALSE)

Next ==
  \/ Format
  \/ \E n \in Names, v \in Blobs, t \in FTypes : Save(n, v, t)
  \/ \E n \in Names : Delete(n)
  \/ \E old, new \in Names : Rename(old, new)
  \/ \E n \in Names : lock_file(n)
  \/ \E n \in Names : unlock_file(n)

Spec == Init /\ [][Next]_vars

-----------------------------------------------------------------------------
TypeOK ==
  /\ dir \in [Slots -> Entry]
  /\ disk \in [Blocks -> FileParts \cup {Erased, Directory}]
  /\ ret \in {"ok", "full", "missing", "duplicate"}

Live == {i \in Slots : dir[i].name # NoName}

\* Every file lies between the directory and the end of the chip, for as long
\* as no file has run over the directory (find_free_run, write_byte).
FilesInBounds ==
  Intact => \A i \in Live : /\ FirstBlock <= dir[i].start
                            /\ dir[i].start + dir[i].blocks <= NBlocks

\* No two files share a block: what one save or delete erases or writes is
\* never part of another file (find_free_run with skip_slot, erase_blocks).
NoSharedBlock ==
  Intact => \A i, j \in Live : i # j => Owned(dir[i]) \cap Owned(dir[j]) = {}

\* The blocks of a file hold one whole blob, its parts in order: no save,
\* delete or erase of another file, and no partial overwrite, has torn it.
FileWhole ==
  Intact => \A i \in Live : \E v \in Blobs :
    /\ Parts[v] = dir[i].blocks
    /\ \A b \in Owned(dir[i]) : disk[b] = Part(v, b - dir[i].start)

\* No two slots show one name, so find reaches every file (the comment on
\* save_blob: it "overwrites an existing file").
UniqueNames == \A i, j \in Live : dir[i].name = dir[j].name => i = j

\* The directory survives every save: a file that does not fit is refused
\* (find_free_run is to return a run of free data blocks).
DirectorySurvives == Intact
=============================================================================
