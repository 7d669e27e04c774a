---------------------------- MODULE SagefsProofs ----------------------------
(***************************************************************************)
(* Proofs about Sagefs for every chip, directory and set of contents:      *)
(* files stay whole and apart, and as a whole implement the file store.    *)
(***************************************************************************)
EXTENDS SagefsFiles, WellFoundedInduction, TLAPS

\* A nonempty set of numbers has a least element and Least picks it.
LEMMA LeastWorks ==
  ASSUME NEW S, S \subseteq Nat, S # {}
  PROVE  Least(S) \in S /\ \A y \in S : Least(S) <= y
<1>1. \E x \in S : \A y \in S : ~(<<y, x>> \in OpToRel(<, Nat))
  BY NatLessThanWellFounded, WFMin
<1>2. ASSUME NEW x \in Nat, NEW y \in Nat, y < x
      PROVE  <<y, x>> \in OpToRel(<, Nat)
  <2>1. <<y, x>> \in Nat \X Nat
    OBVIOUS
  <2>2. <<y, x>>[1] < <<y, x>>[2]
    BY <1>2
  <2>3. QED BY <2>1, <2>2, Zenon DEF OpToRel
<1>3. \E x \in S : \A y \in S : x <= y
  <2>1. PICK x \in S : \A y \in S : ~(<<y, x>> \in OpToRel(<, Nat))
    BY <1>1
  <2>2. ASSUME NEW y \in S PROVE ~(y < x)
    BY <1>2, <2>1
  <2>3. QED BY <2>2
<1>4. QED BY <1>3 DEF Least

\* The inductive invariant.  The blocks of a file keep its data only because
\* no two files share a block, and that only because every file lies on the
\* chip: the three are preserved together.
IInv == TypeOK /\ FilesInBounds /\ NoSharedBlock /\ FileWhole

LEMMA InitIInv == Init => IInv
<1> SUFFICES ASSUME Init PROVE IInv
  OBVIOUS
<1> USE SagefsAssumption
<1>1. FreeEntry \in Entry
  BY DEF Entry, FreeEntry, Blocks
<1>2. TypeOK
  BY <1>1 DEF Init, TypeOK, Formatted
<1>3. Live = {}
  BY DEF Init, Live, FreeEntry
<1>4. QED
  BY <1>2, <1>3 DEF IInv, FilesInBounds, NoSharedBlock, FileWhole

\* find, SlotFor and find_free_run return what they look for.
LEMMA FindSlot ==
  ASSUME NEW n, Holds(n)
  PROVE  find(n) \in Slots /\ dir[find(n)].name = n
<1>1. Matching(n) \subseteq Nat /\ Matching(n) # {}
  BY SagefsAssumption DEF Matching, Slots, Holds
<1>2. QED BY <1>1, LeastWorks DEF find, Matching

LEMMA SlotForIsSlot ==
  ASSUME NEW n, HasSlot(n)
  PROVE  SlotFor(n) \in Slots
<1>1. CASE Holds(n)
  BY <1>1, FindSlot DEF SlotFor
<1>2. CASE ~Holds(n)
  <2>1. Free \subseteq Nat /\ Free # {}
    BY <1>2, SagefsAssumption DEF Free, Slots, HasSlot
  <2>2. QED BY <1>2, <2>1, LeastWorks DEF SlotFor, Free
<1>3. QED BY <1>1, <1>2

LEMMA FreeRun ==
  ASSUME NEW need, NEW i, RunStarts(need, i) # {}
  PROVE  find_free_run(need, i) \in RunStarts(need, i)
<1>1. RunStarts(need, i) \subseteq Nat
  BY SagefsAssumption DEF RunStarts
<1>2. QED BY <1>1, LeastWorks DEF find_free_run

\* A block of another live file is not in the run find_free_run accepts.
LEMMA RunAvoidsFiles ==
  ASSUME TypeOK, NEW i \in Slots, NEW j \in Live, j # i,
         NEW need \in Nat, NEW s \in RunStarts(need, i), NEW b \in Owned(dir[j])
  PROVE  b < s \/ s + need <= b
<1>1. b \in Used(i)
  BY DEF Used, Live
<1>2. QED BY <1>1 DEF RunStarts

LEMMA EraseTyped ==
  ASSUME TypeOK, NEW e
  PROVE  /\ erase_blocks(disk, e) \in [Blocks -> FileParts \cup {Erased, Directory}]
         /\ \A b \in Blocks : b \notin Owned(e) => erase_blocks(disk, e)[b] = disk[b]
BY DEF TypeOK, erase_blocks

-----------------------------------------------------------------------------
\* What a save leaves when it puts the data at block s: the entry; and either
\* the data, with every other file as it was, or a run over the end of the
\* chip, which reaches the directory.
NewEntry(n, v, t, s) ==
  [name |-> Trunc[n], start |-> s, blocks |-> Parts[v], ftype |-> t, locked |-> FALSE]

SavedAt(n, v, t, i, s) ==
  /\ s \in FirstBlock..(NBlocks - 1) /\ NewEntry(n, v, t, s) \in Entry
  /\ dir' = [dir EXCEPT ![i] = NewEntry(n, v, t, s)] /\ ret' = "ok"
  /\ disk' \in [Blocks -> FileParts \cup {Erased, Directory}]
  /\ Intact' <=> s + Parts[v] <= NBlocks
  /\ Intact' => /\ \A b \in s..(s + Parts[v] - 1) : disk'[b] = Part(v, b - s)
                /\ \A j \in Live : j # i =>
                     \A b \in Owned(dir[j]) : disk'[b] = disk[b]
  /\ \A j \in Live : j # i => Owned(dir[j]) \cap (s..(s + Parts[v])) = {}

LEMMA StoreEffect ==
  ASSUME IInv, Intact, NEW n \in Names, NEW v \in Blobs, NEW t \in FTypes,
         NEW i \in Slots, RunStarts(Parts[v] + 1, i) # {}, Store(n, v, t, i)
  PROVE  SavedAt(n, v, t, i, find_free_run(Parts[v] + 1, i))
<1> DEFINE s == find_free_run(Parts[v] + 1, i)
           e == NewEntry(n, v, t, s)
           cleared == IF dir[i].name # NoName /\ dir[i].start # s
                      THEN erase_blocks(disk, dir[i]) ELSE disk
<1> USE SagefsAssumption
<1>1. /\ s \in RunStarts(Parts[v] + 1, i)
      /\ s \in FirstBlock..(NBlocks - 1)
  BY FreeRun DEF RunStarts
<1>2. Parts[v] \in 0..NBlocks /\ e \in Entry
  BY <1>1 DEF NewEntry, Entry, Blocks
<1>3. TypeOK
  BY DEF IInv
<1>4. /\ dir' = [dir EXCEPT ![i] = e]
      /\ disk' = WriteData(cleared, s, v)
      /\ ret' = "ok"
  BY DEF Store, NewEntry
<1>5. /\ cleared \in [Blocks -> FileParts \cup {Erased, Directory}]
      /\ \A b \in Blocks : b \notin Owned(dir[i]) => cleared[b] = disk[b]
      /\ i \notin Live => cleared = disk
  BY <1>3, EraseTyped DEF TypeOK, Live
<1>6. \A b \in Blocks : PartAt(b, s) \in Blocks
  BY <1>1 DEF PartAt, Blocks
<1>7. disk' \in [Blocks -> FileParts \cup {Erased, Directory}]
  <2>1. \A b \in Blocks : Part(v, PartAt(b, s)) \in FileParts
    BY <1>6 DEF Part, FileParts
  <2>2. QED BY <1>4, <1>5, <2>1 DEF WriteData
<1>8. Intact' => s + Parts[v] <= NBlocks
  <2> SUFFICES ASSUME ~(s + Parts[v] <= NBlocks)
               PROVE  disk'[0] # Directory
    BY DEF Intact, DirBlocks
  <2>1. 0 \in Blocks /\ PartAt(0, s) = NBlocks - s /\ PartAt(0, s) < Parts[v]
    BY <1>1, <1>2 DEF PartAt, Blocks
  <2>2. disk'[0] = Part(v, PartAt(0, s))
    BY <1>4, <2>1 DEF WriteData
  <2>3. disk'[0] \in FileParts
    BY <1>6, <2>1, <2>2 DEF Part, FileParts
  <2>4. QED BY <2>3, BlockValuesAssumption
<1>9. ASSUME s + Parts[v] <= NBlocks, NEW b \in Blocks
      PROVE  disk'[b] = IF b \in s..(s + Parts[v] - 1) THEN Part(v, b - s)
                        ELSE cleared[b]
  <2>1. PartAt(b, s) < Parts[v] <=> b \in s..(s + Parts[v] - 1)
    BY <1>1, <1>2, <1>9 DEF PartAt, Blocks
  <2>2. b \in s..(s + Parts[v] - 1) => PartAt(b, s) = b - s
    BY <1>1, <1>2 DEF PartAt
  <2>3. QED BY <1>4, <2>1, <2>2 DEF WriteData
<1>10. ASSUME NEW j \in Live, j # i
       PROVE  Owned(dir[j]) \cap (s..(s + Parts[v])) = {}
  <2> SUFFICES ASSUME NEW b \in Owned(dir[j]), b \in s..(s + Parts[v])
               PROVE  FALSE
    OBVIOUS
  <2>1. b < s \/ s + (Parts[v] + 1) <= b
    BY <1>1, <1>2, <1>3, <1>10, RunAvoidsFiles
  <2>2. b \in Nat /\ s \in Nat
    BY <1>1 DEF Owned, Blocks
  <2>3. QED BY <1>2, <2>1, <2>2
<1>11. s + Parts[v] <= NBlocks => Intact'
  <2> SUFFICES ASSUME s + Parts[v] <= NBlocks, NEW b \in DirBlocks
               PROVE  disk'[b] = Directory
    BY DEF Intact
  <2>1. b \in Blocks /\ b \in Nat /\ b < FirstBlock /\ disk[b] = Directory
    BY DEF DirBlocks, Blocks, Intact
  <2>2. i \in Live => b \notin Owned(dir[i])
    BY <1>3, <2>1 DEF IInv, FilesInBounds, Owned, TypeOK, Entry, Blocks
  <2>3. cleared[b] = disk[b]
    BY <1>5, <2>1, <2>2
  <2>4. b \notin s..(s + Parts[v] - 1)
    BY <1>1, <2>1
  <2>5. QED BY <1>9, <2>1, <2>3, <2>4
<1>12. ASSUME Intact'
       PROVE  /\ \A b \in s..(s + Parts[v] - 1) : disk'[b] = Part(v, b - s)
              /\ \A j \in Live : j # i =>
                   \A b \in Owned(dir[j]) : disk'[b] = disk[b]
  <2>1. s + Parts[v] <= NBlocks
    BY <1>8, <1>12
  <2>2. \A b \in s..(s + Parts[v] - 1) : b \in Blocks
    BY <1>1, <1>2, <2>1 DEF Blocks
  <2>3. ASSUME NEW j \in Live, j # i, NEW b \in Owned(dir[j])
        PROVE  disk'[b] = disk[b]
    <3>1. b \in Blocks
      BY DEF Owned
    <3>2. b \notin s..(s + Parts[v] - 1)
      BY <1>1, <1>2, <1>10, <2>3
    <3>3. i \in Live => b \notin Owned(dir[i])
      BY <2>3 DEF IInv, NoSharedBlock
    <3>4. cleared[b] = disk[b]
      BY <1>5, <3>1, <3>3
    <3>5. QED BY <1>9, <2>1, <3>1, <3>2, <3>4
  <2>4. QED BY <1>9, <2>1, <2>2, <2>3
<1> HIDE DEF s, e
<1>13. SavedAt(n, v, t, i, s)
  BY <1>1, <1>2, <1>4, <1>7, <1>8, <1>10, <1>11, <1>12 DEF SavedAt, e
<1>14. QED BY <1>13 DEF s

\* Writing an entry and its data keeps the invariant, or wraps and is seen to
\* have destroyed the directory.
LEMMA StoreKeepsIInv ==
  ASSUME IInv, Intact, NEW n \in Names, NEW v \in Blobs, NEW t \in FTypes,
         NEW i \in Slots, RunStarts(Parts[v] + 1, i) # {}, Store(n, v, t, i)
  PROVE  IInv'
<1> USE SagefsAssumption
<1>1. PICK s : SavedAt(n, v, t, i, s)
  BY StoreEffect
<1> DEFINE e == NewEntry(n, v, t, s)
<1>2. /\ s \in FirstBlock..(NBlocks - 1) /\ Parts[v] \in 0..NBlocks /\ e \in Entry
      /\ dir' = [dir EXCEPT ![i] = e] /\ ret' = "ok"
      /\ disk' \in [Blocks -> FileParts \cup {Erased, Directory}]
      /\ \A j \in Live : j # i => Owned(dir[j]) \cap (s..(s + Parts[v])) = {}
  BY <1>1 DEF SavedAt
<1>3. TypeOK
  BY DEF IInv
<1>4. /\ dir'[i] = e /\ e.start = s /\ e.blocks = Parts[v]
      /\ \A j \in Slots : j # i => dir'[j] = dir[j]
  BY <1>2, <1>3 DEF TypeOK, NewEntry
<1>5. TypeOK'
  BY <1>2, <1>3 DEF TypeOK
<1>6. Live' \subseteq Live \cup {i}
  BY <1>4 DEF Live
<1>7. ASSUME Intact'
      PROVE  s + Parts[v] <= NBlocks /\ Owned(e) = s..(s + Parts[v] - 1)
  <2>1. s + Parts[v] <= NBlocks
    BY <1>1, <1>7 DEF SavedAt
  <2>2. QED BY <1>2, <1>4, <2>1 DEF Owned, Blocks
<1> HIDE DEF e
<1>8. FilesInBounds'
  <2> SUFFICES ASSUME Intact', NEW j \in Live'
               PROVE  /\ FirstBlock <= dir'[j].start
                      /\ dir'[j].start + dir'[j].blocks <= NBlocks
    BY DEF FilesInBounds
  <2>1. CASE j = i
    BY <1>2, <1>4, <1>7, <2>1
  <2>2. CASE j # i
    <3>1. j \in Live /\ dir'[j] = dir[j]
      BY <1>4, <1>6, <2>2 DEF Live
    <3>2. QED BY <3>1 DEF IInv, FilesInBounds
  <2>3. QED BY <2>1, <2>2
<1>9. NoSharedBlock'
  <2> SUFFICES ASSUME Intact', NEW j \in Live', NEW k \in Live', j # k
               PROVE  Owned(dir'[j]) \cap Owned(dir'[k]) = {}
    BY DEF NoSharedBlock, Owned
  <2>1. Owned(e) \subseteq s..(s + Parts[v])
    BY <1>2, <1>7
  <2>2. j \in Slots /\ k \in Slots
    BY DEF Live
  <2>3. CASE j # i /\ k # i
    BY <1>4, <1>6, <2>2, <2>3 DEF IInv, NoSharedBlock
  <2>4. CASE j = i
    BY <1>2, <1>4, <1>6, <2>1, <2>2, <2>4
  <2>5. CASE k = i
    BY <1>2, <1>4, <1>6, <2>1, <2>2, <2>5
  <2>6. QED BY <2>3, <2>4, <2>5
<1>10. FileWhole'
  <2> SUFFICES ASSUME Intact', NEW j \in Live'
               PROVE  \E w \in Blobs :
                        /\ Parts[w] = dir'[j].blocks
                        /\ \A b \in Owned(dir'[j]) : disk'[b] = Part(w, b - dir'[j].start)
    BY DEF FileWhole, Owned
  <2>1. CASE j = i
    <3>1. \A b \in s..(s + Parts[v] - 1) : disk'[b] = Part(v, b - s)
      BY <1>1 DEF SavedAt
    <3>2. QED BY <1>4, <1>7, <2>1, <3>1
  <2>2. CASE j # i
    <3>1. j \in Live /\ dir'[j] = dir[j]
      BY <1>4, <1>6, <2>2 DEF Live
    <3>2. PICK w \in Blobs :
            /\ Parts[w] = dir[j].blocks
            /\ \A b \in Owned(dir[j]) : disk[b] = Part(w, b - dir[j].start)
      BY <3>1 DEF IInv, FileWhole
    <3>3. \A b \in Owned(dir[j]) : disk'[b] = disk[b]
      BY <1>1, <2>2, <3>1 DEF SavedAt
    <3>4. QED BY <3>1, <3>2, <3>3
  <2>3. QED BY <2>1, <2>2
<1>11. QED BY <1>5, <1>8, <1>9, <1>10 DEF IInv

\* Delete clears an entry and erases only its own blocks.
LEMMA DeleteKeepsIInv ==
  ASSUME IInv, NEW n \in Names, Delete(n)
  PROVE  IInv'
<1> USE SagefsAssumption
<1>0. Intact /\ TypeOK
  BY DEF Delete, IInv
<1>1. CASE Fail("missing")
  <2>1. UNCHANGED <<dir, disk>> /\ ret' = "missing"
    BY <1>1 DEF Fail
  <2>2. TypeOK'
    BY <1>0, <2>1 DEF TypeOK
  <2>3. QED BY <2>1, <2>2 DEF IInv, FilesInBounds, NoSharedBlock, FileWhole,
                            Intact, Live, Owned
<1>2. ASSUME Holds(n),
             dir' = [dir EXCEPT ![find(n)] = FreeEntry],
             disk' = erase_blocks(disk, dir[find(n)]),
             ret' = "ok"
      PROVE  IInv'
  <2> DEFINE i == find(n)
  <2>1. i \in Slots /\ dir[i].name = n /\ n # NoName
    BY <1>2, FindSlot
  <2>2. /\ dir'[i] = FreeEntry
        /\ \A j \in Slots : j # i => dir'[j] = dir[j]
    BY <1>0, <1>2, <2>1 DEF TypeOK
  <2>3. TypeOK'
    <3>1. FreeEntry \in Entry
      BY DEF Entry, FreeEntry, Blocks
    <3>2. QED BY <1>0, <1>2, <3>1, EraseTyped DEF TypeOK
  <2>4. \A j \in Live' : j \in Live /\ j # i /\ dir'[j] = dir[j]
    BY <2>1, <2>2 DEF Live, FreeEntry
  <2>5. \A j \in Live' : \A b \in Owned(dir[j]) : disk'[b] = disk[b]
    <3> SUFFICES ASSUME NEW j \in Live', NEW b \in Owned(dir[j])
                 PROVE  disk'[b] = disk[b]
      OBVIOUS
    <3>1. i \in Live /\ j \in Live /\ j # i
      BY <2>1, <2>4 DEF Live
    <3>2. b \in Blocks /\ b \notin Owned(dir[i])
      BY <1>0, <3>1 DEF IInv, NoSharedBlock, Owned
    <3>3. QED BY <1>0, <1>2, <3>2, EraseTyped
  <2>6. FilesInBounds'
    BY <1>0, <2>4 DEF IInv, FilesInBounds
  <2>7. NoSharedBlock'
    <3> SUFFICES ASSUME NEW j \in Live', NEW k \in Live', j # k
                 PROVE  Owned(dir'[j]) \cap Owned(dir'[k]) = {}
      BY DEF NoSharedBlock, Owned
    <3>1. QED BY <1>0, <2>4 DEF IInv, NoSharedBlock
  <2>8. FileWhole'
    <3> SUFFICES ASSUME NEW j \in Live'
                 PROVE  \E w \in Blobs :
                          /\ Parts[w] = dir'[j].blocks
                          /\ \A b \in Owned(dir'[j]) :
                               disk'[b] = Part(w, b - dir'[j].start)
      BY DEF FileWhole, Owned
    <3>1. QED BY <1>0, <2>4, <2>5 DEF IInv, FileWhole
  <2>9. QED BY <2>3, <2>6, <2>7, <2>8 DEF IInv
<1>3. QED BY <1>1, <1>2 DEF Delete

\* A step that leaves the chip alone and every live entry on its blocks.
LEMMA SameBlocksKeepsIInv ==
  ASSUME IInv, UNCHANGED disk, TypeOK',
         \A j \in Live' : /\ j \in Live
                          /\ dir'[j].start = dir[j].start
                          /\ dir'[j].blocks = dir[j].blocks
  PROVE  IInv'
<1>1. \A j \in Live' : Owned(dir'[j]) = Owned(dir[j])
  BY DEF Owned
<1>2. Intact' => Intact
  BY DEF Intact
<1>3. FilesInBounds'
  BY <1>2 DEF IInv, FilesInBounds
<1>4. NoSharedBlock'
  <2> SUFFICES ASSUME Intact', NEW j \in Live', NEW k \in Live', j # k
               PROVE  Owned(dir'[j]) \cap Owned(dir'[k]) = {}
    BY DEF NoSharedBlock, Owned
  <2>1. QED BY <1>1, <1>2 DEF IInv, NoSharedBlock
<1>5. FileWhole'
  <2> SUFFICES ASSUME Intact', NEW j \in Live'
               PROVE  \E w \in Blobs :
                        /\ Parts[w] = dir'[j].blocks
                        /\ \A b \in Owned(dir'[j]) :
                             disk'[b] = Part(w, b - dir'[j].start)
    BY DEF FileWhole, Owned
  <2>1. QED BY <1>1, <1>2 DEF IInv, FileWhole
<1>6. QED BY <1>3, <1>4, <1>5 DEF IInv

LEMMA RenameKeepsIInv ==
  ASSUME IInv, NEW old \in Names, NEW new \in Names, Rename(old, new)
  PROVE  IInv'
<1> USE SagefsAssumption
<1>1. TypeOK
  BY DEF IInv
<1>2. CASE Fail("missing") \/ Fail("duplicate")
  <2>1. TypeOK' /\ UNCHANGED <<dir, disk>>
    BY <1>1, <1>2 DEF Fail, TypeOK
  <2>2. QED BY <2>1, SameBlocksKeepsIInv DEF Live
<1>3. ASSUME Holds(old), dir' = [dir EXCEPT ![find(old)].name = Trunc[new]],
             ret' = "ok", UNCHANGED disk
      PROVE  IInv'
  <2> DEFINE i == find(old)
  <2>1. i \in Slots /\ dir[i].name = old /\ i \in Live
    BY <1>3, FindSlot DEF Live
  <2>2. /\ dir'[i] = [dir[i] EXCEPT !.name = Trunc[new]]
        /\ \A j \in Slots : j # i => dir'[j] = dir[j]
    BY <1>1, <1>3, <2>1 DEF TypeOK
  <2>3. TypeOK'
    BY <1>1, <1>3, <2>1, <2>2 DEF TypeOK, Entry
  <2>4. \A j \in Slots : /\ dir'[j].start = dir[j].start
                         /\ dir'[j].blocks = dir[j].blocks
    BY <1>1, <2>1, <2>2 DEF TypeOK, Entry
  <2>5. Live' \subseteq Live
    BY <2>1, <2>2 DEF Live
  <2>6. QED BY <1>3, <2>3, <2>4, <2>5, SameBlocksKeepsIInv DEF Live
<1>4. QED BY <1>2, <1>3 DEF Rename

LEMMA SetLockKeepsIInv ==
  ASSUME IInv, NEW n \in Names, NEW l \in BOOLEAN, SetLock(n, l)
  PROVE  IInv'
<1> USE SagefsAssumption
<1>1. TypeOK
  BY DEF IInv
<1>2. CASE Fail("missing")
  <2>1. TypeOK' /\ UNCHANGED <<dir, disk>>
    BY <1>1, <1>2 DEF Fail, TypeOK
  <2>2. QED BY <2>1, SameBlocksKeepsIInv DEF Live
<1>3. ASSUME Holds(n), dir' = [dir EXCEPT ![find(n)].locked = l],
             ret' = "ok", UNCHANGED disk
      PROVE  IInv'
  <2> DEFINE i == find(n)
  <2>1. i \in Slots
    BY <1>3, FindSlot
  <2>2. /\ dir'[i] = [dir[i] EXCEPT !.locked = l]
        /\ \A j \in Slots : j # i => dir'[j] = dir[j]
    BY <1>1, <1>3, <2>1 DEF TypeOK
  <2>3. TypeOK'
    BY <1>1, <1>3, <2>1, <2>2 DEF TypeOK, Entry
  <2>4. \A j \in Slots : /\ dir'[j].name = dir[j].name
                         /\ dir'[j].start = dir[j].start
                         /\ dir'[j].blocks = dir[j].blocks
    BY <1>1, <2>1, <2>2 DEF TypeOK, Entry
  <2>5. QED BY <1>3, <2>3, <2>4, SameBlocksKeepsIInv DEF Live
<1>4. QED BY <1>2, <1>3 DEF SetLock

LEMMA FormatKeepsIInv ==
  ASSUME Format PROVE IInv'
<1> USE SagefsAssumption
<1>1. FreeEntry \in Entry
  BY DEF Entry, FreeEntry, Blocks
<1>2. TypeOK'
  BY <1>1 DEF Format, TypeOK, Formatted
<1>3. Live' = {}
  BY DEF Format, Live, FreeEntry
<1>4. QED
  BY <1>2, <1>3 DEF IInv, FilesInBounds, NoSharedBlock, FileWhole

-----------------------------------------------------------------------------
LEMMA NextKeepsIInv == IInv /\ [Next]_vars => IInv'
<1> SUFFICES ASSUME IInv, [Next]_vars PROVE IInv'
  OBVIOUS
<1>1. CASE Format
  BY <1>1, FormatKeepsIInv
<1>2. ASSUME NEW n \in Names, NEW v \in Blobs, NEW t \in FTypes, Save(n, v, t)
      PROVE  IInv'
  <2>1. CASE Fail("full")
    <3>1. TypeOK' /\ UNCHANGED <<dir, disk>>
      BY <2>1 DEF Fail, IInv, TypeOK
    <3>2. QED BY <3>1, SameBlocksKeepsIInv DEF Live
  <2>2. CASE ~Fail("full")
    BY <1>2, <2>2, SlotForIsSlot, StoreKeepsIInv DEF Save
  <2>3. QED BY <2>1, <2>2
<1>3. ASSUME NEW n \in Names, Delete(n) PROVE IInv'
  BY <1>3, DeleteKeepsIInv
<1>4. ASSUME NEW old \in Names, NEW new \in Names, Rename(old, new) PROVE IInv'
  BY <1>4, RenameKeepsIInv
<1>5. ASSUME NEW n \in Names, lock_file(n) \/ unlock_file(n) PROVE IInv'
  BY <1>5, SetLockKeepsIInv DEF lock_file, unlock_file
<1>6. CASE UNCHANGED vars
  <2>1. TypeOK' /\ UNCHANGED <<dir, disk>>
    BY <1>6 DEF vars, IInv, TypeOK
  <2>2. QED BY <2>1, SameBlocksKeepsIInv DEF Live
<1>7. QED BY <1>1, <1>2, <1>3, <1>4, <1>5, <1>6 DEF Next

LEMMA Invariance == Spec => []IInv
<1>1. QED BY InitIInv, NextKeepsIInv, PTL DEF Spec

\* Every variable of SAGEFS keeps its type, whatever is called.
THEOREM TypeCorrect == Spec => []TypeOK
<1>1. IInv => TypeOK
  BY DEF IInv
<1>2. QED BY <1>1, Invariance, PTL

\* As long as no file has run over the directory, every file lies on the data
\* blocks of the chip (find_free_run).
THEOREM FilesStayInBounds == Spec => []FilesInBounds
<1>1. IInv => FilesInBounds
  BY DEF IInv
<1>2. QED BY <1>1, Invariance, PTL

\* No two files ever share a block, for any sequence of saves, deletes and
\* renames (find_free_run, _save, delete).
THEOREM NoBlockShared == Spec => []NoSharedBlock
<1>1. IInv => NoSharedBlock
  BY DEF IInv
<1>2. QED BY <1>1, Invariance, PTL

\* Every file holds one whole saved blob: no save, move or delete of another
\* file tears it (_save, erase_blocks).
THEOREM FilesStayWhole == Spec => []FileWhole
<1>1. IInv => FileWhole
  BY DEF IInv
<1>2. QED BY <1>1, Invariance, PTL

-----------------------------------------------------------------------------
\* The refinement of FileStore: each operation on slots and blocks is the one
\* FileStore names on the dictionary of files, or the overrun it allows for.
\* Two facts are added to the invariant: no two slots show one name, so that
\* the slot found is the slot written, and the type byte of a live entry is
\* one a caller gave.
LiveTyped == \A i \in Live : dir[i].ftype \in FTypes

FInv == IInv /\ UniqueNames /\ LiveTyped

-----------------------------------------------------------------------------
\* With names stored as they are given, a name is in one slot at most.
LEMMA InitNames == Init => UniqueNames /\ LiveTyped
<1> SUFFICES ASSUME Init PROVE UniqueNames /\ LiveTyped
  OBVIOUS
<1>1. Live = {}
  BY DEF Init, Live, FreeEntry
<1>. QED
  BY <1>1 DEF UniqueNames, LiveTyped

\* A step that changes slot i only, to a free slot or to a name no other slot
\* shows.
LEMMA OneSlotChanged ==
  ASSUME FInv, NEW i \in Slots,
         \A j \in Slots : j # i => dir'[j] = dir[j],
         \/ dir'[i].name = NoName
         \/ /\ dir'[i].ftype \in FTypes
            /\ \A j \in Slots : j # i => dir[j].name # dir'[i].name
  PROVE  UniqueNames' /\ LiveTyped'
<1>1. \A j \in Live' : j # i => j \in Live /\ dir'[j] = dir[j]
  BY DEF Live
<1>2. i \in Live' => /\ dir'[i].ftype \in FTypes
                     /\ \A j \in Slots : j # i => dir[j].name # dir'[i].name
  BY DEF Live
<1>3. UniqueNames'
  <2> SUFFICES ASSUME NEW j \in Live', NEW k \in Live', dir'[j].name = dir'[k].name
               PROVE  j = k
    BY DEF UniqueNames
  <2>1. CASE j # i /\ k # i
    BY <1>1, <2>1 DEF FInv, UniqueNames
  <2>2. CASE j = i \/ k = i
    <3>1. j \in Slots /\ k \in Slots
      BY DEF Live
    <3>. QED
      BY <1>1, <1>2, <2>2, <3>1
  <2>. QED
    BY <2>1, <2>2
<1>4. LiveTyped'
  BY <1>1, <1>2 DEF FInv, LiveTyped
<1>. QED
  BY <1>3, <1>4

\* SlotFor finds the only slot that may show the name.
LEMMA SlotForOwnsName ==
  ASSUME FInv, NEW n \in Names, HasSlot(n)
  PROVE  /\ SlotFor(n) \in Slots /\ dir[SlotFor(n)].name \in {n, NoName}
         /\ Holds(n) <=> dir[SlotFor(n)].name = n
         /\ \A j \in Slots : j # SlotFor(n) => dir[j].name # n
<1> USE SagefsAssumption
<1>1. CASE Holds(n)
  <2>1. SlotFor(n) \in Slots /\ dir[SlotFor(n)].name = n
    BY <1>1, FindSlot DEF SlotFor
  <2>. QED
    BY <1>1, <2>1 DEF FInv, UniqueNames, Live
<1>2. CASE ~Holds(n)
  <2>1. Free \subseteq Nat /\ Free # {}
    BY <1>2 DEF Free, Slots, HasSlot
  <2>2. SlotFor(n) \in Free
    BY <1>2, <2>1, LeastWorks DEF SlotFor
  <2>. QED
    BY <1>2, <2>2 DEF Free, Holds, Matching
<1>. QED
  BY <1>1, <1>2

-----------------------------------------------------------------------------
\* A file on the chip reads back as one of the saved contents.
LEMMA FileReadsBack ==
  ASSUME FInv, Intact, NEW i \in Live
  PROVE  FileAt(dir[i]) \in FS!File
<1>1. PICK w \in Blobs : /\ Parts[w] = dir[i].blocks
                         /\ \A b \in Owned(dir[i]) : disk[b] = Part(w, b - dir[i].start)
  BY DEF FInv, IInv, FileWhole
<1>2. /\ dir[i].start \in Nat /\ dir[i].blocks \in Nat
      /\ dir[i].start + dir[i].blocks <= NBlocks /\ NBlocks \in Nat
      /\ dir[i].locked \in BOOLEAN
  BY SagefsAssumption DEF FInv, IInv, TypeOK, FilesInBounds, Live, Entry, Blocks
<1>3. ASSUME NEW k \in 0..(dir[i].blocks - 1)
      PROVE  disk[dir[i].start + k] = Part(w, k)
  <2>1. dir[i].start + k \in Owned(dir[i])
    BY <1>2 DEF Owned, Blocks
  <2>2. disk[dir[i].start + k] = Part(w, (dir[i].start + k) - dir[i].start)
    BY <1>1, <2>1
  <2>3. (dir[i].start + k) - dir[i].start = k
    BY <1>2
  <2>. QED
    BY <2>2, <2>3
<1>4. ReadBack(dir[i]) = ContentOf(w)
  BY <1>1, <1>3 DEF ReadBack, ContentOf
<1>5. ReadBack(dir[i]) \in StoredContents
  BY <1>4 DEF StoredContents
<1>6. dir[i].ftype \in FTypes
  BY DEF FInv, LiveTyped
<1>. QED
  BY <1>2, <1>5, <1>6 DEF FileAt, FS!File

\* The dictionary has an entry for a name exactly when a slot shows it.
LEMMA FoundInStore ==
  ASSUME FInv, Intact, NEW n \in Names
  PROVE  /\ StoredFiles[n] = FileNamed(n)
         /\ FS!Exists(StoredFiles, n) <=> Holds(n)
<1>1. StoredFiles[n] = FileNamed(n)
  BY DEF StoredFiles
<1>2. CASE Holds(n)
  <2>1. find(n) \in Live
    BY <1>2, FindSlot, SagefsAssumption DEF Live
  <2>2. FileAt(dir[find(n)]) # Missing
    BY <2>1, FileReadsBack, MissingAssumption
  <2>. QED
    BY <1>1, <1>2, <2>2 DEF FileNamed, FS!Exists
<1>3. CASE ~Holds(n)
  BY <1>1, <1>3 DEF FileNamed, FS!Exists
<1>. QED
  BY <1>1, <1>2, <1>3

\* A name no changed slot shows, before or after, reads as before.
LEMMA OthersKept ==
  ASSUME FInv, Intact, Intact', NEW m \in Names, NEW i \in Slots,
         \A j \in Slots : j # i => dir'[j] = dir[j],
         dir[i].name # m, dir'[i].name # m,
         \A j \in Live : j # i => \A b \in Owned(dir[j]) : disk'[b] = disk[b]
  PROVE  StoredFiles'[m] = StoredFiles[m]
<1>1. Matching(m)' = Matching(m)
  BY DEF Matching
<1>2. (Holds(m)' <=> Holds(m)) /\ find(m)' = find(m)
  BY <1>1 DEF Holds, find
<1>3. StoredFiles'[m] = FileNamed(m)' /\ StoredFiles[m] = FileNamed(m)
  BY DEF StoredFiles
<1>4. CASE Holds(m)
  <2> DEFINE j == find(m)
  <2>1. j \in Live /\ j # i /\ j \in Slots
    BY <1>4, FindSlot, SagefsAssumption DEF Live
  <2>2. dir'[j] = dir[j]
    BY <2>1
  <2>3. /\ dir[j].start \in Nat /\ dir[j].blocks \in Nat
        /\ dir[j].start + dir[j].blocks <= NBlocks /\ NBlocks \in Nat
    BY <2>1, SagefsAssumption DEF FInv, IInv, TypeOK, FilesInBounds, Entry, Blocks
  <2>4. ASSUME NEW k \in 0..(dir[j].blocks - 1)
        PROVE  disk'[dir[j].start + k] = disk[dir[j].start + k]
    <3>1. dir[j].start + k \in Owned(dir[j])
      BY <2>3 DEF Owned, Blocks
    <3>. QED
      BY <2>1, <3>1
  <2>5. FileNamed(m) = FileAt(dir[j])
    BY <1>4 DEF FileNamed
  <2>6. FileNamed(m)' = FileAt(dir[j])'
    BY <1>2, <1>4 DEF FileNamed
  <2> HIDE DEF j
  <2>7. FileAt(dir[j])' = FileAt(dir[j])
    BY <1>2, <2>2, <2>4 DEF FileAt, ReadBack, j
  <2>. QED
    BY <1>3, <2>5, <2>6, <2>7
<1>5. CASE ~Holds(m)
  BY <1>2, <1>3, <1>5 DEF FileNamed
<1>. QED
  BY <1>4, <1>5
\* The slot that shows a name is the file of that name.
LEMMA ThisFile ==
  ASSUME UniqueNames', Intact', NEW i \in Slots, NEW n \in Names, dir'[i].name = n
  PROVE  StoredFiles'[n] = FileAt(dir[i])'
<1> USE SagefsAssumption
<1>1. Matching(n)' \subseteq Nat /\ i \in Matching(n)'
  BY DEF Matching, Slots
<1>2. Least(Matching(n)') \in Matching(n)'
  BY <1>1, LeastWorks
<1>3. Holds(n)' /\ find(n)' \in Matching(n)'
  BY <1>1, <1>2 DEF Holds, find
<1>4. find(n)' = i
  BY <1>1, <1>3 DEF UniqueNames, Live, Matching
<1>5. StoredFiles'[n] = FileNamed(n)'
  BY DEF StoredFiles
<1>. QED
  BY <1>3, <1>4, <1>5 DEF FileNamed

\* A name no slot shows any more is missing.
LEMMA NoFileLeft ==
  ASSUME Intact', NEW n \in Names, \A j \in Slots : dir'[j].name # n
  PROVE  StoredFiles'[n] = Missing
<1>1. ~Holds(n)'
  BY DEF Holds, Matching
<1>. QED
  BY <1>1 DEF StoredFiles, FileNamed

\* Both sides are functions of the names: they are compared name by name.
LEMMA StoreEqual ==
  ASSUME NEW f, NEW g, f = [n \in Names |-> f[n]], g = [n \in Names |-> g[n]],
         \A n \in Names : f[n] = g[n]
  PROVE  f = g
<1>1. [n \in Names |-> f[n]] = [n \in Names |-> g[n]]
  OBVIOUS
<1>. QED
  BY <1>1

\* A refused call is refused in the file store, with the same answer.
LEMMA RefusedCall ==
  ASSUME NEW why, Fail(why)
  PROVE  /\ FS!Refuse(why)
         /\ UNCHANGED <<dir, disk>>
<1>1. UNCHANGED <<dir, disk>> /\ ret' = why
  BY DEF Fail
<1>2. Intact' <=> Intact
  BY <1>1 DEF Intact
<1>3. \A n \in Names : FileNamed(n)' = FileNamed(n)
  BY <1>1 DEF FileNamed, FileAt, ReadBack, Holds, find, Matching
<1>4. StoredFiles' = StoredFiles
  BY <1>2, <1>3 DEF StoredFiles
<1>5. (~Intact)' = ~Intact
  BY <1>2
<1>. QED
  BY <1>1, <1>4, <1>5 DEF FS!Refuse

-----------------------------------------------------------------------------
LEMMA FormatStep ==
  ASSUME Format
  PROVE  FS!Format /\ UniqueNames' /\ LiveTyped'
<1> USE SagefsAssumption
<1>1. Live' = {} /\ ret' = "ok" /\ \A j \in Slots : dir'[j].name = NoName
  BY DEF Format, Live, FreeEntry
<1>2. Intact'
  BY DEF Format, Formatted, Intact, DirBlocks, Blocks
<1>3. \A n \in Names : StoredFiles'[n] = Missing
  BY <1>1, <1>2, NoFileLeft
<1>4. StoredFiles' = FS!NoFiles
  BY <1>3 DEF StoredFiles, FS!NoFiles
<1>5. (~Intact)' = FALSE
  BY <1>2
<1>6. UniqueNames' /\ LiveTyped'
  BY <1>1 DEF UniqueNames, LiveTyped
<1>. QED
  BY <1>1, <1>4, <1>5, <1>6 DEF FS!Format

\* A save is the whole new file under its name and nothing else, or it has run
\* over the directory.
LEMMA SaveStep ==
  ASSUME ShortNames, FInv, IInv',
         NEW n \in Names, NEW v \in Blobs, NEW t \in FTypes, Save(n, v, t)
  PROVE  /\ FS!Save(n, ContentOf(v), t) \/ FS!Overrun
         /\ UniqueNames' /\ LiveTyped'
<1> USE SagefsAssumption
<1>1. Intact /\ ContentOf(v) \in StoredContents
  BY DEF Save, StoredContents
<1>2. CASE Fail("full")
  <2>1. FS!Refuse("full") /\ UNCHANGED <<dir, disk>>
    BY <1>2, RefusedCall
  <2>2. UniqueNames' /\ LiveTyped'
    BY <2>1 DEF FInv, UniqueNames, LiveTyped, Live
  <2>. QED
    BY <1>1, <2>1, <2>2 DEF FS!Save
<1>3. CASE ~Fail("full")
  <2>0. PICK i : i = SlotFor(n)
    OBVIOUS
  <2> DEFINE new == [data |-> ContentOf(v), ftype |-> t, locked |-> FALSE]
  <2>1. HasSlot(n) /\ RunStarts(Parts[v] + 1, i) # {} /\ Store(n, v, t, i)
    BY <1>3, <2>0 DEF Save
  <2>2. /\ i \in Slots /\ dir[i].name \in {n, NoName}
        /\ \A j \in Slots : j # i => dir[j].name # n
    BY <2>0, <2>1, SlotForOwnsName
  <2>3. PICK s : SavedAt(n, v, t, i, s)
    BY <1>1, <2>1, <2>2, StoreEffect DEF FInv
  <2>4. /\ dir'[i] = NewEntry(n, v, t, s) /\ ret' = "ok"
        /\ \A j \in Slots : j # i => dir'[j] = dir[j]
        /\ s \in FirstBlock..(NBlocks - 1)
    BY <2>2, <2>3 DEF SavedAt, FInv, IInv, TypeOK
  <2>5. /\ dir'[i].name = n /\ dir'[i].ftype = t /\ dir'[i].locked = FALSE
        /\ dir'[i].start = s /\ dir'[i].blocks = Parts[v]
    BY <2>4 DEF NewEntry, ShortNames
  <2>6. UniqueNames' /\ LiveTyped'
    BY <2>2, <2>4, <2>5, OneSlotChanged
  <2>7. CASE Intact'
    <3>1. \A m \in Names \ {n} : StoredFiles'[m] = StoredFiles[m]
      <4> SUFFICES ASSUME NEW m \in Names, m # n
                   PROVE  StoredFiles'[m] = StoredFiles[m]
        OBVIOUS
      <4>1. \A j \in Live : j # i => \A b \in Owned(dir[j]) : disk'[b] = disk[b]
        BY <2>3, <2>7 DEF SavedAt
      <4>2. dir[i].name # m /\ dir'[i].name # m
        BY <2>2, <2>5
      <4>. QED
        BY <1>1, <2>2, <2>4, <2>7, <4>1, <4>2, OthersKept
    <3>2. FileAt(dir[i])' = new
      <4>1. \A b \in s..(s + Parts[v] - 1) : disk'[b] = Part(v, b - s)
        BY <2>3, <2>7 DEF SavedAt
      <4>2. ASSUME NEW k \in 0..(Parts[v] - 1) PROVE disk'[s + k] = Part(v, k)
        <5>1. s + k \in s..(s + Parts[v] - 1) /\ (s + k) - s = k
          BY <2>4
        <5>2. disk'[s + k] = Part(v, (s + k) - s)
          BY <4>1, <5>1
        <5>. QED
          BY <5>1, <5>2
      <4>3. ReadBack(dir[i])' = ContentOf(v)
        BY <2>5, <4>2 DEF ReadBack, ContentOf
      <4>. QED
        BY <2>5, <4>3 DEF FileAt
    <3>3. StoredFiles'[n] = new
      BY <2>2, <2>5, <2>6, <2>7, <3>2, ThisFile
    <3>4. StoredFiles' = FS!Put(StoredFiles, n, ContentOf(v), t)
      <4> DEFINE g == FS!Put(StoredFiles, n, ContentOf(v), t)
      <4>1. g = [m \in Names |-> g[m]] /\ StoredFiles' = [m \in Names |-> StoredFiles'[m]]
        BY DEF FS!Put, StoredFiles
      <4>2. \A m \in Names : g[m] = IF m = n THEN new ELSE StoredFiles[m]
        BY DEF FS!Put, StoredFiles
      <4> HIDE DEF g
      <4>3. \A m \in Names : StoredFiles'[m] = g[m]
        BY <3>1, <3>3, <4>2
      <4>. QED
        BY <4>1, <4>3, StoreEqual DEF g
    <3>5. (~Intact)' = ~Intact
      BY <1>1, <2>7
    <3>. QED
      BY <1>1, <2>4, <2>6, <3>4, <3>5 DEF FS!Save, FS!Become
  <2>8. CASE ~Intact'
    <3>1. StoredFiles' = FS!NoFiles
      BY <2>8 DEF StoredFiles, FS!NoFiles
    <3>2. (~Intact)' = TRUE
      BY <2>8
    <3>. QED
      BY <1>1, <2>4, <2>6, <3>1, <3>2 DEF FS!Overrun
  <2>. QED
    BY <2>7, <2>8
<1>. QED
  BY <1>2, <1>3

LEMMA DeleteStep ==
  ASSUME FInv, NEW n \in Names, Delete(n)
  PROVE  FS!Delete(n) /\ UniqueNames' /\ LiveTyped'
<1> USE SagefsAssumption
<1>1. Intact
  BY DEF Delete
<1>2. CASE ~Holds(n) /\ Fail("missing")
  <2>1. FS!Refuse("missing") /\ UNCHANGED <<dir, disk>>
    BY <1>2, RefusedCall
  <2>2. UniqueNames' /\ LiveTyped'
    BY <2>1 DEF FInv, UniqueNames, LiveTyped, Live
  <2>3. ~FS!Exists(StoredFiles, n)
    BY <1>1, <1>2, FoundInStore
  <2>. QED
    BY <1>1, <2>1, <2>2, <2>3 DEF FS!Delete
<1>3. CASE /\ Holds(n)
           /\ dir' = [dir EXCEPT ![find(n)] = FreeEntry]
           /\ disk' = erase_blocks(disk, dir[find(n)])
           /\ ret' = "ok"
  <2>1. PICK i : i = find(n)
    OBVIOUS
  <2>2. i \in Slots /\ dir[i].name = n /\ i \in Live
    BY <1>3, <2>1, FindSlot DEF Live
  <2>3. /\ dir'[i] = FreeEntry /\ dir'[i].name = NoName
        /\ \A j \in Slots : j # i => dir'[j] = dir[j]
    BY <1>3, <2>1, <2>2 DEF FInv, IInv, TypeOK, FreeEntry
  <2>4. UniqueNames' /\ LiveTyped'
    BY <2>2, <2>3, OneSlotChanged
  <2>5. \A j \in Slots : dir'[j].name # n
    BY <2>2, <2>3 DEF FInv, UniqueNames, Live
  <2>6. \A b \in Blocks : b \notin Owned(dir[i]) => disk'[b] = disk[b]
    BY <1>3, <2>1, EraseTyped DEF FInv, IInv
  <2>7. \A j \in Live : j # i => \A b \in Owned(dir[j]) : disk'[b] = disk[b]
    BY <1>1, <2>2, <2>6 DEF FInv, IInv, NoSharedBlock, Owned
  <2>8. Intact'
    <3>1. \A b \in DirBlocks : b \in Blocks /\ b \notin Owned(dir[i])
      BY <1>1, <2>2 DEF DirBlocks, Blocks, FInv, IInv, FilesInBounds, TypeOK, Entry, Owned
    <3>. QED
      BY <1>1, <2>6, <3>1 DEF Intact
  <2>9. \A m \in Names \ {n} : StoredFiles'[m] = StoredFiles[m]
    BY <1>1, <2>2, <2>3, <2>7, <2>8, OthersKept
  <2>10. StoredFiles'[n] = Missing
    BY <2>5, <2>8, NoFileLeft
  <2>11. StoredFiles' = FS!Remove(StoredFiles, n)
    <3> DEFINE g == FS!Remove(StoredFiles, n)
    <3>1. g = [m \in Names |-> g[m]] /\ StoredFiles' = [m \in Names |-> StoredFiles'[m]]
      BY DEF FS!Remove, StoredFiles
    <3>2. \A m \in Names : g[m] = IF m = n THEN Missing ELSE StoredFiles[m]
      BY DEF FS!Remove, StoredFiles
    <3> HIDE DEF g
    <3>3. \A m \in Names : StoredFiles'[m] = g[m]
      BY <2>9, <2>10, <3>2
    <3>. QED
      BY <3>1, <3>3, StoreEqual DEF g
  <2>12. FS!Exists(StoredFiles, n)
    BY <1>1, <1>3, FoundInStore
  <2>13. (~Intact)' = ~Intact
    BY <1>1, <2>8
  <2>. QED
    BY <1>1, <1>3, <2>4, <2>11, <2>12, <2>13 DEF FS!Delete, FS!Become
<1>. QED
  BY <1>2, <1>3 DEF Delete

LEMMA RenameStep ==
  ASSUME ShortNames, FInv, NEW old \in Names, NEW new \in Names, Rename(old, new)
  PROVE  FS!Rename(old, new) /\ UniqueNames' /\ LiveTyped'
<1> USE SagefsAssumption
<1>1. Intact
  BY DEF Rename
<1>2. /\ FS!Exists(StoredFiles, old) <=> Holds(old)
      /\ FS!Exists(StoredFiles, new) <=> Holds(new)
  BY <1>1, FoundInStore
<1>3. CASE ~Holds(old) /\ Fail("missing")
  <2>1. FS!Refuse("missing") /\ UNCHANGED <<dir, disk>>
    BY <1>3, RefusedCall
  <2>2. UniqueNames' /\ LiveTyped'
    BY <2>1 DEF FInv, UniqueNames, LiveTyped, Live
  <2>. QED
    BY <1>1, <1>2, <1>3, <2>1, <2>2 DEF FS!Rename
<1>4. CASE Holds(old) /\ Holds(new) /\ Fail("duplicate")
  <2>1. FS!Refuse("duplicate") /\ UNCHANGED <<dir, disk>>
    BY <1>4, RefusedCall
  <2>2. UniqueNames' /\ LiveTyped'
    BY <2>1 DEF FInv, UniqueNames, LiveTyped, Live
  <2>. QED
    BY <1>1, <1>2, <1>4, <2>1, <2>2 DEF FS!Rename
<1>5. CASE /\ Holds(old) /\ ~Holds(new)
           /\ dir' = [dir EXCEPT ![find(old)].name = Trunc[new]]
           /\ ret' = "ok" /\ UNCHANGED disk
  <2>1. PICK i : i = find(old)
    OBVIOUS
  <2>2. i \in Slots /\ dir[i].name = old /\ i \in Live /\ dir[i] \in Entry
    BY <1>5, <2>1, FindSlot DEF Live, FInv, IInv, TypeOK
  <2>3. /\ dir'[i] = [dir[i] EXCEPT !.name = new]
        /\ \A j \in Slots : j # i => dir'[j] = dir[j]
    BY <1>5, <2>1, <2>2 DEF FInv, IInv, TypeOK, ShortNames
  <2>4. /\ dir'[i].name = new /\ dir'[i].start = dir[i].start
        /\ dir'[i].blocks = dir[i].blocks /\ dir'[i].ftype = dir[i].ftype
        /\ dir'[i].locked = dir[i].locked
    BY <2>2, <2>3 DEF Entry
  <2>5. \A j \in Slots : dir[j].name # new
    BY <1>5 DEF Holds, Matching
  <2>6. UniqueNames' /\ LiveTyped'
    <3>1. dir'[i].ftype \in FTypes
      BY <2>2, <2>4 DEF FInv, LiveTyped
    <3>. QED
      BY <2>2, <2>3, <2>4, <2>5, <3>1, OneSlotChanged
  <2>7. Intact'
    BY <1>1, <1>5 DEF Intact
  <2>8. old # new
    BY <1>5
  <2>9. \A m \in Names \ {old, new} : StoredFiles'[m] = StoredFiles[m]
    <3> SUFFICES ASSUME NEW m \in Names, m # old, m # new
                 PROVE  StoredFiles'[m] = StoredFiles[m]
      OBVIOUS
    <3>1. \A j \in Live : j # i => \A b \in Owned(dir[j]) : disk'[b] = disk[b]
      BY <1>5
    <3>. QED
      BY <1>1, <2>2, <2>3, <2>4, <2>7, <3>1, OthersKept
  <2>10. StoredFiles'[old] = Missing
    <3>1. \A j \in Slots : dir'[j].name # old
      <4>1. \A j \in Slots : j # i => dir[j].name # old
        BY <2>2 DEF FInv, UniqueNames, Live
      <4>. QED
        BY <2>3, <2>4, <2>8, <4>1
    <3>. QED
      BY <2>7, <3>1, NoFileLeft
  <2>11. StoredFiles'[new] = StoredFiles[old]
    <3>1. StoredFiles'[new] = FileAt(dir[i])'
      BY <2>2, <2>4, <2>6, <2>7, ThisFile
    <3>2. StoredFiles[old] = FileAt(dir[i])
      BY <1>1, <1>5, <2>1, FoundInStore DEF FileNamed
    <3>3. FileAt(dir[i])' = FileAt(dir[i])
      <4>1. ReadBack(dir[i])' = ReadBack(dir[i])
        BY <1>5, <2>4 DEF ReadBack
      <4>. QED
        BY <2>4, <4>1 DEF FileAt
    <3>. QED
      BY <3>1, <3>2, <3>3
  <2>12. StoredFiles' = FS!Move(StoredFiles, old, new)
    <3> DEFINE g == FS!Move(StoredFiles, old, new)
    <3>1. g = [m \in Names |-> g[m]] /\ StoredFiles' = [m \in Names |-> StoredFiles'[m]]
      BY DEF FS!Move, StoredFiles
    <3>2. \A m \in Names : g[m] = IF m = old THEN Missing
                                  ELSE IF m = new THEN StoredFiles[old] ELSE StoredFiles[m]
      BY <2>8 DEF FS!Move, StoredFiles
    <3> HIDE DEF g
    <3>3. \A m \in Names : StoredFiles'[m] = g[m]
      BY <2>9, <2>10, <2>11, <3>2
    <3>. QED
      BY <3>1, <3>3, StoreEqual DEF g
  <2>13. (~Intact)' = ~Intact
    BY <1>1, <2>7
  <2>. QED
    BY <1>1, <1>2, <1>5, <2>6, <2>12, <2>13 DEF FS!Rename, FS!Become
<1>. QED
  BY <1>3, <1>4, <1>5 DEF Rename

LEMMA LockStep ==
  ASSUME FInv, NEW n \in Names, NEW l \in BOOLEAN, SetLock(n, l)
  PROVE  FS!SetLock(n, l) /\ UniqueNames' /\ LiveTyped'
<1> USE SagefsAssumption
<1>1. Intact
  BY DEF SetLock
<1>2. FS!Exists(StoredFiles, n) <=> Holds(n)
  BY <1>1, FoundInStore
<1>3. CASE ~Holds(n) /\ Fail("missing")
  <2>1. FS!Refuse("missing") /\ UNCHANGED <<dir, disk>>
    BY <1>3, RefusedCall
  <2>2. UniqueNames' /\ LiveTyped'
    BY <2>1 DEF FInv, UniqueNames, LiveTyped, Live
  <2>. QED
    BY <1>1, <1>2, <1>3, <2>1, <2>2 DEF FS!SetLock
<1>4. CASE /\ Holds(n) /\ dir' = [dir EXCEPT ![find(n)].locked = l]
           /\ ret' = "ok" /\ UNCHANGED disk
  <2>1. PICK i : i = find(n)
    OBVIOUS
  <2>2. i \in Slots /\ dir[i].name = n /\ i \in Live /\ dir[i] \in Entry
    BY <1>4, <2>1, FindSlot DEF Live, FInv, IInv, TypeOK
  <2>3. /\ dir'[i] = [dir[i] EXCEPT !.locked = l]
        /\ \A j \in Slots : j # i => dir'[j] = dir[j]
    BY <1>4, <2>1, <2>2 DEF FInv, IInv, TypeOK
  <2>4. /\ dir'[i].name = n /\ dir'[i].start = dir[i].start
        /\ dir'[i].blocks = dir[i].blocks /\ dir'[i].ftype = dir[i].ftype
        /\ dir'[i].locked = l
    BY <2>2, <2>3 DEF Entry
  <2>5. UniqueNames' /\ LiveTyped'
    <3>1. dir'[i].ftype \in FTypes
      BY <2>2, <2>4 DEF FInv, LiveTyped
    <3>2. \A j \in Slots : j # i => dir[j].name # n
      BY <2>2 DEF FInv, UniqueNames, Live
    <3>3. \A j \in Slots : j # i => dir[j].name # dir'[i].name
      BY <2>4, <3>2
    <3>. QED
      BY <2>2, <2>3, <3>1, <3>3, OneSlotChanged
  <2>6. Intact'
    BY <1>1, <1>4 DEF Intact
  <2>7. \A m \in Names \ {n} : StoredFiles'[m] = StoredFiles[m]
    <3> SUFFICES ASSUME NEW m \in Names, m # n
                 PROVE  StoredFiles'[m] = StoredFiles[m]
      OBVIOUS
    <3>1. \A j \in Live : j # i => \A b \in Owned(dir[j]) : disk'[b] = disk[b]
      BY <1>4
    <3>. QED
      BY <1>1, <2>2, <2>3, <2>4, <2>6, <3>1, OthersKept
  <2>8. StoredFiles'[n] = [StoredFiles[n] EXCEPT !.locked = l]
    <3>1. StoredFiles'[n] = FileAt(dir[i])'
      BY <2>2, <2>4, <2>5, <2>6, ThisFile
    <3>2. StoredFiles[n] = FileAt(dir[i])
      BY <1>1, <1>4, <2>1, FoundInStore DEF FileNamed
    <3>3. FileAt(dir[i])' = [data |-> ReadBack(dir[i]), ftype |-> dir[i].ftype, locked |-> l]
      <4>1. ReadBack(dir[i])' = ReadBack(dir[i])
        BY <1>4, <2>4 DEF ReadBack
      <4>. QED
        BY <2>4, <4>1 DEF FileAt
    <3>4. [FileAt(dir[i]) EXCEPT !.locked = l]
            = [data |-> ReadBack(dir[i]), ftype |-> dir[i].ftype, locked |-> l]
      BY DEF FileAt
    <3>. QED
      BY <3>1, <3>2, <3>3, <3>4
  <2>9. StoredFiles' = FS!WithLock(StoredFiles, n, l)
    <3> DEFINE g == FS!WithLock(StoredFiles, n, l)
    <3>1. g = [m \in Names |-> g[m]] /\ StoredFiles' = [m \in Names |-> StoredFiles'[m]]
      BY DEF FS!WithLock, StoredFiles
    <3>2. \A m \in Names : g[m] = IF m = n THEN [StoredFiles[n] EXCEPT !.locked = l]
                                  ELSE StoredFiles[m]
      BY DEF FS!WithLock, StoredFiles
    <3> HIDE DEF g
    <3>3. \A m \in Names : StoredFiles'[m] = g[m]
      BY <2>7, <2>8, <3>2
    <3>. QED
      BY <3>1, <3>3, StoreEqual DEF g
  <2>10. (~Intact)' = ~Intact
    BY <1>1, <2>6
  <2>. QED
    BY <1>1, <1>2, <1>4, <2>5, <2>9, <2>10 DEF FS!SetLock, FS!Become
<1>. QED
  BY <1>3, <1>4 DEF SetLock

-----------------------------------------------------------------------------
\* One call is one call of the file store.
LEMMA StepOfStore ==
  ASSUME ShortNames, FInv, [Next]_vars
  PROVE  FInv' /\ [FS!Next]_FS!vars
<1>1. IInv'
  BY NextKeepsIInv DEF FInv
<1>2. CASE Format
  BY <1>1, <1>2, FormatStep DEF FInv, FS!Next
<1>3. ASSUME NEW n \in Names, NEW v \in Blobs, NEW t \in FTypes, Save(n, v, t)
      PROVE  FInv' /\ FS!Next
  <2>1. ContentOf(v) \in StoredContents
    BY DEF StoredContents
  <2>2. /\ FS!Save(n, ContentOf(v), t) \/ FS!Overrun
        /\ UniqueNames' /\ LiveTyped'
    BY <1>1, <1>3, SaveStep
  <2>. QED
    BY <1>1, <2>1, <2>2 DEF FInv, FS!Next
<1>4. ASSUME NEW n \in Names, Delete(n)
      PROVE  FInv' /\ FS!Next
  BY <1>1, <1>4, DeleteStep DEF FInv, FS!Next
<1>5. ASSUME NEW old \in Names, NEW new \in Names, Rename(old, new)
      PROVE  FInv' /\ FS!Next
  BY <1>1, <1>5, RenameStep DEF FInv, FS!Next
<1>6. ASSUME NEW n \in Names, NEW l \in BOOLEAN, SetLock(n, l)
      PROVE  FInv' /\ FS!Next
  BY <1>1, <1>6, LockStep DEF FInv, FS!Next
<1>7. ASSUME NEW n \in Names, lock_file(n) \/ unlock_file(n)
      PROVE  FInv' /\ FS!Next
  BY <1>6, <1>7 DEF lock_file, unlock_file
<1>8. CASE UNCHANGED vars
  <2>1. UNCHANGED <<dir, disk, ret>>
    BY <1>8 DEF vars
  <2>2. Intact' <=> Intact
    BY <2>1 DEF Intact
  <2>3. \A n \in Names : FileNamed(n)' = FileNamed(n)
    BY <2>1 DEF FileNamed, FileAt, ReadBack, Holds, find, Matching
  <2>4. UNCHANGED <<StoredFiles, ~Intact, ret>>
    BY <2>1, <2>2, <2>3 DEF StoredFiles
  <2>5. UniqueNames' /\ LiveTyped'
    BY <2>1 DEF FInv, UniqueNames, LiveTyped, Live
  <2>. QED
    BY <1>1, <2>4, <2>5 DEF FInv, FS!vars
<1>. QED
  BY <1>2, <1>3, <1>4, <1>5, <1>7, <1>8 DEF Next

LEMMA StoreStarts == Init => FInv /\ FS!Init
<1> SUFFICES ASSUME Init PROVE FInv /\ FS!Init
  OBVIOUS
<1> USE SagefsAssumption
<1>1. FInv
  BY InitIInv, InitNames DEF FInv
<1>2. Intact
  BY DEF Init, Formatted, Intact, DirBlocks, Blocks
<1>3. \A n \in Names : ~Holds(n)
  BY DEF Init, Holds, Matching, FreeEntry
<1>4. StoredFiles = FS!NoFiles
  BY <1>3 DEF StoredFiles, FileNamed, FS!NoFiles
<1>5. (~Intact) = FALSE
  BY <1>2
<1>. QED
  BY <1>1, <1>4, <1>5 DEF FS!Init, Init

\* With names stored as they are given, no name is ever shown by two slots, so
\* that a save overwrites the file of its name (save_blob, find).
THEOREM NamesStayUnique ==
  ASSUME ShortNames
  PROVE  Spec => []UniqueNames
<1>1. Init => FInv
  BY StoreStarts
<1>2. FInv /\ [Next]_vars => FInv'
  BY StepOfStore
<1>3. FInv => UniqueNames
  BY DEF FInv
<1>. QED
  BY <1>1, <1>2, <1>3, PTL DEF Spec

\* SAGEFS implements the file store: whatever is called, each file reads back
\* as it was last saved, unless a save has run over the directory.
THEOREM ImplementsStore ==
  ASSUME ShortNames
  PROVE  Spec => StoreSpec
<1>1. Init => FInv /\ FS!Init
  BY StoreStarts
<1>2. FInv /\ [Next]_vars => FInv' /\ [FS!Next]_FS!vars
  BY StepOfStore
<1>. QED
  BY <1>1, <1>2, PTL DEF Spec, StoreSpec, FS!Spec
=============================================================================
