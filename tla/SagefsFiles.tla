----------------------------- MODULE SagefsFiles -----------------------------
(***************************************************************************)
(* SAGEFS seen through its file operations: the blocks and slots of Sagefs *)
(* implement the dictionary of FileStore.  A file's contents are what      *)
(* load_blob reads back from the chip, so the refinement says that every   *)
(* file reads back as it was last saved, after any calls on other files.   *)
(*                                                                         *)
(* It is stated for names of at most 12 characters, which are stored as    *)
(* they are.  A longer name is cut when it is stored and then no longer    *)
(* found: its file cannot be read, and saving it again takes another slot. *)
(***************************************************************************)
EXTENDS Sagefs

CONSTANT Missing

(* What the refinement needs of the names *)
ShortNames == \A n \in Names : Trunc[n] = n

\* load_blob: the blocks from the entry's start, for the size of the entry.
ReadBack(e) == [k \in 0..(e.blocks - 1) |-> disk[e.start + k]]
ContentOf(v) == [k \in 0..(Parts[v] - 1) |-> Part(v, k)]
StoredContents == {ContentOf(v) : v \in Blobs}

FileAt(e) == [data |-> ReadBack(e), ftype |-> e.ftype, locked |-> e.locked]
FileNamed(n) == IF Holds(n) THEN FileAt(dir[find(n)]) ELSE Missing
StoredFiles == [n \in Names |-> IF Intact THEN FileNamed(n) ELSE Missing]

FS == INSTANCE FileStore WITH
        Contents <- StoredContents, files <- StoredFiles, lost <- ~Intact

ASSUME MissingAssumption == Missing \notin FS!File

\* Every behaviour of SAGEFS is one of the file store: files are independent
\* of each other and read back whole (_save, delete, rename_file, lock_file,
\* unlock_file, format, load_blob).
StoreSpec == FS!Spec
=============================================================================
