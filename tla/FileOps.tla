------------------------------- MODULE FileOps -------------------------------
(***************************************************************************)
(* A volume as its callers see it: a function from names to files.  These  *)
(* are the effects the operations of sageapple/storage.sage have on it,    *)
(* used by FileStore, which SAGEFS implements, and by Dos, which runs on   *)
(* top of it.                                                              *)
(***************************************************************************)
CONSTANTS
  Names,     \* file names, as stored
  Contents,  \* what a file may hold
  FTypes,    \* file types
  Missing    \* no file of that name

File == [data : Contents, ftype : FTypes, locked : BOOLEAN]

Volumes == [Names -> File \cup {Missing}]
NoFiles == [n \in Names |-> Missing]

Exists(f, n) == f[n] # Missing
IsLocked(f, n) == Exists(f, n) /\ f[n].locked
HasType(f, n, t) == Exists(f, n) /\ f[n].ftype = t

\* A save replaces the file of that name, lock and type included.
Put(f, n, c, t) == [f EXCEPT ![n] = [data |-> c, ftype |-> t, locked |-> FALSE]]
Remove(f, n) == [f EXCEPT ![n] = Missing]
Move(f, old, new) == [f EXCEPT ![new] = f[old], ![old] = Missing]
WithLock(f, n, l) == [f EXCEPT ![n].locked = l]
=============================================================================
