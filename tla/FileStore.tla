------------------------------ MODULE FileStore ------------------------------
(***************************************************************************)
(* What sageapple/storage.sage promises its callers, without blocks or     *)
(* slots: a dictionary of named files.  A save replaces the whole file or  *)
(* is refused and changes nothing; no operation on one file disturbs       *)
(* another.  The one way out is an overrun, a save that ends past the      *)
(* chip: it is reported as a success and the volume is lost.               *)
(***************************************************************************)
EXTENDS FileOps

VARIABLES
  files,  \* the volume
  lost,   \* the directory has been overwritten
  ret     \* what the last call returned

vars == <<files, lost, ret>>

Init == files = NoFiles /\ lost = FALSE /\ ret = "ok"

Refuse(why) == ret' = why /\ UNCHANGED <<files, lost>>
Become(f) == files' = f /\ ret' = "ok" /\ UNCHANGED lost

Format == files' = NoFiles /\ lost' = FALSE /\ ret' = "ok"

Save(n, c, t) == ~lost /\ (Become(Put(files, n, c, t)) \/ Refuse("full"))

Overrun == ~lost /\ files' = NoFiles /\ lost' = TRUE /\ ret' = "ok"

Delete(n) ==
  /\ ~lost
  /\ \/ Exists(files, n) /\ Become(Remove(files, n))
     \/ ~Exists(files, n) /\ Refuse("missing")

Rename(old, new) ==
  /\ ~lost
  /\ \/ Exists(files, old) /\ ~Exists(files, new) /\ Become(Move(files, old, new))
     \/ ~Exists(files, old) /\ Refuse("missing")
     \/ Exists(files, old) /\ Exists(files, new) /\ Refuse("duplicate")

SetLock(n, l) ==
  /\ ~lost
  /\ \/ Exists(files, n) /\ Become(WithLock(files, n, l))
     \/ ~Exists(files, n) /\ Refuse("missing")

Next ==
  \/ Format
  \/ Overrun
  \/ \E n \in Names, c \in Contents, t \in FTypes : Save(n, c, t)
  \/ \E n \in Names : Delete(n)
  \/ \E old, new \in Names : Rename(old, new)
  \/ \E n \in Names, l \in BOOLEAN : SetLock(n, l)

Spec == Init /\ [][Next]_vars
=============================================================================
