------------------------------ MODULE Terminal ------------------------------
(* What the Apple II build promises whoever is at the other end of its       *)
(* serial line: a banner, then the echo of every key, in the order typed,    *)
(* and nothing else (docs/avr.md, tests of apple2_host_main.c).              *)
EXTENDS Integers, Sequences

CONSTANT Keys
VARIABLES due, out       \* the bytes owed so far, and those sent
vars == <<due, out>>

Banner == <<\h41, \h32, \h0D, \h0A, \h48, \h49, \h0D, \h0A>>           \* A2, HI

(* Letters come back in upper case, either line end as both, and the two     *)
(* keys that erase as the erasure; other control keys say nothing.           *)
Echo(key) ==
  CASE key \in {\h0A, \h0D} -> <<\h0D, \h0A>>
    [] key \in {\h08, \h7F} -> <<\h08, \h20, \h08>>
    [] key \in \h61..\h7A -> <<key - 32>>
    [] key \in (\h20..\h60) \cup (\h7B..\h7E) -> <<key>>
    [] OTHER -> <<>>

Init == due = Banner /\ out = <<>>

Type == (\E key \in Keys : due' = due \o Echo(key)) /\ UNCHANGED out
Say ==
  /\ Len(out) < Len(due)
  /\ out' = SubSeq(due, 1, Len(out) + 1)
  /\ UNCHANGED due

Spec == Init /\ [][Type \/ Say]_vars
=============================================================================
