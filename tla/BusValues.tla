----------------------------- MODULE BusValues ------------------------------
(* What the two Apple II buses have in common: memories, bits, addresses.    *)
EXTENDS Integers

Nothing == [i \in {} |-> 0]                \* a memory nothing was written to
At(cells, i) == IF i \in DOMAIN cells THEN cells[i] ELSE 0
Stored(cells, i, v) == [j \in DOMAIN cells \cup {i} |-> IF j = i THEN v ELSE cells[j]]

Byte7(v) == v % 128
High(on) == IF on THEN 128 ELSE 0
Got(v, b) == [v |-> v, bus |-> b]          \* what a read returns, and the bus it leaves

VideoSwitches == \hC050..\hC057
CardSwitches == (\hC300..\hC303) \cup (\hC308..\hC30B)
=============================================================================
