------------------------------ MODULE Program -------------------------------
(* What a program may rely on: a processor that nothing interrupts.  Its     *)
(* state is what the program can observe; each step executes the instruction *)
(* at pc.  The autostart request may send it to the autostart entry at any   *)
(* time, with whatever registers and stack it is then left with.             *)
CONSTANTS Exec(_),      \* one instruction, on observable states
          Entered(_),   \* the pc after the first instruction at the entry
          Reset         \* the observable state RESET leaves

VARIABLE seen

Init == seen = Reset
Execute == seen' = Exec(seen)
Autostart == seen'.pc = Entered(seen)
Next == Execute \/ Autostart
Spec == Init /\ [][Next]_seen
=============================================================================
