------------------------------ MODULE MCBuses -------------------------------
(* Guests that use the keyboard, with a video switch; the language card; the *)
(* video memory, to its edges, and the speaker; the video switches.          *)
EXTENDS Buses
Keyboard == {\hC000, \hC010, \hC057}
Card == CardSwitches \cup {\hD000, \hE000, \hE0FF, \hF800}
Memory == {\h03FF, \h0400, \h0BFF, \h0C00, \h2000, \h5FFF, \h6000, \hC030}
Neighbours == { {\hC300, \hC303, \hD000, \hD001} }      \* two cells of one bank
Guests == {Keyboard, Card, Memory, \hC050..\hC053, \hC054..\hC057}
=============================================================================
