----------------------------- MODULE RomApple2 -----------------------------
(* The ROM image of the Apple II build, avr/rom_apple2.c: 12 KB from $D000,  *)
(* of which these bytes are not zero.                                        *)
EXTENDS Integers, Sequences, TLC

(* $D000: the boot code, the banner and the line editor *)
LineEditor == <<
  \hA9, \h00, \h8D, \hEB, \hC0, \hA9, \h62, \h8D, \hF4, \h03, \hA9, \hFA, \h8D, \hF5, \h03, \hA9,
  \h41, \h8D, \h80, \hC0, \hA9, \h32, \h8D, \h80, \hC0, \hA9, \h0D, \h8D, \h80, \hC0, \hA9, \h0A,
  \h8D, \h80, \hC0, \hA9, \hC8, \h8D, \h00, \h04, \hA9, \hC9, \h8D, \h01, \h04, \hA9, \h48, \h8D,
  \h80, \hC0, \hA9, \h49, \h8D, \h80, \hC0, \hA9, \h0D, \h8D, \h80, \hC0, \hA9, \h0A, \h8D, \h80,
  \hC0, \hA9, \h02, \h85, \h10, \hA9, \h04, \h85, \h11, \hA9, \h00, \h85, \h13, \hAD, \h10, \hC0,
  \h10, \hFB, \hAD, \h00, \hC0, \h29, \h7F, \hC9, \h0D, \hF0, \h32, \hC9, \h0A, \hF0, \h2E, \hC9,
  \h08, \hF0, \h55, \hC9, \h7F, \hF0, \h51, \hC9, \h20, \h90, \hE2, \h8D, \h80, \hC0, \h09, \h80,
  \h85, \h12, \hA0, \h00, \hA5, \h12, \h91, \h10, \hE6, \h10, \hD0, \h02, \hE6, \h11, \hE6, \h13,
  \hA5, \h13, \hC9, \h28, \hD0, \hC7, \hA9, \h00, \h85, \h13, \h4C, \h4D, \hD0, \hA9, \h0D, \h8D,
  \h80, \hC0, \hA9, \h0A, \h8D, \h80, \hC0, \h38, \hA5, \h10, \hE5, \h13, \h85, \h10, \hA5, \h11,
  \hE9, \h00, \h85, \h11, \h18, \hA5, \h10, \h69, \h28, \h85, \h10, \hA5, \h11, \h69, \h00, \h85,
  \h11, \hA9, \h00, \h85, \h13, \h4C, \h4D, \hD0, \hA5, \h13, \hF0, \h0B, \hC6, \h13, \hC6, \h10,
  \hD0, \h16, \hC6, \h11, \h4C, \hD8, \hD0, \h38, \hA5, \h10, \hE9, \h28, \h85, \h10, \hA5, \h11,
  \hE9, \h00, \h85, \h11, \hA9, \h27, \h85, \h13, \hA9, \hA0, \hA0, \h00, \h91, \h10, \hA9, \h08,
  \h8D, \h80, \hC0, \hA9, \h20, \h8D, \h80, \hC0, \hA9, \h08, \h8D, \h80, \hC0, \h4C, \h4D, \hD0 >>

(* $FA62: the autostart monitor *)
Autostart == <<
  \hA9, \h00, \h8D, \h50, \hC0, \hA9, \h00, \h8D, \h54, \hC0, \hA9, \h00, \h8D, \h52, \hC0, \hA9,
  \h00, \h8D, \h51, \hC0, \hA9, \h00, \h85, \h10, \hA9, \h04, \h85, \h11, \hA2, \h03, \hA0, \h00,
  \hA9, \hA0, \h91, \h10, \hC8, \hD0, \hF9, \hE6, \h10, \hCA, \hD0, \hF2, \hA0, \h00, \hA9, \hA0,
  \h91, \h10, \hC8, \hC0, \hC0, \hD0, \hF7, \hA9, \h41, \h8D, \h80, \hC0, \hA9, \h55, \h8D, \h80,
  \hC0, \hA9, \h54, \h8D, \h80, \hC0, \hA9, \h4F, \h8D, \h80, \hC0, \hA9, \h53, \h8D, \h80, \hC0,
  \hA9, \h54, \h8D, \h80, \hC0, \hA9, \h41, \h8D, \h80, \hC0, \hA9, \h52, \h8D, \h80, \hC0, \hA9,
  \h54, \h8D, \h80, \hC0, \hA9, \h0D, \h8D, \h80, \hC0, \hA9, \h0A, \h8D, \h80, \hC0, \hAD, \h10,
  \hC0, \h10, \hFB, \hAD, \h00, \hC0, \h29, \h7F, \hC9, \h0D, \hF0, \h0E, \hC9, \h0A, \hF0, \h0A,
  \hC9, \h20, \h90, \hEA, \h8D, \h80, \hC0, \h4C, \hD0, \hFA, \hA9, \h0D, \h8D, \h80, \hC0, \hA9,
  \h0A, \h8D, \h80, \hC0, \h4C, \hD0, \hFA >>

(* $FFFA: the vectors of NMI, reset and IRQ *)
Vectors == <<\h00, \hD0, \h00, \hD0, \h00, \hD0>>

APPLE2ROM ==
  [i \in 0..12287 |->
     CASE i < Len(LineEditor) -> LineEditor[i + 1]
       [] i \in \h2A62..(\h2A61 + Len(Autostart)) -> Autostart[i - \h2A61]
       [] i >= \h2FFA -> Vectors[i - \h2FF9]
       [] OTHER -> 0] @@ << >>        \* one table, which TLC evaluates once
=============================================================================
