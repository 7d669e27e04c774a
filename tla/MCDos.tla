------------------------------- MODULE MCDos -------------------------------
(* DOS on a volume of two names, texts of at most MaxLines lines, for TLC. *)
EXTENDS Dos

CONSTANTS fa, fb, line, blank, prog, bin

MCNames == {fa, fb}
MCLines == {line, blank}
\* Programs and binaries are opaque here.
MCPrograms == {<<prog>>}
MCBinaries == {<<bin>>}
=============================================================================
