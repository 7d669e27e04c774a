----------------------------- MODULE MCConsole ------------------------------
(* A key of every kind the line editor tells apart *)
EXTENDS Console
KeyKinds == {\h61, \h5F, \h0A, \h0D, \h08, \h7F, \h1B}
=============================================================================
