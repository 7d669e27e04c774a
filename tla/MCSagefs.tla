------------------------------ MODULE MCSagefs ------------------------------
(* SAGEFS on a chip of a few blocks with short names, for TLC. *)
EXTENDS SagefsFiles, TLC

CONSTANTS fa, fb, empty, small, large

MCNames == {fa, fb}
MCTrunc == [n \in MCNames |-> n]
MCBlobs == {empty, small, large}
MCParts == empty :> 0 @@ small :> 1 @@ large :> 2

(* These names are stored as they are. *)
ASSUME MCNamesAreShort == ShortNames
=============================================================================
