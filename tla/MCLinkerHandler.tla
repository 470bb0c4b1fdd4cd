--------------------------- MODULE MCLinkerHandler ---------------------------
(* LinkerHandler with a redirect that moves one of two libraries.            *)
EXTENDS LinkerHandler

CONSTANTS p1, p2, r1, r2

MCReloc == (r1 :> (p1 :> p2 @@ p2 :> NoPath)) @@ (r2 :> (p1 :> NoPath @@ p2 :> p1))
MCLinkers == [exports : BOOLEAN, arch64 : BOOLEAN]
=============================================================================
