--------------------------- MODULE MCTestSession ---------------------------
(* Small instances of TestSession.                                         *)
EXTENDS TestSession

CONSTANTS s1, s2
=============================================================================
