--------------------------- MODULE MCGraphWindow ---------------------------
(***************************************************************************)
(* GraphWindow for TLC.                                                    *)
(***************************************************************************)
EXTENDS GraphWindow
=============================================================================
