------------------------ MODULE MCKernelCoordinator ------------------------
(***************************************************************************)
(* KernelCoordinator for TLC: threads are model values.                    *)
(***************************************************************************)
EXTENDS KernelCoordinator
=============================================================================
