------------------------ MODULE MCBlockDeviceHandler ------------------------
(***************************************************************************)
(* BlockDeviceHandler for TLC.                                             *)
(***************************************************************************)
EXTENDS BlockDeviceHandler, TLC

\* Requests as the block layer makes them, and every shape of request.
PlainShapes == Kinds \X {"adjacent"}
AllShapes   == Kinds \X Segments

\* Bios differ only in their names.
Symmetry == Permutations(Bio)
=============================================================================
