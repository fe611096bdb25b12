------------------------- MODULE MCArchitectureTour -------------------------
(***************************************************************************)
(* Constants for model-checking ArchitectureTour: three of the five layers *)
(* are enough to tell "next" from "previous" and from "first", and two of  *)
(* the three regions, since only what contains stages sets them apart.     *)
(***************************************************************************)
EXTENDS ArchitectureTour

ThreeLayers == <<"author", "prism", "adapter">>
=============================================================================
