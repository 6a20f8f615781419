------------------------------ MODULE MCImages ------------------------------
(***************************************************************************)
(* A reference image in a file, the stencil image that a test draws on, an *)
(* array of pixels of the file's format, and an array that only the file's *)
(* format can be copied to and from.                                       *)
(***************************************************************************)
EXTENDS Images

MCTypes == [ref |-> "png", stencil |-> "vulkan", grey |-> "pixels", depth |-> "pixels"]
MCImage == DOMAIN MCTypes
MCFormats == [ref |-> "r8", stencil |-> "s8", grey |-> "r8", depth |-> "d32"]
MCMaxRefs == [ref |-> 1, stencil |-> 2, grey |-> 1, depth |-> 1]
=============================================================================
