---------------------------- MODULE MCBootstrap ----------------------------
(***************************************************************************)
(* Instance of Bootstrap for TLC: keys of two bytes, with leading zeros,   *)
(* small and large bytes, digits and letters in their text.                *)
(***************************************************************************)
EXTENDS Bootstrap

FourKeys == <<<<0, 10>>, <<255, 9>>, <<16, 0>>, <<160, 171>>>>

=============================================================================
