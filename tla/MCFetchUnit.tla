---------------------------- MODULE MCFetchUnit ----------------------------
(***************************************************************************)
(* A cache of one set, two ways and lines of two rows, before a memory of  *)
(* two pages.  A row holds two instructions, so that the shortcut for the  *)
(* same row is taken; one target lies in the middle of a row and one at    *)
(* the start of the second row of a line.                                  *)
(***************************************************************************)
EXTENDS FetchUnit

MCTargets == {1, 6}
=============================================================================
