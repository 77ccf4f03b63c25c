----------------------------- MODULE MCListing -----------------------------
(* Instances of Listing for TLC: the constants are all given by the .cfg   *)
(* files, and names are ordered, so that there is no symmetry.             *)
EXTENDS Listing
=============================================================================
