------------------------------ MODULE MCListing ------------------------------
(***************************************************************************)
(* Instances of Listing for TLC: code points of one and of two bytes, keys *)
(* that are prefixes of each other, pages of one and two keys.      *)
(***************************************************************************)
EXTENDS Listing

MCKeys == {<<97>>, <<97, 98>>, <<98>>, <<233>>, <<233, 97>>}

MCPrefixes == {<<>>, <<97>>, <<233>>}

MCLimits == {0, 1, 3, Absent}
=============================================================================
