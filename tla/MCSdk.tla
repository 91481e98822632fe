------------------------------- MODULE MCSdk --------------------------------
(* SdkUpload for TLC: two parts by two workers and three parts by one      *)
(* that reads ahead, the last part short or full, over bytes that tell     *)
(* offsets and orders apart.                                               *)
EXTENDS SdkInv

MCPoly == {2, 3, 7}

MCSources ==
  {[bytes |-> <<{0}, {7}, 0 .. 7, {1}, {2, 5}>>, partSize |-> 3, concurrency |-> 2],
   [bytes |-> <<{0}, {7}, {1, 2}>>, partSize |-> 1, concurrency |-> 1]}
=============================================================================
