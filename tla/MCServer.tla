------------------------------ MODULE MCServer ------------------------------
(***************************************************************************)
(* Instances of Server for TLC.                                            *)
(***************************************************************************)
EXTENDS ServerMap, ContentInv, TLC

CONSTANTS b1, k1, d1, d2, d3, u1, p1, p2, p3

Symmetry == Permutations(BlobId) \cup Permutations(Proc)

(* Bodies of different lengths.                                            *)
MCPutBodies == {<<1>>, <<2, 1>>}

MCOneBody == {<<1>>}

MCTwoBodies == {<<1>>, <<2>>}

MCNoParts == [u \in UploadId |-> <<{}>>]

(* A client that has one thing to say about each part.                     *)
MCSteadyParts == [u \in UploadId |-> <<{<<1, 2>>}, {<<2>>}>>]

MCSingleBytes == [u \in UploadId |-> <<{<<1>>}, {<<2>>}>>]

MCOnePart == [u \in UploadId |-> <<{<<1>>}>>]

(* Clients that change their mind about a part.                            *)
MCChangingParts == [u \in UploadId |-> <<{<<1>>, <<2>>}, {<<1>>}>>]

(* All parts are completed, or the first.                                  *)
MCAllParts == [u \in UploadId |-> {MaxParts}]

MCFirstPart == [u \in UploadId |-> {1}]
=============================================================================
