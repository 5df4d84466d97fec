------------------------------ MODULE MCDownload ------------------------------
(***************************************************************************)
(* Instances of Download for TLC.                                          *)
(***************************************************************************)
EXTENDS Download, TLC

CONSTANTS blkA, blkB, blkC

ThreeBlocks == {blkA, blkB, blkC}

\* Three uploads, of three chunks, one chunk and half a chunk; the first two begin
\* with the same block.
ThreeUploads == { <<blkA, blkB, blkC, blkA, blkB>>, <<blkA, blkC>>, <<blkB>> }

\* Nothing, the beginning of one upload, a stale file longer than the second upload,
\* and a prefix of the first that takes three chunks to hash.
FourLocals == { NoFile, <<blkA>>, <<blkA, blkB, blkB>>, <<blkA, blkB, blkC, blkA, blkB>> }
=============================================================================
