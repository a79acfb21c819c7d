----------------------------- MODULE MCReadData -----------------------------
(* An image with blocks of two bytes: an empty file, files that end inside *)
(* and at the end of a block, and one whose second block is not on disk.   *)
EXTENDS ReadData

Index(seq) == [i \in 0 .. Len(seq) - 1 |-> seq[i + 1]]

MCFileLength == Index(<<0, 3, 4, 3>>)
MCDataBlocks == Index(<<Index(<<0, 0, 0>>), Index(<<3, 1, 0>>),
                        Index(<<2, 0, 0>>), Index(<<1, 9, 0>>)>>)
AllInodes    == 0 .. 4
AllOffsets   == 0 .. 5
AllLengths   == 0 .. UINT - 1
=============================================================================
