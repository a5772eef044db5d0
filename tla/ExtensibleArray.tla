-------------------------- MODULE ExtensibleArray --------------------------
(***************************************************************************)
(* Extensible arrays (format/v2.rs), which other programs use to index the *)
(* chunks of datasets with one unlimited dimension.  The first elements    *)
(* are in the index block, then come data blocks that grow: super block s  *)
(* has 2^(s / 2) of them.  The first super blocks exist by their           *)
(* arithmetic only, their data blocks are listed in the index block.       *)
(*                                                                         *)
(* A block of an image is a sequence of cells: an element, an address, a   *)
(* byte of a bit mask or a checksum takes one cell.                        *)
(***************************************************************************)
EXTENDS Naturals, Sequences

CONSTANTS
    IdxBlkElmts,         \* elements in the index block
    DataBlkMinElmts,     \* elements of the smallest data block
    SupBlkMinDataPtrs,   \* data blocks of the smallest super block
    PageElmts,           \* elements of a page of a large data block
    MaxLog2              \* bound: logarithms are taken of numbers below 2^MaxLog2

PowersOfTwo == {2 ^ n : n \in 0 .. MaxLog2}

ASSUME ExtensibleArrayAssumption ==
    /\ IdxBlkElmts \in Nat /\ MaxLog2 \in Nat
    /\ DataBlkMinElmts \in PowersOfTwo
    /\ SupBlkMinDataPtrs \in PowersOfTwo \ {1}
    /\ PageElmts \in PowersOfTwo

Log2(n) == CHOOSE e \in 0 .. MaxLog2 : 2 ^ e <= n /\ n < 2 ^ (e + 1)

NoAddress == 0

(* sblk_info: data blocks, elements of each, what comes before it.         *)
SblkInfo(s) ==
    LET Ndblks(u) == 2 ^ (u \div 2)
        Nelmts(u) == 2 ^ ((u + 1) \div 2) * DataBlkMinElmts
        Before[u \in 0 .. s] ==
            IF u = 0 THEN [elmts |-> 0, dblks |-> 0]
            ELSE [elmts |-> Before[u - 1].elmts + Ndblks(u - 1) * Nelmts(u - 1),
                  dblks |-> Before[u - 1].dblks + Ndblks(u - 1)]
    IN  [ndblks |-> Ndblks(s), dblkNelmts |-> Nelmts(s),
         startIdx |-> Before[s].elmts, startDblk |-> Before[s].dblks]

IblockNsblks == 2 * Log2(SupBlkMinDataPtrs)
IblockNdblkAddrs == 2 * (SupBlkMinDataPtrs - 1)

Paged(nelmts) == nelmts > PageElmts

(* A faulty DblockElement: the checksums of the pages are not counted.     *)
DblockElementUnchecked(cells, nelmts, n) ==
    IF ~Paged(nelmts) THEN cells[n + 1] ELSE cells[1 + n + 1]

(* read_dblock_element: a paged block has a checksum, then its pages, each *)
(* with a checksum.                                                        *)
DblockElement(cells, nelmts, n) ==
    IF ~Paged(nelmts) THEN cells[n + 1]
    ELSE cells[1 + (n \div PageElmts) * (PageElmts + 1) + (n % PageElmts) + 1]

(* The cells of a super block before its addresses: page masks.            *)
MaskCells(info) ==
    IF Paged(info.dblkNelmts)
    THEN info.ndblks * (((info.dblkNelmts \div PageElmts) + 7) \div 8)
    ELSE 0

(* ExtensibleArray::element: NoAddress if its block is not allocated.      *)
Element(image, iblock, idx) ==
    LET at == idx - IdxBlkElmts
        s == Log2(at \div DataBlkMinElmts + 1)
        info == SblkInfo(s)
        within == at - info.startIdx
        ndblk == within \div info.dblkNelmts
        Addrs == IF s < IblockNsblks
                 THEN SubSeq(iblock, IdxBlkElmts + info.startDblk + 1, Len(iblock))
                 ELSE LET sblk == iblock[IdxBlkElmts + IblockNdblkAddrs + s - IblockNsblks + 1]
                      IN  IF sblk = NoAddress THEN [d \in 1 .. info.ndblks |-> NoAddress]
                          ELSE SubSeq(image[sblk].cells, MaskCells(info) + 1, Len(image[sblk].cells))
    IN  IF idx < IdxBlkElmts THEN iblock[idx + 1]
        ELSE IF Addrs[ndblk + 1] = NoAddress THEN NoAddress
        ELSE DblockElement(image[Addrs[ndblk + 1]].cells, info.dblkNelmts,
                           within % info.dblkNelmts)
=============================================================================
