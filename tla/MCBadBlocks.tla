---------------------------- MODULE MCBadBlocks ----------------------------
EXTENDS BadBlocks

\* Die 0 is whole; in each LUN of the other, the last block of the reserve
\* carries the maker's mark.
MCFactoryBad == [d \in Die |-> IF d = 0 THEN {} ELSE {EndOf(l) - 1 : l \in Lun}]

\* Memory that spells a whole die, and one without its last user block.
MCGarbage == {{}, {UserBlocks - 1}}
=============================================================================
