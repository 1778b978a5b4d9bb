--------------------------- MODULE MCAllocatorShm ---------------------------
(* The allocator on a 64-bit layout: 8-byte words, a 96-byte shared_data   *)
(* whose __null__ byte sits at offset 56, and a 128-byte region that holds *)
(* three or four small blocks.                                               *)
EXTENDS AllocatorShm

MCW == 8
MCHeaderSize == 96
MCNullOffset == 56
MCSegSize == 128
\* Requests of 8 bytes only: 32-byte blocks, so a 64-byte free block is
\* exactly twice a request.
MCRequests8 == {8}
\* Requests of 16 bytes only: 40-byte blocks leave an 8-byte remainder,
\* smaller than a block header, after three allocations.
MCRequests16 == {16}
\* Requests that are multiples of the 24-byte block header, in a region of
\* eight headers: every block and every remainder is a multiple of 24, so
\* no remainder is ever smaller than a header.
MCHeaderMultiples == {24, 48}
MCSegSize192 == 192
=============================================================================
