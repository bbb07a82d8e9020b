------------------------------- MODULE MCBoot -------------------------------
(* A machine of 64 pages of 1024 bytes with tables of eight entries, and   *)
(* one call of paging_map more than the table has room for.                *)
EXTENDS Boot

KernelPage(n) == 49152 + n * 1024
MCText     == KernelPage(2) + 256
MCStack    == KernelPage(3) + 1000
MCGdt      == KernelPage(3) + 16
MCIdt      == KernelPage(3) + 64
MCRequests == {<<63 * 1024, 18>>, <<5 * 1024 + 17, 2>>}
MCVectors  == {0, 13, 33, 47}

=============================================================================
