------------------------------- MODULE MC_Alloc -------------------------------
EXTENDS Alloc

\* 1 KiB blocks and the volumes this driver formats: group 1's metadata is
\* not at its head, so a run of blocks crosses from group 0 into it.
MCMeta == {1, 2, 6, 9}
MCDamage == {{<<"b", 1>>}, {<<"i", 0>>}}
=============================================================================
