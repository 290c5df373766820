------------------------------- MODULE MC_Gate -------------------------------
(* Healthy volumes as mke2fs makes them, and what damage can leave in a field. *)
EXTENDS Gate

Base ==
  [magic |-> TRUE, log_bs |-> 0, lo |-> 1125, hi |-> 0, inodes |-> 80,
   inode_size |-> 128, fdb |-> 1, bpg |-> 256, ipg |-> 16, first_ino |-> 11,
   journal_inum |-> 8, reserved_gdt |-> 4, flex |-> 4, rev |-> 1, desc |-> 32,
   has_journal |-> TRUE, incompat |-> {"extent", "filetype"},
   ro |-> {"metadata_csum"}, csum |-> TRUE, free |-> 25]

Dirty == [Base EXCEPT !.incompat = @ \cup {"needs_recovery"}]

Large ==
  [Base EXCEPT !.log_bs = 2, !.lo = 4096, !.inodes = 64, !.inode_size = 256,
     !.fdb = 0, !.bpg = 32768, !.ipg = 64, !.journal_inum = 0,
     !.reserved_gdt = 1024, !.desc = 64, !.has_journal = FALSE,
     !.incompat = {"extent", "64bit"}, !.free = 5]

Old ==
  [Base EXCEPT !.lo = 8192, !.inodes = 64, !.bpg = 8192, !.ipg = 64, !.rev = 0,
     !.desc = 0, !.journal_inum = 0, !.reserved_gdt = 0, !.flex = 0,
     !.has_journal = FALSE, !.incompat = {}, !.ro = {}, !.free = 5]

Clustered ==
  [Large EXCEPT !.bpg = 524288, !.ro = @ \cup {"bigalloc"}]

\* Thirty-two groups, whose descriptors fill a block; with one more block lwext4 counts another.
Small ==
  [Base EXCEPT !.lo = 256, !.inodes = 256, !.bpg = 8, !.ipg = 8, !.flex = 0, !.free = 160]

MCVolumes ==
  {[sb |-> Base, size |-> 1125, log |-> NoSb],
   [sb |-> Dirty, size |-> 1130, log |-> Dirty],
   [sb |-> Large, size |-> 16384, log |-> NoSb],
   [sb |-> Old, size |-> 8192, log |-> NoSb],
   [sb |-> Clustered, size |-> 16384, log |-> NoSb],
   [sb |-> Small, size |-> 257, log |-> NoSb]}

MCValues ==
  [magic |-> {FALSE}, log_bs |-> {0, 1, 2, 7}, lo |-> {0, 1, 257, 1000, 8193},
   hi |-> {1}, inodes |-> {0, 8, 72, 88, Word - 1}, inode_size |-> {0, 64, 192, 256, 2048, 54915},
   fdb |-> {0, 1, 2}, bpg |-> {0, 4, 12, 128, 8192, 8200}, ipg |-> {0, 4, 12, 32, 8200},
   first_ino |-> {0, 10}, journal_inum |-> {0, 7, 81}, reserved_gdt |-> {256, 257, 65535},
   flex |-> {31, 32}, rev |-> {0, 1}, desc |-> {0, 16, 33, 64, 128, 2048},
   has_journal |-> {FALSE, TRUE}, free |-> {0, 9000},
   incompat |-> {"64bit", "meta_bg", "unknown_incompat", "needs_recovery"},
   ro |-> {"metadata_csum", "quota", "bigalloc", "unknown_ro_compat"}]
=============================================================================
