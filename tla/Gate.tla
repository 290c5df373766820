-------------------------------- MODULE Gate --------------------------------
(***************************************************************************)
(* The gate of the bridge (ext4b_probe) and what stands behind it.         *)
(*                                                                         *)
(* A superblock is read off the medium twice: once by hand, by the gate,   *)
(* which decides whether the numbers in it are possible and the features   *)
(* in it are known, and once by lwext4, which computes every address of    *)
(* the mounted volume from it.  The gate is worth what the two readings    *)
(* have in common.  A third reading follows a replay, because the log may  *)
(* hold a superblock of its own.                                           *)
(*                                                                         *)
(* The machine starts from a healthy volume, damages its superblock, the   *)
(* image of it in the log or one group descriptor a few times, and mounts  *)
(* what is left.  Fields keep the meaning and the units of the format,     *)
(* feature words are sets of names, a checksum is whether it matches, and  *)
(* the word of the machine is Word instead of 2^32.                        *)
(*                                                                         *)
(* Windows are the superblocks that the gate lets through although lwext4  *)
(* reads them otherwise:                                                   *)
(*   "phantom"  1 KiB blocks and a last group that holds just the block    *)
(*              that first_data_block shifts out of group 0                *)
(*   "high"     a high half of the block count without 64BIT               *)
(*   "desc"     a descriptor size from 128 up to the block size            *)
(*   "rev0"     revision 0 and a first inode below 11                      *)
(*   "zero"     a journal feature and no journal inode                     *)
(*   "reshaped" an image in the log whose block size, journal or           *)
(*              descriptor size is not the one the mount went ahead with   *)
(*   "unproven" an image in the log without blocks per group: recovery     *)
(*              walks the groups before anything has looked at the image   *)
(***************************************************************************)
EXTENDS Integers, FiniteSets, FiniteSetsExt

CONSTANTS
  Volumes,      \* healthy volumes: [sb, size, log]
  Values,       \* for every field, the values that damage can leave in it
  MaxDamage,    \* bound on the fields damaged in one behaviour
  Word,         \* stands for 2^32
  NoSb,         \* no image of the superblock in the log; nothing mounted
  Windows

(* The fields of a superblock that are numbers with a bound to keep, the   *)
(* total of free blocks, which nothing computes an address from, apart.    *)
Numbers == {"log_bs", "lo", "hi", "inodes", "inode_size", "fdb", "bpg", "ipg",
            "first_ino", "journal_inum", "reserved_gdt", "flex", "rev", "desc"}
Fields == Numbers \cup {"magic", "has_journal", "incompat", "ro", "csum", "free"}

IsSuperblock(s) == DOMAIN s = Fields /\ \A f \in Numbers : s[f] \in Nat

ASSUME WordAssumption == Word \in Nat \ {0}

ASSUME ValuesAssumption ==
  /\ DOMAIN Values \subseteq Fields
  /\ \A f \in Numbers \cap DOMAIN Values : Values[f] \subseteq Nat

VARIABLES
  medium,       \* the superblock on the medium
  size,         \* the device, in KiB
  log,          \* the superblock that a replay writes, or NoSb
  impossible,   \* groups whose descriptor has more free blocks than blocks
  damaged,      \* fields damaged so far
  pc,           \* where ext4b_mount is; "idle" outside it, "done" behind it
  fs,           \* NoSb, or the mounted volume
  walk,         \* the audit: the next group and what it has found
  last          \* what the last mount answered, and about what

vars == <<medium, size, log, impossible, damaged, pc, fs, walk, last>>

-----------------------------------------------------------------------------
(* The policy table.  What is not in it is refused, or read-only.          *)

Incompat == [supported |-> {"filetype", "needs_recovery", "extent", "64bit",
                            "mmp", "flex_bg", "metadata_csum_seed"},
             refused   |-> {"compression", "journal_dev", "meta_bg", "ea_inode",
                            "large_dir", "inline_data", "encrypt", "casefold"}]

RoCompat == [supported  |-> {"sparse_super", "large_file", "huge_file",
                             "uninit_bg", "dir_nlink", "extra_isize",
                             "metadata_csum"},
             downgraded |-> {"quota", "project", "verity"},
             refused    |-> {"bigalloc"}]

(* The lists that lwext4 was built with, bits to ignore included.          *)
CONFIG_SUPPORTED_FINCOM ==
  {"filetype", "meta_bg", "extent", "flex_bg", "64bit"}
    \cup {"needs_recovery", "mmp", "metadata_csum_seed"}

CONFIG_SUPPORTED_FRO_COM ==
  {"sparse_super", "metadata_csum", "large_file", "uninit_bg", "dir_nlink",
   "extra_isize", "huge_file"}

-----------------------------------------------------------------------------
(* The first reading: ext4b_probe.                                         *)

BlockSize(log_bs) == 1024 * 2 ^ log_bs
PowersOfTwo == {2 ^ k : k \in 0 .. 16}

BlockCount(s) == s.lo + (IF "64bit" \in s.incompat THEN s.hi * Word ELSE 0)

(* Compared by division: the product of the two may not fit.               *)
FitsDevice(s) ==
  LET max_blocks == (size * 1024) \div BlockSize(s.log_bs)
  IN BlockCount(s) # 0 /\ BlockCount(s) <= max_blocks

\* Mutant: revision 0 has no such field, so it is not looked at.
InodeSizePossible_Revision(s) ==
  s.rev # 0 => /\ s.inode_size >= 128 /\ s.inode_size <= BlockSize(s.log_bs)
               /\ s.inode_size \in PowersOfTwo

InodeSizePossible(s) ==
  /\ s.rev = 0 => s.inode_size = 128
  /\ s.inode_size >= 128 /\ s.inode_size <= BlockSize(s.log_bs)
  /\ s.inode_size \in PowersOfTwo

\* Mutant: the bound of a bitmap is off by one.
GroupShapePossible_Strict(s) ==
  LET bs == BlockSize(s.log_bs) IN
  /\ s.bpg >= 8 /\ s.bpg < 8 * bs /\ s.bpg % 8 = 0
  /\ s.ipg >= 1 /\ s.ipg <= 8 * bs /\ s.ipg % 8 = 0
  /\ s.ipg <= s.inodes
  /\ s.fdb = (IF bs = 1024 THEN 1 ELSE 0)
  /\ BlockCount(s) > s.fdb

GroupShapePossible(s) ==
  LET bs == BlockSize(s.log_bs) IN
  /\ s.bpg >= 8 /\ s.bpg <= 8 * bs /\ s.bpg % 8 = 0
  /\ s.ipg >= 1 /\ s.ipg <= 8 * bs /\ s.ipg % 8 = 0
  /\ s.ipg <= s.inodes
  /\ s.fdb = (IF bs = 1024 THEN 1 ELSE 0)
  /\ BlockCount(s) > s.fdb

NumbersPossible(s) ==
  /\ s.rev # 0 => s.first_ino >= 11
  /\ s.journal_inum <= s.inodes
  /\ s.flex <= 31
  /\ s.reserved_gdt <= BlockSize(s.log_bs) \div 4

\* Mutant: any size in range will do.
DescSizePossible_Any(s) ==
  IF s.desc = 0 THEN "64bit" \notin s.incompat
  ELSE s.desc >= 32 /\ s.desc <= BlockSize(s.log_bs)

DescSizePossible(s) ==
  IF s.desc = 0 THEN "64bit" \notin s.incompat
  ELSE /\ s.desc >= 32 /\ s.desc <= BlockSize(s.log_bs)
       /\ s.desc \in PowersOfTwo

GateGroups(s) == (BlockCount(s) - s.fdb + s.bpg - 1) \div s.bpg

\* Mutant: only too few inodes are refused.
GroupsPossible_Enough(s) ==
  /\ GateGroups(s) # 0 /\ GateGroups(s) < Word
  /\ s.ipg * GateGroups(s) <= s.inodes

GroupsPossible(s) ==
  /\ GateGroups(s) # 0 /\ GateGroups(s) < Word
  /\ s.ipg * GateGroups(s) = s.inodes

Geometry(s) ==
  /\ InodeSizePossible(s)
  /\ GroupShapePossible(s)
  /\ NumbersPossible(s)
  /\ DescSizePossible(s)
  /\ GroupsPossible(s)

\* Mutant: the checksum is left to lwext4.
ChecksumMatches_Later(s) == s.csum \in BOOLEAN

ChecksumMatches(s) == "metadata_csum" \in s.ro => s.csum

(* In the order of the code: a damaged superblock is told apart from an    *)
(* unsupported one before its feature bits are believed.                   *)
ext4b_probe(s) ==
  IF ~ s.magic THEN "not_ext"
  ELSE IF s.log_bs > 6 THEN "unsupported"
  ELSE IF ~ FitsDevice(s) THEN "unsupported"
  ELSE IF s.ro \cap RoCompat.refused # {} THEN "unsupported"
  ELSE IF ~ Geometry(s) THEN "damaged"
  ELSE IF ~ ChecksumMatches(s) THEN "damaged"
  ELSE IF ~ (s.incompat \subseteq Incompat.supported) THEN "unsupported"
  ELSE IF ~ (s.ro \subseteq RoCompat.supported) THEN "read_only"
  ELSE "usable"

-----------------------------------------------------------------------------
(* The second reading: lwext4.                                             *)

ext4_sb_get_blocks_cnt(s) == s.hi * Word + s.lo
ext4_sb_get_block_size(s) == BlockSize(IF s.log_bs > 6 THEN 6 ELSE s.log_bs)
ext4_sb_get_desc_size(s)  == IF s.desc < 32 THEN 32 ELSE s.desc

ext4_sb_verify_csum(s) == "metadata_csum" \in s.ro => s.csum

ext4_sb_check(s) ==
  /\ s.magic
  /\ s.inodes # 0 /\ ext4_sb_get_blocks_cnt(s) # 0
  /\ s.bpg # 0 /\ s.ipg # 0
  /\ s.inode_size >= 128
  /\ s.first_ino >= 11
  /\ ext4_sb_get_desc_size(s) >= 32 /\ ext4_sb_get_desc_size(s) <= 64
  /\ ext4_sb_verify_csum(s)

ext4_fs_check_features(s) ==
  IF s.rev = 0 THEN "rw"
  ELSE IF ~ (s.incompat \subseteq CONFIG_SUPPORTED_FINCOM) THEN "no"
  ELSE IF ~ (s.ro \subseteq CONFIG_SUPPORTED_FRO_COM) THEN "ro"
  ELSE "rw"

ext4_block_group_cnt(s) ==
  LET n == ext4_sb_get_blocks_cnt(s)
  IN (n \div s.bpg + (IF n % s.bpg # 0 THEN 1 ELSE 0)) % Word

ext4_blocks_in_group_cnt(s, g) ==
  LET n == ext4_block_group_cnt(s)
  IN IF g < n - 1 THEN s.bpg
     ELSE (ext4_sb_get_blocks_cnt(s) - (n - 1) * s.bpg) % Word

ext4_inodes_in_group_cnt(s, g) ==
  LET n == ext4_block_group_cnt(s)
  IN IF g < n - 1 THEN s.ipg ELSE (s.inodes - (n - 1) * s.ipg) % Word

(* Where the descriptor of group g is read from.  Without META_BG, which   *)
(* the gate refuses, the table is in one piece behind the superblock.      *)
ext4_fs_get_descriptor_block(s, g, dsc_cnt) == s.fdb + g \div dsc_cnt + 1

DescriptorAt(s, g) ==
  LET dsc_size == ext4_sb_get_desc_size(s)
      dsc_cnt  == ext4_sb_get_block_size(s) \div dsc_size
  IN [block  |-> ext4_fs_get_descriptor_block(s, g, dsc_cnt),
      offset |-> (g % dsc_cnt) * dsc_size]

(* Where inode n is: its group and its place in a block of the table.      *)
InodeAt(s, n) ==
  [group  |-> (n - 1) \div s.ipg,
   offset |-> (((n - 1) % s.ipg) * s.inode_size) % ext4_sb_get_block_size(s)]

-----------------------------------------------------------------------------
(* The medium.                                                             *)

FreePerGroup == 5
JournalIno == 8
NoWalk == [group |-> 0, sum |-> 0, bad |-> FALSE, report |-> "none"]

Init ==
  /\ \E v \in Volumes :
       medium = v.sb /\ size = v.size /\ log = v.log
  /\ impossible = {} /\ damaged = 0
  /\ pc = "idle" /\ fs = NoSb /\ walk = NoWalk
  /\ last = [verdict |-> "none", errno |-> "EOK", damaged |-> 0, logless |-> FALSE]

(* What is left of field f: a value of the field, or for a feature word    *)
(* one bit flipped.                                                        *)
Hit(s, f) ==
  IF f \in {"incompat", "ro"}
  THEN {[s EXCEPT ![f] = IF b \in s[f] THEN s[f] \ {b} ELSE s[f] \cup {b}]
          : b \in Values[f]}
  ELSE {[s EXCEPT ![f] = v] : v \in Values[f]}

(* The superblocks the two readings disagree on, each kept in only when    *)
(* its window is listed.                                                   *)
Agreed(s) ==
  /\ "high" \in Windows \/ s.hi = 0 \/ "64bit" \in s.incompat
  /\ "desc" \in Windows \/ s.desc <= 64
  /\ "rev0" \in Windows \/ s.rev # 0 \/ s.first_ino >= 11
  /\ "zero" \in Windows \/ ~ s.has_journal \/ s.journal_inum # 0
  /\ "phantom" \notin Windows /\ s.bpg # 0 /\ s.fdb = 1 =>
       ext4_sb_get_blocks_cnt(s) % s.bpg # 1

(* And the images that a log may hold of a volume whose superblock is s.   *)
Image(s, image) ==
  /\ Agreed(image)
  /\ \/ "reshaped" \in Windows
     \/ /\ image.log_bs = s.log_bs \/ image.log_bs > 6
        /\ image.has_journal = s.has_journal
        /\ image.desc = s.desc
  /\ "unproven" \in Windows \/ image.bpg # 0

(* A superblock as the format has it and mke2fs writes it, over            *)
(* descriptors that each count FreePerGroup free blocks; with bigalloc the *)
(* numbers of the groups are not in blocks.                                *)
Healthy(s) ==
  LET bs     == 1024 * 2 ^ s.log_bs
      blocks == s.lo + s.hi * Word - s.fdb
      full   == blocks \div s.bpg
      groups == full + (IF blocks % s.bpg = 0 THEN 0 ELSE 1)
  IN /\ "metadata_csum" \in s.ro => s.csum
     /\ "bigalloc" \notin s.ro =>
          /\ s.log_bs <= 6 /\ s.fdb = (IF s.log_bs = 0 THEN 1 ELSE 0)
          /\ s.hi = 0 \/ "64bit" \in s.incompat
          /\ s.inode_size \in PowersOfTwo \cap 128 .. bs /\ (s.rev = 0 => s.inode_size = 128)
          /\ s.bpg \in 8 .. 8 * bs /\ s.bpg % 8 = 0
          /\ s.ipg \in 8 .. 8 * bs /\ s.ipg % 8 = 0
          /\ blocks > 0 /\ groups < Word /\ s.inodes = s.ipg * groups
          /\ s.first_ino >= 11 /\ s.journal_inum <= s.inodes
          /\ s.flex <= 31 /\ 4 * s.reserved_gdt <= bs
          /\ s.desc \in (IF "64bit" \in s.incompat THEN {64} ELSE {0, 32, 64})
          /\ s.free = FreePerGroup * groups
          /\ \A g \in 0 .. groups - 1 : FreePerGroup <= ext4_blocks_in_group_cnt(s, g)

ASSUME VolumesAssumption ==
  \A v \in Volumes :
    /\ IsSuperblock(v.sb) /\ Agreed(v.sb) /\ Healthy(v.sb)
    /\ v.log # NoSb => IsSuperblock(v.log) /\ Image(v.sb, v.log) /\ Healthy(v.log)

Damage(f) ==
  /\ pc = "idle" /\ damaged < MaxDamage
  /\ \E s \in Hit(medium, f), stamped \in BOOLEAN :
       /\ Agreed(s) /\ (log # NoSb => Image(s, log))
       /\ medium' = [s EXCEPT !.csum = stamped]
  /\ damaged' = damaged + 1
  /\ UNCHANGED <<size, log, impossible, pc, fs, walk, last>>

DamageLog(f) ==
  /\ pc = "idle" /\ damaged < MaxDamage /\ log # NoSb
  /\ \E s \in Hit(log, f) :
       /\ Image(medium, s)
       /\ log' = [s EXCEPT !.csum = FALSE]
  /\ damaged' = damaged + 1
  /\ UNCHANGED <<medium, size, impossible, pc, fs, walk, last>>

DamageDescriptor(g) ==
  /\ pc = "idle" /\ damaged < MaxDamage /\ g \notin impossible
  /\ impossible' = impossible \cup {g}
  /\ damaged' = damaged + 1
  /\ UNCHANGED <<medium, size, log, pc, fs, walk, last>>

-----------------------------------------------------------------------------
(* The mount.                                                              *)

(* The superblock asks for a replay and names no log to take it from.      *)
Logless(s) == "needs_recovery" \in s.incompat /\ ~ s.has_journal

(* An answer of ext4b_mount, with the volume that it is about.             *)
Answer(errno, verdict) ==
  [verdict |-> verdict, errno |-> errno, damaged |-> damaged,
   logless |-> Logless(medium)]

\* Mutant: a mount that fails is not unwound.
Refuse_Attached(errno, verdict) ==
  /\ pc' = "idle" /\ walk' = NoWalk /\ UNCHANGED fs
  /\ last' = Answer(errno, verdict)

(* The errno with which ext4b_mount gives up, and the volume it leaves.    *)
Refuse(errno, verdict) ==
  /\ pc' = "idle" /\ fs' = NoSb /\ walk' = NoWalk
  /\ last' = Answer(errno, verdict)

\* Mutant: a downgrade is left to lwext4.
GateErrno_Downgrade(verdict, read_only) ==
  IF verdict \in {"not_ext", "unsupported", "damaged"} THEN "ENOTSUP" ELSE "EOK"

GateErrno(verdict, read_only) ==
  CASE verdict \in {"not_ext", "unsupported", "damaged"} -> "ENOTSUP"
    [] verdict = "read_only" /\ ~ read_only              -> "EROFS"
    [] OTHER                                             -> "EOK"

(* ext4_fs_init reads the superblock again and checks it its own way; the  *)
(* cache is then set up for the blocks that it names.                      *)
Attached(read_only) ==
  [sb |-> medium, bsize |-> ext4_sb_get_block_size(medium),
   read_only |-> read_only \/ ext4_fs_check_features(medium) = "ro",
   dev_ro |-> read_only, has_journal |-> medium.has_journal, attached |-> FALSE]

ext4_fs_init(s) ==
  IF ext4_sb_check(s) /\ ext4_fs_check_features(s) # "no" THEN "EOK" ELSE "ENOTSUP"

ext4b_mount(read_only) ==
  /\ pc = "idle"
  /\ LET verdict == ext4b_probe(medium)
         errno   == IF GateErrno(verdict, read_only) # "EOK"
                    THEN GateErrno(verdict, read_only)
                    ELSE ext4_fs_init(medium)
     IN IF errno # "EOK" THEN Refuse(errno, verdict)
        ELSE /\ fs' = Attached(read_only)
             /\ pc' = IF read_only THEN "walk"
                      ELSE IF "needs_recovery" \in medium.incompat THEN "recover"
                      ELSE "journal"
             /\ last' = Answer("EOK", verdict)
             /\ walk' = NoWalk
  /\ UNCHANGED <<medium, size, log, impossible, damaged>>

(* A superblock that lwext4 writes carries a matching checksum.            *)
Stamped(s) == [s EXCEPT !.csum = TRUE]

(* One descriptor, and what is in its place when the table ends before it. *)
TableEnd(s) ==
  LET dsc_cnt == ext4_sb_get_block_size(s) \div ext4_sb_get_desc_size(s)
  IN s.fdb + (GateGroups(s) + dsc_cnt - 1) \div dsc_cnt

InTable(s, g, bsize) ==
  LET at == DescriptorAt(s, g)
  IN /\ at.block <= TableEnd(s)
     /\ at.offset % 4 = 0
     /\ at.offset + ext4_sb_get_desc_size(s) <= bsize

(* Every descriptor counts the same number of free blocks, except the      *)
(* impossible ones.                                                        *)
Wrong(s, g, bsize) == g \in impossible \/ ~ InTable(s, g, bsize)

FreeIn(s, g, bsize) ==
  IF Wrong(s, g, bsize) THEN ext4_blocks_in_group_cnt(s, g) + 1 ELSE FreePerGroup

SumOver(s, groups, bsize) == MapThenSumSet(LAMBDA g : FreeIn(s, g, bsize), groups)

SumOfDescriptors(s, bsize) ==
  LET n == ext4_block_group_cnt(s)
      odd == {g \in 0 .. n - 1 : Wrong(s, g, bsize)}
  IN FreePerGroup * (n - Cardinality(odd)) + SumOver(s, odd, bsize)

(* The volume as replay leaves it: what the log holds is what it is, the   *)
(* flag that asked for the replay is cleared, and in memory the total of   *)
(* free blocks is taken from the descriptors again.                        *)
Replayed == IF log = NoSb THEN fs.sb ELSE log

Cleared(s) == Stamped([s EXCEPT !.incompat = @ \ {"needs_recovery"}])
Recovered(s) == [Cleared(s) EXCEPT !.free = SumOfDescriptors(s, fs.bsize)]

(* All that recovery itself asks of the superblock that came out of it.    *)
Replayable(s) == s.magic /\ s.log_bs <= 6

(* jbd_get_fs: the inode named is the journal.                             *)
JournalFound(s) == s.has_journal /\ s.journal_inum = JournalIno

ext4_recover ==
  /\ pc = "recover"
  /\ CASE ~ JournalFound(fs.sb) ->
            /\ medium' = Stamped(fs.sb) /\ UNCHANGED log
            /\ Refuse(IF fs.sb.has_journal THEN "EIO" ELSE "ENOTSUP", last.verdict)
       [] JournalFound(fs.sb) /\ ~ Replayable(Replayed) ->
            /\ medium' = Stamped(Replayed) /\ UNCHANGED log
            /\ Refuse("EIO", last.verdict)
       [] JournalFound(fs.sb) /\ Replayable(Replayed) /\ Replayed.bpg = 0 ->
            pc' = "trapped" /\ UNCHANGED <<medium, log, fs, walk, last>>
       [] OTHER ->
            /\ medium' = Cleared(Replayed) /\ log' = NoSb
            /\ fs' = [fs EXCEPT !.sb = Recovered(Replayed)]
            /\ pc' = "reprobe" /\ UNCHANGED <<walk, last>>
  /\ UNCHANGED <<size, impossible, damaged>>

(* The third reading.  What it refuses, the unwinding writes back once     *)
(* more, with the total that recovery has counted.                         *)
Reprobe ==
  /\ pc = "reprobe"
  /\ LET after == ext4b_probe(medium)
     IN CASE after \in {"not_ext", "unsupported", "damaged"} ->
               medium' = Stamped(fs.sb) /\ Refuse("EIO", after)
          [] after = "read_only" ->
               medium' = Stamped(fs.sb) /\ Refuse("EROFS", after)
          [] OTHER -> pc' = "journal" /\ UNCHANGED <<medium, fs, walk, last>>
  /\ UNCHANGED <<size, log, impossible, damaged>>

\* Mutant: a journal that needed no replay is not attached.
ext4_journal_start_Clean ==
  /\ pc = "journal"
  /\ pc' = "walk"
  /\ UNCHANGED <<medium, size, log, impossible, damaged, fs, walk, last>>

(* The decision is the first probe's, the attaching lwext4's.  From here   *)
(* on a crash leaves a log that may hold the superblock of this session.   *)
ext4_journal_start ==
  /\ pc = "journal"
  /\ LET s == Stamped([fs.sb EXCEPT !.incompat = @ \cup {"needs_recovery"}])
     IN CASE fs.read_only \/ ~ fs.has_journal \/ ~ fs.sb.has_journal ->
               pc' = "walk" /\ UNCHANGED <<fs, medium, log, walk, last>>
          [] ~ fs.read_only /\ fs.has_journal /\ JournalFound(fs.sb) ->
               /\ fs' = [fs EXCEPT !.sb = s, !.attached = TRUE]
               /\ medium' = s /\ log' \in {NoSb, s}
               /\ pc' = "walk" /\ UNCHANGED <<walk, last>>
          [] OTHER ->
               /\ medium' = Stamped(fs.sb) /\ UNCHANGED log
               /\ Refuse("EIO", last.verdict)
  /\ UNCHANGED <<size, impossible, damaged>>

bridge_read_group_info(g) == FreeIn(fs.sb, g, fs.bsize)

\* Mutant: the verdict goes by the sum.
Report_Sum(w) ==
  IF w.sum > ext4_sb_get_blocks_cnt(fs.sb) THEN "descriptors"
  ELSE IF fs.sb.free = w.sum /\ fs.sb.free <= ext4_sb_get_blocks_cnt(fs.sb) THEN "agrees"
  ELSE "total"

(* The audit at the end of every mount.  Per group and not just in total:  *)
(* an impossible descriptor hides in a sum that is possible.               *)
Report(w) ==
  IF w.bad \/ w.sum > ext4_sb_get_blocks_cnt(fs.sb) THEN "descriptors"
  ELSE IF fs.sb.free = w.sum /\ fs.sb.free <= ext4_sb_get_blocks_cnt(fs.sb) THEN "agrees"
  ELSE "total"

bridge_audit_free_accounting ==
  /\ pc = "walk"
  /\ IF walk.group < ext4_block_group_cnt(fs.sb)
     THEN LET free == bridge_read_group_info(walk.group)
          IN /\ walk' = [walk EXCEPT !.group = @ + 1, !.sum = @ + free,
                           !.bad = @ \/ free > ext4_blocks_in_group_cnt(fs.sb, walk.group)]
             /\ UNCHANGED pc
     ELSE walk' = [walk EXCEPT !.report = Report(walk)] /\ pc' = "done"
  /\ UNCHANGED <<medium, size, log, impossible, damaged, fs, last>>

(* Leaving: the journal is stopped and the superblock written back.        *)
ext4_umount ==
  /\ pc = "done"
  /\ medium' = IF fs.read_only THEN medium
               ELSE IF fs.attached THEN Cleared(fs.sb) ELSE Stamped(fs.sb)
  /\ log' = IF fs.attached THEN NoSb ELSE log
  /\ pc' = "idle" /\ fs' = NoSb /\ walk' = NoWalk
  /\ UNCHANGED <<size, impossible, damaged, last>>

(* A crash during the audit leaves what one after it does.                 *)
Crash ==
  /\ pc \in {"recover", "reprobe", "journal", "done"}
  /\ pc' = "idle" /\ fs' = NoSb /\ walk' = NoWalk
  /\ UNCHANGED <<medium, size, log, impossible, damaged, last>>

Next ==
  \/ \E f \in DOMAIN Values : Damage(f) \/ DamageLog(f)
  \/ \E g \in 0 .. 3 : DamageDescriptor(g)
  \/ \E read_only \in BOOLEAN : ext4b_mount(read_only)
  \/ ext4_recover
  \/ Reprobe
  \/ ext4_journal_start
  \/ bridge_audit_free_accounting
  \/ ext4_umount
  \/ Crash

Spec == Init /\ [][Next]_vars

-----------------------------------------------------------------------------
(* Properties.                                                             *)

(* A superblock keeps its fields and its numbers, a mount never comes to   *)
(* the division that traps, and one that fails leaves nothing mounted.     *)
TypeOK ==
  /\ IsSuperblock(medium)
  /\ pc \in {"idle", "recover", "reprobe", "journal", "walk", "done"}
  /\ pc = "idle" => fs = NoSb

(* The volume is mounted and the audit, the allocator and every reader of  *)
(* an inode compute addresses from its superblock.                         *)
Live == pc \in {"walk", "done"}

(* Every descriptor that the audit or a reference to a group reads is one  *)
(* of the descriptor table: aligned, inside its block and in front of the  *)
(* end of the table (bridge_read_group_info, ext4_fs_get_block_group_ref). *)
DescriptorsInTable ==
  Live => \A g \in 0 .. ext4_block_group_cnt(fs.sb) - 1 :
            InTable(fs.sb, g, fs.bsize)

(* The bitmaps of a group are one block each, and no scan runs past one:   *)
(* the sizes that lwext4 works out for a group, for the last one by a      *)
(* subtraction, are sizes that a block of bits holds.                      *)
BitmapsFit ==
  Live => \A g \in 0 .. ext4_block_group_cnt(fs.sb) - 1 :
            /\ ext4_inodes_in_group_cnt(fs.sb, g) <= 8 * fs.bsize
            /\ ext4_blocks_in_group_cnt(fs.sb, g) <= 8 * fs.bsize

(* Every inode up to the count of the superblock is in a group that        *)
(* exists, and lies within the buffer that the cache has for its block;    *)
(* the journal's, which is read before the mount is done, is one of them.  *)
InodesAddressed ==
  /\ pc \in {"recover", "journal"} /\ fs.sb.has_journal =>
       fs.sb.journal_inum \in 1 .. fs.sb.inodes
  /\ Live => \A n \in 1 .. fs.sb.inodes :
       /\ InodeAt(fs.sb, n).group < ext4_block_group_cnt(fs.sb)
       /\ InodeAt(fs.sb, n).offset + fs.sb.inode_size <= fs.bsize

(* What the probe calls usable, the checks behind the gate do not refuse   *)
(* as unsupported.  One volume is an exception, and the only one: a        *)
(* superblock that asks for a replay without naming a journal, of which    *)
(* the gate reads neither the flag nor the lack as a fault, and on which   *)
(* __ext4_recover gives up with the ENOTSUP that it starts from.           *)
VerdictHonest ==
  last.verdict = "usable" /\ last.errno = "ENOTSUP" => last.logless

(* No feature outside the allow-list is ever written under, whether the    *)
(* superblock came from the medium or out of the log, and the bridge and   *)
(* lwext4 agree on whether the mount may write.                            *)
WritableOnlyKnown ==
  Live => /\ fs.read_only = fs.dev_ro
          /\ fs.sb.incompat \subseteq Incompat.supported
          /\ ~ fs.read_only => fs.sb.ro \subseteq RoCompat.supported

(* A healthy volume is never called damaged, and its descriptors are never *)
(* reported as impossible: the sentence "e2fsck is the fix" is for volumes *)
(* that need one.                                                          *)
HealthyNotDamaged ==
  /\ last.damaged = 0 => last.verdict # "damaged"
  /\ damaged = 0 => walk.report \in {"none", "agrees"}

(* The audit names what is wrong: descriptors when one of them has more    *)
(* free blocks than blocks, the total when only that is off.               *)
AuditTrue ==
  pc = "done" =>
    LET groups == 0 .. ext4_block_group_cnt(fs.sb) - 1
        broken == \E g \in groups : g \in impossible
                     \/ FreePerGroup > ext4_blocks_in_group_cnt(fs.sb, g)
    IN /\ (walk.report = "descriptors") <=> broken
       /\ (walk.report = "agrees") =>
            fs.sb.free = FreePerGroup * ext4_block_group_cnt(fs.sb)

(* A mount that may write has its journal attached when the volume has     *)
(* one, and works with buffers of the size of the volume's blocks, also    *)
(* when a replay has put another superblock in the place of the first.     *)
MountsWhatItChecked ==
  Live => /\ fs.bsize = ext4_sb_get_block_size(fs.sb)
          /\ ~ fs.read_only /\ fs.has_journal => fs.attached
          /\ fs.attached => "needs_recovery" \in medium.incompat

(* Every address that is computed from a superblock that passed the gate   *)
(* lies in its table, bitmap or block (ext4b_probe against ext4_fs.c).     *)
AddressesFit == DescriptorsInTable /\ BitmapsFit /\ InodesAddressed

(* What the probe and the audit say of a volume is true of it              *)
(* (ext4b_probe, bridge_audit_free_accounting).                            *)
VerdictsTrue == VerdictHonest /\ HealthyNotDamaged /\ AuditTrue

(* A mount writes only to what the gate has allowed, also after a replay   *)
(* (ext4b_mount).                                                          *)
MountAllowed == TypeOK /\ WritableOnlyKnown /\ MountsWhatItChecked
=============================================================================
