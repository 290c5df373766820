------------------------------- MODULE Alloc -------------------------------
(***************************************************************************)
(* Space: block and inode bitmaps, the counts the group descriptors and    *)
(* the superblock keep beside them, groups that mkfs left to be set up on  *)
(* first use (ext4_balloc.c, ext4_ialloc.c, ext4_fs.c), and the block-     *)
(* mapped files of ext2 and ext3, whose indirect blocks are allocated and  *)
(* freed one by one.  Extent-mapped files appear here only as sets of      *)
(* blocks: the tree is Extents.tla.                                        *)
(*                                                                         *)
(* One operation of the bridge is one action.  A failure that is alone in  *)
(* its transaction is rolled back to the last commit; one that shares its  *)
(* transaction with finished operations stays as far as it got (txn_finish *)
(* in ext4_bridge.c).  The superblock is held in memory, outside both.     *)
(***************************************************************************)
EXTENDS Integers, Sequences, FiniteSets, FiniteSetsExt, SequencesExt, TLC

CONSTANTS
  First,        \* s_first_data_block
  PerGroup,     \* s_blocks_per_group
  BitmapBits,   \* the bits of a bitmap block, 8 * block size
  Total,        \* s_blocks_count: the volume ends before this block
  InodesPer,    \* s_inodes_per_group
  Taken,        \* the inodes in use when the volume is mounted, the root directory's first
  Meta,         \* superblock copies, descriptors, bitmaps and inode tables
  Lazy,         \* the groups mkfs leaves uninitialised
  Damage,       \* sets of bitmaps, <<"b" or "i", group>>, that may come to fail their checksum
  Direct,       \* block pointers in an inode
  PerBlock,     \* block pointers in an indirect block
  MaxSize,      \* bound on a file's size, in blocks
  Sizes,        \* the sizes truncate is asked for
  MaxCalls,     \* bound on the operations between mount and the last crash
  Windows       \* cases in which the code is known to go wrong, kept in

(***************************************************************************)
(*   "abort"    an operation that fails alone has changed the superblock   *)
(*              in memory, which no abort puts back                        *)
(*   "halffree" an operation that fails in a batch leaves a pointer to a   *)
(*              block it has already freed                                 *)
(***************************************************************************)
ASSUME GeometryAssumption ==
  /\ {First, PerGroup, BitmapBits, Total, InodesPer, Direct, PerBlock, MaxSize, MaxCalls} \subseteq Nat
  /\ First < Total /\ 0 < PerGroup /\ PerGroup <= BitmapBits
  /\ 0 < InodesPer /\ 1 < PerBlock
  /\ Sizes \subseteq 0 .. MaxSize
  /\ Meta \subseteq First .. Total - 1
  /\ Windows \subseteq {"abort", "halffree"}

VARIABLES
  vol,     \* the metadata as the running transaction sees it, and the superblock in memory
  base,    \* the metadata as of the last commit
  ops,     \* operations finished in the running transaction
  last,    \* fs->last_inode_bg_id
  bad,     \* the bitmaps that fail their checksum
  calls

vars == <<vol, base, ops, last, bad, calls>>

-----------------------------------------------------------------------------
(* Geometry.                                                               *)

ext4_block_group_cnt == (Total + PerGroup - 1) \div PerGroup
Groups == 0 .. ext4_block_group_cnt - 1
GroupOf(b) == (b - First) \div PerGroup
Idx(b) == (b - First) % PerGroup
Addr(g, i) == First + g * PerGroup + i

\* Mutant: one block too many in every group.
ext4_blocks_in_group_cnt_More(g) ==
  IF g < ext4_block_group_cnt - 1 THEN PerGroup + 1 ELSE Total - (ext4_block_group_cnt - 1) * PerGroup

\* The last group is counted from block 0, not from first_data_block.
ext4_blocks_in_group_cnt(g) ==
  IF g < ext4_block_group_cnt - 1 THEN PerGroup ELSE Total - (ext4_block_group_cnt - 1) * PerGroup

\* The blocks a group really has.
Held(g) == {i \in 0 .. PerGroup - 1 : Addr(g, i) < Total}

GroupOfInode(n) == (n - 1) \div InodesPer
Inodes == 1 .. InodesPer * ext4_block_group_cnt
Blocks == First .. Total - 1

Limit(l) == Direct + (IF l >= 1 THEN PerBlock ELSE 0) + (IF l >= 2 THEN PerBlock * PerBlock ELSE 0)
                   + (IF l >= 3 THEN PerBlock * PerBlock * PerBlock ELSE 0)
PerLevel(l) == PerBlock ^ l
Levels(i) == {l \in 1 .. 3 : i < Limit(l)}
LevelOf(i) == Min(Levels(i))
\* The slot of file block i in its indirect block at level k.
Slot(i, k) == ((i - Limit(LevelOf(i) - 1)) \div PerLevel(k - 1)) % PerBlock

-----------------------------------------------------------------------------
(* Group references.                                                       *)

\* The group's own metadata, and the bits past its end.
ext4_fs_init_block_bitmap(g) ==
  {Idx(b) : b \in {m \in Meta : GroupOf(m) = g}} \cup
  {i \in 0 .. BitmapBits - 1 : i >= Cardinality(Held(g))}

\* No inode of the group is in use.
ext4_fs_init_inode_bitmap == {}

ext4_fs_get_block_group_ref(v, g) ==
  [v EXCEPT !.bits[g] = IF g \in v.buninit THEN ext4_fs_init_block_bitmap(g) ELSE @,
            !.buninit = @ \ {g},
            !.ibits[g] = IF g \in v.iuninit THEN ext4_fs_init_inode_bitmap ELSE @,
            !.iuninit = @ \ {g}]

-----------------------------------------------------------------------------
(* ext4_balloc.c, ext4_ialloc.c.  A result carries the volume it leaves.   *)

\* A bitmap is used only if it verifies.
ext4_balloc_verify_bitmap_csum(g) == <<"b", g>> \notin bad
ext4_ialloc_verify_bitmap_csum(g) == <<"i", g>> \notin bad

Done(v) == [v |-> v, rc |-> "OK", b |-> 0]
Fail(v, rc) == [v |-> v, rc |-> rc, b |-> 0]

\* Go on with what a call left, unless it failed.
Then(r, Op(_)) == IF r.rc # "OK" THEN r ELSE Op(r)
\* A search that has asked for another group too often.
Searched(r) == IF r.rc = "NEXT" THEN Fail(r.v, "ENOSPC") ELSE r

\* Mutant: i_blocks is not kept up.
Take_NoCount(v, f, g, i) ==
  [v |-> [v EXCEPT !.bits[g] = @ \cup {i}, !.gfree[g] = @ - 1, !.sbfree = @ - 1],
   rc |-> "OK", b |-> Addr(g, i)]

Take(v, f, g, i) ==
  [v |-> [v EXCEPT !.bits[g] = @ \cup {i}, !.gfree[g] = @ - 1, !.sbfree = @ - 1, !.file[f].cnt = @ + 1],
   rc |-> "OK", b |-> Addr(g, i)]

\* The first clear bit of group g from index i on; "NEXT" asks for another group.
TryGroup(v, f, g, i) ==
  LET w == ext4_fs_get_block_group_ref(v, g)
      clear == (i .. ext4_blocks_in_group_cnt(g) - 1) \ w.bits[g]
  IN IF w.gfree[g] = 0 THEN Fail(w, "NEXT")
     ELSE IF ~ext4_balloc_verify_bitmap_csum(g) THEN Fail(w, "EIO")
     ELSE IF clear = {} THEN Fail(w, "NEXT")
     ELSE Take(w, f, g, Min(clear))

\* Mutant: the head of the goal's own group is never tried.
ext4_balloc_alloc_block_NoWrap(v, f, wanted) ==
  LET goal == IF wanted \in Blocks THEN wanted ELSE First
      n == ext4_block_group_cnt
      Try[k \in 0 .. n - 1] ==
        IF k = 0 THEN TryGroup(v, f, GroupOf(goal), Idx(goal))
        ELSE LET p == Try[k - 1]
             IN IF p.rc # "NEXT" THEN p ELSE TryGroup(p.v, f, (GroupOf(goal) + k) % n, 0)
  IN Searched(Try[n - 1])

\* The goal's group from the goal on, then every group from its start, the
\* goal's own last.
ext4_balloc_alloc_block(v, f, wanted) ==
  LET goal == IF wanted \in Blocks THEN wanted ELSE First
      n == ext4_block_group_cnt
      Try[k \in 0 .. n] ==
        IF k = 0 THEN TryGroup(v, f, GroupOf(goal), Idx(goal))
        ELSE LET p == Try[k - 1]
             IN IF p.rc # "NEXT" THEN p ELSE TryGroup(p.v, f, (GroupOf(goal) + k) % n, 0)
  IN Searched(Try[n])

\* Mutant: the superblock is not credited.
ext4_balloc_free_block_NoTotal(v, f, b) ==
  LET g == GroupOf(b)
      w == ext4_fs_get_block_group_ref(v, g)
  IN IF ~ext4_balloc_verify_bitmap_csum(g) THEN Fail(w, "EIO")
     ELSE Done([w EXCEPT !.bits[g] = @ \ {Idx(b)}, !.gfree[g] = @ + 1, !.file[f].cnt = @ - 1])

ext4_balloc_free_block(v, f, b) ==
  LET g == GroupOf(b)
      w == ext4_fs_get_block_group_ref(v, g)
  IN IF ~ext4_balloc_verify_bitmap_csum(g) THEN Fail(w, "EIO")
     ELSE Done([w EXCEPT !.bits[g] = @ \ {Idx(b)}, !.gfree[g] = @ + 1, !.sbfree = @ + 1, !.file[f].cnt = @ - 1])

\* How many blocks of a range the group that holds its first one takes.
Share(first, count) == Min({count, BitmapBits - Idx(first)})

\* A range, group by group; the first group that fails ends it.
ext4_balloc_free_blocks(v, f, first, count) ==
  LET from == GroupOf(first)
      to == GroupOf(first + count - 1)
      Walk[g \in from - 1 .. to] ==
        IF g = from - 1 THEN [v |-> v, rc |-> "OK", at |-> first, left |-> count]
        ELSE LET p == Walk[g - 1]
                 w == ext4_fs_get_block_group_ref(p.v, g)
                 n == Share(p.at, p.left)
             IN IF p.rc # "OK" THEN p
                ELSE IF ~ext4_balloc_verify_bitmap_csum(g) THEN [p EXCEPT !.v = w, !.rc = "EIO"]
                ELSE [v |-> [w EXCEPT !.bits[g] = @ \ (Idx(p.at) .. Idx(p.at) + n - 1),
                                      !.gfree[g] = @ + n, !.sbfree = @ + n, !.file[f].cnt = @ - n],
                      rc |-> "OK", at |-> p.at + n, left |-> p.left - n]
  IN IF count = 0 THEN Done(v)
     ELSE IF first \notin Blocks \/ count > Total - first THEN Fail(v, "EINVAL")
     ELSE LET r == Walk[to] IN [v |-> r.v, rc |-> r.rc, b |-> 0]

\* Mutant: the count of unused inodes is left alone.
StillUnused_Kept(unused, i) == unused

\* The tail of the inode table nobody has used, once inode i of it is.
StillUnused(unused, i) == IF i >= InodesPer - unused THEN InodesPer - (i + 1) ELSE unused

\* Mutant: the search does not rewind to group 0.
InodeGroup_NoRewind(k) == Min({last + k, ext4_block_group_cnt - 1})

InodeGroup(k) == (last + k) % ext4_block_group_cnt

\* From the group of the last one to the end, then from group 0 up to it.
ext4_ialloc_alloc_inode(v, isdir) ==
  LET n == ext4_block_group_cnt
      TryInode(w, g) ==
        LET x == ext4_fs_get_block_group_ref(w, g)
            clear == (0 .. InodesPer - 1) \ x.ibits[g]
            i == Min(clear)
        IN IF x.igfree[g] = 0 THEN Fail(x, "NEXT")
           ELSE IF ~ext4_ialloc_verify_bitmap_csum(g) THEN Fail(x, "EIO")
           ELSE IF clear = {} THEN Fail(x, "NEXT")
           ELSE [v |-> [x EXCEPT !.ibits[g] = @ \cup {i}, !.igfree[g] = @ - 1, !.sbinodes = @ - 1,
                                 !.dirs[g] = @ + (IF isdir THEN 1 ELSE 0),
                                 !.unused[g] = StillUnused(@, i)],
                 rc |-> "OK", b |-> g * InodesPer + i + 1]
      Try[k \in 0 .. n - 1] ==
        IF k = 0 THEN TryInode(v, last)
        ELSE LET p == Try[k - 1]
             IN IF p.rc # "NEXT" THEN p ELSE TryInode(p.v, InodeGroup(k))
  IN Searched(Try[n - 1])

\* Mutant: a freed directory stays in used_dirs_count.
ext4_ialloc_free_inode_DirKept(v, n) ==
  LET g == GroupOfInode(n)
      w == ext4_fs_get_block_group_ref(v, g)
  IN IF ~ext4_ialloc_verify_bitmap_csum(g) THEN Fail(w, "EIO")
     ELSE Done([w EXCEPT !.ibits[g] = @ \ {(n - 1) % InodesPer}, !.igfree[g] = @ + 1, !.sbinodes = @ + 1])

ext4_ialloc_free_inode(v, n) ==
  LET g == GroupOfInode(n)
      w == ext4_fs_get_block_group_ref(v, g)
  IN IF ~ext4_ialloc_verify_bitmap_csum(g) THEN Fail(w, "EIO")
     ELSE Done([w EXCEPT !.ibits[g] = @ \ {(n - 1) % InodesPer}, !.igfree[g] = @ + 1, !.sbinodes = @ + 1,
                         !.dirs[g] = @ - (IF v.file[n].dir THEN 1 ELSE 0)])

-----------------------------------------------------------------------------
(* Block-mapped files (ext4_fs.c).                                         *)

EmptyTable == [s \in 0 .. PerBlock - 1 |-> 0]

\* The block that holds the level-k table of file block i; 0 is a hole.
TableAt(v, f, i, k) ==
  LET l == LevelOf(i)
      At[m \in k .. l] == IF m = l THEN v.file[f].ind[l]
                          ELSE LET t == At[m + 1] IN IF t = 0 THEN 0 ELSE v.tab[t][Slot(i, m + 1)]
  IN At[k]

ext4_fs_get_inode_dblk_idx(v, f, i) ==
  IF v.file[f].size = 0 THEN 0
  ELSE IF i < Direct THEN v.file[f].ptr[i]
  ELSE LET t == TableAt(v, f, i, 1) IN IF t = 0 THEN 0 ELSE v.tab[t][Slot(i, 1)]

\* After the last block, or after the inode table of the file's own group.
ext4_fs_indirect_find_goal(v, f) ==
  LET size == v.file[f].size
      at == IF size = 0 THEN 0 ELSE ext4_fs_get_inode_dblk_idx(v, f, size - 1)
      mine == {m \in Meta : GroupOf(m) = GroupOfInode(f)}
  IN IF at # 0 THEN at + 1 ELSE IF mine = {} THEN First ELSE Max(mine) + 1

\* A table for level k of file block i, where there is none: allocated,
\* zeroed, entered in the table above it or in the inode.
NewTable(v, f, i, k) ==
  LET w == ext4_fs_get_block_group_ref(v, GroupOfInode(f))
      Enter(r) ==
        LET t == (r.b :> EmptyTable) @@ r.v.tab
        IN IF k = LevelOf(i) THEN Done([r.v EXCEPT !.tab = t, !.file[f].ind[k] = r.b])
           ELSE Done([r.v EXCEPT !.tab = [t EXCEPT ![TableAt(v, f, i, k + 1)][Slot(i, k + 1)] = r.b]])
  IN Then(ext4_balloc_alloc_block(w, f, ext4_fs_indirect_find_goal(w, f)), Enter)

ext4_fs_set_inode_data_block_index(v, f, i, b) ==
  LET l == LevelOf(i)
      Build[k \in 1 .. l + 1] ==
        IF k = l + 1 THEN Done(v)
        ELSE LET p == Build[k + 1]
             IN IF p.rc # "OK" \/ TableAt(p.v, f, i, k) # 0 THEN p ELSE NewTable(p.v, f, i, k)
  IN IF i < Direct THEN Done([v EXCEPT !.file[f].ptr[i] = b])
     ELSE IF Levels(i) = {} THEN Fail(v, "EIO")
     ELSE Then(Build[1], LAMBDA r : Done([r.v EXCEPT !.tab[TableAt(r.v, f, i, 1)][Slot(i, 1)] = b]))

ext4_fs_append_inode_dblk(v, f, goal) ==
  LET mapped == v.file[f].kind = "extents"
      Grown(s, b) == IF s.rc # "OK" THEN Fail(ext4_balloc_free_block(s.v, f, b).v, s.rc)
                     ELSE Done([s.v EXCEPT !.file[f].size = @ + 1])
  IN Then(ext4_balloc_alloc_block(v, f, IF mapped THEN goal ELSE ext4_fs_indirect_find_goal(v, f)),
          LAMBDA r : IF mapped THEN Done([r.v EXCEPT !.file[f].blks = @ \cup {r.b}, !.file[f].size = @ + 1])
                     ELSE Grown(ext4_fs_set_inode_data_block_index(r.v, f, v.file[f].size, r.b), r.b))

\* Mutant: the pointer to the freed block stays.
ext4_fs_release_inode_block_Kept(v, f, i) ==
  LET t == IF i < Direct THEN 0 ELSE TableAt(v, f, i, 1)
      b == IF i < Direct THEN v.file[f].ptr[i] ELSE IF t = 0 THEN 0 ELSE v.tab[t][Slot(i, 1)]
  IN IF b = 0 THEN Done(v) ELSE ext4_balloc_free_block(v, f, b)

\* The pointer is cleared first.
ext4_fs_release_inode_block(v, f, i) ==
  LET t == IF i < Direct THEN 0 ELSE TableAt(v, f, i, 1)
      b == IF i < Direct THEN v.file[f].ptr[i] ELSE IF t = 0 THEN 0 ELSE v.tab[t][Slot(i, 1)]
      w == IF i < Direct THEN [v EXCEPT !.file[f].ptr[i] = 0] ELSE [v EXCEPT !.tab[t][Slot(i, 1)] = 0]
  IN IF b = 0 THEN Done(v) ELSE ext4_balloc_free_block(w, f, b)

\* The runs of consecutive blocks of an extent file, as its extents are freed.
Runs(s) == {<<a, n>> \in s \X (1 .. Cardinality(s)) :
              /\ a .. a + n - 1 \subseteq s
              /\ a - 1 \notin s /\ a + n \notin s}

\* What free_blocks answers is dropped by ext4_ext_free_blocks.
FreeRuns(v, f) ==
  FoldSet(LAMBDA r, w : ext4_balloc_free_blocks(w, f, r[1], r[2]).v,
          [v EXCEPT !.file[f].blks = {}], Runs(v.file[f].blks))

ext4_fs_truncate_inode(v, f, size) ==
  LET Cut[i \in size .. v.file[f].size] ==
        IF i = size THEN Done(v)
        ELSE LET p == Cut[i - 1]
             IN IF p.rc # "OK" THEN p ELSE ext4_fs_release_inode_block(p.v, f, i - 1)
  IN Then(IF v.file[f].kind = "extents" THEN Done(FreeRuns(v, f)) ELSE Cut[v.file[f].size],
          LAMBDA r : Done([r.v EXCEPT !.file[f].size = size]))

\* The tables under indirect pointer l, in the order they are freed; the
\* inode's pointer is cleared with the last of them.
Below(v, b) == SelectSeq([s \in 1 .. PerBlock |-> v.tab[b][s - 1]], LAMBDA x : x # 0)
TablesUnder(v, f, l) ==
  LET b == v.file[f].ind[l]
  IN IF b = 0 THEN <<>>
     ELSE CASE l = 1 -> <<b>>
            [] l = 2 -> Append(Below(v, b), b)
            [] l = 3 -> Append(FlattenSeq([s \in 1 .. Len(Below(v, b)) |->
                                 Append(Below(v, Below(v, b)[s]), Below(v, b)[s])]), b)

\* Tables are freed one by one and left as they are, up to the first failure.
FreeTables(r, f, l) ==
  LET seq == TablesUnder(r.v, f, l)
      Free[k \in 0 .. Len(seq)] ==
        IF k = 0 THEN r
        ELSE LET p == Free[k - 1] IN IF p.rc # "OK" THEN p ELSE ext4_balloc_free_block(p.v, f, seq[k])
  IN Then(Free[Len(seq)], LAMBDA all : Done([all.v EXCEPT !.file[f].ind[l] = 0]))

ext4_fs_free_inode(v, f) ==
  LET Rest(r) == Then(FreeTables(r, f, 2), LAMBDA two : FreeTables(two, f, 3))
      Gone(r) == Done([r.v EXCEPT !.file = [n \in DOMAIN r.v.file \ {f} |-> r.v.file[n]]])
  IN Then(Then(FreeTables(Done(v), f, 1), Rest),
          LAMBDA r : Then(ext4_ialloc_free_inode(r.v, f), Gone))

-----------------------------------------------------------------------------
(* Operations.                                                             *)

Tables(v, f) ==
  UNION {{x \in Range(TablesUnder(v, f, l)) : x # 0} : l \in 1 .. 3}
Owned(v, f) ==
  (v.file[f].blks \cup Range(v.file[f].ptr) \cup Tables(v, f)
     \cup UNION {Range(v.tab[t]) : t \in Tables(v, f)}) \ {0}

Sum(s, Op(_)) == FoldSet(LAMBDA x, n : n + Op(x), 0, s)

\* A volume as mkfs leaves it: the root directory and some empty files.
Init ==
  /\ bad = {}
  /\ LET bits == [g \in Groups |-> IF g \in Lazy THEN {} ELSE ext4_fs_init_block_bitmap(g)]
         gfree == [g \in Groups |-> BitmapBits - Cardinality(ext4_fs_init_block_bitmap(g))]
         taken == [g \in Groups |-> {(n - 1) % InodesPer : n \in {r \in Taken : GroupOfInode(r) = g}}]
         igfree == [g \in Groups |-> InodesPer - Cardinality(taken[g])]
     IN vol = [bits |-> bits, gfree |-> gfree, ibits |-> taken, igfree |-> igfree,
               dirs |-> [g \in Groups |-> IF g = 0 THEN 1 ELSE 0],
               unused |-> [g \in Groups |-> InodesPer - Max({0} \cup {i + 1 : i \in taken[g]})],
               buninit |-> Lazy, iuninit |-> Lazy, file |-> <<>>, tab |-> <<>>,
               sbfree |-> Sum(Groups, LAMBDA g : gfree[g]), sbinodes |-> Sum(Groups, LAMBDA g : igfree[g])]
  /\ base = vol /\ ops = 0 /\ last = 0 /\ calls = 0

\* txn_finish.  Memory that names no table keeps none.
Trim(v) == [v EXCEPT !.tab = [b \in UNION {Tables(v, f) : f \in DOMAIN v.file} |-> v.tab[b]]]
Dangling(v) == \E f \in DOMAIN v.file : \E b \in Owned(v, f) : Idx(b) \notin v.bits[GroupOf(b)]
txn_finish(r) ==
  /\ r.rc = "OK" => vol' = Trim(r.v) /\ ops' = ops + 1 /\ UNCHANGED base
  /\ r.rc # "OK" /\ ops > 0 =>
       /\ Dangling(r.v) => "halffree" \in Windows
       /\ vol' = Trim(r.v) /\ base' = Trim(r.v) /\ ops' = 0
  /\ r.rc # "OK" /\ ops = 0 =>
       /\ <<r.v.sbfree, r.v.sbinodes>> = <<base.sbfree, base.sbinodes>> \/ "abort" \in Windows
       /\ vol' = [base EXCEPT !.sbfree = r.v.sbfree, !.sbinodes = r.v.sbinodes]
       /\ UNCHANGED <<base, ops>>
  /\ calls' = calls + 1
  /\ UNCHANGED bad

\* create_common: the inode, and a directory's first block; without the block
\* the inode goes back.
Create(kind, isdir) ==
  /\ calls < MaxCalls
  /\ LET a == ext4_ialloc_alloc_inode(vol, isdir)
         new == [kind |-> kind, dir |-> isdir, size |-> 0, cnt |-> 0, blks |-> {},
                 ptr |-> [i \in 0 .. Direct - 1 |-> 0], ind |-> [l \in 1 .. 3 |-> 0]]
         v == [a.v EXCEPT !.file = (a.b :> new) @@ @]
         Kept(r) == IF r.rc = "OK" THEN r ELSE Fail(ext4_fs_free_inode(r.v, a.b).v, r.rc)
     IN /\ txn_finish(IF a.rc # "OK" THEN a
                      ELSE IF ~isdir THEN Done(v)
                      ELSE Kept(ext4_fs_append_inode_dblk(v, a.b, 0)))
        /\ last' = IF a.rc = "OK" THEN GroupOfInode(a.b) ELSE last

Append1(f, goal) ==
  /\ calls < MaxCalls /\ vol.file[f].size < MaxSize
  /\ txn_finish(ext4_fs_append_inode_dblk(vol, f, goal))
  /\ UNCHANGED last

\* The size moves past a hole without blocks.
Grow(f, size) ==
  /\ calls < MaxCalls /\ size > vol.file[f].size /\ vol.file[f].kind = "map"
  /\ txn_finish(Done([vol EXCEPT !.file[f].size = size]))
  /\ UNCHANGED last

Truncate(f, size) ==
  /\ calls < MaxCalls /\ size < vol.file[f].size
  /\ vol.file[f].kind = "extents" => size = 0
  /\ txn_finish(ext4_fs_truncate_inode(vol, f, size))
  /\ UNCHANGED last

\* ext4b_release_inode: the blocks, then the tables and the inode.
Release(f) ==
  /\ calls < MaxCalls
  /\ txn_finish(Then(ext4_fs_truncate_inode(vol, f, 0), LAMBDA r : ext4_fs_free_inode(r.v, f)))
  /\ UNCHANGED last

Commit ==
  /\ ops > 0
  /\ base' = vol /\ ops' = 0
  /\ UNCHANGED <<vol, last, bad, calls>>

\* A crash, the replay, and __ext4_recover: every group referenced, the
\* superblock's counts summed anew.
Recover ==
  LET Ref[g \in -1 .. ext4_block_group_cnt - 1] ==
        IF g = -1 THEN base ELSE ext4_fs_get_block_group_ref(Ref[g - 1], g)
      v == Ref[ext4_block_group_cnt - 1]
      w == [v EXCEPT !.sbfree = Sum(Groups, LAMBDA g : v.gfree[g]),
                     !.sbinodes = Sum(Groups, LAMBDA g : v.igfree[g])]
  IN /\ calls < MaxCalls /\ calls > 0
     /\ vol' = w /\ base' = w /\ ops' = 0 /\ last' = 0 /\ calls' = calls + 1
     /\ UNCHANGED bad

\* The medium: a bitmap read back fails its checksum from now on.
Spoil ==
  /\ bad = {} /\ calls > 0
  /\ bad' \in Damage /\ \A d \in bad' : d[2] \notin vol.buninit
  /\ UNCHANGED <<vol, base, ops, last, calls>>

Files == DOMAIN vol.file

Next ==
  \/ \E kind \in {"map", "extents"}, isdir \in BOOLEAN : Create(kind, isdir)
  \/ \E f \in Files : \E goal \in IF vol.file[f].kind = "map" THEN {0} ELSE {0, Total - 1} : Append1(f, goal)
  \/ \E f \in Files, size \in Sizes : Grow(f, size)
  \/ \E f \in Files, size \in Sizes : Truncate(f, size)
  \/ \E f \in Files : Release(f)
  \/ Commit
  \/ Recover
  \/ Spoil

Spec == Init /\ [][Next]_vars

-----------------------------------------------------------------------------
(* Properties.                                                             *)

\* Every field has its type; a file is on an inode the volume has.
TypeOK ==
  /\ ops \in Nat /\ calls \in 0 .. MaxCalls /\ last \in Groups /\ bad \in Damage \cup {{}}
  /\ DOMAIN vol.file \subseteq Inodes
  /\ \A g \in Groups : vol.bits[g] \subseteq 0 .. BitmapBits - 1 /\ vol.ibits[g] \subseteq 0 .. InodesPer - 1
  /\ \A f \in Files : vol.file[f].size \in 0 .. MaxSize

\* A block has one owner: no two files, and no table twice, hold the same
\* one, and none holds a block of the metadata.
NoSharedBlock ==
  /\ \A f, g \in Files : f # g => Owned(vol, f) \cap Owned(vol, g) = {}
  /\ \A f \in Files : Owned(vol, f) \cap Meta = {}
  /\ \A f \in Files : \A t \in Tables(vol, f) : \A i, j \in DOMAIN vol.tab[t] :
       i # j /\ vol.tab[t][i] # 0 => vol.tab[t][i] # vol.tab[t][j]

\* A clear bit means a block nobody holds, and a set one a block somebody
\* holds, the group's end, or one a refused free left behind in a group whose
\* bitmap fails its checksum (the trade ext4_balloc_free_block's comment makes).
\* Nobody shares one: ext4_balloc_alloc_block never hands out what is held, nor
\* what ext4_fs_init_block_bitmap should have marked.
BitmapsTrue ==
  NoSharedBlock /\ \A g \in Groups \ vol.buninit : \A i \in 0 .. BitmapBits - 1 :
    LET owned == Addr(g, i) \in Meta \cup UNION {Owned(vol, f) : f \in Files}
    IN IF i \in Held(g) THEN /\ owned => i \in vol.bits[g]
                             /\ i \in vol.bits[g] => owned \/ <<"b", g>> \in bad
       ELSE i \in vol.bits[g]

\* The descriptor's counts are those of its bitmaps, its used directories
\* those there are, also for a group nobody has set up yet.
GroupCounts ==
  \A g \in Groups :
    /\ vol.gfree[g] = BitmapBits - Cardinality(IF g \in vol.buninit THEN ext4_fs_init_block_bitmap(g)
                                               ELSE vol.bits[g])
    /\ vol.igfree[g] = InodesPer - Cardinality(vol.ibits[g])
    /\ vol.dirs[g] - (IF g = 0 THEN 1 ELSE 0) =
         Cardinality({f \in Files : vol.file[f].dir /\ GroupOfInode(f) = g})

\* An inode in use is never in the tail of the table that a check skips.
ItableUnused ==
  \A g \in Groups : \A i \in vol.ibits[g] : i < InodesPer - vol.unused[g]

\* The two records of one fact agree: the superblock's totals and the sums
\* of the descriptors (bridge_audit_free_accounting).
SbAgrees ==
  /\ vol.sbfree = Sum(Groups, LAMBDA g : vol.gfree[g])
  /\ vol.sbinodes = Sum(Groups, LAMBDA g : vol.igfree[g])

\* i_blocks is the number of blocks the file holds, its tables included;
\* more only by what a refused free left behind.
IBlocks ==
  \A f \in Files :
    /\ vol.file[f].cnt >= Cardinality(Owned(vol, f))
    /\ bad = {} => vol.file[f].cnt = Cardinality(Owned(vol, f))

\* Space is found wherever it is: from every goal, one past the volume too,
\* an allocation fails for want of space only when no block is free, and what
\* it hands out lies in the volume.
AllocComplete ==
  LET free == {b \in Blocks \ Meta : GroupOf(b) \in vol.buninit \/ Idx(b) \notin vol.bits[GroupOf(b)]}
  IN Files # {} => \A goal \in 0 .. Total + 1 :
       LET r == ext4_balloc_alloc_block(vol, CHOOSE f \in Files : TRUE, goal)
       IN CASE r.rc = "OK" -> r.b \in free
            [] r.rc = "ENOSPC" -> free = {}
            [] r.rc = "EIO" -> \E b \in free : <<"b", GroupOf(b)>> \in bad

\* The same for inodes, from the group the last one came from.
InodesComplete ==
  LET r == ext4_ialloc_alloc_inode(vol, FALSE)
  IN CASE r.rc = "OK" -> r.b \notin Taken \cup Files
       [] r.rc = "ENOSPC" -> \A g \in Groups : vol.ibits[g] = 0 .. InodesPer - 1
       [] r.rc = "EIO" -> \E g \in Groups : <<"i", g>> \in bad

\* The bitmaps are those of the files there are (ext4_balloc_alloc_block,
\* ext4_balloc_free_blocks).
BitmapsSound == TypeOK /\ BitmapsTrue

\* Everything that counts blocks or inodes counts the same ones: descriptors,
\* superblock, unused parts of the inode tables and i_blocks.
CountsAgree == GroupCounts /\ ItableUnused /\ SbAgrees /\ IBlocks

\* A search says that the volume is full only when it is (ext4_balloc_alloc_block,
\* ext4_ialloc_alloc_inode).
SpaceFound == AllocComplete /\ InodesComplete
=============================================================================
