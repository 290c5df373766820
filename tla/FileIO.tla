------------------------------- MODULE FileIO -------------------------------
(***************************************************************************)
(* What a file's bytes are: the bridge's read, write, truncate and         *)
(* preallocate, the blocks it allocates ahead of an append, and what a     *)
(* crash makes of them (ext4_bridge.c, on the mapping of ext4_extent.c).   *)
(*                                                                         *)
(* File data goes straight to the medium while the mapping and the size    *)
(* wait for a commit, and a mapped block is "unwritten" (it reads as       *)
(* zeros) until its data is there.  A file is a sequence of cells, a block *)
(* is BlockCells of them, and each call of write puts one new value in the *)
(* cells it covers, so a cell that was never this file's is recognised.    *)
(* The tree that stores the mapping is module Extents; here it is a        *)
(* function, and a free block is taken in order.                           *)
(***************************************************************************)
EXTENDS Integers, Sequences, FiniteSets

CONSTANTS
  Files,
  None,
  BlockCells,  \* the block size
  Span,        \* logical blocks of a file
  NBlocks,     \* blocks of the volume
  Slots,       \* EXT4B_RESERVE_SLOTS
  Trigger,     \* EXT4B_RESERVE_TRIGGER
  Ahead,       \* EXT4B_RESERVE_AHEAD
  LowWater,    \* free blocks below which nothing is reserved
  Batch,       \* dev->txn_batch
  MaxWrites, MaxOps, MaxFails,   \* bounds: calls of write, other calls, failures
  Windows      \* cases in which the code is known to go wrong

(***************************************************************************)
(*   "overtake"  a write goes on past the end of preallocated space        *)
(*   "sparse"    a write starts past the end of the file, and what lies    *)
(*               between is not preallocated                               *)
(*   "hole"      a write fills part of a block the file has a hole at      *)
(*   "lostrun"   the device refuses a run before the last one of a write   *)
(*   "grown"     a write fails after it has appended blocks                *)
(*   "evict"     a write is rolled back after it has changed the table of  *)
(*               reservations, which is not                                *)
(*   "settle"    a truncate that frees nothing meets a reservation         *)
(*   "nospace"   a preallocation runs out of space and is not undone, or   *)
(*               is undone where a reservation was                         *)
(*   "gap"       an append finds preallocated space that does not begin    *)
(*               where the file ends                                       *)
(*   "sweep"     blocks are to go from a hole on (ext4_extent_remove_space *)
(*               does nothing when it starts in one)                       *)
(***************************************************************************)
ASSUME FileIOAssumption ==
  /\ None \notin Files /\ {BlockCells, Span, NBlocks, Slots, Trigger, Batch} \subseteq Nat \ {0}
  /\ {Ahead, LowWater, MaxWrites, MaxOps, MaxFails} \subseteq Nat /\ Ahead < Span
  /\ Windows \subseteq {"overtake", "sparse", "hole", "lostrun", "grown", "evict", "settle", "nospace",
                  "gap", "sweep"}

VARIABLES
  mem,     \* size and mapping of every file, as the cache has them
  disk,    \* the same as of the last commit
  data,    \* the medium: the cells of every block
  resv,    \* dev->resv: which file holds blocks ahead of its end, and how far
  rnext,   \* dev->resv_next
  ops,     \* dev->txn_ops
  up,      \* whether the volume is mounted
  calls,   \* calls made that were not writes
  fails,   \* failures met
  writes,  \* calls of write so far; the value the last one wrote
  want,    \* history: what each file should read as
  loan,    \* history: blocks an application was told it has past the end
  kept, mark,  \* history: want and writes at the last commit
  cut,     \* history: files shortened since the last commit
  reused   \* history: blocks taken from the place they have on disk

vars == <<mem, disk, data, resv, rnext, ops, up, calls, fails, writes, want,
          loan, kept, mark, cut, reused>>

Lblks  == 0..(Span - 1)
Blocks == 1..NBlocks
Cells  == 0..(BlockCells - 1)
Zero   == <<None, 0>>
Values == {Zero} \cup (Files \X (1..MaxWrites))
Hole   == [at |-> 0, unwritten |-> FALSE]
Meta   == [size : [Files -> 0..(Span * BlockCells)],
           map : [Files -> [Lblks -> [at : Blocks \cup {0}, unwritten : BOOLEAN]]]]
Free   == [inode |-> None, end |-> 0]

Least(a, b) == IF a < b THEN a ELSE b
Most(a, b)  == IF a < b THEN b ELSE a

\* Blocks that hold n cells.
BlocksOf(n) == (n + BlockCells - 1) \div BlockCells
Have(m, f)  == BlocksOf(m.size[f])

At(m, f, l)     == IF l \in Lblks THEN m.map[f][l] ELSE Hole
Backed(m, f, l) == At(m, f, l).at # 0
Used(m)         == {m.map[f][l].at : f \in Files, l \in Lblks} \ {0}
Unused(m)       == Blocks \ Used(m)
NewBlock_End(m)   == 1 + CHOOSE b \in Unused(m) : \A c \in Unused(m) : c <= b
NewBlock_Stale(m) == CHOOSE b \in Unused(disk) : \A c \in Unused(disk) : b <= c
NewBlock(m)     == CHOOSE b \in Unused(m) : \A c \in Unused(m) : b <= c

\* ext4b_read, one cell: a hole and an unwritten block read as zeros.
Read(m, d, f, i) ==
  LET e == At(m, f, i \div BlockCells)
  IN  IF e.at = 0 \/ e.unwritten THEN Zero ELSE d[e.at][i % BlockCells]
Contents(m, d, f) == [i \in 1..m.size[f] |-> Read(m, d, f, i - 1)]

Init ==
  /\ mem = [size |-> [f \in Files |-> 0], map |-> [f \in Files |-> [l \in Lblks |-> Hole]]]
  /\ disk = mem /\ data = [b \in Blocks |-> [c \in Cells |-> Zero]]
  /\ resv = [s \in 1..Slots |-> Free] /\ rnext = 0 /\ ops = 0 /\ up = TRUE
  /\ calls = 0 /\ fails = 0 /\ writes = 0
  /\ want = [f \in Files |-> <<>>] /\ loan = [f \in Files |-> {}]
  /\ kept = want /\ mark = 0 /\ cut = {} /\ reused = {}

-----------------------------------------------------------------------------
(* The mapping: what the extent layer does for these calls *)

\* ext4_extent_remove_space, to the end of the file: if from is in a hole,
\* nothing is removed.
Unmap(m, f, from) ==
  IF Backed(m, f, from)
  THEN [m EXCEPT !.map[f] = [l \in Lblks |-> IF l >= from THEN Hole ELSE @[l]]]
  ELSE m
SweptAll(m, f, from) == "sweep" \in Windows \/ Backed(m, f, from) \/ \A l \in Lblks : l > from => ~Backed(m, f, l)

\* ext4_extent_preallocate: unwritten blocks wherever the n from l are not
\* backed, until the volume is full.
preallocate(m, f, l, n) ==
  LET upto[j \in 0..n] ==
        IF j = 0 THEN m
        ELSE LET p == upto[j - 1] IN
             IF l + j - 1 \notin Lblks \/ Backed(p, f, l + j - 1) \/ Unused(p) = {} THEN p
             ELSE [p EXCEPT !.map[f][l + j - 1] = [at |-> NewBlock(p), unwritten |-> TRUE]]
  IN  upto[n]
Gained(m, p, f) == {l \in Lblks : Backed(p, f, l) /\ ~Backed(m, f, l)}

ZeroBlock(d, b) == [d EXCEPT ![b] = [c \in Cells |-> Zero]]

\* How many blocks from l on, at most n, one extent maps.
RunFrom(m, f, l, n) ==
  CHOOSE k \in 1..n :
    /\ \A j \in 0..(k - 1) : At(m, f, l + j) = [At(m, f, l) EXCEPT !.at = @ + j]
    /\ k < n => At(m, f, l + k) # [At(m, f, l) EXCEPT !.at = @ + k]

\* ext4_extent_get_blocks with create, on a call s of write: an unwritten run is
\* zeroed and then counts as written, a hole gets one block as it comes.
get_blocks(s, f, l, n) ==
  LET e   == At(s.m, f, l)
      run == RunFrom(s.m, f, l, n)
  IN
  CASE e.at # 0 /\ ~e.unwritten -> [s EXCEPT !.at = e.at, !.got = run]
    [] e.at # 0 /\ e.unwritten  ->
         [s EXCEPT !.at = e.at, !.got = run,
                   !.d = [b \in Blocks |-> IF b \in e.at..(e.at + run - 1)
                                           THEN [c \in Cells |-> Zero] ELSE @[b]],
                   !.m.map[f] = [k \in Lblks |-> IF k \in l..(l + run - 1)
                                                 THEN [@[k] EXCEPT !.unwritten = FALSE] ELSE @[k]]]
    [] e.at = 0 /\ Unused(s.m) = {} -> [s EXCEPT !.rc = "ENOSPC"]
    [] OTHER -> [s EXCEPT !.m.map[f][l] = [at |-> NewBlock(s.m), unwritten |-> FALSE],
                          !.at = NewBlock(s.m), !.got = 1]

-----------------------------------------------------------------------------
(* Blocks held ahead of an append *)

trim_alloc_to_size(m, f) == Unmap(m, f, Have(m, f))

resv_forget(r, f) == [s \in 1..Slots |-> IF r[s].inode = f THEN Free ELSE r[s]]

Holder(r, f)   == {s \in 1..Slots : r[s].inode = f}
resv_end(r, f) == IF Holder(r, f) = {} THEN 0 ELSE r[CHOOSE s \in Holder(r, f) : TRUE].end

\* A slot of its own, a free one, or the one whose turn it is: what that one
\* held goes back.
resv_set_Drops(m, f, end) ==
  LET slot == IF Holder(resv, f) # {} THEN CHOOSE s \in Holder(resv, f) : TRUE ELSE 1
  IN  [m |-> m, resv |-> [resv EXCEPT ![slot] = [inode |-> f, end |-> end]], next |-> rnext]
resv_set(m, f, end) ==
  LET entry == [inode |-> f, end |-> end]
      own   == Holder(resv, f)
      free  == Holder(resv, None)
      turn  == (rnext % Slots) + 1
      Put(s) == [resv EXCEPT ![s] = entry]
  IN
  CASE own # {}               -> [m |-> m, resv |-> Put(CHOOSE s \in own : TRUE), next |-> rnext]
    [] own = {} /\ free # {}  -> [m |-> m, next |-> rnext,
                                  resv |-> Put(CHOOSE s \in free : \A t \in free : s <= t)]
    [] OTHER -> [m |-> trim_alloc_to_size(m, resv[turn].inode), resv |-> Put(turn), next |-> turn]

resv_release_all(m) ==
  [size |-> m.size,
   map |-> [f \in Files |-> IF Holder(resv, f) # {} THEN trim_alloc_to_size(m, f).map[f] ELSE m.map[f]]]

\* What write does before its loop: nothing unless the write is long and
\* appends, or past someone's explicit preallocation; on a volume that fills
\* up all that is held goes back.
Reserve_Blindly(m, f, off, n) ==
  LET reach == Most(resv_end(resv, f), Have(m, f))
      p     == preallocate(m, f, reach, BlocksOf(off + n) - reach + Ahead)
  IN  IF n >= Trigger * BlockCells /\ off <= m.size[f] /\ off + n > m.size[f] /\ BlocksOf(off + n) > reach
      THEN resv_set(p, f, reach + Cardinality(Gained(m, p, f)))
      ELSE [m |-> m, resv |-> resv, next |-> rnext]
Reserve(m, f, off, n) ==
  LET held    == resv_end(resv, f)
      reach   == IF held = 0 THEN Have(m, f) ELSE Most(held, Have(m, f))
      through == BlocksOf(off + n)
      p       == preallocate(m, f, reach, through - reach + Ahead)
      alloc   == Cardinality(Gained(m, p, f))
      appends == n >= Trigger * BlockCells /\ off <= m.size[f] /\ off + n > m.size[f]
      none    == [m |-> m, resv |-> resv, next |-> rnext]
  IN
  CASE ~appends \/ (held = 0 /\ Backed(m, f, Have(m, f))) -> none
    [] appends /\ ~(held = 0 /\ Backed(m, f, Have(m, f)))
         /\ Cardinality(Unused(m)) <= LowWater ->
         [m |-> resv_release_all(m), resv |-> [s \in 1..Slots |-> Free], next |-> rnext]
    [] OTHER -> IF through > reach /\ alloc > 0 THEN resv_set(p, f, reach + alloc) ELSE none

-----------------------------------------------------------------------------
(* ext4b_write *)

\* The k-th piece of a write: its block, and the cells of it from lo below hi.
Piece(off, n, k) ==
  LET l == off \div BlockCells + k
  IN  [l |-> l, lo |-> Most(off, l * BlockCells) - l * BlockCells,
       hi |-> Least(off + n, (l + 1) * BlockCells) - l * BlockCells]
Whole(p) == p.lo = 0 /\ p.hi = BlockCells

PutCells(d, b, lo, hi, v) == [d EXCEPT ![b] = [c \in Cells |-> IF lo <= c /\ c < hi THEN v ELSE @[c]]]

\* A call under way: m, d metadata and medium; have the blocks the loop counts
\* on; at, got the last mapping; run the whole blocks not issued yet; done the
\* cells counted as written; met the windows it went through.
Started(m, f) ==
  [m |-> m, d |-> data, have |-> Have(m, f), at |-> 0, got |-> 0,
   run |-> <<>>, done |-> 0, rc |-> "OK", met |-> {}]

\* bridge_flush_run: a run that fails is forgotten, and its length still counts.
Flush(s, v, fault) ==
  CASE s.run = <<>> -> s
    [] s.run # <<>> /\ fault ->
         [s EXCEPT !.rc = "EIO", !.run = <<>>, !.done = @ + Len(s.run) * BlockCells,
                   !.met = @ \cup {"lostrun"}]
    [] OTHER ->
         [s EXCEPT !.run = <<>>, !.done = @ + Len(s.run) * BlockCells,
                   !.d = [b \in Blocks |-> IF \E k \in DOMAIN s.run : s.run[k] = b
                                           THEN [c \in Cells |-> v] ELSE @[b]]]

\* A whole unwritten block: its data first, then the mark.
Fast(s, f, p, v, fault) ==
  LET b == At(s.m, f, p.l).at
      g == Flush(s, v, fault)
  IN  IF g.rc # "OK" THEN g
      ELSE IF fault THEN [g EXCEPT !.rc = "EIO"]
      ELSE [g EXCEPT !.d = PutCells(@, b, 0, BlockCells, v),
                     !.m.map[f][p.l].unwritten = FALSE, !.have = Most(@, p.l + 1),
                     !.done = @ + BlockCells]

\* ext4_fs_append_inode_dblk_range: the block after the size, which grows by
\* what is got.
Grown(g, s, f) ==
  IF g.rc # "OK" THEN g
  ELSE [g EXCEPT !.m.size[f] = @ + g.got * BlockCells, !.have = @ + g.got,
                 !.met = @ \cup (IF Have(s.m, f) # s.have THEN {"overtake"} ELSE {})]
append_inode_dblk_range(s, f, n) == Grown(get_blocks(s, f, Have(s.m, f), n), s, f)

\* Past the end: one block at a time up to the one wanted, then all the rest.
WalkOut(s, f, l, rest) ==
  LET walk[j \in 0..Span] ==
        IF j = 0 THEN s
        ELSE LET t == walk[j - 1] IN
             IF t.rc # "OK" \/ t.have > l THEN t
             ELSE append_inode_dblk_range(t, f, IF t.have = l THEN rest ELSE 1)
  IN  walk[Span]

\* The block of a piece, with a tail of unwritten space told apart.
Locate(s, f, p, rest, fault) ==
  CASE fault -> [s EXCEPT !.rc = "EIO"]
    [] ~fault /\ p.l >= s.have /\ Backed(s.m, f, p.l) -> [s EXCEPT !.at = At(s.m, f, p.l).at]
    [] ~fault /\ p.l >= s.have /\ ~Backed(s.m, f, p.l) -> WalkOut(s, f, p.l, rest)
    [] OTHER -> IF s.m.size[f] = 0 THEN [s EXCEPT !.rc = "EIO"]
                ELSE get_blocks(s, f, p.l, 1)

\* A whole block joins the run, or ends it and starts the next.
Join(s, v, fault) ==
  IF s.run # <<>> /\ s.at = s.run[Len(s.run)] + 1 THEN [s EXCEPT !.run = Append(@, s.at)]
  ELSE LET g == Flush(s, v, fault) IN IF g.rc # "OK" THEN g ELSE [g EXCEPT !.run = <<s.at>>]

\* A partial block goes out by itself; in unwritten space the rest is zeroed.
Partial_ChunkOnly(s, f, p, unwritten, v, fault) ==
  LET g == Flush(s, v, fault) IN
  IF g.rc # "OK" THEN g
  ELSE IF fault THEN [g EXCEPT !.rc = "EIO"]
  ELSE [g EXCEPT !.d = PutCells(@, s.at, p.lo, p.hi, v), !.done = @ + p.hi - p.lo,
                 !.m.map[f][p.l].unwritten = FALSE]
Partial(s, f, p, unwritten, v, fault) ==
  LET g == Flush(s, v, fault) IN
  IF g.rc # "OK" THEN g
  ELSE IF fault THEN [g EXCEPT !.rc = "EIO"]
  ELSE [g EXCEPT !.d = PutCells(IF unwritten THEN ZeroBlock(@, s.at) ELSE @, s.at, p.lo, p.hi, v),
                 !.done = @ + p.hi - p.lo,
                 !.m.map[f][p.l].unwritten = FALSE]

NoFault == <<0, "none">>

\* A piece that has its block goes into a run or out.
Store(s, f, p, unwritten, v, fault) ==
  IF s.rc # "OK" THEN s
  ELSE IF Whole(p) THEN Join(s, v, fault)
  ELSE Partial(s, f, p, unwritten, v, fault)

\* One round of the loop.  fault: the piece that meets a failure, and whether
\* it is the mapping ("map") or the device ("io") that fails.
Round(s, f, off, n, k, v, fault) ==
  LET p    == Piece(off, n, k)
      rest == BlocksOf(off + n) - p.l
      io   == fault = <<k, "io">>
      tail == p.l >= s.have /\ At(s.m, f, p.l).unwritten
      hole == p.l < s.have /\ ~Backed(s.m, f, p.l) /\ (~Whole(p) \/ fault # NoFault)
  IN
  IF s.rc # "OK" THEN s
  ELSE IF Whole(p) /\ At(s.m, f, p.l).unwritten THEN Fast(s, f, p, v, io)
  ELSE Store([Locate(s, f, p, rest, fault = <<k, "map">>) EXCEPT
                !.met = @ \cup (IF hole THEN {"hole"} ELSE {})], f, p, tail, v, io)

\* The rounds.
Rounds(m, f, off, n, v, fault) ==
  LET pieces == BlocksOf(off + n) - off \div BlockCells
      loop[k \in 0..pieces] ==
        IF k = 0 THEN Started(m, f) ELSE Round(loop[k - 1], f, off, n, k - 1, v, fault)
  IN  loop[pieces]

\* The last run: one the device refuses is not counted.
LastRun(s, v, refused) ==
  IF refused /\ s.run # <<>> THEN [s EXCEPT !.run = <<>>, !.rc = "EIO"]
  ELSE [Flush(s, v, FALSE) EXCEPT !.rc = s.rc]

\* The size, and the answer: the count, if there is one.
Sized(s, m, f, off) ==
  LET past  == \E l \in (m.size[f] \div BlockCells)..((off - 1) \div BlockCells) : ~At(m, f, l).unwritten
      grows == s.done > 0 /\ off + s.done > m.size[f]
  IN  [s EXCEPT !.m.size[f] = IF grows THEN off + s.done ELSE @,
                !.rc = IF s.done > 0 THEN "OK" ELSE @,
                !.met = @ \cup (IF off > m.size[f] /\ past THEN {"sparse"} ELSE {})
                          \cup (IF ~grows /\ s.m.size[f] > m.size[f] THEN {"grown"} ELSE {})]

\* The whole call.
Written(m, f, off, n, v, fault) ==
  LET refused == fault = <<BlocksOf(off + n) - off \div BlockCells, "io">>
  IN  Sized(LastRun(Rounds(m, f, off, n, v, fault), v, refused), m, f, off)

-----------------------------------------------------------------------------
(* ext4b_truncate *)

\* ext4_fs_truncate_inode: blocks go only if fewer are needed.
Shrunk(m, f, size) ==
  LET freed == BlocksOf(size) < Have(m, f) \/ size = 0
  IN  [IF freed THEN Unmap(m, f, BlocksOf(size)) ELSE m EXCEPT !.size[f] = size]

\* zero_exposed_range, from one size to the next: up to the first block that is
\* not backed or not written.
zero_exposed_range_Block(m, f, from, to) ==
  LET b == At(m, f, from \div BlockCells)
  IN  IF b.at = 0 \/ b.unwritten THEN data ELSE ZeroBlock(data, b.at)
zero_exposed_range(m, f, from, to) ==
  LET first == from \div BlockCells
      Stop(l) == l >= first /\ (~Backed(m, f, l) \/ At(m, f, l).unwritten)
      Cleared(b, c) == \E l \in first..(BlocksOf(to) - 1) :
                         /\ \A k \in first..l : ~Stop(k)
                         /\ At(m, f, l).at = b
                         /\ l * BlockCells + c \in from..(to - 1)
  IN  [b \in Blocks |-> [c \in Cells |-> IF Cleared(b, c) THEN Zero ELSE data[b][c]]]

-----------------------------------------------------------------------------
(* Calls *)

\* txn_finish of a call that comes to metadata m: alone and failed, rolled
\* back; failed in a batch, committed; otherwise the batch may go on.
txn_finish(m, rc) ==
  IF rc # "OK" /\ ops = 0 THEN {[mem |-> disk, disk |-> disk, ops |-> 0, commit |-> FALSE]}
  ELSE {[mem |-> m, disk |-> m, ops |-> 0, commit |-> TRUE]}
       \cup (IF rc = "OK" /\ ops + 1 < Batch
             THEN {[mem |-> m, disk |-> disk, ops |-> ops + 1, commit |-> FALSE]} ELSE {})

\* The history: what the last commit holds, and what has happened since.
Moved(m) == {m.map[x[1]][x[2]].at : x \in {y \in Files \X Lblks :
               /\ m.map[y[1]][y[2]].at \in Used(disk)
               /\ m.map[y[1]][y[2]].at # disk.map[y[1]][y[2]].at}} \ {0}
Finish(m, rc, cutting) ==
  \E t \in txn_finish(m, rc) :
    /\ mem' = t.mem /\ disk' = t.disk /\ ops' = t.ops
    /\ kept' = IF t.commit THEN want' ELSE kept
    /\ mark' = IF t.commit THEN writes' ELSE mark
    /\ cut' = IF t.commit THEN {} ELSE cut \cup cutting
    /\ reused' = IF t.commit THEN {} ELSE reused \cup Moved(m)

\* want with the n cells from off set to v, and zeros before them if need be.
Overlaid(w, off, n, v) ==
  [i \in 1..Most(Len(w), off + n) |->
     IF i > off /\ i <= off + n THEN v ELSE IF i <= Len(w) THEN w[i] ELSE Zero]
Resized(w, size) == [i \in 1..size |-> IF i <= Len(w) THEN w[i] ELSE Zero]

MaxSize == (Span - Ahead) * BlockCells
Faults  == {NoFault} \cup ((0..(Span - Ahead)) \X {"map", "io"})

ext4b_write(f, off, n, fault) ==
  LET v == <<f, writes + 1>> IN
  /\ up /\ writes < MaxWrites /\ off + n <= MaxSize
  /\ fault # NoFault => fails < MaxFails
  /\ "gap" \in Windows \/ Backed(mem, f, Have(mem, f)) \/ loan[f] \subseteq 0..(Have(mem, f) - 1)
  /\ \E r \in {Reserve(mem, f, off, n)} :
     \E w \in {Written(r.m, f, off, n, v, fault)} :
       /\ fault # NoFault => w # Written(r.m, f, off, n, v, NoFault)
       /\ IF w.rc # "OK" /\ ops = 0
          THEN "evict" \in Windows \/ r.resv = resv
          ELSE w.met \subseteq Windows
       /\ data' = w.d /\ resv' = r.resv /\ rnext' = r.next
       /\ writes' = writes + 1
       /\ fails' = IF fault = NoFault THEN fails ELSE fails + 1
       /\ want' = IF w.rc = "OK" THEN [want EXCEPT ![f] = Overlaid(@, off, w.done, v)] ELSE want
       /\ Finish(w.m, w.rc, {})
  /\ UNCHANGED <<up, calls, loan>>

Call == up /\ calls < MaxOps /\ calls' = calls + 1

ext4b_truncate(f, size) ==
  LET old == mem.size[f]
      m   == IF size < old THEN Shrunk(mem, f, size) ELSE [mem EXCEPT !.size[f] = size]
  IN
  /\ Call /\ size <= MaxSize
  /\ BlocksOf(size) < Have(mem, f) => SweptAll(mem, f, BlocksOf(size))
  /\ "settle" \in Windows \/ Holder(resv, f) = {} \/ (size < old /\ m.map # mem.map)
  /\ resv' = resv_forget(resv, f)
  /\ data' = IF size > old THEN zero_exposed_range(mem, f, old, size) ELSE data
  /\ want' = [want EXCEPT ![f] = Resized(@, size)]
  /\ loan' = [loan EXCEPT ![f] = {l \in @ : Backed(m, f, l)}]
  /\ UNCHANGED <<up, fails, writes, rnext>>
  /\ Finish(m, "OK", IF size < old THEN {f} ELSE {})

\* Where preallocateSpace starts: at the file's physical end, which counts what
\* its attributes and its extent tree take (extra) as well.
PhysicalEnd(f, extra) ==
  LET alloc == Cardinality({l \in Lblks : Backed(mem, f, l)}) + extra
  IN  Most(mem.size[f], alloc * BlockCells)

\* n blocks from there on, and no change of the size.
ext4b_preallocate(f, n, extra) ==
  LET start == PhysicalEnd(f, extra)
      first == start \div BlockCells
      count == (start + n * BlockCells - 1) \div BlockCells - first + 1
      p     == preallocate(mem, f, first, count)
      full  == \E l \in first..(first + count - 1) : l \in Lblks /\ ~Backed(p, f, l)
  IN
  /\ Call /\ first + count <= Span
  /\ full => "nospace" \in Windows \/ (ops = 0 /\ Holder(resv, f) = {})
  /\ resv' = resv_forget(resv, f)
  /\ loan' = IF full THEN loan
             ELSE [loan EXCEPT ![f] = @ \cup {l \in first..(first + count - 1) : l >= Have(mem, f)}]
  /\ UNCHANGED <<data, want, up, fails, writes, rnext>>
  /\ Finish(p, IF full THEN "ENOSPC" ELSE "OK", {})

ext4b_trim_preallocation(f) ==
  /\ Call /\ SweptAll(mem, f, Have(mem, f))
  /\ resv' = resv_forget(resv, f) /\ loan' = [loan EXCEPT ![f] = {}]
  /\ UNCHANGED <<data, want, up, fails, writes, rnext>>
  /\ Finish(trim_alloc_to_size(mem, f), "OK", {})

\* The last name goes and the inode is freed; the next file to get its number
\* starts empty.
DeleteInode(f) ==
  /\ Call /\ mem.size[f] > 0 /\ SweptAll(mem, f, 0)
  /\ resv' = resv_forget(resv, f) /\ loan' = [loan EXCEPT ![f] = {}]
  /\ want' = [want EXCEPT ![f] = <<>>]
  /\ UNCHANGED <<data, up, fails, writes, rnext>>
  /\ Finish(Shrunk(mem, f, 0), "OK", {f})

Commit(m) ==
  /\ mem' = m /\ disk' = m /\ ops' = 0 /\ kept' = want /\ mark' = writes
  /\ cut' = {} /\ reused' = {}

ext4b_sync ==
  /\ up /\ ops > 0 /\ Commit(mem)
  /\ UNCHANGED <<data, resv, rnext, up, calls, fails, writes, want, loan>>

\* resv_drain, then whatever transaction is open.
ext4b_unmount ==
  /\ up /\ up' = FALSE
  /\ resv' = [s \in 1..Slots |-> Free] /\ Commit(resv_release_all(mem))
  /\ UNCHANGED <<data, rnext, calls, fails, writes, want, loan>>

\* What was not committed is gone; what is on the medium stays, and nobody
\* takes back what a file then holds past its end.
Crash ==
  /\ up /\ up' = FALSE
  /\ mem' = disk /\ ops' = 0
  /\ resv' = [s \in 1..Slots |-> Free] /\ rnext' = 0
  /\ want' = [f \in Files |-> Contents(disk, data, f)]
  /\ kept' = want' /\ mark' = writes /\ cut' = {} /\ reused' = {}
  /\ loan' = [f \in Files |-> {l \in Lblks : l >= Have(disk, f) /\ Backed(disk, f, l)}]
  /\ UNCHANGED <<disk, data, calls, fails, writes>>

ext4b_mount ==
  /\ ~up /\ up' = TRUE
  /\ UNCHANGED <<mem, disk, data, resv, rnext, ops, calls, fails, writes, want,
                 loan, kept, mark, cut, reused>>

Next ==
  \/ \E f \in Files :
       \/ \E off \in 0..(MaxSize - 1), n \in 1..MaxSize, x \in Faults : ext4b_write(f, off, n, x)
       \/ \E size \in 0..MaxSize : ext4b_truncate(f, size)
       \/ \E n \in 1..2, extra \in 0..1 : ext4b_preallocate(f, n, extra)
       \/ ext4b_trim_preallocation(f) \/ DeleteInode(f)
  \/ ext4b_sync \/ ext4b_unmount \/ Crash \/ ext4b_mount

Spec == Init /\ [][Next]_vars

-----------------------------------------------------------------------------
(* Properties *)

\* The state has the shape the declarations describe.
TypeOK ==
  /\ mem \in Meta /\ disk \in Meta
  /\ data \in [Blocks -> [Cells -> Values]]
  /\ resv \in [1..Slots -> [inode : Files \cup {None}, end : 0..(2 * Span)]]

\* A file reads as everything that was reported done to it: each cell holds the
\* last value written there, or zero where a truncate made room (ext4b_write's
\* count, "Only now is the range allowed to read back as data").
ReadsRight == \A f \in Files : Contents(mem, data, f) = want[f]

\* No block belongs to two places, in the cache or on the medium.
NotShared ==
  \A m \in {mem, disk} : \A x, y \in Files \X Lblks :
    x # y /\ m.map[x[1]][x[2]].at # 0 => m.map[x[1]][x[2]].at # m.map[y[1]][y[2]].at

\* After a crash a file is as long as at the last commit, and each cell of it is
\* what it was then, or what was written to it since, or zero if it has been
\* shortened since; but for blocks handed out before the commit that frees them.
CrashReads ==
  [][Crash => \A f \in Files :
       /\ Len(want'[f]) = Len(kept[f])
       /\ \A i \in DOMAIN want'[f] :
            \/ want'[f][i] = kept[f][i]
            \/ want'[f][i][1] = f /\ want'[f][i][2] > mark
            \/ want'[f][i] = Zero /\ f \in cut
            \/ At(disk, f, (i - 1) \div BlockCells).at \in reused]_vars

\* What an application was told it has past the end of its file stays until it
\* is used or given back: no reservation takes it (the comment in ext4b_write:
\* "undoing an fcntl the application was told had succeeded").
PreallocKept == \A f \in Files : \A l \in loan[f] : Backed(mem, f, l)

\* Unwritten blocks past the end of a file are an application's, or in the
\* table that returns them; so after an unmount only the former are left ("nothing
\* may outlive the mount that took them").
ResvTracked ==
  \A f \in Files :
    (\E l \in Lblks : l >= Have(mem, f) /\ At(mem, f, l).unwritten) =>
      loan[f] # {} \/ Holder(resv, f) # {}

\* The blocks of the files are theirs alone and hold what was written to them
\* (ext4b_write, ext4b_truncate, ext4b_preallocate).
FilesRight == TypeOK /\ NotShared /\ ReadsRight

\* The space past the end of a file is accounted for: what was promised to an
\* application stays, and what the driver took ahead for itself is remembered
\* (resv_set, resv_forget, ext4b_preallocate).
AheadKept == PreallocKept /\ ResvTracked
=============================================================================
