------------------------------ MODULE Extents ------------------------------
(***************************************************************************)
(* The extent tree of one file (ext4_extent.c): what a logical block maps  *)
(* to, found by descending an index, and the calls that change it.         *)
(*                                                                         *)
(* node[0] is the root in the inode, node[b] the tree block b.  An entry   *)
(* of a leaf maps len blocks from lb to at and on; an entry of an index    *)
(* has the first block of the child at at.  A path is the node and the     *)
(* position in it at each level, 0 being no position.                      *)
(***************************************************************************)
EXTENDS Integers, Sequences, SequencesExt, FiniteSets

CONSTANTS
  Span,              \* logical blocks of the file
  NBlocks,           \* blocks of the volume
  RootCap, NodeCap,  \* entries of the root (4) and of a tree block (340)
  MaxLen,            \* EXT_INIT_MAX_LEN
  Laid,              \* orders in which the file may have got its first blocks
  Held,              \* blocks that other files hold then
  MaxOther,          \* blocks other files hold at a time (bound)
  Lens,              \* lengths a write or a reservation asks for (bound)
  MaxCalls,          \* calls (bound)
  Windows            \* cases in which the code is known to go wrong

(***************************************************************************)
(*   "prepend"  a new extent joins the one that follows it                 *)
(*   "split"    no block is left for the split a conversion needs          *)
(*   "partway"  a call that ran out of blocks is not rolled back           *)
(*   "hole"     a removal begins in a hole that has blocks behind it       *)
(***************************************************************************)
ASSUME ExtentsAssumption ==
  /\ {Span, NBlocks, RootCap, NodeCap, MaxLen} \subseteq Nat \ {0} /\ {MaxOther, MaxCalls} \subseteq Nat
  /\ RootCap < NodeCap /\ MaxLen > 1
  /\ Lens \subseteq 1..Span
  /\ Laid \subseteq Seq(0..(Span - 1)) /\ Held \subseteq 1..NBlocks
  /\ Windows \subseteq {"prepend", "split", "partway", "hole"}

VARIABLES
  tree,    \* [depth, node, free]: the tree and the volume's free blocks
  map,     \* what the tree gives for each logical block
  other,   \* blocks other files hold
  call,    \* the last call: its number, its request and its answer
  stale    \* blocks of this file that hold what someone else left there

vars == <<tree, map, other, call, stale>>

Lblks  == 0..(Span - 1)
Blocks == 1..NBlocks

Entry(lb, len, at, unw) == [lb |-> lb, len |-> len, at |-> at, unw |-> unw]
Index(lb, at)           == Entry(lb, 0, at, FALSE)
Entries == [lb : Lblks, len : 0..MaxLen, at : Blocks, unw : BOOLEAN]

\* ext4_ext_max_entries: the root is smaller than a block.
Cap(k) == IF k = 0 THEN RootCap ELSE NodeCap

-----------------------------------------------------------------------------
(* Finding *)

\* ext4_ext_binsearch: the last entry that starts at or before l, or the first.
Pos(es, l) ==
  IF es = <<>> THEN 0
  ELSE CHOOSE i \in DOMAIN es : /\ i = 1 \/ es[i].lb <= l
                                /\ \A j \in DOMAIN es : j > i => es[j].lb > l

find_extent(t, l) ==
  LET path[k \in 0..t.depth] ==
        LET id == IF k = 0 THEN 0 ELSE t.node[path[k - 1].id][path[k - 1].pos].at
        IN  [id |-> id, pos |-> Pos(t.node[id], l)]
  IN  path

InRange(x, l) == l >= x.lb /\ l < x.lb + x.len
Nothing == Entry(0, 0, 0, FALSE)
\* The extent a path ends at.
Extent(t, path) ==
  LET leaf == path[t.depth]
  IN  IF leaf.pos = 0 THEN Nothing ELSE t.node[leaf.id][leaf.pos]

\* ext4_extent_map_range, one block.
Lookup(t, l) ==
  LET x == Extent(t, find_extent(t, l))
  IN  IF InRange(x, l) THEN [at |-> x.at + l - x.lb, unwritten |-> x.unw]
      ELSE [at |-> 0, unwritten |-> FALSE]

\* ext4_ext_next_allocated_block: the entry after the path's, at the lowest
\* level that has one.
next_allocated_block_InLeaf(t, path) ==
  LET leaf == path[t.depth]
  IN  IF leaf.pos \in 1..(Len(t.node[leaf.id]) - 1) THEN t.node[leaf.id][leaf.pos + 1].lb ELSE Span
next_allocated_block(t, path) ==
  LET More(k) == path[k].pos # 0 /\ path[k].pos < Len(t.node[path[k].id])
      low == CHOOSE k \in 0..t.depth : More(k) /\ \A j \in (k + 1)..t.depth : ~More(j)
  IN  IF \E k \in 0..t.depth : More(k) THEN t.node[path[low].id][path[low].pos + 1].lb ELSE Span

\* ext4_extent_probe: how far what holds at l goes on, 0 for a hole that is the last.
probe(t, l) ==
  LET path == find_extent(t, l)
      x    == Extent(t, path)
      next == next_allocated_block(t, path)
  IN  IF InRange(x, l) THEN x.len - (l - x.lb) ELSE IF next = Span THEN 0 ELSE next - l

\* ext4b_map_extents, from block l to the end: the runs that the probes give,
\* up to the hole that is the last.
ext4b_map_extents(t, from) ==
  LET runs[l \in 0..Span] ==
        IF l = Span THEN <<>>
        ELSE LET at  == Lookup(t, l)
                 len == probe(t, l)
                 run == IF len > Span - l THEN Span - l ELSE len
             IN  IF len = 0 THEN <<>>
                 ELSE <<[lb |-> l, len |-> run, at |-> at.at, unw |-> at.unwritten]>> \o runs[l + run]
  IN  runs[from]

-----------------------------------------------------------------------------
(* Blocks *)

\* ext4_ext_find_goal, then the first free block from it on, or from the start.
find_goal(t, path, l) ==
  LET x == Extent(t, path) IN IF x = Nothing THEN 1 ELSE x.at + l - x.lb
NewBlock(t, goal) ==
  LET near == {b \in t.free : b >= goal /\ goal >= 1}
      from == IF near = {} THEN t.free ELSE near
  IN  CHOOSE b \in from : \A c \in from : b <= c
Take(t, b)  == [t EXCEPT !.free = @ \ {b}]
Give(t, bs) == [t EXCEPT !.free = @ \cup bs]

-----------------------------------------------------------------------------
(* Inserting *)

Limit(unw) == IF unw THEN MaxLen - 1 ELSE MaxLen
can_append_NoLimit(x, y) == x.unw = y.unw /\ x.at + x.len = y.at /\ x.lb + x.len = y.lb
can_append_AnyState(x, y) ==
  /\ x.at + x.len = y.at /\ x.lb + x.len = y.lb /\ x.len + y.len <= Limit(x.unw)
can_append(x, y) ==
  /\ x.unw = y.unw
  /\ x.at + x.len = y.at /\ x.lb + x.len = y.lb /\ x.len + y.len <= Limit(x.unw)

\* The key of a leaf goes up through every level in which the path is leftmost.
correct_indexes_Once(t, path) ==
  LET border == t.node[path[t.depth].id][1].lb
  IN  IF t.depth = 0 \/ path[t.depth].pos # 1 THEN t
      ELSE [t EXCEPT !.node[path[t.depth - 1].id][path[t.depth - 1].pos].lb = border]
correct_indexes(t, path) ==
  LET border == t.node[path[t.depth].id][1].lb
      Leftmost(k) == \A j \in (k + 1)..t.depth : path[j].pos = 1
  IN  [t EXCEPT !.node = [b \in 0..NBlocks |->
        IF \E k \in 0..(t.depth - 1) : path[k].id = b /\ Leftmost(k)
        THEN LET k == CHOOSE i \in 0..(t.depth - 1) : path[i].id = b
             IN  [@[b] EXCEPT ![path[k].pos].lb = border]
        ELSE @[b]]]

\* The outcome of a step of a call: a tree, the path into it, and a code.
Out(t, path, rc) == [t |-> t, path |-> path, rc |-> rc]

\* A merge with the extent before, a merge with the one after (which moves the
\* first block and not the start), no room, or a new entry.
insert_leaf(t, path, e, combine) ==
  LET d    == t.depth
      id   == path[d].id
      es   == t.node[id]
      pos  == path[d].pos
      x    == Extent(t, path)
      spot == IF pos = 0 THEN 1 ELSE IF e.lb > x.lb THEN pos + 1 ELSE pos
      at1  == [path EXCEPT ![d].pos = IF pos = 0 THEN 1 ELSE pos]
      put  == correct_indexes([t EXCEPT !.node[id] = InsertAt(es, spot, e)], at1)
  IN
  CASE pos # 0 /\ e.lb = x.lb -> Out(t, path, "EIO")
    [] pos # 0 /\ e.lb # x.lb /\ combine /\ can_append(x, e) ->
         Out([t EXCEPT !.node[id][pos].len = @ + e.len], path, "OK")
    [] pos # 0 /\ e.lb # x.lb /\ combine /\ ~can_append(x, e) /\ can_append(e, x) ->
         Out([t EXCEPT !.node[id][pos].len = @ + e.len, !.node[id][pos].lb = e.lb], path, "OK")
    [] OTHER -> IF Len(es) = Cap(d) THEN Out(t, path, "split")
                ELSE Out(put, [path EXCEPT ![d].pos = spot], "OK")

\* The root moves into a block of its own, one level down.
grow_indepth(t) ==
  LET b == NewBlock(t, IF t.depth = 0 THEN 1 ELSE t.node[0][1].at)
  IN  [depth |-> t.depth + 1, free |-> t.free \ {b},
       node |-> [t.node EXCEPT ![b] = t.node[0], ![0] = <<Index(t.node[0][1].lb, b)>>]]

\* Every node of the path from the leaf up to level at is cut after its current
\* entry; a level without a block left undoes the blocks, not the cuts.
split_node(t, path, at, e) ==
  LET d     == t.depth
      es    == t.node[path[d].id]
      mid   == IF path[d].pos < Len(es) THEN es[path[d].pos + 1].lb ELSE e.lb
      right == e.lb >= mid
      cut[i \in at..(d + 1)] ==
        IF i = d + 1 THEN [t |-> t, new |-> [j \in at..d |-> 0], rc |-> "OK"]
        ELSE LET c    == cut[i + 1]
                 b    == NewBlock(c.t, find_goal(t, path, e.lb))
                 es_i == c.t.node[path[i].id]
                 rest == SubSeq(es_i, path[i].pos + 1, Len(es_i))
             IN  IF c.rc # "OK" THEN c
                 ELSE IF c.t.free = {} THEN
                   LET mine == {c.new[j] : j \in at..d} \ {0}
                   IN  [t |-> [Give(c.t, mine) EXCEPT !.node = [x \in 0..NBlocks |-> IF x \in mine THEN <<>> ELSE @[x]]],
                        new |-> c.new, rc |-> "ENOSPC"]
                 ELSE [t |-> [Take(c.t, b) EXCEPT
                                !.node[b] = IF i = d THEN rest ELSE <<Index(mid, c.new[i + 1])>> \o rest,
                                !.node[path[i].id] = SubSeq(es_i, 1, path[i].pos)],
                       new |-> [c.new EXCEPT ![i] = b], rc |-> "OK"]
      c  == cut[at]
      up == path[at - 1]
      moved == [k \in 0..d |-> IF k < at - 1 THEN path[k]
                               ELSE IF k = at - 1 THEN [up EXCEPT !.pos = @ + 1]
                               ELSE [id |-> c.new[k], pos |-> IF c.t.node[c.new[k]] = <<>> THEN 0 ELSE 1]]
  IN  IF c.rc # "OK" THEN Out(c.t, path, c.rc)
      ELSE Out([c.t EXCEPT !.node[up.id] = InsertAt(@, up.pos + 1, Index(mid, c.new[at]))],
               IF right THEN moved ELSE path, "OK")

\* Room for one more entry in the leaf of the path: the lowest level with room
\* takes the new node, or the root grows first.
MakeRoom(t, path, e) ==
  LET d       == t.depth
      HasRoom(k) == Len(t.node[path[k].id]) < Cap(k)
      low     == CHOOSE k \in 0..d : HasRoom(k) /\ \A j \in (k + 1)..d : ~HasRoom(j)
      grown   == grow_indepth(t)
      gpath   == find_extent(grown, e.lb)
  IN
  IF \E k \in 0..d : HasRoom(k) THEN split_node(t, path, low + 1, e)
  ELSE IF t.free = {} THEN Out(t, path, "ENOSPC")
  ELSE IF d = 0 THEN Out(grown, gpath, "OK")
  ELSE split_node(grown, gpath, 2, e)

\* A step that goes on from what the one before it came to.
Then(r, Step(_)) == Step(r)

insert_extent(t, path, e, combine) ==
  LET Again(b) == IF b.rc # "OK" THEN b ELSE insert_leaf(b.t, b.path, e, combine)
      Room(a)  == IF a.rc # "split" THEN a ELSE Then(MakeRoom(t, path, e), Again)
  IN  Then(insert_leaf(t, path, e, combine), Room)

-----------------------------------------------------------------------------
(* Converting unwritten blocks *)

\* Two extents out of one, in the states given; if there is no room for the
\* second, the first gets its length back, and not its state, and the call goes on
\* ("LOST", which the code takes for success).
split_extent_at(t, path, split, unw1, unw2) ==
  LET leaf == path[t.depth]
      x    == Extent(t, path)
      k    == split - x.lb
      cut  == [t EXCEPT !.node[leaf.id][leaf.pos] = [x EXCEPT !.len = k, !.unw = unw1]]
      Fixed(ins) == IF ins.rc = "OK" THEN ins
                    ELSE Out([ins.t EXCEPT !.node[leaf.id][leaf.pos] = [x EXCEPT !.unw = FALSE]], path, "LOST")
  IN
  IF k = 0 THEN Out([t EXCEPT !.node[leaf.id][leaf.pos].unw = unw2], path, "OK")
  ELSE Then(insert_extent(cut, path, Entry(split, x.len - k, x.at + k, unw2), FALSE), Fixed)

\* The right part, the left part, or the middle: the last needs a second split,
\* after a new search.
convert_to_initialized_Stale(t, path, l, n) ==
  LET x == Extent(t, path)
      Left(a) == [split_extent_at(a.t, a.path, l, TRUE, FALSE) EXCEPT !.rc = IF a.rc = "OK" THEN @ ELSE a.rc]
  IN
  IF l + n = x.lb + x.len THEN split_extent_at(t, path, l, TRUE, FALSE)
  ELSE IF x.lb = l THEN split_extent_at(t, path, l + n, FALSE, TRUE)
  ELSE Then(split_extent_at(t, path, l + n, TRUE, TRUE), Left)
convert_to_initialized(t, path, l, n) ==
  LET x == Extent(t, path)
      Left(a) == [split_extent_at(a.t, find_extent(a.t, l), l, TRUE, FALSE) EXCEPT !.rc = IF a.rc = "OK" THEN @ ELSE a.rc]
  IN
  IF l + n = x.lb + x.len THEN split_extent_at(t, path, l, TRUE, FALSE)
  ELSE IF x.lb = l THEN split_extent_at(t, path, l + n, FALSE, TRUE)
  ELSE Then(split_extent_at(t, path, l + n, TRUE, TRUE), Left)

Absorbs(es, i) == i \in 1..(Len(es) - 1) /\ can_append(es[i], es[i + 1])
merge_next(es, i) == RemoveAt([es EXCEPT ![i].len = @ + es[i + 1].len], i + 1)

\* ext4_ext_try_to_merge: with the entries before it in its leaf, then with
\* those after it.
try_to_merge(t, path) ==
  LET leaf == path[t.depth]
      back[k \in 0..NodeCap] ==
        IF k = 0 THEN [es |-> t.node[leaf.id], i |-> leaf.pos]
        ELSE LET b == back[k - 1] IN
             IF Absorbs(b.es, b.i - 1) THEN [es |-> merge_next(b.es, b.i - 1), i |-> b.i - 1] ELSE b
      at == back[NodeCap].i
      forth[k \in 0..NodeCap] ==
        IF k = 0 THEN back[NodeCap].es
        ELSE IF Absorbs(forth[k - 1], at) THEN merge_next(forth[k - 1], at) ELSE forth[k - 1]
  IN  IF leaf.pos = 0 THEN t ELSE [t EXCEPT !.node[leaf.id] = forth[NodeCap]]

-----------------------------------------------------------------------------
(* Removing *)

\* The tree blocks below entry e of a node at level k.
Below(t, k, e) ==
  LET at[j \in k..t.depth] ==
        IF j = k THEN {e.at} ELSE {t.node[b][i].at : <<b, i>> \in
                        {x \in at[j - 1] \X (1..NodeCap) : x[2] \in DOMAIN t.node[x[1]]}}
  IN  UNION {at[j] : j \in k..(t.depth - 1)}
RunOf(x) == x.at..(x.at + x.len - 1)

\* What the walk of ext4_extent_remove_space to the end of the file leaves: in
\* each node of the path the entries before its own, and its own if something
\* is left under it; a node with none goes, and an empty root is a leaf again.
Swept(t, path, from) ==
  LET d    == t.depth
      x    == Extent(t, path)
      Left(k) == SubSeq(t.node[path[k].id], 1, path[k].pos - 1)
      kept[k \in 0..d] ==
        IF k = d THEN Left(d) \o (IF x.lb < from THEN <<[x EXCEPT !.len = from - x.lb]>> ELSE <<>>)
        ELSE IF kept[k + 1] = <<>> THEN Left(k) ELSE Left(k) \o <<t.node[path[k].id][path[k].pos]>>
      gone(b) == \/ \E k \in 1..d : path[k].id = b /\ kept[k] = <<>>
                 \/ \E k \in 0..(d - 1) : \E i \in (path[k].pos + 1)..Len(t.node[path[k].id]) :
                      b \in Below(t, k, t.node[path[k].id][i])
      data == {Lookup(t, l).at : l \in from..(Span - 1)} \ {0}
      On(b) == CHOOSE k \in 0..d : path[k].id = b
  IN  [depth |-> IF kept[0] = <<>> THEN 0 ELSE d,
       node  |-> [b \in 0..NBlocks |->
                    IF b # 0 /\ gone(b) THEN <<>>
                    ELSE IF \E k \in 0..d : path[k].id = b THEN kept[On(b)] ELSE t.node[b]],
       free  |-> t.free \cup data \cup {b \in Blocks : gone(b)}]

remove_space_KeepsNodes(t, from) ==
  LET path == find_extent(t, from)
      s    == Swept(t, path, from)
  IN  IF InRange(Extent(t, path), from)
      THEN [s EXCEPT !.free = t.free \cup ({Lookup(t, l).at : l \in from..(Span - 1)} \ {0})] ELSE t
remove_space(t, from) ==
  LET path == find_extent(t, from)
  IN  IF InRange(Extent(t, path), from) THEN Swept(t, path, from) ELSE t

-----------------------------------------------------------------------------
(* The calls *)

\* One new block at l.  A failure gives the block back.
Backing(t, l, unw) ==
  LET path == find_extent(t, l)
      b    == NewBlock(t, find_goal(t, path, l))
      e    == Entry(l, 1, b, unw)
      x    == Extent(t, path)
      Backed(ins) ==
        IF ins.rc # "OK" THEN [t |-> Give(ins.t, {b}), rc |-> ins.rc, at |-> 0, prepends |-> FALSE]
        ELSE [t |-> ins.t, rc |-> "OK", at |-> b,
              prepends |-> ~can_append(x, e) /\ can_append(e, x)]
  IN  IF t.free = {} THEN [t |-> t, rc |-> "ENOSPC", at |-> 0, prepends |-> FALSE]
      ELSE Then(insert_extent(Take(t, b), path, e, TRUE), Backed)

\* The call that this step is: what it was asked, for n blocks from first on,
\* and what it answered: a code, how many blocks, and where they are.
Call(op, first, n, rc, got, at) ==
  call' = [no |-> call.no + 1, op |-> op, first |-> first, n |-> n, rc |-> rc, got |-> got, at |-> at]

\* A call that failed is rolled back, unless it shares its transaction.
Settle(out, before) == IF out.rc = "OK" THEN {out.t} ELSE {before} \cup (IF "partway" \in Windows THEN {out.t} ELSE {})

\* A write into unwritten space zeroes it first; into a hole, takes one block,
\* which the caller then fills.
\* ext4_ext_zero_unwritten_range: past the cache, before the extent says so.
zero_unwritten_range(first, n) == stale \ (first..(first + n - 1))

ext4_extent_get_blocks(l, n) ==
  LET path == find_extent(tree, l)
      x    == Extent(tree, path)
      run  == IF x.len - (l - x.lb) < n THEN x.len - (l - x.lb) ELSE n
      at   == x.at + l - x.lb
  IN
  /\ UNCHANGED other
  /\ \/ /\ InRange(x, l) /\ ~x.unw
        /\ Call("write", l, n, "OK", run, at)
        /\ UNCHANGED <<tree, stale>>
     \/ /\ InRange(x, l) /\ x.unw
        /\ \E conv \in {convert_to_initialized(tree, path, l, run)} :
             (conv.rc = "LOST" => "split" \in Windows) /\ tree' = conv.t
        /\ stale' = zero_unwritten_range(at, run)
        /\ Call("write", l, n, "OK", run, at)
     \/ /\ ~InRange(x, l)
        /\ \E new \in {Backing(tree, l, FALSE)} :
             /\ new.prepends => "prepend" \in Windows
             /\ \E t \in Settle(new, tree) : tree' = t
             /\ Call("write", l, n, new.rc, IF new.rc = "OK" THEN 1 ELSE 0, new.at)
        /\ stale' = stale

ext4_extent_preallocate(l, n) ==
  LET step[j \in 0..n] ==
        IF j = 0 THEN [t |-> tree, rc |-> "OK", got |-> {}, prepends |-> FALSE]
        ELSE LET s == step[j - 1]
                 Added(b) ==
                   [t |-> IF b.rc = "OK" \/ "partway" \in Windows THEN b.t ELSE s.t, rc |-> b.rc,
                    got |-> IF b.rc = "OK" THEN s.got \cup {b.at} ELSE s.got,
                    prepends |-> s.prepends \/ b.prepends]
             IN  IF s.rc # "OK" \/ Lookup(s.t, l + j - 1).at # 0 THEN s
                 ELSE Then(Backing(s.t, l + j - 1, TRUE), Added)
  IN
  /\ l + n <= Span
  /\ \E s \in {step[n]} :
       /\ s.prepends => "prepend" \in Windows
       /\ tree' = s.t /\ stale' = stale \cup s.got
       /\ Call("preallocate", l, n, s.rc, Cardinality(s.got), 0)
  /\ UNCHANGED other

\* ext4_extent_map_range, the caller's data, ext4_extent_mark_written.
ext4_extent_mark_written(l, n) ==
  LET path == find_extent(tree, l)
      x    == Extent(tree, path)
  IN
  /\ InRange(x, l) /\ InRange(x, l + n - 1) /\ x.unw
  /\ \E conv \in {convert_to_initialized(tree, path, l, n)} :
       /\ conv.rc = "LOST" => "split" \in Windows
       /\ tree' = try_to_merge(conv.t, find_extent(conv.t, l))
  /\ stale' = stale \ ((x.at + l - x.lb)..(x.at + l + n - 1 - x.lb))
  /\ Call("mark", l, n, "OK", 0, 0)
  /\ UNCHANGED other

ext4_extent_remove_space(from) ==
  /\ map[from].at = 0 /\ (\E l \in from..(Span - 1) : map[l].at # 0) => "hole" \in Windows
  /\ tree' = remove_space(tree, from)
  /\ Call("remove", from, 0, "OK", 0, 0)
  /\ stale' = stale \ tree'.free
  /\ UNCHANGED other

\* Other files take and return blocks.
OtherTakes(b) ==
  /\ b \in tree.free /\ Cardinality(other) < MaxOther
  /\ other' = other \cup {b} /\ tree' = Take(tree, b) /\ UNCHANGED stale
  /\ Call("other", 0, 0, "OK", 0, 0)
OtherGives(b) ==
  /\ b \in other
  /\ other' = other \ {b} /\ tree' = Give(tree, {b}) /\ UNCHANGED stale
  /\ Call("other", 0, 0, "OK", 0, 0)

\* A file that was written one block at a time.
LaidOut(order) ==
  LET none == [depth |-> 0, node |-> [b \in 0..NBlocks |-> <<>>], free |-> Blocks \ Held]
      upto[k \in 0..Len(order)] == IF k = 0 THEN none ELSE Backing(upto[k - 1], order[k], FALSE).t
  IN  upto[Len(order)]

Init ==
  /\ \E order \in Laid : tree = LaidOut(order)
  /\ map = [l \in Lblks |-> Lookup(tree, l)]
  /\ other = Held /\ stale = {}
  /\ call = [no |-> 0, op |-> "none", first |-> 0, n |-> 0, rc |-> "OK", got |-> 0, at |-> 0]

Calls ==
  \/ \E l \in Lblks :
       \/ \E n \in 1..(Span - l) : ext4_extent_mark_written(l, n)
       \/ \E n \in Lens : ext4_extent_get_blocks(l, n) \/ ext4_extent_preallocate(l, n)
       \/ ext4_extent_remove_space(l)
  \/ \E b \in Blocks : OtherTakes(b) \/ OtherGives(b)
Next ==
  /\ call.no < MaxCalls /\ Calls
  /\ map' = [l \in Lblks |-> Lookup(tree', l)]

Spec == Init /\ [][Next]_vars

-----------------------------------------------------------------------------
(* Properties *)

\* The state has the shape the declarations describe.
TypeOK ==
  /\ tree.depth \in 0..NBlocks /\ tree.free \in SUBSET Blocks
  /\ \A b \in 0..NBlocks : tree.node[b] \in Seq(Entries)
  /\ other \in SUBSET Blocks /\ stale \in SUBSET Blocks

\* The blocks of each level of the tree, the root's level being 0.
Level ==
  LET at[k \in 0..tree.depth] ==
        IF k = 0 THEN {0}
        ELSE {tree.node[x[1]][x[2]].at : x \in {y \in at[k - 1] \X (1..NodeCap) : y[2] \in DOMAIN tree.node[y[1]]}}
  IN  at
NodesOf   == UNION {Level[k] : k \in 1..tree.depth}
LeafData  == {x \in Level[tree.depth] \X (1..NodeCap) : x[2] \in DOMAIN tree.node[x[1]]}

\* The tree is one: no node is over-full, no tree block is empty, the entries of
\* a node ascend, each key is the first of what is under it, and extents do not
\* overlap (what ext4_ext_check, the binary searches and e2fsck rely on).
TreeOK ==
  /\ \A k \in 0..tree.depth : \A b \in Level[k] :
       LET es == tree.node[b] IN
       /\ Len(es) <= Cap(k) /\ (k > 0 => es # <<>>) /\ (k < tree.depth => es # <<>>)
       /\ \A i \in 1..(Len(es) - 1) : es[i].lb < es[i + 1].lb
       /\ \A i \in DOMAIN es :
            IF k < tree.depth THEN tree.node[es[i].at] # <<>> /\ tree.node[es[i].at][1].lb = es[i].lb
            ELSE es[i].len > 0
  /\ \A x, y \in LeafData :
       LET a == tree.node[x[1]][x[2]]
           b == tree.node[y[1]][y[2]]
       IN  x # y => ~InRange(a, b.lb)

\* Every block is free, another file's, a tree block or the backing of exactly
\* one logical block: none is lost and none is used twice.
Accounted ==
  LET data == {map[l].at : l \in Lblks} \ {0}
  IN
  /\ tree.free \cup other \cup NodesOf \cup data = Blocks
  /\ Cardinality(tree.free) + Cardinality(other) + Cardinality(NodesOf) + Cardinality(data) = NBlocks
  /\ Cardinality(data) = Cardinality({l \in Lblks : map[l].at # 0})

\* A block that reads as data holds this file's data: what was preallocated is
\* zeroed or written before its extent says so (ext4_extent_map_range: a crash
\* in between "reads back as zeros rather than exposing whatever those blocks
\* held before").
NothingExposed ==
  \A l \in Lblks : map[l].at # 0 /\ ~map[l].unwritten => map[l].at \notin stale

\* What ext4b_map_extents tells of a file is what is in it: the runs it lists
\* are the blocks, holes and unwritten blocks of the tree, and no block is
\* behind the hole it stops at, in this leaf or another ("a silently truncated
\* map is a wrong map").  From a block that has an extent before it: in front of
\* the first one, next_allocated_block looks past it.
MapRight ==
  \A from \in Lblks :
    (\E k \in 0..from : map[k].at # 0) =>
      \A runs \in {ext4b_map_extents(tree, from)} :
      LET In(l) == \E k \in DOMAIN runs : InRange(runs[k], l)
          Told(l) == LET k == CHOOSE i \in DOMAIN runs : InRange(runs[i], l)
                     IN  [at |-> IF runs[k].at = 0 THEN 0 ELSE runs[k].at + l - runs[k].lb,
                          unwritten |-> runs[k].unw]
      IN  \A l \in from..(Span - 1) : IF In(l) THEN Told(l) = map[l] ELSE map[l].at = 0

\* The tree implements the plain function: each call changes the blocks that its
\* arguments name, as far as its answer says, and nothing else, whatever it did
\* to nodes on the way; a write is told the block that is mapped from then on
\* (ext4_extent_get_blocks, _preallocate, _mark_written, _remove_space).
BM == INSTANCE BlockMap
ImplementsBlockMap == BM!Spec

\* The tree is one, and it and the free blocks account for the volume, after
\* any insertions, splits, conversions and removals that succeed or fail
\* (ext4_extent_get_blocks, ext4_extent_remove_space).
TreeSound == TypeOK /\ TreeOK /\ Accounted
=============================================================================
