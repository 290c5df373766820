------------------------------ MODULE DirIndex ------------------------------
(***************************************************************************)
(* One directory on disk: entries packed into leaf blocks (ext4_dir.c),    *)
(* the hash index over them (ext4_dir_idx.c), and a listing that the       *)
(* kernel takes one page at a time while names come and go                 *)
(* (ext4b_readdir, enumerateDirectory).                                    *)
(*                                                                         *)
(* A leaf is a memory of LeafRoom units.  A unit either starts an entry    *)
(* (its name and length) or is Junk: the inside of a name, or bytes nobody *)
(* wrote.  A removed entry keeps its header, as on disk, which is what a   *)
(* listing that stopped there relies on.                                   *)
(***************************************************************************)
EXTENDS Integers, Sequences, FiniteSets, FiniteSetsExt, SequencesExt, TLC

CONSTANTS
    Names,      \* the names of the directory
    None,       \* the name of an entry whose inode is 0
    Dots,       \* stands for "." and ".." in block 0 of a linear directory
    Junk,       \* a unit that does not start an entry
    Size,       \* Size[n]: the units an entry named n needs
    Hash,       \* Hash[n]: even, the lowest bit marks a continued chain
    LeafRoom,   \* the units of a leaf block
    RootCap,    \* the index entries the root holds
    NodeCap,    \* the index entries an interior node holds
    Laid,       \* the sequences of names directories begin with
    MaxCalls,   \* bound on the calls after that
    Windows     \* cases in which the code is known to go wrong, kept in

(***************************************************************************)
(*   "fragmented" a leaf without a split point is split                    *)
(*   "tail"    an index node is made on a metadata_csum volume, with one   *)
(*             entry more than ext4_dir_dx_get_leaf accepts                *)
(*   "unread"  an index block that is full is not split: the way out puts  *)
(*             a block that was never read, and anything may follow        *)
(***************************************************************************)
ASSUME WindowsAssumption == Windows \subseteq {"fragmented", "tail", "unread"}

ASSUME HashAssumption == \A n \in Names : Hash[n] % 2 = 0
ASSUME SizeAssumption ==
    \A n \in Names : Size[n] \in 1 .. ((LeafRoom \div 2 + 1) \div 2)
\* The root also holds the dot entries and the info record.
ASSUME CapAssumption == RootCap \in Nat /\ NodeCap \in Nat /\ RootCap < NodeCap

VARIABLES
    dir,        \* the directory on disk
    listed,     \* the names whose creation was reported and not undone
    list,       \* a listing under way
    calls       \* the calls made so far

vars == <<dir, listed, list, calls>>

-----------------------------------------------------------------------------
(* A leaf block.                                                           *)

Need(n) == IF n = Dots THEN 1 ELSE Size[n]

Garbage == [o \in 0 .. LeafRoom - 1 |-> Junk]

\* The offsets at which the walk of a block from its start finds entries.
Slots(l) ==
    LET From[o \in 0 .. LeafRoom] ==
            IF o = LeafRoom \/ l[o] = Junk THEN {} ELSE {o} \cup From[o + l[o].len]
    IN  From[0]

NamesOf(l) == {l[o].name : o \in Slots(l)} \ {None, Dots}

\* The header at o, the name in the units after it.  What lay beyond stays.
ext4_dir_write_entry(l, o, n, len) ==
    [p \in DOMAIN l |->
        IF p = o THEN [name |-> n, len |-> len]
        ELSE IF p \in o + 1 .. o + Need(n) - 1 THEN Junk ELSE l[p]]

\* Where a new entry would go: a free one that is long enough, or the slack
\* behind a live one.
Gaps(l, n) ==
    {o \in Slots(l) :
        LET used == IF l[o].name = None THEN 0 ELSE Need(l[o].name)
        IN  l[o].len - used >= Need(n)}

\* First fit.  Callers check Gaps: an empty set is ENOSPC.
ext4_dir_try_insert_entry(l, n) ==
    LET o == Min(Gaps(l, n))
        used == IF l[o].name = None THEN 0 ELSE Need(l[o].name)
    IN  IF used = 0
        THEN ext4_dir_write_entry(l, o, n, l[o].len)
        ELSE ext4_dir_write_entry([l EXCEPT ![o].len = used],
                                  o + used, n, l[o].len - used)

\* Mutant: the predecessor takes what the name needs, not what the entry had.
Erase_NameOnly(l, n) ==
    LET o == CHOOSE p \in Slots(l) : l[p].name = n
        before == {p \in Slots(l) : p < o}
        freed == [l EXCEPT ![o].name = None]
    IN  IF o = 0 THEN freed
        ELSE [freed EXCEPT ![Max(before)].len = @ + Need(n)]

\* Mutant: the header of the removed entry is wiped.
Erase_Wipes(l, n) ==
    LET o == CHOOSE p \in Slots(l) : l[p].name = n
        before == {p \in Slots(l) : p < o}
    IN  IF o = 0 THEN [l EXCEPT ![o].name = None]
        ELSE [l EXCEPT ![o] = Junk, ![Max(before)].len = @ + l[o].len]

\* The inode becomes 0; unless it is the first, the predecessor takes the room.
Erase(l, n) ==
    LET o == CHOOSE p \in Slots(l) : l[p].name = n
        before == {p \in Slots(l) : p < o}
        freed == [l EXCEPT ![o].name = None]
    IN  IF o = 0 THEN freed
        ELSE [freed EXCEPT ![Max(before)].len = @ + l[o].len]

\* Entries s packed from the start of l, the last one taking what is left.
Pack(l, s) ==
    LET off(i) == FoldSeq(LAMBDA n, sum : sum + Need(n), 0, SubSeq(s, 1, i - 1))
        len(i) == IF i = Len(s) THEN LeafRoom - off(i) ELSE Need(s[i])
    IN  [p \in DOMAIN l |->
            IF \E i \in DOMAIN s : p = off(i)
            THEN LET i == CHOOSE j \in DOMAIN s : p = off(j)
                 IN  [name |-> s[i], len |-> len(i)]
            ELSE IF p < off(Len(s) + 1) THEN Junk ELSE l[p]]

-----------------------------------------------------------------------------
(* The index.  dir.idx maps the index blocks to their limit and entries,   *)
(* dir.leaf the other blocks to their contents; block 0 of an indexed      *)
(* directory is the root.  The hash of a first entry is never read.        *)

Root(d) == d.idx[0].ents
Indexed(d) == 0 \in DOMAIN d.idx
Bottom(d) == IF d.levels = 0 THEN {0} ELSE {Root(d)[i].to : i \in DOMAIN Root(d)}

\* The binary search: the last entry whose hash is not above h.
At(ents, h) == Max({1} \cup {i \in 2 .. Len(ents) : ents[i].hash <= h})

\* The index block that holds the pointer to the leaf for hash h.
NodeFor(d, h) == IF d.levels = 0 THEN 0 ELSE Root(d)[At(Root(d), h)].to

\* get_leaf insists that a node's limit is what its block size gives.
BadDx(d, h) ==
    \/ Len(Root(d)) \notin 1 .. RootCap
    \/ /\ d.levels = 1
       /\ LET node == d.idx[NodeFor(d, h)]
          IN  \/ node.limit /= NodeCap
              \/ Len(node.ents) \notin 1 .. node.limit

ext4_dir_dx_get_leaf(d, h) ==
    LET ents == d.idx[NodeFor(d, h)].ents IN ents[At(ents, h)].to

\* All leaves in index order, each with the hash its range starts at.
Ranges(d) ==
    IF d.levels = 0 THEN Root(d)
    ELSE FlattenSeq([i \in DOMAIN Root(d) |->
            LET ents == d.idx[Root(d)[i].to].ents
            IN  [ents EXCEPT ![1].hash = Root(d)[i].hash]])

\* A range's hash without the bit that says it continues the range before.
Even(h) == h - (h % 2)

\* Mutant: a lookup reads the leaf of its hash only.
ext4_dir_dx_next_block_Never(d, h) == {ext4_dir_dx_get_leaf(d, h)}

\* The leaves a lookup reads: that of the hash, and those after it as long as
\* their range continues the same hash.
ext4_dir_dx_next_block(d, h) ==
    LET r == Ranges(d)
        k == CHOOSE i \in DOMAIN r : r[i].to = ext4_dir_dx_get_leaf(d, h)
        run == {j \in k .. Len(r) :
                    \A i \in k + 1 .. j : Even(r[i].hash) = h}
    IN  {r[j].to : j \in run}

\* An index the walk refuses loses its flag; from then on the blocks are
\* searched one after the other.
Checked(d, n) ==
    IF d.flag /\ BadDx(d, Hash[n]) THEN [d EXCEPT !.flag = FALSE] ELSE d

ext4_dir_dx_find_entry(d, n) ==
    {b \in ext4_dir_dx_next_block(d, Hash[n]) : n \in NamesOf(d.leaf[b])}

\* The block that holds n, if one does.
ext4_dir_find_entry(d, n) ==
    LET c == Checked(d, n)
    IN  IF c.flag THEN ext4_dir_dx_find_entry(c, n)
        ELSE {b \in DOMAIN c.leaf : n \in NamesOf(c.leaf[b])}

Found(d, n) == ext4_dir_find_entry(d, n) /= {}

-----------------------------------------------------------------------------
(* Adding an entry.  Each step gives the set of its outcomes: appending a  *)
(* block may fail on a full volume, and qsort orders equal hashes as it    *)
(* likes.  A failed outcome carries what had been changed by then.         *)

Outcome(d, ok) == [dir |-> d, ok |-> ok]

InsertAfter(ents, i, e) == SubSeq(ents, 1, i) \o <<e>> \o SubSeq(ents, i + 1, Len(ents))

\* Mutant: the index entry of a new leaf goes last.
ext4_dir_dx_insert_entry_Last(d, old, hash, new) ==
    LET b == CHOOSE c \in Bottom(d) : \E i \in DOMAIN d.idx[c].ents : d.idx[c].ents[i].to = old
    IN  [d EXCEPT !.idx[b].ents = Append(@, [hash |-> hash, to |-> new])]

\* The index entry for a new leaf goes behind the one of the leaf it split.
ext4_dir_dx_insert_entry(d, old, hash, new) ==
    LET holds(b) == {i \in DOMAIN d.idx[b].ents : d.idx[b].ents[i].to = old}
        b == CHOOSE c \in Bottom(d) : holds(c) /= {}
    IN  [d EXCEPT !.idx[b].ents =
            InsertAfter(@, Min(holds(b)), [hash |-> hash, to |-> new])]

\* Mutant: the tail is never taken off.
NewLimit_NoTail == NodeCap + 1

\* The limit a new interior node is given: on a metadata_csum volume ("tail") the
\* tail that holds the checksum is taken off the space too late.
NewLimit == IF "tail" \in Windows THEN NodeCap + 1 ELSE NodeCap

\* A full index block on the path is split before the leaf is looked at: the
\* root by moving its entries down a level, a node by halving it.
ext4_dir_dx_split_index(d, h) ==
    LET b == NodeFor(d, h)
        ents == d.idx[b].ents
        half == Len(ents) \div 2
        pushed == [d EXCEPT !.levels = 1, !.nblk = @ + 1,
                     !.idx = (d.nblk :> [limit |-> NewLimit, ents |-> ents])
                             @@ [@ EXCEPT ![0].ents = <<[hash |-> 0, to |-> d.nblk]>>]]
        right == [limit |-> NewLimit, ents |-> SubSeq(ents, half + 1, Len(ents))]
        halved == [d EXCEPT !.nblk = @ + 1,
                     !.idx = (d.nblk :> right)
                             @@ [@ EXCEPT ![b].ents = SubSeq(@, 1, half),
                                          ![0].ents = InsertAfter(@, At(@, h),
                                             [hash |-> ents[half + 1].hash, to |-> d.nblk])]]
    IN  IF Len(ents) < d.idx[b].limit THEN {Outcome(d, TRUE)}
        ELSE IF d.levels = 0 THEN {Outcome(pushed, TRUE), Outcome(d, FALSE)}
        ELSE IF Len(Root(d)) = RootCap THEN {Outcome(d, FALSE)}
        ELSE {Outcome(halved, TRUE), Outcome(d, FALSE)}

SortedByHash(S) ==
    {s \in SetToSeqs(S) : \A i, j \in DOMAIN s : i < j => Hash[s[i]] <= Hash[s[j]]}

\* The first entry of the upper half by size; 0 when all entries fit the lower.
Middle(s) ==
    LET sum(i) == FoldSeq(LAMBDA n, t : t + Need(n), 0, SubSeq(s, 1, i))
        over == {i \in DOMAIN s : sum(i) > LeafRoom \div 2}
    IN  IF over = {} THEN 0 ELSE Min(over)

\* The entries of leaf b in hash order, the upper half by size moved to a new
\* leaf.  Entries too few to halve are an error that comes after the block was
\* appended, and nothing is ever written to that block.
ext4_dir_dx_split_data(d, b) ==
    LET new == d.nblk
        grown == [d EXCEPT !.nblk = @ + 1]
        halves(s) ==
            LET mid == Middle(s)
                hash == Hash[s[mid]]
                continued == IF hash = Hash[s[mid - 1]] THEN 1 ELSE 0
                moved == [grown EXCEPT !.leaf =
                            (new :> Pack(Garbage, SubSeq(s, mid, Len(s))))
                            @@ [@ EXCEPT ![b] = Pack(@, SubSeq(s, 1, mid - 1))]]
            IN  ext4_dir_dx_insert_entry(moved, b, hash + continued, new)
        orders == SortedByHash(NamesOf(d.leaf[b]))
    IN  {Outcome(d, FALSE)} \cup
        {IF Middle(s) > 1 THEN Outcome(halves(s), TRUE)
         ELSE Outcome([grown EXCEPT !.leaf = (new :> Garbage) @@ @], FALSE) :
            s \in orders}

\* After the split the name goes to the side of its hash.  That its room is
\* there is not checked: the outcome is overwritten by the put of the block.
SecondTry(d, b, n) ==
    LET new == CHOOSE e \in ToSet(Ranges(d)) : e.to = d.nblk - 1
        side == IF Hash[n] >= new.hash THEN new.to ELSE b
    IN  IF Gaps(d.leaf[side], n) = {} THEN d
        ELSE [d EXCEPT !.leaf[side] = ext4_dir_try_insert_entry(@, n)]

ext4_dir_dx_add_entry(d, n) ==
    LET b == ext4_dir_dx_get_leaf(d, Hash[n])
        insert(e) ==
            IF Gaps(e.leaf[b], n) /= {}
            THEN {Outcome([e EXCEPT !.leaf[b] = ext4_dir_try_insert_entry(@, n)], TRUE)}
            ELSE {IF o.ok THEN Outcome(SecondTry(o.dir, b, n), TRUE) ELSE o :
                    o \in ext4_dir_dx_split_data(e, b)}
    IN  UNION {IF o.ok THEN insert(o.dir) ELSE {o} :
                o \in ext4_dir_dx_split_index(d, Hash[n])}

\* Mutant: the appended block is not counted in the directory's size.
AddLinear_SizeKept(d, n) ==
    LET open == {b \in DOMAIN d.leaf : Gaps(d.leaf[b], n) /= {}}
        fresh == ext4_dir_write_entry(Garbage, 0, n, LeafRoom)
    IN  IF Indexed(d) THEN {Outcome(d, FALSE)}
        ELSE IF open /= {}
        THEN {Outcome([d EXCEPT !.leaf[Min(open)] = ext4_dir_try_insert_entry(@, n)], TRUE)}
        ELSE {Outcome([d EXCEPT !.leaf = (d.nblk :> fresh) @@ @], TRUE)}

\* The blocks in order, the first with a gap, or a new one.  Block 0 of what
\* was an index does not verify as a leaf, which stops the insert.
AddLinear(d, n) ==
    LET open == {b \in DOMAIN d.leaf : Gaps(d.leaf[b], n) /= {}}
        fresh == ext4_dir_write_entry(Garbage, 0, n, LeafRoom)
    IN  IF Indexed(d) THEN {Outcome(d, FALSE)}
        ELSE IF open /= {}
        THEN {Outcome([d EXCEPT !.leaf[Min(open)] = ext4_dir_try_insert_entry(@, n)], TRUE)}
        ELSE {Outcome(d, FALSE),
              Outcome([d EXCEPT !.nblk = @ + 1, !.leaf = (d.nblk :> fresh) @@ @], TRUE)}

\* Mutant: after an index insert the linear one runs as well.
ext4_dir_add_entry_Both(d, n) ==
    LET c == Checked(d, n)
        more(o) == LET b == Max(DOMAIN o.dir.leaf)
                   IN  IF o.ok /\ n \notin NamesOf(o.dir.leaf[b]) /\ Gaps(o.dir.leaf[b], n) /= {}
                       THEN Outcome([o.dir EXCEPT !.leaf[b] = ext4_dir_try_insert_entry(@, n)], TRUE)
                       ELSE o
    IN  IF c.flag THEN {more(o) : o \in ext4_dir_dx_add_entry(c, n)} ELSE AddLinear(c, n)

ext4_dir_add_entry(d, n) ==
    LET c == Checked(d, n)
    IN  IF c.flag THEN ext4_dir_dx_add_entry(c, n) ELSE AddLinear(c, n)

-----------------------------------------------------------------------------
(* Listing.  A position is a byte offset into the directory, kept by the   *)
(* kernel between two calls as a cookie.                                   *)

End(d) == d.nblk * LeafRoom
Broken == -1

\* The position of the first live entry from pos on.  Index blocks look like
\* one empty entry each; bytes that are no entry end the listing with EIO.
ext4_dir_iterator_next(d, pos) ==
    LET From[p \in 0 .. End(d)] ==
            LET b == p \div LeafRoom
                cell == IF b \in DOMAIN d.leaf THEN d.leaf[b][p % LeafRoom] ELSE Junk
            IN  IF p = End(d) THEN p
                ELSE IF b \in DOMAIN d.idx THEN From[(b + 1) * LeafRoom]
                ELSE IF cell = Junk THEN Broken
                ELSE IF cell.name \in {None, Dots} THEN From[p + cell.len]
                ELSE p
    IN  From[pos]

EntryAt(d, p) == d.leaf[p \div LeafRoom][p % LeafRoom]

\* A listing with no call in between: every position it stops at, in order.
Positions(d) ==
    LET From[p \in 0 .. End(d)] ==
            LET q == ext4_dir_iterator_next(d, p)
            IN  IF q = Broken THEN {Broken}
                ELSE IF q = End(d) THEN {} ELSE {q} \cup From[q + EntryAt(d, q).len]
    IN  From[0]

-----------------------------------------------------------------------------
(* The directory as mkdir leaves it: on a dir_index volume a root and one  *)
(* empty leaf, otherwise a block with the dot entries.                     *)

EmptyLeaf(n) == ext4_dir_write_entry(Garbage, 0, n, LeafRoom)

ext4_dir_dx_init ==
    [flag |-> TRUE, levels |-> 0, nblk |-> 2,
     idx  |-> 0 :> [limit |-> RootCap, ents |-> <<[hash |-> 0, to |-> 1]>>],
     leaf |-> 1 :> [Garbage EXCEPT ![0] = [name |-> None, len |-> LeafRoom]]]

LinearDir ==
    [flag |-> FALSE, levels |-> 0, nblk |-> 1, idx |-> <<>>, leaf |-> 0 :> EmptyLeaf(Dots)]

\* Directories in which the names of s were created one after the other.
Built(d0, s) ==
    FoldLeft(LAMBDA D, n : UNION {{o.dir : o \in {p \in ext4_dir_add_entry(d, n) : p.ok}} :
                                    d \in D}, {d0}, s)

NoListing == [pos |-> 0, seen |-> <<>>, stable |-> {}, added |-> FALSE, failed |-> FALSE,
              open |-> FALSE]

Init ==
    /\ \E s \in Laid, d0 \in {ext4_dir_dx_init, LinearDir} :
          dir \in Built(d0, s) /\ listed = ToSet(s)
    /\ list = NoListing
    /\ calls = 0

\* The cases in which the code is known to go wrong: a leaf has too little in it
\* to be halved, or a full index block could not be split.
Known(n, o) ==
    LET c == Checked(dir, n)
    IN  {w \in {"fragmented", "unread"} :
            CASE w = "fragmented" -> ~o.ok /\ \E b \in DOMAIN o.dir.leaf : o.dir.leaf[b] = Garbage
              [] w = "unread" -> ~o.ok /\ c.flag /\ o \in ext4_dir_dx_split_index(c, Hash[n])}

\* ext4b_create, ext4b_hardlink, the new name of a rename: the name is looked
\* up, then added.  When adding fails the transaction is rolled back if it held
\* nothing else, and otherwise committed with what the failed call had done.
Create(n) ==
    /\ calls < MaxCalls
    /\ ~Found(dir, n)
    /\ \E o \in ext4_dir_add_entry(dir, n) :
          /\ Known(n, o) \subseteq Windows
          /\ \/ o.ok /\ dir' = o.dir /\ listed' = listed \cup {n}
             \/ ~o.ok /\ dir' \in {Checked(dir, n), o.dir} /\ UNCHANGED listed
    /\ list' = [list EXCEPT !.added = list.open]
    /\ calls' = calls + 1

\* ext4b_unlink_ex, the old name of a rename.
ext4_dir_remove_entry(n) ==
    /\ calls < MaxCalls
    /\ \E b \in ext4_dir_find_entry(dir, n) :
          dir' = [Checked(dir, n) EXCEPT !.leaf[b] = Erase(@, n)]
    /\ listed' = listed \ {n}
    /\ list' = [list EXCEPT !.stable = @ \ {n}]
    /\ calls' = calls + 1

\* A listing begins: position 0, and the names it must report.
StartListing ==
    /\ calls < MaxCalls
    /\ ~list.open
    /\ list' = [NoListing EXCEPT !.open = TRUE, !.stable = listed]
    /\ calls' = calls + 1
    /\ UNCHANGED <<dir, listed>>

\* One page of it, of the entries up to where the packer is full.  The entry is
\* packed only after the step to the next one succeeded.
ext4b_readdir ==
    /\ list.open /\ ~list.failed /\ list.pos /= End(dir)
    /\ \E size \in 1 .. 2 :
          LET page[k \in 0 .. size] ==
                  IF k = 0 THEN [list EXCEPT !.pos = ext4_dir_iterator_next(dir, list.pos)]
                  ELSE LET l == page[k - 1]
                       IN  IF l.pos \in {Broken, End(dir)} THEN l
                           ELSE LET next == ext4_dir_iterator_next(dir,
                                                l.pos + EntryAt(dir, l.pos).len)
                                IN  [l EXCEPT !.pos = next,
                                       !.seen = IF next = Broken THEN @
                                                ELSE Append(@, EntryAt(dir, l.pos).name)]
          IN  list' = IF page[size].pos = Broken
                      THEN [page[size] EXCEPT !.pos = list.pos, !.failed = TRUE]
                      ELSE page[size]
    /\ UNCHANGED <<dir, listed, calls>>

Next ==
    \/ \E n \in Names : Create(n) \/ ext4_dir_remove_entry(n)
    \/ StartListing
    \/ ext4b_readdir

Spec == Init /\ [][Next]_vars

-----------------------------------------------------------------------------
(* Properties.                                                             *)

Cells == {Junk} \cup [name : Names \cup {None, Dots}, len : 1 .. LeafRoom]

\* The types of the directory, its blocks split between leaves and the index.
TypeOK ==
    /\ dir.flag \in BOOLEAN /\ dir.levels \in {0, 1}
    /\ DOMAIN dir.leaf \cup DOMAIN dir.idx = 0 .. dir.nblk - 1
    /\ DOMAIN dir.leaf \cap DOMAIN dir.idx = {}
    /\ \A b \in DOMAIN dir.leaf : dir.leaf[b] \in [0 .. LeafRoom - 1 -> Cells]
    /\ listed \subseteq Names
    /\ list.seen \in Seq(Names) /\ list.stable \subseteq listed

\* A lookup finds exactly the names whose creation was reported and that have
\* not been removed, whatever splits of leaves and of the index, collisions and
\* failed calls came in between: ext4_dir_find_entry against
\* ext4_dir_add_entry, whose last step does not look at the insert's outcome.
FindsAll == \A n \in Names : Found(dir, n) <=> n \in listed

\* The entries of a leaf tile it exactly, each at least as long as its name
\* needs: what ext4_dir_try_insert_entry and the iterator call corruption
\* otherwise, after any order of inserts, merges and splits.
LeavesTiled ==
    \A b \in DOMAIN dir.leaf :
        LET l == dir.leaf[b]
            last == Max(Slots(l))
        IN  /\ Slots(l) /= {} /\ last + l[last].len = LeafRoom
            /\ \A o \in Slots(l) : l[o].name /= None => l[o].len >= Need(l[o].name)

\* The index orders the leaves by hash; each leaf is pointed to once and holds
\* only names of its range, a continued hash being allowed on both sides of the
\* boundary that marks it.
IndexOrdered ==
    Indexed(dir) =>
        LET r == Ranges(dir)
            upper(i) == IF i = Len(r) THEN {} ELSE {r[i + 1].hash}
        IN  /\ \A i \in 2 .. Len(r) - 1 : r[i].hash <= r[i + 1].hash
            /\ Len(r) = Cardinality({r[i].to : i \in DOMAIN r})
            /\ {r[i].to : i \in DOMAIN r} = DOMAIN dir.leaf
            /\ \A i \in DOMAIN r : \A n \in NamesOf(dir.leaf[r[i].to]) :
                  /\ i > 1 => Hash[n] >= Even(r[i].hash)
                  /\ \A u \in upper(i) : Hash[n] < u

\* The index the driver builds is one it accepts: ext4_dir_dx_get_leaf finds
\* every node's count within its limit and its limit right, so that no lookup
\* takes the index flag away.  On metadata_csum volumes it is so until the first
\* index node is made ("tail").
IndexAccepted ==
    Indexed(dir) => dir.flag /\ \A n \in Names : ~BadDx(dir, Hash[n])

\* Listing the directory reaches its end and reports each name once.
Listable ==
    LET p == Positions(dir)
    IN  /\ Broken \notin p
        /\ Cardinality(p) = Cardinality(listed)
        /\ {EntryAt(dir, q).name : q \in p} = listed

\* The names that were there all the time are reported exactly once by a
\* listing whose pages are interleaved with removals, which merge the entry the
\* cookie points at into its predecessor: what removing a tree relies on.
ListingComplete ==
    (list.open /\ ~list.added) =>
        /\ ~list.failed
        /\ \A n \in list.stable :
              LET times == Cardinality({i \in DOMAIN list.seen : list.seen[i] = n})
              IN  /\ times <= 1
                  /\ list.pos = End(dir) => times = 1

\* Leaves and index are what the driver itself accepts and searches, after any
\* splits, merges and failed calls (ext4_dir_dx_add_entry).
IndexSound == TypeOK /\ LeavesTiled /\ IndexOrdered /\ IndexAccepted

\* Lookup and listing agree with what was created and not removed, also a
\* listing in pages with removals in between (ext4_dir_find_entry,
\* ext4_dir_iterator_next).
NamesAgree == FindsAll /\ Listable /\ ListingComplete
=============================================================================
