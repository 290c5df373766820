----------------------------- MODULE Namespace -----------------------------
(***************************************************************************)
(* The operations of the bridge that give files names and take them away   *)
(* (ext4_bridge.c: create, hard link, unlink, rename, release, the orphan  *)
(* list) and the transactions they run in.                                 *)
(*                                                                         *)
(* The executor runs one call at a time, so a call is one step, or two     *)
(* where it closes a transaction half-way.  What makes them hard is that   *)
(* any call below may fail and that mutations share a transaction: one     *)
(* that fails alone is rolled back, one that fails in a batch is committed *)
(* as far as it got.  A crash falls back on the last commit.               *)
(*                                                                         *)
(* A function of the bridge is an operator from the metadata it finds to   *)
(* the set of results it may return: the metadata it leaves, its result    *)
(* code, and whether an injected failure was met on the way.               *)
(***************************************************************************)
EXTENDS Naturals, Sequences, FiniteSets

CONSTANTS
  Inodes, Root, Names,
  None,       \* inode number 0
  Dead,       \* a deletion time in i_dtime, which is no inode number
  Linear,     \* the inodes that as directories have no hash index: on a volume without dir_index
              \* all of them, on one that Linux has made it may be the root
  LinkMax,    \* EXT4_LINK_MAX: where a directory stops counting its links
  Width,      \* the values i_links_count can hold
  Batch,      \* dev->txn_batch: mutations that may share a transaction
  MaxFails, MaxDirs,  \* bounds: failures met, directories at a time
  Windows     \* cases in which the code is known to go wrong, see below

(***************************************************************************)
(*   "samedir"   a directory is renamed within its parent                  *)
(*   "samefile"  a file is renamed onto another of its own names           *)
(*   "dxinit"    writing the index of a new directory fails                *)
(*   "halfrename" a rename fails with the name in both places              *)
(*   "sweep"     the sweep at mount fails once it has moved the head       *)
(*   "commit"    a commit fails, or the flush that follows it does         *)
(***************************************************************************)
ASSUME NamespaceAssumption ==
  /\ IsFiniteSet(Inodes) /\ IsFiniteSet(Names)
  /\ Root \in Inodes /\ None \notin Inodes /\ Dead \notin Inodes /\ None # Dead
  /\ {"up", "down", "sweep"} \cap Inodes = {}
  /\ Linear \in {{}, {Root}, Inodes}
  /\ LinkMax \in Nat /\ Width \in Nat /\ 3 < LinkMax /\ LinkMax < Width
  /\ Batch \in Nat \ {0} /\ {MaxFails, MaxDirs} \subseteq Nat
  /\ Windows \subseteq {"samedir", "samefile", "dxinit", "halfrename", "sweep", "commit"}

VARIABLES
  mem,      \* the metadata as the cache has it, see Meta
  disk,     \* the metadata as of the last commit
  ops,      \* dev->txn_ops
  pc,       \* "up", "down", "sweep" (orphan cleanup at mount) or an inode
            \* whose release has closed its first transaction
  owed,     \* inodes unlink has left for its caller to release
  loose,    \* history: inodes a release has taken off the list and not yet freed
  split,    \* history: the same as of the last commit
  partial,  \* history: part of a failed operation has been committed
  fails

vars == <<mem, disk, ops, pc, owed, loose, split, partial, fails>>

\* To these operations a symbolic link is a file once it has its target.
Kinds == {"file", "dir"}
Flags == {"none", "immutable", "append"}

\* ent: the inodes each directory has under each name; kind, links, up (the
\* ".." of a directory) and next (i_dtime) of each inode; inuse: the inode
\* bitmap; head: the first orphan, as the superblock in the cache has it; sb:
\* the same field of fs->sb, which no abort rolls back; flag: what chattr has
\* set on an inode.
Meta ==
  [ent : [Inodes -> [Names -> Seq(Inodes)]],
   kind : [Inodes -> Kinds], links : [Inodes -> Nat],
   up : [Inodes -> Inodes \cup {None}], next : [Inodes -> Inodes \cup {None, Dead}],
   inuse : SUBSET Inodes, flag : [Inodes -> Flags],
   head : Inodes \cup {None}, sb : Inodes \cup {None}]

Empty == [n \in Names |-> <<>>]

\* A fresh volume, or one on which Linux has left something protected.
Blank ==
  [ent |-> [i \in Inodes |-> Empty],
   kind |-> [i \in Inodes |-> IF i = Root THEN "dir" ELSE "file"],
   links |-> [i \in Inodes |-> IF i = Root THEN 2 ELSE 0],
   up |-> [i \in Inodes |-> IF i = Root THEN Root ELSE None],
   next |-> [i \in Inodes |-> None],
   inuse |-> {Root}, flag |-> [i \in Inodes |-> "none"], head |-> None, sb |-> None]
Guarded(i, n, k, f) ==
  [Blank EXCEPT !.ent[Root][n] = <<i>>, !.inuse = @ \cup {i}, !.flag[i] = f,
                !.kind[i] = k, !.links[i] = IF k = "dir" THEN 2 ELSE 1,
                !.up[i] = IF k = "dir" THEN Root ELSE None,
                !.links[Root] = IF k = "dir" THEN 3 ELSE 2]

Init ==
  /\ mem \in {Blank} \cup {Guarded(i, n, k, f) : i \in Inodes \ {Root}, n \in Names,
                                       k \in Kinds, f \in Flags \ {"none"}}
  /\ disk = mem
  /\ ops = 0 /\ pc = "up" /\ owed = {} /\ loose = {} /\ split = {} /\ partial = FALSE /\ fails = 0

-----------------------------------------------------------------------------
(* Results of calls *)

Ok(m)      == [m |-> m, rc |-> "OK", hit |-> FALSE]
Err(m, rc) == [m |-> m, rc |-> rc, hit |-> FALSE]
Fail(m)    == [m |-> m, rc |-> "EIO", hit |-> TRUE]

\* Continue with f from every result that is a success.
Then(R, f(_)) == UNION {IF r.rc = "OK" THEN f(r.m) ELSE {r} : r \in R}

IsDir(m, i)        == m.kind[i] = "dir"
Find(m, p, n)      == IF m.ent[p][n] = <<>> THEN None ELSE Head(m.ent[p][n])
AddEntry(m, p, n, i)  == [m EXCEPT !.ent[p][n] = Append(@, i)]
DropEntry(m, p, n)    == [m EXCEPT !.ent[p][n] = Tail(@)]
HasChildren(m, i)  == \E n \in Names : m.ent[i][n] # <<>>

\* ext4_fs_inode_links_count_inc and _dec, on a 16-bit field: an indexed directory with
\* too many links to count has one for good; any directory keeps its two.
Indexed(m, i) == IsDir(m, i) /\ i \notin Linear
LinkInc_Early(m, i) ==
  LET l == (m.links[i] + 1) % Width
  IN  [m EXCEPT !.links[i] = IF Indexed(m, i) /\ (l = 2 \/ l >= LinkMax - 1) THEN 1 ELSE l]
LinkInc(m, i) ==
  LET l == (m.links[i] + 1) % Width
  IN  [m EXCEPT !.links[i] = IF Indexed(m, i) /\ (l = 2 \/ l >= LinkMax) THEN 1 ELSE l]
LinkDec_Twice(m, i) == [m EXCEPT !.links[i] = @ - 2]
LinkDec(m, i) ==
  [m EXCEPT !.links[i] = IF @ > (IF IsDir(m, i) THEN 2 ELSE 0) THEN @ - 1 ELSE @]

\* The bit goes; nobody reads what is left in the inode before it is allocated
\* again, and its deletion time ends a chain as no pointer does.
FreeInode(m, i) ==
  [m EXCEPT !.inuse = @ \ {i}, !.kind[i] = "file", !.up[i] = None, !.ent[i] = Empty, !.next[i] = None]

\* Truncating and freeing an inode that has lost its last name: its deletion
\* time is set first, and either half may fail.
Delete(m, i) ==
  LET dead == [m EXCEPT !.next[i] = Dead] IN {Ok(FreeInode(dead, i)), Fail(dead)}

-----------------------------------------------------------------------------
(* Names *)

\* A new directory's own entries: with an index nothing is undone when they fail.
dx_init(m, added, p, c) ==
  {Ok(LinkInc([added EXCEPT !.links[c] = 2, !.up[c] = p], p)), Fail(m)}
    \cup {Fail(added) : w \in Windows \cap {"dxinit"}}

link_child(m, p, c, n, rename) ==
  LET added == AddEntry(m, p, n, c) IN
  {Fail(m)} \cup
  CASE IsDir(m, c) /\ ~rename -> dx_init(m, added, p, c)
    [] IsDir(m, c) /\ rename  -> {Ok(LinkInc([added EXCEPT !.up[c] = p], p))}
                                   \cup {Fail(added) : w \in Windows \cap {"halfrename"}}
    [] ~IsDir(m, c)           -> {Ok(IF rename THEN added ELSE LinkInc(added, c))}

unlink_child(m, p, c, n) ==
  LET gone == DropEntry(m, p, n) IN
  IF IsDir(m, c) /\ HasChildren(m, c) THEN {Err(m, "ENOTEMPTY")}
  ELSE {Fail(m),
        Ok(IF IsDir(m, c) THEN [LinkDec(gone, p) EXCEPT !.links[c] = 0]
                          ELSE LinkDec(gone, c))}

\* The payload of a symbolic link too long for its inode; its failure undoes
\* the link.
SymlinkPayload_KeepsName(m, p, c, n) == {Ok(m), Fail(FreeInode(LinkDec(m, c), c))}
SymlinkPayload(m, p, c, n) ==
  {Ok(m), Fail(FreeInode([LinkDec(DropEntry(m, p, n), c) EXCEPT !.next[c] = Dead], c))}

is_immutable(m, i) == m.flag[i] = "immutable"
Protected(m, i)    == m.flag[i] # "none"
unlink_forbidden(m, p, c) == Protected(m, p) \/ Protected(m, c)

create_common(m, p, n, k, target, c) ==
  LET child == [m EXCEPT !.inuse = @ \cup {c}, !.kind[c] = k, !.links[c] = 0,
                         !.next[c] = None, !.up[c] = None, !.ent[c] = Empty,
                         !.flag[c] = "none"]
      linked == link_child(child, p, c, n, FALSE)
  IN
  IF is_immutable(m, p) THEN {Err(m, "EPERM")}
  ELSE IF ~IsDir(m, p) THEN {Err(m, "ENOTDIR")}
  ELSE IF Find(m, p, n) # None THEN {Err(m, "EEXIST")}
  ELSE {Fail(m)} \cup
       UNION {IF r.rc # "OK" THEN {[r EXCEPT !.m = FreeInode(r.m, c)]}
              ELSE IF target THEN SymlinkPayload(r.m, p, c, n)
              ELSE {r} : r \in linked}

hardlink(m, p, n, c) ==
  IF is_immutable(m, p) \/ Protected(m, c) \/ IsDir(m, c) THEN {Err(m, "EPERM")}
  ELSE IF Find(m, p, n) # None THEN {Err(m, "EEXIST")}
  ELSE link_child(m, p, c, n, FALSE)

\* dir_parent_inode: climbing from w, is c met before the root?  The climb ends
\* at a ".." that leads nowhere or to itself.
Meets_FromAbove(m, w, c) == m.up[w] = c
Meets(m, w, c) ==
  LET above[k \in 0..Cardinality(Inodes)] ==
        IF k = 0 THEN w
        ELSE IF above[k - 1] \in {Root, None} THEN above[k - 1] ELSE m.up[above[k - 1]]
  IN  \E k \in DOMAIN above : above[k] = c

\* What rename finds under the destination goes first, and is freed at once.
Replace_Unguarded(m, sp, c, p, n) ==
  LET v == Find(m, p, n) IN
  IF v = None \/ v = c THEN {Ok(m)}
  ELSE Then(unlink_child(m, p, v, n),
            LAMBDA x : IF x.links[v] = 0 THEN Delete(x, v) ELSE {Ok(x)})
Replace(m, sp, c, p, n) ==
  LET v == Find(m, p, n) IN
  IF v = None \/ v = c THEN {Ok(m)}
  ELSE IF ~IsDir(m, c) /\ IsDir(m, v) THEN {Err(m, "EISDIR")}
  ELSE IF IsDir(m, c) /\ ~IsDir(m, v) THEN {Err(m, "ENOTDIR")}
  ELSE IF unlink_forbidden(m, p, v) THEN {Err(m, "EPERM")}
  ELSE Then(unlink_child(m, p, v, n),
            LAMBDA x : IF x.links[v] = 0 THEN Delete(x, v) ELSE {Ok(x)})

\* The name under its new place, then off its old one.
Move_KeepsLink(m, sp, sn, dp, dn, c) ==
  Then(link_child(m, dp, c, dn, TRUE), LAMBDA x : {Ok(DropEntry(x, sp, sn))})
Move(m, sp, sn, dp, dn, c) ==
  LET Off(x) == LET y == DropEntry(x, sp, sn)
                IN  {Ok(IF IsDir(y, c) /\ sp # dp THEN LinkDec(y, sp) ELSE y)}
                      \cup {Fail(x) : w \in Windows \cap {"halfrename"}}
  IN  Then(link_child(m, dp, c, dn, TRUE), Off)

rename(m, sp, sn, dp, dn) ==
  LET c == Find(m, sp, sn) IN
  IF c = None THEN {Err(m, "ENOENT")}
  ELSE IF unlink_forbidden(m, sp, c) \/ is_immutable(m, dp) THEN {Err(m, "EPERM")}
  ELSE IF IsDir(m, c) /\ dp # sp /\ Meets(m, dp, c) THEN {Err(m, "EINVAL")}
  ELSE Then(Replace(m, sp, c, dp, dn), LAMBDA x : Move(x, sp, sn, dp, dn, c))

-----------------------------------------------------------------------------
(* The orphan list *)

\* orphan_next, where it is a plausible inode number.
NextOf(m, i) == IF m.next[i] \in Inodes THEN m.next[i] ELSE None

orphan_publish_head(m, i) == [m EXCEPT !.sb = i, !.head = i]

\* The chain as a walk of at most ORPHAN_WALK_LIMIT steps finds it.
Walk(m, h) ==
  LET at[k \in 1..(Cardinality(Inodes) + 1)] ==
        IF k = 1 THEN h ELSE IF at[k - 1] = None THEN None ELSE NextOf(m, at[k - 1])
  IN  at

\* The inode's own pointer is cleared before its predecessor is looked for.
orphan_del(m, i) ==
  LET after   == NextOf(m, i)
      cleared == [m EXCEPT !.next[i] = None]
      before  == {k \in DOMAIN Walk(m, m.sb) : Walk(m, m.sb)[k] # None
                                                /\ NextOf(m, Walk(m, m.sb)[k]) = i}
  IN
  IF m.sb = i
  THEN {Ok(orphan_publish_head(cleared, after)), Fail(m), Fail([cleared EXCEPT !.sb = after])}
  ELSE {Fail(m), Fail(cleared)} \cup
       {Ok(IF before = {} THEN cleared
           ELSE [cleared EXCEPT !.next[Walk(m, m.sb)[CHOOSE k \in before : TRUE]] = after])}

\* unlink_ex: the last name goes; with defer the inode joins the list, and only
\* its own pointer is left if the head cannot be written.
unlink_ex(m, p, n, defer) ==
  LET c == Find(m, p, n)
      Last(x) ==
        CASE x.links[c] # 0          -> {Ok(x)}
          [] x.links[c] = 0 /\ defer ->
               LET joined == [x EXCEPT !.next[c] = m.sb]
               IN  {Ok(orphan_publish_head(joined, c)),
                    [Ok(joined) EXCEPT !.hit = TRUE]}
          [] OTHER                   -> Delete(x, c)
  IN
  IF c = None THEN {Err(m, "ENOENT")}
  ELSE IF unlink_forbidden(m, p, c) THEN {Err(m, "EPERM")}
  ELSE Then(unlink_child(m, p, c, n), Last)

\* release_inode once the inode is the head or has come off the list.
release_inode_ReadsLate(m, i) ==
  IF m.links[i] # 0 THEN {Err(m, "EBUSY")}
  ELSE Then(Delete(m, i),
            LAMBDA x : {Ok(IF m.sb = i THEN orphan_publish_head(x, NextOf(x, i)) ELSE x)})
release_inode(m, i) ==
  LET after == NextOf(m, i) IN
  CASE m.links[i] # 0     -> {Err(m, "EBUSY")}
    [] m.links[i] = 0 /\ i \notin m.inuse -> {Ok(m)}
    [] OTHER -> Then(Delete(m, i),
                     LAMBDA x : IF m.sb = i THEN {Ok(orphan_publish_head(x, after)),
                                                      Fail([x EXCEPT !.sb = after])}
                                ELSE {Ok(x)})

\* One entry of the list that an interrupted session left: an inode with names
\* is dropped from it, one already free is left alone, any other is freed.
orphan_cleanup_DropsAll(m) == {Ok([orphan_publish_head(m, NextOf(m, m.sb)) EXCEPT !.next[m.sb] = None])}
orphan_cleanup(m) ==
  LET i == m.sb
      off == orphan_publish_head(m, NextOf(m, i))
  IN
  {Fail(m)} \cup {Fail([m EXCEPT !.sb = NextOf(m, i)]) : w \in Windows \cap {"sweep"}} \cup
  CASE i \notin m.inuse -> {Ok(off)}
    [] i \in m.inuse /\ m.links[i] # 0 -> {Ok([off EXCEPT !.next[i] = None])}
    [] OTHER -> {r \in Delete(off, i) : r.hit => "sweep" \in Windows}

-----------------------------------------------------------------------------
(* Transactions *)

\* txn_abort: what is on disk, but for fs->sb.
Aborted_Keeps(m) == m
Aborted(m) == [disk EXCEPT !.sb = m.sb]

\* How the commit of m may end: done, failed and rolled back, or done with the
\* flush behind it failing.
txn_commit(m) ==
  {[mem |-> m, disk |-> m, ok |-> TRUE, hit |-> FALSE]} \cup
  UNION {{[mem |-> Aborted(m), disk |-> disk, ok |-> FALSE, hit |-> TRUE],
          [mem |-> m, disk |-> m, ok |-> FALSE, hit |-> TRUE]}
         : w \in Windows \cap {"commit"}}

\* txn_finish: alone and failed, rolled back; failed in a batch, committed as
\* it is; otherwise the batch goes on until it is full (txn_must_commit: by
\* count, or by the log space it needs, which may be any time).
txn_finish(r) ==
  IF r.rc # "OK" /\ ops = 0
  THEN {[mem |-> Aborted(r.m), disk |-> disk, ops |-> 0, ok |-> FALSE, hit |-> r.hit]}
  ELSE {[mem |-> t.mem, disk |-> t.disk, ops |-> 0, ok |-> t.ok /\ r.rc = "OK",
         hit |-> t.hit \/ r.hit] : t \in txn_commit(r.m)}
       \cup IF r.rc = "OK" /\ ops + 1 < Batch
            THEN {[mem |-> r.m, disk |-> disk, ops |-> ops + 1, ok |-> TRUE, hit |-> r.hit]}
            ELSE {}

\* The ways in which a call that may come to any of R ends: the result and
\* what txn_finish makes of it.
Ends(R) == UNION {{[r |-> r, t |-> t] : t \in txn_finish(r)} : r \in R}

Keep(m)     == m
Orphans(m)  == {i \in m.inuse : m.links[i] = 0}

\* Close a call.  If it is reported as failed, fs->sb gets the head it had
\* back, or keeps what the call left in it (Keep).  off: an inode it has taken
\* off the list without freeing it.
Close(e, Fix(_), off) ==
  LET r == e.r
      t == e.t
      aborted == t.ops = 0 /\ t.disk # r.m
  IN
  /\ t.hit => fails < MaxFails
  /\ fails' = IF t.hit THEN fails + 1 ELSE fails
  /\ ops' = t.ops
  /\ mem' = IF t.ok THEN t.mem ELSE Fix(t.mem)
  /\ disk' = t.disk
  /\ loose' = IF aborted THEN split ELSE (loose \cup off) \cap Orphans(r.m)
  /\ split' = IF t.disk = r.m THEN loose' ELSE split
  /\ partial' = (partial \/ (r.rc # "OK" /\ t.disk = r.m /\ r.m # mem) \/ (t.hit /\ r.rc = "OK"))
Restored_Not(m) == m
Restored(m) == [m EXCEPT !.sb = mem.sb]

Up == pc = "up"

\* The kernel asks for changes to what it has found under a name.
Named(i) == i \in mem.inuse /\ mem.links[i] > 0

createSymbolicLink(p, n, c) ==
  /\ Up /\ Named(p) /\ c \notin mem.inuse
  /\ \E e \in Ends(create_common(mem, p, n, "file", TRUE, c)) : Close(e, Keep, {})
  /\ UNCHANGED <<pc, owed>>

ext4b_create(p, n, k, c) ==
  /\ Up /\ Named(p) /\ c \notin mem.inuse
  /\ k = "dir" => Cardinality({i \in mem.inuse : IsDir(mem, i)}) < MaxDirs
  /\ \E e \in Ends(create_common(mem, p, n, k, FALSE, c)) : Close(e, Keep, {})
  /\ UNCHANGED <<pc, owed>>

ext4b_hardlink(p, n, c) ==
  /\ Up /\ Named(p) /\ IsDir(mem, p) /\ Named(c)
  /\ \E e \in Ends(hardlink(mem, p, n, c)) : Close(e, Keep, {})
  /\ UNCHANGED <<pc, owed>>

\* A failed commit takes the entry off the list again; outside a transaction
\* that is a write of its own.
ext4b_unlink_ex(p, n, defer) ==
  LET c == Find(mem, p, n) IN
  /\ Up /\ Named(p) /\ IsDir(mem, p)
  /\ \E e \in Ends(unlink_ex(mem, p, n, defer)) :
       LET joined == e.r.rc = "OK" /\ e.r.m.sb # mem.sb
       IN  /\ Close(e, LAMBDA m : IF joined THEN orphan_publish_head(m, mem.sb) ELSE m, {})
           /\ owed' = IF e.t.ok /\ defer /\ c # None /\ e.r.m.links[c] = 0
                      THEN owed \cup {c} ELSE owed
  /\ UNCHANGED pc

ext4b_rename(sp, sn, dp, dn) ==
  LET c == Find(mem, sp, sn) IN
  /\ Up /\ Named(sp) /\ Named(dp) /\ IsDir(mem, sp) /\ IsDir(mem, dp)
  /\ "samedir" \in Windows \/ ~(sp = dp /\ c # None /\ IsDir(mem, c))
  /\ "samefile" \in Windows \/ ~(c # None /\ c = Find(mem, dp, dn))
  /\ \E e \in Ends(rename(mem, sp, sn, dp, dn)) : Close(e, Keep, {})
  /\ UNCHANGED <<pc, owed>>

\* ext4b_release_inode of an inode that is not the head: off the list first,
\* in a transaction of its own; from an empty list there is nothing to take ...
ReleaseUnlist(i) ==
  /\ Up /\ i \in owed /\ mem.sb \notin {i, None}
  /\ \E e \in Ends(orphan_del(mem, i)) :
       /\ Close(e, Restored, IF e.t.ok THEN {i} ELSE {})
       /\ pc' = IF e.t.ok THEN i ELSE pc
  /\ UNCHANGED owed

\* ... then freed.  The head comes off in the transaction that frees it.
ext4b_release_inode(i) ==
  /\ pc = i \/ (Up /\ i \in owed /\ mem.sb \in {i, None})
  /\ \E e \in Ends(release_inode(mem, i)) :
       /\ Close(e, LAMBDA m : IF mem.sb = i THEN Restored(m) ELSE m, {})
       /\ owed' = IF e.t.ok THEN owed \ {i} ELSE owed
  /\ pc' = "up"

\* txn_drain, for sync and unmount.
Drain ==
  \E t \in txn_commit(mem) :
    /\ t.hit => fails < MaxFails
    /\ fails' = IF t.hit THEN fails + 1 ELSE fails
    /\ mem' = t.mem /\ disk' = t.disk /\ ops' = 0
    /\ loose' = IF t.disk = mem THEN loose ELSE split
    /\ split' = loose'
    /\ partial' = (partial \/ t.hit)

ext4b_sync == Up /\ ops > 0 /\ Drain /\ UNCHANGED <<pc, owed>>

\* The journal stops by writing fs->sb, its orphan head included.
ext4b_unmount ==
  /\ Up /\ ops = 0 /\ pc' = "down"
  /\ mem' = [mem EXCEPT !.head = mem.sb] /\ disk' = mem'
  /\ owed' = {} /\ split' = loose /\ UNCHANGED <<ops, loose, partial, fails>>

Crash ==
  /\ pc # "down" /\ pc' = "down"
  /\ mem' = disk /\ ops' = 0 /\ owed' = {} /\ loose' = split
  /\ UNCHANGED <<disk, split, partial, fails>>

\* The superblock is read again, and the sweep begins.
ext4b_mount ==
  /\ pc = "down" /\ pc' = "sweep"
  /\ mem' = [disk EXCEPT !.sb = disk.head]
  /\ UNCHANGED <<disk, ops, owed, loose, split, partial, fails>>

\* One round of ext4b_orphan_cleanup; an error ends it and the mount goes on.
ext4b_orphan_cleanup ==
  /\ pc = "sweep" /\ mem.sb # None
  /\ \E e \in Ends(orphan_cleanup(mem)) :
       Close(e, Keep, {}) /\ pc' = IF e.t.ok THEN "sweep" ELSE "up"
  /\ UNCHANGED owed

CleanupDone ==
  /\ pc = "sweep" /\ mem.sb = None /\ pc' = "up"
  /\ UNCHANGED <<mem, disk, ops, owed, loose, split, partial, fails>>

Next ==
  \/ \E p \in Inodes, n \in Names :
       \/ \E k \in Kinds, c \in Inodes : ext4b_create(p, n, k, c)
       \/ \E c \in Inodes : createSymbolicLink(p, n, c) \/ ext4b_hardlink(p, n, c)
       \/ \E defer \in BOOLEAN : ext4b_unlink_ex(p, n, defer)
       \/ \E dp \in Inodes, dn \in Names : ext4b_rename(p, n, dp, dn)
  \/ \E i \in Inodes : ReleaseUnlist(i) \/ ext4b_release_inode(i)
  \/ ext4b_sync \/ ext4b_unmount \/ Crash
  \/ ext4b_mount \/ ext4b_orphan_cleanup \/ CleanupDone

Spec == Init /\ [][Next]_vars

-----------------------------------------------------------------------------
(* Properties *)

\* The state has the shape the declarations describe.
TypeOK ==
  /\ mem \in Meta /\ disk \in Meta /\ ops \in 0..Batch
  /\ owed \cup loose \cup split \subseteq Inodes /\ pc \in {"up", "down", "sweep"} \cup Inodes

Count(s, i) == Cardinality({k \in DOMAIN s : s[k] = i})
Places      == Inodes \X Names
NamesOf(m, i) == {x \in Places : i \in {m.ent[x[1]][x[2]][k] : k \in DOMAIN m.ent[x[1]][x[2]]}}

\* No directory, in memory or on the medium, names an inode the bitmap has
\* free, whatever failed on the way (create_common and rename undo or order
\* their steps for this).
NoDangling ==
  \A m \in {mem, disk} : \A i \in Inodes \ m.inuse : NamesOf(m, i) = {}

\* Unless part of a failed operation was committed, a name is in a directory
\* once, and each inode's link count is the number of entries that lead to it
\* (or 1, for a directory that has had too many).
Subdirs(m, i) == {d \in m.inuse \ {Root} : IsDir(m, d) /\ m.links[d] # 0 /\ m.up[d] = i}
LinksRight(m) ==
  /\ \A x \in Places : Len(m.ent[x[1]][x[2]]) <= 1
  /\ \A i \in m.inuse :
       IF IsDir(m, i) /\ m.links[i] # 0
       THEN m.links[i] \in {1, 2 + Cardinality(Subdirs(m, i))}
       ELSE m.links[i] = Cardinality(NamesOf(m, i))
LinkCounts == ~partial => LinksRight(mem) /\ LinksRight(disk)

\* A directory gives up counting its links only in the step in which it comes
\* to have as many subdirectories as the count has room for
\* (ext4_fs_inode_links_count_inc): the 1 that LinkCounts accepts hides nothing.
CappedWhenFull ==
  [][\A d \in mem.inuse \cap mem'.inuse :
       ~partial' /\ pc = "up" /\ pc' = "up" /\ IsDir(mem, d) /\ IsDir(mem', d)
         /\ mem.links[d] > 1 /\ mem'.links[d] = 1 => 2 + Cardinality(Subdirs(mem', d)) >= LinkMax]_vars

\* Unless part of a failed operation was committed, the directories are a tree:
\* each has one name, in the directory its ".." leads to, and climbing from it
\* reaches the root (the walk rename makes before it moves a directory).
Connected ==
  ~partial => \A d \in mem.inuse \ {Root} :
    IsDir(mem, d) /\ mem.links[d] # 0 =>
      /\ \E n \in Names : NamesOf(mem, d) = {<<mem.up[d], n>>}
      /\ Meets(mem, d, Root)

Listed(m)  == {Walk(m, m.head)[k] : k \in DOMAIN Walk(m, m.head)} \ {None}

\* The chain from the superblock's head holds exactly the inodes that are in use and have
\* no name, in memory and as a crash would leave it, but for those that a release from the
\* middle of the list has taken off and not freed yet (loose, split): the two are
\* transactions of their own, and what is between them is on no list.
OrphansExact ==
  ~partial => Listed(disk) = Orphans(disk) \ split /\ Listed(mem) = Orphans(mem) \ loose

\* The head the bridge works with is the head in the cache.
HeadAgrees == ~partial /\ pc # "down" => mem.sb = mem.head

\* What the comment on the list says (ext4_bridge.c:3190-3195): an edit of the list commits
\* with the inode change it protects, and a crash finds no half-state.
NoHalfState == pc = "down" /\ ~partial => Listed(disk) = Orphans(disk)

\* Once the sweep of a mount has gone through, no inode is in use without a
\* name unless its release was cut in two.
Settled ==
  [][CleanupDone /\ ~partial => Orphans(mem) \subseteq loose]_vars

\* An operation that something fails under, alone in its transaction, leaves
\* everything as it was, unless it goes on and reports success.
RolledBack ==
  [][fails' > fails /\ ops = 0 /\ ~partial' => UNCHANGED <<mem, disk>>]_vars

\* What chattr protects keeps its names, and an immutable directory its
\* entries; an append-only one may only gain some.
ProtectionHolds ==
  [][\A i \in Inodes :
       Protected(mem, i) /\ pc \notin {"down"} /\ pc' # "down" =>
         /\ NamesOf(mem, i) \subseteq NamesOf(mem', i)
         /\ \A n \in Names : mem.ent[i][n] # mem'.ent[i][n] =>
               mem.flag[i] = "append" /\ mem.ent[i][n] = <<>>]_vars

\* Names lead to inodes in use and directories hang below the root, whatever
\* was created, removed, renamed, failed or lost in a crash (link_child,
\* unlink_child, ext4b_rename).
NamesSound == TypeOK /\ NoDangling /\ Connected

\* Whatever joined and left it, the orphan chain neither loses an inode nor keeps one that has
\* a name or is free, in memory and on the medium, and its head is the same in both; what a
\* release from the middle is between its two transactions with is the one exception
\* (orphan_publish_head, orphan_del, ext4b_release_inode).
OrphanChain == OrphansExact /\ HeadAgrees

\* What a step may never do: finish a sweep with orphans left, change anything
\* in an operation that fails alone (txn_abort), touch what chattr protects
\* (is_immutable, unlink_forbidden), or give up counting links too early
\* (ext4_fs_inode_links_count_inc).
StepsAllowed == Settled /\ RolledBack /\ ProtectionHolds /\ CappedWhenFull
=============================================================================
