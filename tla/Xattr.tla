------------------------------- MODULE Xattr -------------------------------
(***************************************************************************)
(* Extended attributes: the area behind an inode's fields and the block    *)
(* beside it (ext4_xattr.c), the calls of the bridge and the volume's      *)
(* setXattr, which looks first and writes in a second turn of the          *)
(* executor.                                                               *)
(*                                                                         *)
(* An area is a run of units of four bytes.  Entries grow from its start,  *)
(* ended by a terminator of one unit; values grow down from its end.  An   *)
(* entry keeps the offset and the length of its value, so what a get reads *)
(* is whatever the units there hold.                                       *)
(*                                                                         *)
(* A request that fails alone in its transaction leaves no trace; in a     *)
(* batch its effects so far are committed (txn_finish in ext4_bridge.c).   *)
(***************************************************************************)
EXTENDS Integers, Sequences, FiniteSets, FiniteSetsExt, SequencesExt, TLC

CONSTANTS
  Files, Names,
  Blocks,     \* the blocks an attribute block may be allocated from, numbers
  Tokens,     \* what a unit of a value may hold
  Lens,       \* the lengths of values, in units
  None,
  NameLen,    \* the units of an entry
  BodyRoom,   \* the units of the area in the inode, after its header
  BlockRoom,  \* the units of an attribute block
  HeadRoom,   \* the units of that block's header
  NoBody,     \* the files whose inodes have no room for attributes
  Shared,     \* the files that share a block when the volume is mounted
  Kept,       \* the attribute and the value that block holds
  MaxCalls,   \* bound on the requests and replacements of files
  MaxPending, \* bound on the requests under way
  Windows     \* cases in which the code is known to go wrong, kept in

(***************************************************************************)
(*   "full"    the area in an inode without a unit to spare, which the     *)
(*             check of the next read refuses                              *)
(*   "empty"   a value of no length is given an offset when others move    *)
(*   "shared"  the copy of a shared block is lost or the block is freed    *)
(*             for all its files; and a value that moves to the inode      *)
(*             stays in the block, too, if that half fails in a batch      *)
(*   "stale"   the block is searched for a name that was never set, and    *)
(*             does not find the value that has moved to the inode         *)
(*   "lost"    a replace that finds no room takes the old value away       *)
(***************************************************************************)
Nothing == [tok |-> None, len |-> 0]
Unreadable == [tok |-> None, len |-> -1]
Values == {Nothing} \cup {[tok |-> t, len |-> l] : t \in Tokens, l \in Lens}

ASSUME XattrAssumption ==
  /\ {NameLen, BodyRoom, BlockRoom, HeadRoom, MaxCalls, MaxPending} \subseteq Nat \ {0}
  /\ Lens \subseteq Nat \ {0} /\ Blocks \subseteq Nat /\ HeadRoom < BlockRoom
  /\ IsFiniteSet(Files) /\ None \notin Values /\ None \notin Blocks /\ (Shared # {} => Blocks # {})
  /\ NoBody \subseteq Files /\ Shared \subseteq Files
  /\ Kept.n \in Names /\ Kept.val \in Values \ {Nothing}
  /\ Windows \subseteq {"full", "empty", "shared", "stale", "lost"}

VARIABLES
  body,     \* body[f]: the area in the inode; magic is FALSE until it is first written
  acl,      \* acl[f]: the attribute block of f, None without one
  cnt,      \* cnt[f]: the part of i_blocks that is its attribute block
  blk,      \* the attribute blocks in use: references and area
  pending,  \* requests of setXattr between their look and their write
  ans,      \* the last request answered
  copied,   \* the files that left a shared block for a copy of it
  calls

vars == <<body, acl, cnt, blk, pending, ans, copied, calls>>

-----------------------------------------------------------------------------
(* An area.  k is "body" or "block".                                       *)

Room(k) == IF k = "body" THEN BodyRoom ELSE BlockRoom
First(k) == IF k = "body" THEN 0 ELSE HeadRoom
Blank(k) == [magic |-> FALSE, ents |-> <<>>, mem |-> [o \in 0 .. Room(k) - 1 |-> None]]
\* ext4_xattr_ibody_initialize, ext4_xattr_block_initialize.
Initialize(k) == [Blank(k) EXCEPT !.magic = TRUE]

\* Where the terminator is, and the offsets of the values.
End(a, k) == First(k) + NameLen * Len(a.ents)
Offs(a) == {a.ents[i].off : i \in {j \in DOMAIN a.ents : a.ents[j].len # 0}}

\* The in-body check measures offsets from the header, one unit before the
\* place they are relative to.
Skew(k) == IF k = "body" THEN 1 ELSE 0

\* An empty value has no offset; values end inside the area, and start behind
\* the terminator.
IsValid(a, k) ==
  /\ \A i \in DOMAIN a.ents :
       LET e == a.ents[i]
       IN /\ e.len = 0 => e.off = 0
          /\ e.off + e.len - Skew(k) <= Room(k)
  /\ Min({Room(k) + Skew(k)} \cup Offs(a)) - Skew(k) >= End(a, k) + 1

\* The position of n: one, or none.
ext4_xattr_find_entry(a, n) == {i \in DOMAIN a.ents : a.ents[i].name = n}
At(a, n) == CHOOSE i \in ext4_xattr_find_entry(a, n) : TRUE

\* A value as it is read, unit by unit from its offset; no value at all when
\* the units are not one value's.
Read(a, i) ==
  LET e == a.ents[i]
      units == {a.mem[o] : o \in DOMAIN a.mem \cap (e.off .. e.off + e.len - 1)}
  IN IF e.len = 0 THEN Nothing ELSE [tok |-> IF Cardinality(units) = 1 THEN CHOOSE t \in units : TRUE ELSE None, len |-> e.len]

\* The values before the one at off move up by its length, and so does what
\* entries say of them.
Compact_Still(a, min, off, len) ==
  [a EXCEPT
    !.mem = IF off = 0 THEN @
            ELSE [o \in DOMAIN @ |-> IF o \in min .. min + len - 1 THEN None
                                     ELSE IF o \in min .. off + len - 1 THEN @[o - len] ELSE @[o]]]
Compact(a, min, off, len) ==
  [a EXCEPT
    !.ents = [i \in DOMAIN @ |-> IF a.ents[i].off < off THEN [a.ents[i] EXCEPT !.off = @ + len] ELSE a.ents[i]],
    !.mem = IF off = 0 THEN @
            ELSE [o \in DOMAIN @ |-> IF o \in min .. min + len - 1 THEN None
                                     ELSE IF o \in min .. off + len - 1 THEN @[o - len] ELSE @[o]]]

\* The units a new value and its entry may take: those between the terminator
\* and the first value, and what the old ones give back.
SpaceFor_NoEnd(a, k, n) ==
  Min({Room(k)} \cup Offs(a)) - End(a, k)
  + (IF ext4_xattr_find_entry(a, n) = {} THEN 0 ELSE a.ents[At(a, n)].len + NameLen)
SpaceFor(a, k, n) ==
  Min({Room(k)} \cup Offs(a)) - End(a, k) - 1
  + (IF ext4_xattr_find_entry(a, n) = {} THEN 0 ELSE a.ents[At(a, n)].len + NameLen)

\* Insert, change or, where val is None, remove the entry for n.
ext4_xattr_set_entry(a, k, n, val) ==
  LET found == ext4_xattr_find_entry(a, n) # {}
      old == a.ents[At(a, n)]
      min == Min({Room(k)} \cup Offs(a))
      c == IF found THEN Compact(a, min, old.off, old.len) ELSE a
      top == IF found /\ old.off # 0 THEN min + old.len ELSE min
      off == IF val.len = 0 THEN 0 ELSE top - val.len
      e == [name |-> n, off |-> off, len |-> val.len]
  IN IF val = None THEN [a |-> IF found THEN [c EXCEPT !.ents = RemoveAt(@, At(a, n))] ELSE a, rc |-> "OK"]
     ELSE IF SpaceFor(a, k, n) < val.len + NameLen THEN [a |-> a, rc |-> "ENOSPC"]
     ELSE [a |-> [c EXCEPT !.ents = IF found THEN [@ EXCEPT ![At(a, n)] = e] ELSE Append(@, e),
                           !.mem = [o \in DOMAIN @ |-> IF off # 0 /\ o \in off .. off + val.len - 1 THEN val.tok ELSE @[o]]],
           rc |-> "OK"]

-----------------------------------------------------------------------------
(* One file: its body, its block and the volume's attribute blocks.  A      *)
(* result is such a record and an error.                                    *)

Of(f) == [body |-> body[f], room |-> f \notin NoBody, acl |-> acl[f], cnt |-> cnt[f], blk |-> blk]
Free(s) == Blocks \ DOMAIN s.blk
NoSpace(s, fault) == fault = "full" \/ Free(s) = {}
Area(s) == s.blk[s.acl].area
WithArea(s, a) == [s EXCEPT !.blk[s.acl].area = a]
Result(s, rc) == [s |-> s, rc |-> rc]

\* ext4_balloc_alloc_block and the pointer to what it returns.
WithBlock(B, b, r) == [x \in DOMAIN B \cup {b} |-> IF x = b THEN r ELSE B[x]]
ext4_xattr_try_alloc_block(s, refs, a) ==
  LET b == Min(Free(s))
  IN [s EXCEPT !.acl = b, !.cnt = @ + 1, !.blk = WithBlock(@, b, [refs |-> refs, area |-> a])]
ext4_xattr_try_free_block_Counted(s) ==
  [s EXCEPT !.acl = None, !.blk = Restrict(@, DOMAIN @ \ {s.acl})]
ext4_xattr_try_free_block(s) ==
  [s EXCEPT !.acl = None, !.cnt = @ - 1, !.blk = Restrict(@, DOMAIN @ \ {s.acl})]

\* In which area get finds n, and what it answers.
Home(s, n) ==
  IF s.body.magic /\ ext4_xattr_find_entry(s.body, n) # {} THEN "body"
  ELSE IF s.acl \in DOMAIN s.blk /\ ext4_xattr_find_entry(Area(s), n) # {} THEN "block" ELSE "none"
ext4_xattr_get(s, n) ==
  IF s.body.magic /\ ~IsValid(s.body, "body") THEN Unreadable
  ELSE IF Home(s, n) = "body" THEN Read(s.body, At(s.body, n))
  ELSE IF s.acl # None /\ (s.acl \notin DOMAIN s.blk \/ ~IsValid(Area(s), "block")) THEN Unreadable
  ELSE IF Home(s, n) = "block" THEN Read(Area(s), At(Area(s), n))
  ELSE None

\* How often list names n: the body's entries where it is valid, then the block's.
ext4_xattr_list(s, n) ==
  (IF s.body.magic /\ IsValid(s.body, "body") THEN Cardinality(ext4_xattr_find_entry(s.body, n)) ELSE 0)
  + (IF s.acl \in DOMAIN s.blk THEN Cardinality(ext4_xattr_find_entry(Area(s), n)) ELSE 0)

\* A block of several files is copied before it changes.  fault: what fails on
\* the way, the block's read ("read") or the volume that is full ("full").
ext4_xattr_copy_new_block_Kept(s, fault) ==
  IF s.blk[s.acl].refs = 1 THEN Result(s, "OK")
  ELSE IF NoSpace(s, fault) THEN Result(s, "ENOSPC")
  ELSE Result(ext4_xattr_try_alloc_block(s, 1, Area(s)), "OK")
ext4_xattr_copy_new_block(s, fault) ==
  IF s.blk[s.acl].refs = 1 THEN Result(s, "OK")
  ELSE IF NoSpace(s, fault) THEN Result(s, "ENOSPC")
  ELSE Result(ext4_xattr_try_alloc_block([s EXCEPT !.blk[s.acl].refs = @ - 1], 1, Area(s)), "OK")

ext4_xattr_block_set(s, n, val, no_insert, fault) ==
  LET w == ext4_xattr_set_entry(Initialize("block"), "block", n, val)
      many == s.blk[s.acl].refs > 1
      u == ext4_xattr_set_entry(Area(s), "block", n, val)
  IN IF s.acl = None
     THEN IF NoSpace(s, fault) THEN Result(s, "ENOSPC")
          ELSE IF fault = "read" THEN Result(s, "EIO")
          ELSE IF w.rc = "OK" THEN Result(ext4_xattr_try_alloc_block(s, 1, w.a), "OK") ELSE Result(s, w.rc)
     ELSE IF fault = "read" \/ (~IsValid(Area(s), "block") /\ (no_insert \/ ~many)) THEN Result(s, "EIO")
     ELSE IF ~many THEN Result(WithArea(s, u.a), u.rc)
     ELSE IF no_insert /\ ext4_xattr_find_entry(Area(s), n) = {} THEN Result(s, "ENODATA")
     ELSE IF NoSpace(s, fault) THEN Result(s, "ENOSPC")
     \* The buffer of the copy is overwritten by the one just put back.
     ELSE Result(s, "CRASH")

\* The block is read again ("again").  The finder's name is never set: hit says
\* whether what is on the stack there is n.
ext4_xattr_block_remove_Copy(s, n, fault, hit) == ext4_xattr_copy_new_block(s, fault)
ext4_xattr_block_remove(s, n, fault, hit) ==
  LET c == ext4_xattr_copy_new_block(s, fault)
  IN IF fault = "again" THEN Result(s, "EIO")
     ELSE IF c.rc # "OK" \/ ~hit THEN c
     ELSE Result(WithArea(c.s, ext4_xattr_set_entry(Area(c.s), "block", n, None).a), "OK")

\* What the block answers when the inode is to be tried.
TryInsert_Space(rc) == rc = "ENOSPC"
TryInsert(rc) == rc \in {"ENOSPC", "ENODATA"}

ext4_xattr_set(orig, n, val, fault, hit) ==
  LET s == [orig EXCEPT !.body = IF orig.room /\ ~@.magic THEN Initialize("body") ELSE @]
      here == ext4_xattr_find_entry(s.body, n) # {}
      block_found == ~here /\ s.acl # None
      first == ext4_xattr_block_set(s, n, val, TRUE, fault)
      w == ext4_xattr_set_entry(s.body, "body", n, val)
      moved == ext4_xattr_block_set(s, n, val, FALSE, fault)
  IN IF orig.body.magic /\ ~IsValid(orig.body, "body") THEN Result(orig, "EIO")
     ELSE IF block_found /\ ~TryInsert(first.rc) THEN first
     ELSE IF s.room /\ w.rc = "OK"
     THEN IF block_found THEN ext4_xattr_block_remove([s EXCEPT !.body = w.a], n, fault, hit)
          ELSE Result([s EXCEPT !.body = w.a], "OK")
     ELSE IF block_found THEN Result(s, "ENOSPC")
     ELSE Result([moved.s EXCEPT !.body = ext4_xattr_set_entry(@, "body", n, None).a], moved.rc)

\* The block has no such entry.
NotThere(s) == Result(s, "ENOATTR")

ext4_xattr_remove(s, n, fault) ==
  LET c == ext4_xattr_copy_new_block(s, fault)
      w == ext4_xattr_set_entry(Area(c.s), "block", n, None).a
  IN IF s.body.magic /\ ~IsValid(s.body, "body") THEN Result(s, "EIO")
     ELSE IF Home(s, n) = "body" \/ s.acl = None
     THEN Result([s EXCEPT !.body = ext4_xattr_set_entry(@, "body", n, None).a], "OK")
     ELSE IF fault = "read" \/ ~IsValid(Area(s), "block") THEN Result(s, "EIO")
     ELSE IF Home(s, n) = "none" THEN NotThere(s)
     ELSE IF c.rc # "OK" THEN c
     ELSE Result(IF w.ents = <<>> THEN ext4_xattr_try_free_block(c.s) ELSE WithArea(c.s, w), "OK")

-----------------------------------------------------------------------------
(* Requests.                                                                *)

Request(f, n, val) == [f |-> f, n |-> n, val |-> val]
Answer(q, rc) == ans' = [rc |-> rc, f |-> q.f, n |-> q.n, val |-> q.val]

Init ==
  /\ body = [f \in Files |-> Blank("body")]
  /\ acl = [f \in Files |-> IF f \in Shared THEN Min(Blocks) ELSE None]
  /\ cnt = [f \in Files |-> IF f \in Shared THEN 1 ELSE 0]
  /\ blk = IF Shared = {} THEN <<>>
           ELSE [b \in {Min(Blocks)} |->
                  [refs |-> Cardinality(Shared),
                   area |-> ext4_xattr_set_entry(Initialize("block"), "block", Kept.n, Kept.val).a]]
  /\ pending = {} /\ copied = {} /\ calls = 0
  /\ ans = [rc |-> "OK", f |-> None, n |-> None, val |-> None]

\* The policy against what was read.
Refusal(policy, existing) ==
  CASE policy = "mustCreate" /\ existing -> "EEXIST"
    [] policy = "mustReplace" /\ ~existing -> "ENOATTR"
    [] OTHER -> "OK"

\* setXattr's first turn: what it reads decides whether the request goes on.
\* A read that fails counts as an attribute that is not there, and by the second
\* turn another request for the attribute may have come between.
Look(f, n, val, policy, bad) ==
  LET q == Request(f, n, val)
      existing == ~bad /\ ext4_xattr_get(Of(f), n) \notin {None, Unreadable}
      refused == Refusal(policy, existing)
  IN /\ calls < MaxCalls /\ calls' = calls + 1
     /\ Cardinality(pending) < MaxPending
     /\ IF refused = "OK" THEN pending' = pending \cup {q} /\ UNCHANGED ans
        ELSE UNCHANGED pending /\ Answer(q, refused)
     /\ UNCHANGED <<body, acl, cnt, blk, copied>>

\* The cases in which the code is known to go wrong.
Known(q, r, alone) ==
  LET s == Of(q.f)
      \* Entries of no length that were given an offset.
      shifted(a) == \E i \in DOMAIN a.ents : a.ents[i].len = 0 /\ a.ents[i].off # 0
      \* An area with no unit to spare between the terminator and the values.
      filled(a) == Offs(a) # {} /\ Min(Offs(a)) = End(a, "body") + 1
      kept == r.rc = "OK" \/ ~alone
  IN {w \in {"full", "empty", "shared", "lost"} :
        CASE w = "empty" -> shifted(r.s.body) \/ \E b \in DOMAIN r.s.blk : shifted(r.s.blk[b].area)
          [] w = "full" -> filled(r.s.body)
          [] w = "shared" -> r.rc = "CRASH" \/ (r.rc # "OK" /\ kept /\ Home(s, q.n) # "body" /\ Home(r.s, q.n) = "body")
          [] w = "lost" -> r.rc # "OK" /\ kept /\ Home(s, q.n) = "body" /\ Home(r.s, q.n) # "body"}

\* Its second turn: ext4b_setxattr, or ext4b_removexattr without a value.
Write(q, alone, fault, hit) ==
  LET r == IF q.val = None THEN ext4_xattr_remove(Of(q.f), q.n, fault) ELSE ext4_xattr_set(Of(q.f), q.n, q.val, fault, hit)
      t == IF r.rc # "OK" /\ alone THEN Of(q.f) ELSE r.s
  IN /\ Known(q, r, alone) \subseteq Windows
     /\ body' = [body EXCEPT ![q.f] = t.body]
     /\ acl' = [acl EXCEPT ![q.f] = t.acl]
     /\ cnt' = [cnt EXCEPT ![q.f] = t.cnt]
     /\ blk' = t.blk
     /\ copied' = IF acl[q.f] # None /\ blk[acl[q.f]].refs > 1 /\ t.acl # acl[q.f] THEN copied \cup {q.f} ELSE copied
     /\ pending' = pending \ {q}
     /\ Answer(q, r.rc)
     /\ UNCHANGED calls

\* The last name goes: ext4_fs_free_inode frees the block, whoever else uses
\* it, and the inode is used again.
Replace(f) ==
  /\ calls < MaxCalls /\ calls' = calls + 1
  /\ \A q \in pending : q.f # f
  /\ acl[f] # None /\ blk[acl[f]].refs > 1 => "shared" \in Windows
  /\ body' = [body EXCEPT ![f] = Blank("body")]
  /\ acl' = [acl EXCEPT ![f] = None]
  /\ cnt' = [cnt EXCEPT ![f] = 0]
  /\ blk' = Restrict(blk, DOMAIN blk \ {acl[f]})
  /\ copied' = copied \ {f}
  /\ UNCHANGED <<pending, ans>>

\* What the search of ext4_xattr_block_remove may come to, where that is kept in.
Hits == IF "stale" \in Windows THEN BOOLEAN ELSE {TRUE}

Next ==
  \/ \E f \in Files, n \in Names, val \in Values \cup {None}, policy \in {"always", "mustCreate", "mustReplace"},
       bad \in BOOLEAN : Look(f, n, val, policy, bad)
  \/ \E q \in pending, alone \in BOOLEAN, fault \in {"none", "read", "again", "full"}, hit \in Hits :
       Write(q, alone, fault, hit)
  \/ \E f \in Files : Replace(f)

Spec == Init /\ [][Next]_vars

-----------------------------------------------------------------------------
(* Properties.                                                              *)

TypeOK ==
  /\ \A f \in Files : /\ body[f].magic \in BOOLEAN /\ acl[f] \in Blocks \cup {None}
                      /\ \A i \in DOMAIN body[f].ents : body[f].ents[i].name \in Names
  /\ cnt \in [Files -> Nat] /\ copied \subseteq Files /\ DOMAIN blk \subseteq Blocks /\ calls \in 0 .. MaxCalls
  /\ \A q \in pending : q.f \in Files /\ q.n \in Names /\ q.val \in Values \cup {None}
  /\ ans.rc \in {"OK", "ENOSPC", "EIO", "ENOATTR", "EEXIST"}

\* Every area written is one the code's own checks accept: what set_entry leaves
\* behind (ext4_xattr.c) does not turn the file's attributes into EIO, but for
\* an inode's area that is filled and values of no length that are moved.
AreasAccepted ==
  /\ \A f \in Files : body[f].magic => IsValid(body[f], "body")
  /\ \A b \in DOMAIN blk : IsValid(blk[b].area, "block")

\* An attribute that moves between the inode and its block (ext4_xattr_set) is
\* never in both, as long as ext4_xattr_block_remove finds it there: xattrs
\* lists it once, and removing it does not bring an older value back.
ListedOnce ==
  \A f \in Files, n \in Names :
    ext4_xattr_list(Of(f), n) = IF ext4_xattr_get(Of(f), n) = None THEN 0 ELSE 1

\* Every block in use is referred to by as many inodes as it says, none is
\* lost, and none that an inode refers to was freed (copy_new_block,
\* try_free_block, ext4_fs_free_inode).
References ==
  /\ \A f \in Files : acl[f] # None => acl[f] \in DOMAIN blk
  /\ \A b \in DOMAIN blk : blk[b].refs = Cardinality({f \in Files : acl[f] = b}) /\ blk[b].refs # 0

\* i_blocks counts the attribute block.  A file whose shared block was copied
\* is left out: copy_new_block adds the copy and does not take off the block
\* it left.
BlocksCounted ==
  \A f \in Files \ copied : cnt[f] = IF acl[f] = None THEN 0 ELSE 1

Map == INSTANCE AttrMap WITH attrs <- [f \in Files |-> [n \in Names |-> ext4_xattr_get(Of(f), n)]]

\* Whatever the areas do, the files have maps from names to values: a request
\* answered OK changed one attribute of one file, and a refused one nothing.
IsAttrMap == Map!Spec

\* Areas are acceptable, an attribute is in one of them, and references and
\* i_blocks account for the blocks, after any sets and removals that succeed or
\* fail, alone or in a batch, the cases of Windows left out (ext4_xattr_set,
\* ext4_xattr_remove).
AreasSound == TypeOK /\ AreasAccepted /\ ListedOnce /\ References /\ BlocksCounted
=============================================================================
