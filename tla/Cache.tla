------------------------------- MODULE Cache -------------------------------
(***************************************************************************)
(* The buffer cache between lwext4 and the device (ext4_bcache.c,          *)
(* ext4_blockdev.c) and everything that writes past it: file data, the     *)
(* superblock, zeroed ranges.  One call runs at a time, on the executor;   *)
(* the loops inside a call (shaking, flushing, sweeping, a commit giving   *)
(* its buffers back) go one buffer per step, and any write may fail.       *)
(*                                                                         *)
(* What a block holds is told by three sets: live, the blocks whose        *)
(* content means something, fresh, those whose buffer has the latest       *)
(* content, and home, those whose place on the medium has it.  Which of    *)
(* the unreferenced buffers goes first (lru_id) and the order of the dirty *)
(* list are left open.  BC_FLUSH and BC_TMP are carried exactly by the     *)
(* buffers of log blocks, so they are the set LogBlocks here.  The log     *)
(* itself, crashes and aborted transactions are Journal.tla.               *)
(***************************************************************************)
EXTENDS Integers, FiniteSets

CONSTANTS
  Blocks,        \* the blocks of the volume, by number
  LogBlocks,     \* those of the journal's own file
  Cnt,           \* bc->cnt, CONFIG_BLOCK_DEV_CACHE_SIZE
  MaxHeld,       \* bound on the references callers hold to one buffer
  MaxPins,       \* bound on the references the running transaction holds to one buffer
  MaxWriteBack,  \* bound on the nesting of write-back mode
  Windows        \* the case in which the code is known to go wrong: "gap"

ASSUME CacheAssumption ==
  /\ Blocks \subseteq Nat /\ LogBlocks \subseteq Blocks
  /\ {Cnt, MaxHeld, MaxPins, MaxWriteBack} \subseteq Nat
  /\ Windows \subseteq {"gap"}

VARIABLES
  cached,    \* lba_root: the blocks that have a buffer
  uptodate,  \* BC_UPTODATE
  dirty,     \* BC_DIRTY
  notify,    \* the buffers whose end_write is the journal's
  held,      \* references of callers, a part of refctr
  pins,      \* references of the running transaction, the rest of refctr
  lru,       \* lru_root: the buffers that may be dropped
  listed,    \* dirty_list
  live, fresh, home,
  txn,       \* fs->curr_trans is set
  wb,        \* bdev->cache_write_back
  ioErr,     \* bc->io_err is set
  due,       \* a write failed and no caller has been told
  failed,    \* the blocks it failed for, until they are written after all
  lost,      \* blocks whose latest content went with their buffer
  pc, arg    \* the call that is running a loop, and the block it is for

buffers == <<cached, uptodate, dirty, notify, held, pins, lru, listed>>
content == <<live, fresh, home, lost>>
errors  == <<ioErr, due, failed>>
control == <<txn, wb, pc, arg>>
vars == <<buffers, content, errors, control>>

Refctr(b) == held[b] + pins[b]
Idle == pc = "idle"

\* ext4_bcache_is_full
Full == Cardinality(cached) >= Cnt

Init ==
  /\ cached = {} /\ uptodate = {} /\ dirty = {} /\ notify = {} /\ lru = {} /\ listed = {}
  /\ held = [b \in Blocks |-> 0] /\ pins = [b \in Blocks |-> 0]
  /\ live \in SUBSET (Blocks \ LogBlocks) /\ fresh = {} /\ home = live /\ lost = {}
  /\ txn = FALSE /\ wb = 0 /\ ioErr = FALSE /\ due = FALSE /\ failed = {}
  /\ pc = "idle" /\ arg = 0

-----------------------------------------------------------------------------
(* Writing one buffer home, and letting one go.                            *)

\* Mutant: the buffer stays on the dirty list.
Written_Listed(b) ==
  /\ home' = IF b \in fresh THEN home \cup {b} ELSE home \ {b}
  /\ dirty' = dirty \ {b} /\ notify' = notify \ {b} /\ listed' = listed

\* ext4_block_flush_buf when the device takes the write: clean, off the list,
\* and the journal is told.
Written(b) ==
  /\ home' = IF b \in fresh THEN home \cup {b} ELSE home \ {b}
  /\ dirty' = dirty \ {b} /\ notify' = notify \ {b} /\ listed' = listed \ {b}

\* ext4_block_flush_buf when it does not: the journal is told, all else stays.
Refused(b) == notify' = notify \ {b} /\ UNCHANGED <<dirty, home>>

Settled(b) == failed' = failed \ {b} /\ UNCHANGED <<ioErr, due>>

\* Mutant: a write that failed is forgotten.
Latch_Not(b) == due' = TRUE /\ failed' = failed \cup {b} /\ UNCHANGED ioErr

\* The failure of a write that has no caller to tell waits in io_err.
Latch(b) == ioErr' = TRUE /\ due' = TRUE /\ failed' = failed \cup {b}

\* ext4_bcache_take_error, by a caller that returns what it takes.
TakeError == ioErr' = FALSE /\ due' = FALSE /\ UNCHANGED failed

\* ext4_bcache_drop_buf
Drop(b) ==
  /\ cached' = cached \ {b} /\ lru' = lru \ {b} /\ uptodate' = uptodate \ {b} /\ fresh' = fresh \ {b}

\* The buffer stays for the next caller, unless it holds nothing or is a
\* log block's (BC_TMP).
KeepOrDrop(b) ==
  IF b \notin uptodate \/ b \in LogBlocks
  THEN Drop(b)
  ELSE lru' = lru \cup {b} /\ UNCHANGED <<cached, uptodate, fresh>>

\* ext4_bcache_free when the reference given back was the last one, the
\* dirty list being L without b.
Ready(b) == b \in dirty /\ b \in uptodate
Delayed(b) == wb > 0 /\ b \notin LogBlocks

PutClean(b, L) ==
  /\ ~ Ready(b)
  /\ KeepOrDrop(b) /\ listed' = L
  /\ UNCHANGED <<dirty, notify, home, lost, errors>>

PutDelayed(b, L) ==
  /\ Ready(b) /\ Delayed(b)
  /\ listed' = L \cup {b} /\ lru' = lru \cup {b}
  /\ UNCHANGED <<cached, uptodate, dirty, notify, fresh, home, lost, errors>>

PutWritten(b, L) ==
  /\ Ready(b) /\ ~ Delayed(b)
  /\ Written(b) /\ KeepOrDrop(b) /\ Settled(b)
  /\ UNCHANGED lost

\* The buffer stays dirty and a later flush may still land it; a log block
\* goes with its buffer.
PutRefused(b, L) ==
  /\ Ready(b) /\ ~ Delayed(b)
  /\ KeepOrDrop(b) /\ Latch(b) /\ listed' = L /\ notify' = notify \ {b}
  /\ IF b \in LogBlocks THEN dirty' = dirty \ {b} /\ lost' = lost \cup {b} ELSE UNCHANGED <<dirty, lost>>
  /\ UNCHANGED home

LastPut(b, L) == PutClean(b, L) \/ PutDelayed(b, L) \/ PutWritten(b, L) \/ PutRefused(b, L)

-----------------------------------------------------------------------------
(* Getting a buffer.                                                       *)

\* ext4_block_get, ext4_block_get_sb and their transaction forms ("get"), or
\* ext4_block_get_noread ("noread"), which is for blocks about to be filled.
\* Holes are refused and change nothing.
ext4_block_get(b, how) ==
  /\ Idle /\ held[b] < MaxHeld /\ (how = "get" => b \in live)
  /\ pc' = how /\ arg' = b
  /\ UNCHANGED <<buffers, content, errors, txn, wb>>

Getting == pc \in {"get", "noread"}

\* ext4_block_cache_shake: one unreferenced buffer goes, written first.
shakeDrop(b) ==
  /\ Getting /\ Full /\ b \in lru
  /\ IF Ready(b) THEN Written(b) /\ Settled(b)
     ELSE dirty' = dirty \ {b} /\ listed' = listed \ {b} /\ notify' = notify \ {b} /\ UNCHANGED <<home, errors>>
  /\ Drop(b)
  /\ UNCHANGED <<held, pins, live, lost, control>>

\* The write fails and the get with it; the buffer stays.
shakeFail(b) ==
  /\ Getting /\ Full /\ b \in lru /\ Ready(b)
  /\ Refused(b)
  /\ pc' = "idle" /\ arg' = 0
  /\ UNCHANGED <<cached, uptodate, held, pins, lru, listed, content, errors, txn, wb>>

Room == ~ Full \/ lru = {}

\* Mutant: a buffer that is taken stays on the dirty list.
find_get_Listed(b) ==
  /\ held' = [held EXCEPT ![b] = @ + 1]
  /\ lru' = IF Refctr(b) = 0 THEN lru \ {b} ELSE lru
  /\ listed' = listed

\* ext4_bcache_find_get: a buffer that was unreferenced leaves both lists.
find_get(b) ==
  /\ held' = [held EXCEPT ![b] = @ + 1]
  /\ lru' = IF Refctr(b) = 0 THEN lru \ {b} ELSE lru
  /\ listed' = IF Refctr(b) = 0 THEN listed \ {b} ELSE listed

\* ext4_bcache_alloc: the buffer there is or a new one; nothing needs reading.
getDone ==
  /\ Getting /\ Room
  /\ pc = "noread" \/ arg \in uptodate
  /\ find_get(arg)
  /\ cached' = cached \cup {arg}
  /\ pc' = "idle" /\ arg' = 0
  /\ UNCHANGED <<uptodate, dirty, notify, pins, content, errors, txn, wb>>

\* ... and the block is read into it.
getRead ==
  /\ pc = "get" /\ Room /\ arg \notin uptodate
  /\ find_get(arg)
  /\ cached' = cached \cup {arg} /\ uptodate' = uptodate \cup {arg}
  /\ fresh' = IF arg \in home THEN fresh \cup {arg} ELSE fresh \ {arg}
  /\ pc' = "idle" /\ arg' = 0
  /\ UNCHANGED <<dirty, notify, pins, live, home, lost, errors, txn, wb>>

\* The read fails: the reference is given back, and a buffer nobody else
\* holds is dropped, whether it was new or there.
getFail ==
  /\ pc = "get" /\ Room /\ arg \notin uptodate
  /\ IF Refctr(arg) = 0
     THEN Drop(arg) /\ listed' = listed \ {arg}
     ELSE UNCHANGED <<cached, lru, uptodate, fresh, listed>>
  /\ pc' = "idle" /\ arg' = 0
  /\ UNCHANGED <<dirty, notify, held, pins, live, home, lost, errors, txn, wb>>

-----------------------------------------------------------------------------
(* Changing it and giving it back.                                         *)

Changed(b) ==
  /\ live' = live \cup {b} /\ fresh' = fresh \cup {b} /\ home' = home \ {b}
  /\ lost' = lost \ {b} /\ Settled(b)

\* The holder changes the buffer and calls ext4_trans_set_block_dirty or
\* ext4_bcache_set_dirty.  A running transaction takes a reference of its
\* own the first time (jbd_trans_set_block_dirty).
setDirty(b) ==
  /\ Idle /\ held[b] > 0
  /\ Changed(b)
  /\ IF ~ txn \/ b \in LogBlocks
     THEN dirty' = dirty \cup {b} /\ uptodate' = uptodate \cup {b} /\ UNCHANGED <<notify, pins>>
     ELSE IF b \in notify /\ pins[b] > 0
     THEN UNCHANGED <<dirty, uptodate, notify, pins>>
     ELSE /\ pins[b] < MaxPins
          /\ pins' = [pins EXCEPT ![b] = @ + 1]
          /\ dirty' = dirty \cup {b} /\ uptodate' = uptodate \cup {b} /\ notify' = notify \cup {b}
  /\ UNCHANGED <<cached, held, lru, listed, control>>

\* ext4_block_set, ext4_bcache_free.
ext4_block_set(b) ==
  /\ Idle /\ held[b] > 0
  /\ held' = [held EXCEPT ![b] = @ - 1]
  /\ IF Refctr(b) = 1 THEN LastPut(b, listed)
     ELSE UNCHANGED <<cached, uptodate, dirty, notify, lru, listed, fresh, home, lost, errors>>
  /\ UNCHANGED <<pins, live, control>>

\* The bridge opens a transaction and later commits it: every buffer it
\* holds is given back, one that was freed meanwhile without its end_write.
begin ==
  /\ Idle /\ ~ txn /\ txn' = TRUE
  /\ UNCHANGED <<buffers, content, errors, wb, pc, arg>>

commit ==
  /\ Idle /\ txn /\ pc' = "commit"
  /\ UNCHANGED <<buffers, content, errors, txn, wb, arg>>

commitPut(b) ==
  /\ pc = "commit" /\ pins[b] > 0
  /\ pins' = [pins EXCEPT ![b] = @ - 1]
  /\ IF Refctr(b) = 1 THEN LastPut(b, listed)
     ELSE /\ notify' = IF b \in dirty THEN notify ELSE notify \ {b}
          /\ UNCHANGED <<cached, uptodate, dirty, lru, listed, fresh, home, lost, errors>>
  /\ UNCHANGED <<held, live, control>>

commitDone ==
  /\ pc = "commit" /\ \A b \in Blocks : pins[b] = 0
  /\ pc' = "idle" /\ txn' = FALSE
  /\ UNCHANGED <<buffers, content, errors, wb, arg>>

-----------------------------------------------------------------------------
(* Flushing.                                                               *)

\* ext4_block_cache_flush, and leaving write-back mode when it is the last
\* to leave (ext4_block_cache_write_back).
ext4_block_cache_flush ==
  /\ Idle /\ pc' = "flush"
  /\ UNCHANGED <<buffers, content, errors, txn, wb, arg>>

ext4_block_cache_write_back(on) ==
  /\ Idle
  /\ IF on THEN wb < MaxWriteBack ELSE wb > 0
  /\ wb' = IF on THEN wb + 1 ELSE wb - 1
  /\ pc' = IF wb' = 0 THEN "flush" ELSE "idle"
  /\ UNCHANGED <<buffers, content, errors, txn, arg>>

\* A buffer that could not be written would stay first in the list for ever.
flushOne(b) ==
  /\ pc = "flush" /\ b \in listed
  /\ IF Ready(b) THEN Written(b) /\ Settled(b) ELSE UNCHANGED <<home, dirty, notify, listed, errors>>
  /\ UNCHANGED <<cached, uptodate, held, pins, lru, live, fresh, lost, control>>

flushFail(b) ==
  /\ pc = "flush" /\ b \in listed /\ Ready(b)
  /\ Refused(b)
  /\ pc' = "idle"
  /\ UNCHANGED <<cached, uptodate, held, pins, lru, listed, content, errors, txn, wb, arg>>

flushDone ==
  /\ pc = "flush" /\ listed = {}
  /\ TakeError
  /\ pc' = "idle"
  /\ UNCHANGED <<buffers, content, txn, wb, arg>>

\* ext4_block_flush_lba, for a block that is freed outside a transaction:
\* its buffer is taken, written and given back.  When the write fails, giving
\* back the last reference queues the buffer or tries again.
ext4_block_flush_lba(b) ==
  /\ Idle /\ ~ txn /\ b \in cached
  /\ \/ /\ Ready(b)
        /\ Written(b) /\ Settled(b) /\ UNCHANGED <<cached, uptodate, lru, fresh, lost>>
     \/ /\ Ready(b)
        /\ Refused(b) /\ UNCHANGED <<cached, uptodate, lru, fresh, lost>>
        /\ IF Refctr(b) = 0 /\ ~ Delayed(b)
           THEN Latch(b) /\ listed' = listed \ {b}
           ELSE UNCHANGED errors /\ listed' = IF Refctr(b) = 0 THEN listed \cup {b} ELSE listed
     \/ ~ Ready(b) /\ Refctr(b) = 0 /\ PutClean(b, listed)
  /\ UNCHANGED <<held, pins, live, control>>

-----------------------------------------------------------------------------
(* Past the cache.                                                         *)

\* Mutant: the cached copy is not told.
updateIfCached_Not(b) == fresh' = fresh \ {b}

\* ext4_bcache_update_if_cached, of a whole block.
updateIfCached(b) == fresh' = IF b \in cached THEN fresh \cup {b} ELSE fresh \ {b}

\* File data and the superblock go straight to the medium
\* (ext4_block_writebytes).  A part of a block leaves who has the latest
\* content as it was, so only whole blocks make a step.
directWrite(b) ==
  /\ Idle /\ b \notin LogBlocks /\ pins[b] = 0
  /\ live' = live \cup {b} /\ home' = home \cup {b} /\ lost' = lost \ {b}
  /\ updateIfCached(b)
  /\ UNCHANGED <<buffers, errors, control>>

\* ext4b_read takes whole blocks from the medium and lays dirty buffers over
\* them, taking and giving back each buffer there is.
overlay(b) ==
  /\ Idle /\ b \in cached /\ Refctr(b) = 0
  /\ LastPut(b, listed \ {b})
  /\ UNCHANGED <<held, pins, live, control>>

\* The blocks a range names, and what ext4_bcache_invalidate_lba reaches of
\* them: it starts from the buffer of the first block, and without one it
\* does nothing.
Run(from, n) == from .. (from + n - 1)
Reached(from, n) == IF from \in cached THEN Run(from, n) \cap cached ELSE {}

ext4_bcache_invalidate_lba(from, n) ==
  /\ "gap" \in Windows \/ from \in cached \/ Run(from, n) \cap cached = {}
  /\ dirty' = dirty \ Reached(from, n) /\ listed' = listed \ Reached(from, n)
  /\ notify' = notify \ Reached(from, n) /\ uptodate' = uptodate \ Reached(from, n)

\* ext4_ext_zero_unwritten_range, ext4_fs_init_inode_table: blocks that hold
\* nothing yet get zeros on the medium, and whatever the cache has of them
\* is given up.  When a write fails, what the range holds is nothing to rely
\* on.
zeroRange(from, n, ok) ==
  /\ Idle /\ Run(from, n) \subseteq Blocks \ (LogBlocks \cup live)
  /\ \A b \in Run(from, n) : Refctr(b) = 0
  /\ ext4_bcache_invalidate_lba(from, n)
  /\ live' = IF ok THEN live \cup Run(from, n) ELSE live
  /\ home' = IF ok THEN home \cup Run(from, n) ELSE home
  /\ fresh' = fresh \ Run(from, n) /\ lost' = lost \ Run(from, n)
  /\ UNCHANGED <<cached, held, pins, lru, errors, control>>

\* ext4_balloc_free_block, ext4_balloc_free_blocks: their buffers are given
\* up, also those the running transaction or a caller still holds.  With a
\* journal and no transaction the buffers have been through
\* ext4_block_flush_lba first, and a failure there ends the free.
freeRange(from, n) ==
  /\ Idle /\ Run(from, n) \subseteq Blocks \ LogBlocks
  /\ ext4_bcache_invalidate_lba(from, n)
  /\ live' = live \ Run(from, n) /\ home' = home \ Run(from, n)
  /\ fresh' = fresh \ Run(from, n) /\ lost' = lost \ Run(from, n)
  /\ UNCHANGED <<cached, held, pins, lru, errors, control>>

-----------------------------------------------------------------------------
(* Unmounting.                                                             *)

\* ext4_umount: nothing is held and no transaction runs.
ext4_umount ==
  /\ Idle /\ ~ txn /\ wb = 0 /\ \A b \in Blocks : Refctr(b) = 0
  /\ pc' = "close"
  /\ UNCHANGED <<buffers, content, errors, txn, wb, arg>>

\* ext4_bcache_cleanup: the buffer is dropped either way.
closeDrop(b) ==
  /\ pc = "close" /\ b \in cached
  /\ IF Ready(b) THEN Written(b) /\ Settled(b)
     ELSE dirty' = dirty \ {b} /\ listed' = listed \ {b} /\ notify' = notify \ {b} /\ UNCHANGED <<home, errors>>
  /\ Drop(b)
  /\ UNCHANGED <<held, pins, live, lost, control>>

closeFail(b) ==
  /\ pc = "close" /\ b \in cached /\ Ready(b)
  /\ dirty' = dirty \ {b} /\ listed' = listed \ {b} /\ notify' = notify \ {b}
  /\ Drop(b) /\ Latch(b) /\ lost' = lost \cup {b}
  /\ UNCHANGED <<held, pins, live, home, control>>

\* The error is read out before the cache goes; the next mount starts empty.
closeDone ==
  /\ pc = "close" /\ cached = {}
  /\ TakeError
  /\ pc' = "idle"
  /\ UNCHANGED <<buffers, content, txn, wb, arg>>

-----------------------------------------------------------------------------
\* The rest of a call, once it has begun.
Loop ==
  \/ \E b \in Blocks : shakeDrop(b) \/ shakeFail(b) \/ commitPut(b) \/ flushOne(b) \/ flushFail(b)
  \/ \E b \in Blocks : closeDrop(b) \/ closeFail(b)
  \/ getDone \/ getRead \/ getFail \/ commitDone \/ flushDone \/ closeDone

\* A call from above.
Call ==
  \/ \E b \in Blocks, how \in {"get", "noread"} : ext4_block_get(b, how)
  \/ \E b \in Blocks : setDirty(b) \/ ext4_block_set(b) \/ ext4_block_flush_lba(b) \/ directWrite(b) \/ overlay(b)
  \/ \E from \in Blocks, n \in 1 .. Cardinality(Blocks) : freeRange(from, n)
  \/ \E from \in Blocks, n \in 1 .. Cardinality(Blocks), ok \in BOOLEAN : zeroRange(from, n, ok)
  \/ begin \/ commit \/ ext4_block_cache_flush \/ ext4_umount
  \/ \E on \in BOOLEAN : ext4_block_cache_write_back(on)

Next == Loop \/ Call

\* The caller's thread runs on until its call returns.
Spec == Init /\ [][Next]_vars /\ WF_vars(Loop)

-----------------------------------------------------------------------------
TypeOK ==
  /\ cached \subseteq Blocks /\ uptodate \subseteq Blocks /\ dirty \subseteq Blocks /\ notify \subseteq Blocks
  /\ lru \subseteq Blocks /\ listed \subseteq Blocks
  /\ live \subseteq Blocks /\ fresh \subseteq Blocks /\ home \subseteq Blocks /\ lost \subseteq Blocks
  /\ failed \subseteq Blocks /\ ioErr \in BOOLEAN /\ due \in BOOLEAN
  /\ held \in [Blocks -> 0 .. MaxHeld] /\ pins \in [Blocks -> 0 .. MaxPins]
  /\ txn \in BOOLEAN /\ wb \in 0 .. MaxWriteBack
  /\ pc \in {"idle", "get", "noread", "commit", "flush", "close"}
  /\ arg \in Blocks \cup {0} /\ (Getting => arg \in Blocks)

\* The buffers are where their state says: a buffer without references, and
\* no other, can be dropped, and what is on the dirty list is unreferenced
\* and can be written, so that ext4_block_cache_flush takes everything off
\* it; a dirty buffer has content, and the journal waits only for buffers
\* that are still going to be written.
BuffersSound ==
  /\ TypeOK
  /\ notify \subseteq dirty /\ dirty \subseteq uptodate /\ uptodate \subseteq cached
  /\ lru = {b \in cached : Refctr(b) = 0}
  /\ \A b \in Blocks : Refctr(b) > 0 => b \in cached
  /\ listed \subseteq lru \cap dirty
  /\ lru \cap LogBlocks = {}

\* Whoever reads a block in use, through the cache or past it, gets its
\* latest content, unless a write of it failed for good: a buffer with
\* content has the latest (ext4_block_get), and without a dirty buffer the
\* medium has (ext4b_read).
Coherent ==
  \A b \in live \ lost : (b \in uptodate => b \in fresh) /\ (b \notin dirty => b \in home)

\* A failed write does not go unnoticed: a dirty buffer that nobody holds is
\* on the list or its failure is known, to a caller or to io_err, which the
\* next flush or the unmount returns; so is the failure of every block whose
\* content was dropped.
HonestErrors ==
  /\ (lru \cap dirty) \ listed \subseteq failed
  /\ lost \subseteq failed
  /\ due => ioErr

\* A block the running transaction has changed is not written to its place
\* before the transaction is committed, whatever is flushed, shaken out or
\* unmounted meanwhile.
WriteAhead ==
  [][\A b \in Blocks : pins[b] > 0 /\ pins'[b] > 0 /\ b \notin home => b \notin home']_vars

\* Every call returns: shaking, flushing, committing and sweeping end.
CallsReturn == ~ Idle ~> Idle
=============================================================================
