---------------------------- MODULE Cache_proofs ----------------------------
(***************************************************************************)
(* The cache's safety properties for every set of blocks, cache size and   *)
(* bound.  Everything rests on BuffersInv, which says buffer by buffer     *)
(* where reference counts, flags and the two lists stand to each other;    *)
(* with it, what ErrorsInv and ContentInv say of one buffer is kept by     *)
(* every step on its own.                                                  *)
(***************************************************************************)
EXTENDS Cache, TLAPS

\* Where a call that is under way stands: a get may still take its
\* reference, only a running transaction commits, and the sweep of an
\* unmount meets none.
ControlInv ==
  /\ Getting => held[arg] < MaxHeld
  /\ pc = "commit" => txn
  /\ pc = "close" => ~ txn

\* BuffersSound for one block, and two facts it does not name: only a running
\* transaction holds buffers, and during the sweep nobody does.
BufferInv(c) ==
  /\ (c \in notify => c \in dirty) /\ (c \in dirty => c \in uptodate) /\ (c \in uptodate => c \in cached)
  /\ c \in lru <=> (c \in cached /\ Refctr(c) = 0)
  /\ Refctr(c) > 0 => c \in cached
  /\ c \in listed => c \in lru /\ c \in dirty
  /\ c \in lru => c \notin LogBlocks
  /\ pins[c] > 0 => txn
  /\ pc = "close" => Refctr(c) = 0

BuffersInv == TypeOK /\ ControlInv /\ \A c \in Blocks : BufferInv(c)

\* HonestErrors for one block.  A lost block is not dirty, so that writing a
\* buffer never settles the failure of a block whose content is gone.
ErrorInv(c) ==
  /\ c \in dirty => c \notin lost
  /\ c \in lru /\ c \in dirty /\ c \notin listed => c \in failed
  /\ c \in lost => c \in failed

ErrorsInv == (due => ioErr) /\ \A c \in Blocks : ErrorInv(c)

\* Coherent for one block.
ContentInv(c) ==
  c \in live /\ c \notin lost => (c \in uptodate => c \in fresh) /\ (c \notin dirty => c \in home)

\* Every step keeps the buffers in order, whatever was released, evicted,
\* invalidated or refused by the device.
LEMMA BufferStep ==
  ASSUME BuffersInv, [Next]_vars
  PROVE  BuffersInv'
<1> USE CacheAssumption DEF BuffersInv, Getting, buffers, content, errors, control
<1>1. ASSUME NEW b \in Blocks, NEW how \in {"get", "noread"}, ext4_block_get(b, how)
      PROVE  BuffersInv'
  BY <1>1 DEF TypeOK, ControlInv, BufferInv, Refctr, ext4_block_get, Idle, Getting
<1>2. ASSUME NEW b \in Blocks, setDirty(b) PROVE BuffersInv'
  <2>1. /\ held' \in [Blocks -> 0 .. MaxHeld] /\ pins' \in [Blocks -> 0 .. MaxPins]
        /\ Refctr(b) > 0 /\ Refctr(b)' > 0 /\ (pins'[b] > 0 => txn \/ pins[b] > 0)
        /\ \A c \in Blocks \ {b} : pins'[c] = pins[c] /\ Refctr(c)' = Refctr(c)
        /\ \A c \in Blocks : Refctr(c) \in Nat /\ Refctr(c)' \in Nat
    BY <1>2 DEF TypeOK, ControlInv, Refctr, setDirty, Idle
  <2>2. TypeOK'
    BY <2>1, <1>2 DEF TypeOK, setDirty, Idle, Changed, Settled
  <2>3. ControlInv'
    BY <2>1, <1>2 DEF TypeOK, ControlInv, setDirty, Idle, Changed, Settled
  <2>4. ASSUME NEW c \in Blocks PROVE BufferInv(c)'
    BY <2>1, <1>2 DEF TypeOK, BufferInv, setDirty, Idle, Changed, Settled
  <2>5. QED BY <2>2, <2>3, <2>4
<1>3. ASSUME NEW b \in Blocks, ext4_block_set(b) PROVE BuffersInv'
  <2>1. /\ held' \in [Blocks -> 0 .. MaxHeld] /\ pins' \in [Blocks -> 0 .. MaxPins]
        /\ \A c \in Blocks : pins'[c] = pins[c] /\ Refctr(c)' = IF c = b THEN Refctr(c) - 1 ELSE Refctr(c)
        /\ Refctr(b) > 0
        /\ \A c \in Blocks : Refctr(c) \in Nat /\ Refctr(c)' \in Nat
    <3>1. held[b] > 0 /\ held' = [held EXCEPT ![b] = @ - 1] /\ pins' = pins
      BY <1>3 DEF ext4_block_set
    <3>2. \A c \in Blocks : held[c] \in 0 .. MaxHeld /\ pins[c] \in 0 .. MaxPins
      BY DEF TypeOK
    <3>3. /\ held' \in [Blocks -> 0 .. MaxHeld] /\ pins' \in [Blocks -> 0 .. MaxPins]
          /\ \A c \in Blocks : held'[c] = IF c = b THEN held[c] - 1 ELSE held[c]
      BY <3>1, <3>2 DEF TypeOK
    <3>4. QED BY <3>1, <3>2, <3>3 DEF Refctr
  <2>2. TypeOK'
    BY <2>1, <1>3 DEF TypeOK, ext4_block_set, Idle, LastPut, PutClean, PutDelayed, PutWritten,
       PutRefused, Written, Settled, Latch, KeepOrDrop, Drop, Ready, Delayed
  <2>3. ControlInv'
    BY <2>1, <1>3 DEF TypeOK, ControlInv, ext4_block_set, Idle, LastPut, PutClean, PutDelayed,
       PutWritten, PutRefused, Written, Settled, Latch, KeepOrDrop, Drop, Ready, Delayed
  <2>4. ASSUME NEW c \in Blocks PROVE BufferInv(c)'
    BY <2>1, <1>3 DEF TypeOK, BufferInv, ext4_block_set, Idle, LastPut, PutClean, PutDelayed,
       PutWritten, PutRefused, Written, Settled, Latch, KeepOrDrop, Drop, Ready, Delayed
  <2>5. QED BY <2>2, <2>3, <2>4
<1>4. ASSUME NEW b \in Blocks, ext4_block_flush_lba(b) PROVE BuffersInv'
  <2>1. /\ held' = held /\ pins' = pins
        /\ \A c \in Blocks : Refctr(c)' = Refctr(c)
        /\ \A c \in Blocks : Refctr(c) \in Nat /\ Refctr(c)' \in Nat
    BY <1>4 DEF TypeOK, ControlInv, Refctr, ext4_block_flush_lba
  <2>2. TypeOK'
    BY <2>1, <1>4 DEF TypeOK, ext4_block_flush_lba, Idle, PutClean, Written, Refused, Settled,
       Latch, KeepOrDrop, Drop, Ready, Delayed
  <2>3. ControlInv'
    BY <2>1, <1>4 DEF TypeOK, ControlInv, ext4_block_flush_lba, Idle, PutClean, Written,
       Refused, Settled, Latch, KeepOrDrop, Drop, Ready, Delayed
  <2>4. ASSUME NEW c \in Blocks PROVE BufferInv(c)'
    BY <2>1, <1>4 DEF TypeOK, BufferInv, ext4_block_flush_lba, Idle, PutClean, Written, Refused,
       Settled, Latch, KeepOrDrop, Drop, Ready, Delayed
  <2>5. QED BY <2>2, <2>3, <2>4
<1>5. ASSUME NEW b \in Blocks, directWrite(b) PROVE BuffersInv'
  BY <1>5 DEF TypeOK, ControlInv, BufferInv, Refctr, directWrite, Idle, updateIfCached
<1>6. ASSUME NEW b \in Blocks, overlay(b) PROVE BuffersInv'
  <2>1. /\ held' = held /\ pins' = pins
        /\ \A c \in Blocks : Refctr(c)' = Refctr(c)
        /\ \A c \in Blocks : Refctr(c) \in Nat /\ Refctr(c)' \in Nat
    BY <1>6 DEF TypeOK, ControlInv, Refctr, overlay
  <2>2. TypeOK'
    BY <2>1, <1>6 DEF TypeOK, overlay, Idle, LastPut, PutClean, PutDelayed, PutWritten,
       PutRefused, Written, Settled, Latch, KeepOrDrop, Drop, Ready, Delayed
  <2>3. ControlInv'
    BY <2>1, <1>6 DEF TypeOK, ControlInv, overlay, Idle, LastPut, PutClean, PutDelayed,
       PutWritten, PutRefused, Written, Settled, Latch, KeepOrDrop, Drop, Ready, Delayed
  <2>4. ASSUME NEW c \in Blocks PROVE BufferInv(c)'
    BY <2>1, <1>6 DEF TypeOK, BufferInv, overlay, Idle, LastPut, PutClean, PutDelayed,
       PutWritten, PutRefused, Written, Settled, Latch, KeepOrDrop, Drop, Ready, Delayed
  <2>5. QED BY <2>2, <2>3, <2>4
<1>7. ASSUME NEW from \in Blocks, NEW n \in 1 .. Cardinality(Blocks), freeRange(from, n)
      PROVE  BuffersInv'
  <2>1. /\ held' = held /\ pins' = pins
        /\ \A c \in Blocks : Refctr(c)' = Refctr(c)
        /\ \A c \in Blocks : Refctr(c) \in Nat /\ Refctr(c)' \in Nat
    BY <1>7 DEF TypeOK, ControlInv, Refctr, freeRange
  <2>2. TypeOK'
    BY <2>1, <1>7 DEF TypeOK, freeRange, Idle, ext4_bcache_invalidate_lba, Reached
  <2>3. ControlInv'
    BY <2>1, <1>7 DEF TypeOK, ControlInv, freeRange, Idle, ext4_bcache_invalidate_lba, Reached
  <2>4. ASSUME NEW c \in Blocks PROVE BufferInv(c)'
    BY <2>1, <1>7 DEF TypeOK, BufferInv, freeRange, Idle, ext4_bcache_invalidate_lba, Reached
  <2>5. QED BY <2>2, <2>3, <2>4
<1>8. ASSUME NEW from \in Blocks, NEW n \in 1 .. Cardinality(Blocks), NEW ok \in BOOLEAN, zeroRange(from, n, ok)
      PROVE  BuffersInv'
  <2>1. /\ held' = held /\ pins' = pins
        /\ \A c \in Blocks : Refctr(c)' = Refctr(c)
        /\ \A c \in Blocks : Refctr(c) \in Nat /\ Refctr(c)' \in Nat
    BY <1>8 DEF TypeOK, ControlInv, Refctr, zeroRange
  <2>2. TypeOK'
    BY <2>1, <1>8 DEF TypeOK, zeroRange, Idle, ext4_bcache_invalidate_lba, Reached
  <2>3. ControlInv'
    BY <2>1, <1>8 DEF TypeOK, ControlInv, zeroRange, Idle, ext4_bcache_invalidate_lba, Reached
  <2>4. ASSUME NEW c \in Blocks PROVE BufferInv(c)'
    BY <2>1, <1>8 DEF TypeOK, BufferInv, zeroRange, Idle, ext4_bcache_invalidate_lba, Reached
  <2>5. QED BY <2>2, <2>3, <2>4
<1>9. ASSUME begin PROVE BuffersInv'
  BY <1>9 DEF TypeOK, ControlInv, BufferInv, Refctr, begin, Idle
<1>10. ASSUME commit PROVE BuffersInv'
  BY <1>10 DEF TypeOK, ControlInv, BufferInv, Refctr, commit, Idle
<1>11. ASSUME ext4_block_cache_flush PROVE BuffersInv'
  BY <1>11 DEF TypeOK, ControlInv, BufferInv, Refctr, ext4_block_cache_flush, Idle
<1>12. ASSUME ext4_umount PROVE BuffersInv'
  BY <1>12 DEF TypeOK, ControlInv, BufferInv, Refctr, ext4_umount, Idle
<1>13. ASSUME NEW on \in BOOLEAN, ext4_block_cache_write_back(on) PROVE BuffersInv'
  BY <1>13 DEF TypeOK, ControlInv, BufferInv, Refctr, ext4_block_cache_write_back, Idle
<1>14. ASSUME NEW b \in Blocks, shakeDrop(b) PROVE BuffersInv'
  <2>1. /\ held' = held /\ pins' = pins
        /\ \A c \in Blocks : Refctr(c)' = Refctr(c)
        /\ \A c \in Blocks : Refctr(c) \in Nat /\ Refctr(c)' \in Nat
    BY <1>14 DEF TypeOK, ControlInv, Refctr, shakeDrop
  <2>2. TypeOK'
    BY <2>1, <1>14 DEF TypeOK, shakeDrop, Written, Settled, Drop, Ready
  <2>3. ControlInv'
    BY <2>1, <1>14 DEF TypeOK, ControlInv, shakeDrop, Written, Settled, Drop, Ready
  <2>4. ASSUME NEW c \in Blocks PROVE BufferInv(c)'
    BY <2>1, <1>14 DEF TypeOK, BufferInv, shakeDrop, Written, Settled, Drop, Ready
  <2>5. QED BY <2>2, <2>3, <2>4
<1>15. ASSUME NEW b \in Blocks, shakeFail(b) PROVE BuffersInv'
  BY <1>15 DEF TypeOK, ControlInv, BufferInv, Refctr, shakeFail, Refused
<1>16. ASSUME getDone PROVE BuffersInv'
  <2>1. /\ held' \in [Blocks -> 0 .. MaxHeld] /\ pins' \in [Blocks -> 0 .. MaxPins]
        /\ \A c \in Blocks : pins'[c] = pins[c] /\ Refctr(c)' = IF c = arg THEN Refctr(c) + 1 ELSE Refctr(c)
        /\ \A c \in Blocks : Refctr(c) \in Nat /\ Refctr(c)' \in Nat
    BY <1>16 DEF TypeOK, ControlInv, Refctr, getDone, find_get
  <2>2. TypeOK'
    BY <2>1, <1>16 DEF TypeOK, getDone, find_get
  <2>3. ControlInv'
    BY <2>1, <1>16 DEF TypeOK, ControlInv, getDone, find_get
  <2>4. ASSUME NEW c \in Blocks PROVE BufferInv(c)'
    BY <2>1, <1>16 DEF TypeOK, BufferInv, getDone, find_get
  <2>5. QED BY <2>2, <2>3, <2>4
<1>17. ASSUME getRead PROVE BuffersInv'
  <2>1. /\ held' \in [Blocks -> 0 .. MaxHeld] /\ pins' \in [Blocks -> 0 .. MaxPins]
        /\ \A c \in Blocks : pins'[c] = pins[c] /\ Refctr(c)' = IF c = arg THEN Refctr(c) + 1 ELSE Refctr(c)
        /\ \A c \in Blocks : Refctr(c) \in Nat /\ Refctr(c)' \in Nat
    BY <1>17 DEF TypeOK, ControlInv, Refctr, getRead, find_get
  <2>2. TypeOK'
    BY <2>1, <1>17 DEF TypeOK, getRead, find_get
  <2>3. ControlInv'
    BY <2>1, <1>17 DEF TypeOK, ControlInv, getRead, find_get
  <2>4. ASSUME NEW c \in Blocks PROVE BufferInv(c)'
    BY <2>1, <1>17 DEF TypeOK, BufferInv, getRead, find_get
  <2>5. QED BY <2>2, <2>3, <2>4
<1>18. ASSUME getFail PROVE BuffersInv'
  <2>1. /\ held' = held /\ pins' = pins
        /\ \A c \in Blocks : Refctr(c)' = Refctr(c)
        /\ \A c \in Blocks : Refctr(c) \in Nat /\ Refctr(c)' \in Nat
    BY <1>18 DEF TypeOK, ControlInv, Refctr, getFail
  <2>2. TypeOK'
    BY <2>1, <1>18 DEF TypeOK, getFail, Drop
  <2>3. ControlInv'
    BY <2>1, <1>18 DEF TypeOK, ControlInv, getFail, Drop
  <2>4. ASSUME NEW c \in Blocks PROVE BufferInv(c)'
    BY <2>1, <1>18 DEF TypeOK, BufferInv, getFail, Drop
  <2>5. QED BY <2>2, <2>3, <2>4
<1>19. ASSUME NEW b \in Blocks, commitPut(b) PROVE BuffersInv'
  <2>1. /\ held' \in [Blocks -> 0 .. MaxHeld] /\ pins' \in [Blocks -> 0 .. MaxPins]
        /\ \A c \in Blocks : (pins'[c] > 0 => pins[c] > 0) /\ Refctr(c)' = IF c = b THEN Refctr(c) - 1 ELSE Refctr(c)
        /\ Refctr(b) > 0
        /\ \A c \in Blocks : Refctr(c) \in Nat /\ Refctr(c)' \in Nat
    <3>1. pins[b] > 0 /\ pins' = [pins EXCEPT ![b] = @ - 1] /\ held' = held
      BY <1>19 DEF commitPut
    <3>2. \A c \in Blocks : held[c] \in 0 .. MaxHeld /\ pins[c] \in 0 .. MaxPins
      BY DEF TypeOK
    <3>3. /\ held' \in [Blocks -> 0 .. MaxHeld] /\ pins' \in [Blocks -> 0 .. MaxPins]
          /\ \A c \in Blocks : pins'[c] = IF c = b THEN pins[c] - 1 ELSE pins[c]
      BY <3>1, <3>2 DEF TypeOK
    <3>4. QED BY <3>1, <3>2, <3>3 DEF Refctr
  <2>2. TypeOK'
    BY <2>1, <1>19 DEF TypeOK, commitPut, LastPut, PutClean, PutDelayed, PutWritten, PutRefused,
       Written, Settled, Latch, KeepOrDrop, Drop, Ready, Delayed
  <2>3. ControlInv'
    BY <2>1, <1>19 DEF TypeOK, ControlInv, commitPut, LastPut, PutClean, PutDelayed, PutWritten,
       PutRefused, Written, Settled, Latch, KeepOrDrop, Drop, Ready, Delayed
  <2>4. ASSUME NEW c \in Blocks PROVE BufferInv(c)'
    BY <2>1, <1>19 DEF TypeOK, BufferInv, commitPut, LastPut, PutClean, PutDelayed, PutWritten,
       PutRefused, Written, Settled, Latch, KeepOrDrop, Drop, Ready, Delayed
  <2>5. QED BY <2>2, <2>3, <2>4
<1>20. ASSUME commitDone PROVE BuffersInv'
  <2>1. /\ held' = held /\ pins' = pins
        /\ \A c \in Blocks : Refctr(c)' = Refctr(c) /\ pins[c] = 0
        /\ \A c \in Blocks : Refctr(c) \in Nat /\ Refctr(c)' \in Nat
    BY <1>20 DEF TypeOK, ControlInv, Refctr, commitDone
  <2>2. TypeOK'
    BY <2>1, <1>20 DEF TypeOK, commitDone
  <2>3. ControlInv'
    BY <2>1, <1>20 DEF TypeOK, ControlInv, commitDone
  <2>4. ASSUME NEW c \in Blocks PROVE BufferInv(c)'
    BY <2>1, <1>20 DEF TypeOK, BufferInv, commitDone
  <2>5. QED BY <2>2, <2>3, <2>4
<1>21. ASSUME NEW b \in Blocks, flushOne(b) PROVE BuffersInv'
  BY <1>21 DEF TypeOK, ControlInv, BufferInv, Refctr, flushOne, Written, Settled
<1>22. ASSUME NEW b \in Blocks, flushFail(b) PROVE BuffersInv'
  BY <1>22 DEF TypeOK, ControlInv, BufferInv, Refctr, flushFail, Refused
<1>23. ASSUME flushDone PROVE BuffersInv'
  BY <1>23 DEF TypeOK, ControlInv, BufferInv, Refctr, flushDone, TakeError
<1>24. ASSUME NEW b \in Blocks, closeDrop(b) PROVE BuffersInv'
  <2>1. /\ held' = held /\ pins' = pins
        /\ \A c \in Blocks : Refctr(c)' = Refctr(c) /\ Refctr(c) = 0
        /\ \A c \in Blocks : Refctr(c) \in Nat /\ Refctr(c)' \in Nat
    <3>1. \A c \in Blocks : Refctr(c) = 0
      BY <1>24 DEF BufferInv, closeDrop
    <3>2. held' = held /\ pins' = pins
      BY <1>24 DEF closeDrop
    <3>3. \A c \in Blocks : Refctr(c)' = Refctr(c)
      BY <3>2 DEF Refctr
    <3>4. QED BY <3>1, <3>2, <3>3
  <2>2. TypeOK'
    BY <2>1, <1>24 DEF TypeOK, closeDrop, Written, Settled, Drop, Ready
  <2>3. ControlInv'
    BY <2>1, <1>24 DEF TypeOK, ControlInv, closeDrop, Written, Settled, Drop, Ready
  <2>4. ASSUME NEW c \in Blocks PROVE BufferInv(c)'
    BY <2>1, <1>24 DEF TypeOK, BufferInv, closeDrop, Written, Settled, Drop, Ready
  <2>5. QED BY <2>2, <2>3, <2>4
<1>25. ASSUME NEW b \in Blocks, closeFail(b) PROVE BuffersInv'
  <2>1. /\ held' = held /\ pins' = pins
        /\ \A c \in Blocks : Refctr(c)' = Refctr(c) /\ Refctr(c) = 0
        /\ \A c \in Blocks : Refctr(c) \in Nat /\ Refctr(c)' \in Nat
    <3>1. \A c \in Blocks : Refctr(c) = 0
      BY <1>25 DEF BufferInv, closeFail
    <3>2. held' = held /\ pins' = pins
      BY <1>25 DEF closeFail
    <3>3. \A c \in Blocks : Refctr(c)' = Refctr(c)
      BY <3>2 DEF Refctr
    <3>4. QED BY <3>1, <3>2, <3>3
  <2>2. TypeOK'
    BY <2>1, <1>25 DEF TypeOK, closeFail, Drop, Latch, Ready
  <2>3. ControlInv'
    BY <2>1, <1>25 DEF TypeOK, ControlInv, closeFail, Drop, Latch, Ready
  <2>4. ASSUME NEW c \in Blocks PROVE BufferInv(c)'
    BY <2>1, <1>25 DEF TypeOK, BufferInv, closeFail, Drop, Latch, Ready
  <2>5. QED BY <2>2, <2>3, <2>4
<1>26. ASSUME closeDone PROVE BuffersInv'
  BY <1>26 DEF TypeOK, ControlInv, BufferInv, Refctr, closeDone, TakeError
<1>27. CASE UNCHANGED vars
  BY <1>27 DEF TypeOK, ControlInv, BufferInv, Refctr, vars
<1>28. QED
  BY <1>1, <1>2, <1>3, <1>4, <1>5, <1>6, <1>7, <1>8, <1>9, <1>10, <1>11, <1>12, <1>13, <1>14,
     <1>15, <1>16, <1>17, <1>18, <1>19, <1>20, <1>21, <1>22, <1>23, <1>24, <1>25, <1>26, <1>27
     DEF Next, Loop, Call

\* Every step keeps the account of failed writes.
LEMMA ErrorStep ==
  ASSUME BuffersInv, ErrorsInv, [Next]_vars
  PROVE  ErrorsInv'
<1> USE DEF ErrorsInv, Getting, buffers, content, errors, control
<1>1. ASSUME NEW b \in Blocks, NEW how \in {"get", "noread"}, ext4_block_get(b, how)
      PROVE  ErrorsInv'
  BY <1>1 DEF BuffersInv, BufferInv, ErrorInv, ext4_block_get, Idle, Getting
<1>2. ASSUME NEW b \in Blocks, setDirty(b) PROVE ErrorsInv'
  <2>1. b \notin lru
    BY <1>2 DEF BuffersInv, TypeOK, BufferInv, Refctr, setDirty
  <2>2. QED BY <2>1, <1>2 DEF BuffersInv, BufferInv, ErrorInv, setDirty, Idle, Changed, Settled
<1>3. ASSUME NEW b \in Blocks, ext4_block_set(b) PROVE ErrorsInv'
  BY <1>3 DEF BuffersInv, BufferInv, ErrorInv, ext4_block_set, Idle, LastPut, PutClean,
     PutDelayed, PutWritten, PutRefused, Written, Settled, Latch, KeepOrDrop, Drop, Ready,
     Delayed
<1>4. ASSUME NEW b \in Blocks, ext4_block_flush_lba(b) PROVE ErrorsInv'
  BY <1>4 DEF BuffersInv, BufferInv, ErrorInv, ext4_block_flush_lba, Idle, PutClean, Written,
     Refused, Settled, Latch, KeepOrDrop, Drop, Ready, Delayed
<1>5. ASSUME NEW b \in Blocks, directWrite(b) PROVE ErrorsInv'
  BY <1>5 DEF BuffersInv, BufferInv, ErrorInv, directWrite, Idle, updateIfCached
<1>6. ASSUME NEW b \in Blocks, overlay(b) PROVE ErrorsInv'
  BY <1>6 DEF BuffersInv, BufferInv, ErrorInv, overlay, Idle, LastPut, PutClean, PutDelayed,
     PutWritten, PutRefused, Written, Settled, Latch, KeepOrDrop, Drop, Ready, Delayed
<1>7. ASSUME NEW from \in Blocks, NEW n \in 1 .. Cardinality(Blocks), freeRange(from, n)
      PROVE  ErrorsInv'
  BY <1>7 DEF BuffersInv, BufferInv, ErrorInv, freeRange, Idle, ext4_bcache_invalidate_lba,
     Reached
<1>8. ASSUME NEW from \in Blocks, NEW n \in 1 .. Cardinality(Blocks), NEW ok \in BOOLEAN, zeroRange(from, n, ok)
      PROVE  ErrorsInv'
  BY <1>8 DEF BuffersInv, BufferInv, ErrorInv, zeroRange, Idle, ext4_bcache_invalidate_lba,
     Reached
<1>9. ASSUME begin PROVE ErrorsInv'
  BY <1>9 DEF BuffersInv, BufferInv, ErrorInv, begin, Idle
<1>10. ASSUME commit PROVE ErrorsInv'
  BY <1>10 DEF BuffersInv, BufferInv, ErrorInv, commit, Idle
<1>11. ASSUME ext4_block_cache_flush PROVE ErrorsInv'
  BY <1>11 DEF BuffersInv, BufferInv, ErrorInv, ext4_block_cache_flush, Idle
<1>12. ASSUME ext4_umount PROVE ErrorsInv'
  BY <1>12 DEF BuffersInv, BufferInv, ErrorInv, ext4_umount, Idle
<1>13. ASSUME NEW on \in BOOLEAN, ext4_block_cache_write_back(on) PROVE ErrorsInv'
  BY <1>13 DEF BuffersInv, BufferInv, ErrorInv, ext4_block_cache_write_back, Idle
<1>14. ASSUME NEW b \in Blocks, shakeDrop(b) PROVE ErrorsInv'
  BY <1>14 DEF BuffersInv, BufferInv, ErrorInv, shakeDrop, Written, Settled, Drop, Ready
<1>15. ASSUME NEW b \in Blocks, shakeFail(b) PROVE ErrorsInv'
  BY <1>15 DEF BuffersInv, BufferInv, ErrorInv, shakeFail, Refused
<1>16. ASSUME getDone PROVE ErrorsInv'
  BY <1>16 DEF BuffersInv, BufferInv, ErrorInv, getDone, find_get
<1>17. ASSUME getRead PROVE ErrorsInv'
  BY <1>17 DEF BuffersInv, BufferInv, ErrorInv, getRead, find_get
<1>18. ASSUME getFail PROVE ErrorsInv'
  BY <1>18 DEF BuffersInv, BufferInv, ErrorInv, getFail, Drop
<1>19. ASSUME NEW b \in Blocks, commitPut(b) PROVE ErrorsInv'
  BY <1>19 DEF BuffersInv, BufferInv, ErrorInv, commitPut, LastPut, PutClean, PutDelayed,
     PutWritten, PutRefused, Written, Settled, Latch, KeepOrDrop, Drop, Ready, Delayed
<1>20. ASSUME commitDone PROVE ErrorsInv'
  BY <1>20 DEF BuffersInv, BufferInv, ErrorInv, commitDone
<1>21. ASSUME NEW b \in Blocks, flushOne(b) PROVE ErrorsInv'
  BY <1>21 DEF BuffersInv, BufferInv, ErrorInv, flushOne, Written, Settled
<1>22. ASSUME NEW b \in Blocks, flushFail(b) PROVE ErrorsInv'
  BY <1>22 DEF BuffersInv, BufferInv, ErrorInv, flushFail, Refused
<1>23. ASSUME flushDone PROVE ErrorsInv'
  BY <1>23 DEF BuffersInv, BufferInv, ErrorInv, flushDone, TakeError
<1>24. ASSUME NEW b \in Blocks, closeDrop(b) PROVE ErrorsInv'
  BY <1>24 DEF BuffersInv, BufferInv, ErrorInv, closeDrop, Written, Settled, Drop, Ready
<1>25. ASSUME NEW b \in Blocks, closeFail(b) PROVE ErrorsInv'
  BY <1>25 DEF BuffersInv, BufferInv, ErrorInv, closeFail, Drop, Latch, Ready
<1>26. ASSUME closeDone PROVE ErrorsInv'
  BY <1>26 DEF BuffersInv, BufferInv, ErrorInv, closeDone, TakeError
<1>27. CASE UNCHANGED vars
  BY <1>27 DEF ErrorInv, vars
<1>28. QED
  BY <1>1, <1>2, <1>3, <1>4, <1>5, <1>6, <1>7, <1>8, <1>9, <1>10, <1>11, <1>12, <1>13, <1>14,
     <1>15, <1>16, <1>17, <1>18, <1>19, <1>20, <1>21, <1>22, <1>23, <1>24, <1>25, <1>26, <1>27
     DEF Next, Loop, Call

\* Every step keeps the cache and the medium together, when a range is
\* invalidated as a whole.
LEMMA ContentStep ==
  ASSUME BuffersInv, \A c \in Blocks : ContentInv(c), "gap" \notin Windows, [Next]_vars
  PROVE  \A c \in Blocks : ContentInv(c)'
<1> USE DEF Getting, buffers, content, errors, control
<1>1. ASSUME NEW b \in Blocks, NEW how \in {"get", "noread"}, NEW c \in Blocks, ext4_block_get(b, how)
      PROVE  ContentInv(c)'
  BY <1>1 DEF BuffersInv, BufferInv, ContentInv, ext4_block_get, Idle, Getting
<1>2. ASSUME NEW b \in Blocks, NEW c \in Blocks, setDirty(b) PROVE ContentInv(c)'
  BY <1>2 DEF BuffersInv, BufferInv, ContentInv, setDirty, Idle, Changed, Settled
<1>3. ASSUME NEW b \in Blocks, NEW c \in Blocks, ext4_block_set(b) PROVE ContentInv(c)'
  BY <1>3 DEF BuffersInv, BufferInv, ContentInv, ext4_block_set, Idle, LastPut, PutClean,
     PutDelayed, PutWritten, PutRefused, Written, Settled, Latch, KeepOrDrop, Drop, Ready,
     Delayed
<1>4. ASSUME NEW b \in Blocks, NEW c \in Blocks, ext4_block_flush_lba(b) PROVE ContentInv(c)'
  BY <1>4 DEF BuffersInv, BufferInv, ContentInv, ext4_block_flush_lba, Idle, PutClean, Written,
     Refused, Settled, Latch, KeepOrDrop, Drop, Ready, Delayed
<1>5. ASSUME NEW b \in Blocks, NEW c \in Blocks, directWrite(b) PROVE ContentInv(c)'
  BY <1>5 DEF BuffersInv, BufferInv, ContentInv, directWrite, Idle, updateIfCached
<1>6. ASSUME NEW b \in Blocks, NEW c \in Blocks, overlay(b) PROVE ContentInv(c)'
  BY <1>6 DEF BuffersInv, BufferInv, ContentInv, overlay, Idle, LastPut, PutClean, PutDelayed,
     PutWritten, PutRefused, Written, Settled, Latch, KeepOrDrop, Drop, Ready, Delayed
<1>7. ASSUME NEW from \in Blocks, NEW n \in 1 .. Cardinality(Blocks), NEW c \in Blocks, freeRange(from, n)
      PROVE  ContentInv(c)'
  BY <1>7 DEF BuffersInv, BufferInv, ContentInv, freeRange, Idle, ext4_bcache_invalidate_lba,
     Reached
<1>8. ASSUME NEW from \in Blocks, NEW n \in 1 .. Cardinality(Blocks), NEW ok \in BOOLEAN, NEW c \in Blocks, zeroRange(from, n, ok)
      PROVE  ContentInv(c)'
  BY <1>8 DEF BuffersInv, BufferInv, ContentInv, zeroRange, Idle, ext4_bcache_invalidate_lba,
     Reached
<1>9. ASSUME NEW c \in Blocks, begin PROVE ContentInv(c)'
  BY <1>9 DEF BuffersInv, BufferInv, ContentInv, begin, Idle
<1>10. ASSUME NEW c \in Blocks, commit PROVE ContentInv(c)'
  BY <1>10 DEF BuffersInv, BufferInv, ContentInv, commit, Idle
<1>11. ASSUME NEW c \in Blocks, ext4_block_cache_flush PROVE ContentInv(c)'
  BY <1>11 DEF BuffersInv, BufferInv, ContentInv, ext4_block_cache_flush, Idle
<1>12. ASSUME NEW c \in Blocks, ext4_umount PROVE ContentInv(c)'
  BY <1>12 DEF BuffersInv, BufferInv, ContentInv, ext4_umount, Idle
<1>13. ASSUME NEW on \in BOOLEAN, NEW c \in Blocks, ext4_block_cache_write_back(on)
       PROVE  ContentInv(c)'
  BY <1>13 DEF BuffersInv, BufferInv, ContentInv, ext4_block_cache_write_back, Idle
<1>14. ASSUME NEW b \in Blocks, NEW c \in Blocks, shakeDrop(b) PROVE ContentInv(c)'
  BY <1>14 DEF BuffersInv, BufferInv, ContentInv, shakeDrop, Written, Settled, Drop, Ready
<1>15. ASSUME NEW b \in Blocks, NEW c \in Blocks, shakeFail(b) PROVE ContentInv(c)'
  BY <1>15 DEF BuffersInv, BufferInv, ContentInv, shakeFail, Refused
<1>16. ASSUME NEW c \in Blocks, getDone PROVE ContentInv(c)'
  BY <1>16 DEF BuffersInv, BufferInv, ContentInv, getDone, find_get
<1>17. ASSUME NEW c \in Blocks, getRead PROVE ContentInv(c)'
  BY <1>17 DEF BuffersInv, BufferInv, ContentInv, getRead, find_get
<1>18. ASSUME NEW c \in Blocks, getFail PROVE ContentInv(c)'
  BY <1>18 DEF BuffersInv, BufferInv, ContentInv, getFail, Drop
<1>19. ASSUME NEW b \in Blocks, NEW c \in Blocks, commitPut(b) PROVE ContentInv(c)'
  BY <1>19 DEF BuffersInv, BufferInv, ContentInv, commitPut, LastPut, PutClean, PutDelayed,
     PutWritten, PutRefused, Written, Settled, Latch, KeepOrDrop, Drop, Ready, Delayed
<1>20. ASSUME NEW c \in Blocks, commitDone PROVE ContentInv(c)'
  BY <1>20 DEF BuffersInv, BufferInv, ContentInv, commitDone
<1>21. ASSUME NEW b \in Blocks, NEW c \in Blocks, flushOne(b) PROVE ContentInv(c)'
  BY <1>21 DEF BuffersInv, BufferInv, ContentInv, flushOne, Written, Settled
<1>22. ASSUME NEW b \in Blocks, NEW c \in Blocks, flushFail(b) PROVE ContentInv(c)'
  BY <1>22 DEF BuffersInv, BufferInv, ContentInv, flushFail, Refused
<1>23. ASSUME NEW c \in Blocks, flushDone PROVE ContentInv(c)'
  BY <1>23 DEF BuffersInv, BufferInv, ContentInv, flushDone, TakeError
<1>24. ASSUME NEW b \in Blocks, NEW c \in Blocks, closeDrop(b) PROVE ContentInv(c)'
  BY <1>24 DEF BuffersInv, BufferInv, ContentInv, closeDrop, Written, Settled, Drop, Ready
<1>25. ASSUME NEW b \in Blocks, NEW c \in Blocks, closeFail(b) PROVE ContentInv(c)'
  BY <1>25 DEF BuffersInv, BufferInv, ContentInv, closeFail, Drop, Latch, Ready
<1>26. ASSUME NEW c \in Blocks, closeDone PROVE ContentInv(c)'
  BY <1>26 DEF BuffersInv, BufferInv, ContentInv, closeDone, TakeError
<1>27. CASE UNCHANGED vars
  BY <1>27 DEF ContentInv, vars
<1>28. QED
  BY <1>1, <1>2, <1>3, <1>4, <1>5, <1>6, <1>7, <1>8, <1>9, <1>10, <1>11, <1>12, <1>13, <1>14,
     <1>15, <1>16, <1>17, <1>18, <1>19, <1>20, <1>21, <1>22, <1>23, <1>24, <1>25, <1>26, <1>27
     DEF Next, Loop, Call

\* No step writes home a block that the running transaction holds before and
\* after it: such a buffer has a reference, so it is on neither list.
LEMMA HomeStep ==
  ASSUME BuffersInv, [Next]_vars, NEW c \in Blocks, pins[c] > 0, pins'[c] > 0, c \notin home
  PROVE  c \notin home'
<1> USE DEF Getting, buffers, content, errors, control
<1>1. Refctr(c) > 0 /\ c \notin lru /\ c \notin listed /\ txn /\ pc # "close"
  <2>1. held[c] \in Nat /\ pins[c] \in Nat
    BY CacheAssumption DEF BuffersInv, TypeOK
  <2>2. Refctr(c) > 0
    BY <2>1 DEF Refctr
  <2>3. QED BY <2>1, <2>2 DEF BuffersInv, BufferInv, ControlInv
<1>2. ASSUME NEW b \in Blocks, setDirty(b) PROVE c \notin home'
  BY <1>1, <1>2 DEF setDirty, Idle, Changed, Settled
<1>3. ASSUME NEW b \in Blocks, ext4_block_set(b) PROVE c \notin home'
  <2>1. CASE c = b
    <3>1. Refctr(b) # 1
      BY <2>1, <1>3, CacheAssumption DEF BuffersInv, TypeOK, Refctr, ext4_block_set
    <3>2. QED BY <3>1, <1>3 DEF ext4_block_set
  <2>2. CASE c # b
    BY <2>2, <1>3 DEF ext4_block_set, Idle, LastPut, PutClean, PutDelayed, PutWritten,
       PutRefused, Written, Settled, Latch, KeepOrDrop, Drop, Ready, Delayed
  <2>3. QED BY <2>1, <2>2
<1>4. ASSUME NEW b \in Blocks, ext4_block_flush_lba(b) PROVE c \notin home'
  BY <1>1, <1>4 DEF ext4_block_flush_lba, Idle, PutClean, Written, Refused, Settled, Latch,
     KeepOrDrop, Drop, Ready, Delayed
<1>5. ASSUME NEW b \in Blocks, directWrite(b) PROVE c \notin home'
  BY <1>1, <1>5 DEF directWrite, Idle, updateIfCached
<1>6. ASSUME NEW b \in Blocks, overlay(b) PROVE c \notin home'
  BY <1>1, <1>6 DEF overlay, Idle, LastPut, PutClean, PutDelayed, PutWritten, PutRefused,
     Written, Settled, Latch, KeepOrDrop, Drop, Ready, Delayed
<1>7. ASSUME NEW from \in Blocks, NEW n \in 1 .. Cardinality(Blocks), freeRange(from, n)
      PROVE  c \notin home'
  BY <1>1, <1>7 DEF freeRange, Idle, ext4_bcache_invalidate_lba, Reached
<1>8. ASSUME NEW from \in Blocks, NEW n \in 1 .. Cardinality(Blocks), NEW ok \in BOOLEAN, zeroRange(from, n, ok)
      PROVE  c \notin home'
  BY <1>1, <1>8 DEF zeroRange, Idle, ext4_bcache_invalidate_lba, Reached
<1>9. ASSUME NEW b \in Blocks, shakeDrop(b) PROVE c \notin home'
  BY <1>1, <1>9 DEF shakeDrop, Written, Settled, Drop, Ready
<1>10. ASSUME NEW b \in Blocks, commitPut(b) PROVE c \notin home'
  <2>1. CASE c = b
    <3>1. Refctr(b) # 1
      BY <2>1, <1>10, CacheAssumption DEF BuffersInv, TypeOK, Refctr, commitPut
    <3>2. QED BY <3>1, <1>10 DEF commitPut
  <2>2. CASE c # b
    BY <2>2, <1>10 DEF commitPut, LastPut, PutClean, PutDelayed, PutWritten, PutRefused,
       Written, Settled, Latch, KeepOrDrop, Drop, Ready, Delayed
  <2>3. QED BY <2>1, <2>2
<1>11. ASSUME NEW b \in Blocks, flushOne(b) PROVE c \notin home'
  BY <1>1, <1>11 DEF flushOne, Written, Settled
<1>12. ASSUME NEW b \in Blocks, closeDrop(b) PROVE c \notin home'
  BY <1>1, <1>12 DEF closeDrop, Written, Settled, Drop, Ready
<1>13. QED
  BY <1>2, <1>3, <1>4, <1>5, <1>6, <1>7, <1>8, <1>9, <1>10, <1>11, <1>12 DEF Next, Loop, Call,
     vars, ext4_block_get, begin, commit, ext4_block_cache_flush, ext4_umount,
     ext4_block_cache_write_back, shakeFail, getDone, getRead, getFail, commitDone, flushFail,
     flushDone, closeFail, closeDone, Refused, find_get, TakeError, Drop

\* The inductive invariant of the buffers.
LEMMA BuffersAlways == Spec => []BuffersInv
<1>1. Init => BuffersInv
  <2> SUFFICES ASSUME Init PROVE BuffersInv
    OBVIOUS
  <2>1. \A c \in Blocks : held[c] = 0 /\ pins[c] = 0 /\ Refctr(c) = 0
    BY DEF Init, Refctr
  <2>2. TypeOK
    <3>1. MaxHeld \in Nat /\ MaxPins \in Nat /\ MaxWriteBack \in Nat
      BY CacheAssumption
    <3>2. held \in [Blocks -> 0 .. MaxHeld] /\ pins \in [Blocks -> 0 .. MaxPins] /\ wb \in 0 .. MaxWriteBack
      BY <3>1 DEF Init
    <3>3. live \subseteq Blocks /\ home \subseteq Blocks
      BY DEF Init
    <3>4. QED BY <3>2, <3>3 DEF Init, TypeOK, Getting
  <2>3. QED
    BY <2>1, <2>2 DEF Init, BuffersInv, ControlInv, BufferInv, Getting
<1>2. BuffersInv /\ [Next]_vars => BuffersInv'
  BY BufferStep
<1>3. QED BY <1>1, <1>2, PTL DEF Spec

\* Reference counts, flags, the tree of unreferenced buffers and the dirty
\* list always agree (ext4_bcache_find_get, ext4_bcache_free,
\* ext4_bcache_invalidate_buf, ext4_bcache_drop_buf).
THEOREM BuffersAlwaysSound == Spec => []BuffersSound
<1>1. BuffersInv => BuffersSound
  BY DEF BuffersInv, BuffersSound, BufferInv, TypeOK
<1>2. QED BY <1>1, BuffersAlways, PTL

\* No failed write is forgotten: the release-time flush of ext4_bcache_free
\* and the sweep of ext4_bcache_cleanup latch what they cannot report.
THEOREM ErrorsAlwaysHonest == Spec => []HonestErrors
<1>1. Init => ErrorsInv
  BY DEF Init, ErrorsInv, ErrorInv
<1>2. BuffersInv /\ ErrorsInv /\ [Next]_vars => ErrorsInv'
  BY ErrorStep
<1>3. BuffersInv /\ ErrorsInv => HonestErrors
  BY DEF BuffersInv, TypeOK, ErrorsInv, ErrorInv, HonestErrors
<1>4. QED BY <1>1, <1>2, <1>3, BuffersAlways, PTL DEF Spec

\* A block in use reads as its latest content, through the cache and past it,
\* as long as ext4_bcache_invalidate_lba is not asked for a range whose first
\* block alone has no buffer.
THEOREM ReadsAlwaysCoherent == "gap" \notin Windows => (Spec => []Coherent)
<1> SUFFICES ASSUME "gap" \notin Windows PROVE Spec => []Coherent
  OBVIOUS
<1> DEFINE Inv == \A c \in Blocks : ContentInv(c)
<1>1. Init => Inv
  BY DEF Init, ContentInv
<1>2. BuffersInv /\ Inv /\ [Next]_vars => Inv'
  BY ContentStep
<1>3. BuffersInv /\ Inv => Coherent
  BY DEF BuffersInv, TypeOK, ContentInv, Coherent
<1>4. QED BY <1>1, <1>2, <1>3, BuffersAlways, PTL DEF Spec

\* Flushing, shaking and releasing never write a buffer the running
\* transaction holds to its place (jbd_trans_set_block_dirty takes a
\* reference for that).
THEOREM HomeWaitsForCommit == Spec => WriteAhead
<1> DEFINE Waits == \A b \in Blocks : pins[b] > 0 /\ pins'[b] > 0 /\ b \notin home => b \notin home'
<1>1. BuffersInv /\ [Next]_vars => [Waits]_vars
  BY HomeStep
<1>2. QED BY <1>1, BuffersAlways, PTL DEF Spec, WriteAhead
=============================================================================
