------------------------------ MODULE Journal ------------------------------
(***************************************************************************)
(* The metadata journal (ext4_journal.c) over a disk with a volatile write *)
(* cache: one transaction at a time is written to a ring of log blocks,    *)
(* committed, checkpointed to the blocks' home locations, and replayed     *)
(* after a crash.                                                          *)
(*                                                                         *)
(* The core runs one call at a time, so the only interleaving is with the  *)
(* power failing.  A crash keeps any subset of the writes issued since the *)
(* last barrier; writes between two barriers are therefore one step, and   *)
(* every barrier starts a new one.                                         *)
(*                                                                         *)
(* A block's content is the number of the transaction that wrote it; file  *)
(* data, which is not journaled and goes straight home, is Data.           *)
(***************************************************************************)
EXTENDS Naturals, Sequences, FiniteSets, FiniteSetsExt

CONSTANTS
  Blocks,      \* home blocks that hold metadata or, once freed, file data
  MaxLen,      \* length of the journal; block 0 is its superblock
  Free, Data,  \* a block no metadata is in; the content of one with file data
  Garbage,     \* the content replay finds in a log block that holds none
  Windows,     \* windows the code leaves open that a run includes, see below
  MaxTxns,     \* bound: transactions committed
  MaxMounts,   \* bound: mounts
  MaxFails     \* bound: failed device writes

(***************************************************************************)
(*   "restart" the first commit after a recovery comes before any barrier  *)
(*   "reuse"   a block freed by the running transaction is handed out for  *)
(*             file data before that transaction commits                   *)
(*   "stop"    the journal stops with home writes no barrier has followed  *)
(*   "torn"    a crash keeps the filesystem superblock that says no replay *)
(*             is needed and loses the journal superblock written after it *)
(*   "seal"    the barrier after the commit block fails                    *)
(*   "full"    the log is full and its oldest transaction cannot retire    *)
(*   "lapped"  the write that publishes the tail fails, and the head goes   *)
(*             over what the medium still names                            *)
(***************************************************************************)
ASSUME JournalAssumption ==
  /\ Blocks # {} /\ IsFiniteSet(Blocks)
  /\ MaxLen \in Nat /\ MaxLen > Cardinality(Blocks) + 4
  /\ Windows \subseteq {"restart", "reuse", "stop", "torn", "seal", "full", "lapped"}
  /\ MaxTxns \in Nat /\ MaxMounts \in Nat /\ MaxFails \in Nat

VARIABLES
  \* the medium: a cell per block, see below
  home,       \* home location of each block
  log,        \* the log blocks
  jsb,        \* journal superblock: start and sequence
  flag,       \* EXT4_FINCOM_RECOVER in the filesystem superblock
  \* the journal session, in memory
  pc,         \* where the session is
  tail,       \* the tail: journal->start and journal->trans_id
  published,  \* the start the medium is known to hold
  last,       \* the next log block to hand out
  nextId,     \* journal->alloc_trans_id
  queue,      \* the checkpoint queue
  dirty, revoked,  \* the running transaction
  slots,      \* log blocks handed to the committing transaction
  alloc,      \* progress of an allocation that has to move the tail
  leaked,     \* blocks still dirty in a transaction the commit gave up on
  \* history
  committed,  \* the metadata state every returned commit has led to
  flight,     \* the state a commit block in flight would lead to
  flightId,   \* and the transaction id it carries
  crashed,    \* the home blocks as the last crash left them
  gaveUp,     \* a commit has failed for want of log space
  ver, mounts, fails

medium  == <<home, log, jsb, flag>>
running == <<dirty, revoked>>
session == <<pc, tail, published, last, nextId, queue, running, slots, alloc, leaked>>
history == <<committed, flight, flightId, crashed, gaveUp, ver>>
bounds  == <<mounts, fails>>
vars    == <<medium, session, history, bounds>>

-----------------------------------------------------------------------------
(* The medium *)

\* A block of the medium: what reads return, what a barrier has made durable,
\* and what was written since.
Cell(v)      == [now |-> v, dur |-> v, fly |-> {}]
Put(cell, v) == [cell EXCEPT !.now = v, !.fly = @ \cup {v}]
Settle(cell) == Cell(cell.now)
Outcomes(cell) == {cell.dur} \cup cell.fly

Settled(f) == [a \in DOMAIN f |-> Settle(f[a])]

\* ext4_block_barrier, followed by the writes the caller gives.
Barrier(h, l, j, fl) ==
  /\ home' = h /\ log' = l /\ jsb' = j /\ flag' = fl

\* Issue v(b) to the home location of every b in B.
WriteHome(h, B, v(_)) == [b \in Blocks |-> IF b \in B THEN Put(h[b], v(b)) ELSE h[b]]

-----------------------------------------------------------------------------
(* The log *)

First == 1
Ring  == First..(MaxLen - 1)

\* wrap: log block numbers go round from maxlen to first.
MWrapToZero(s) == IF s >= MaxLen THEN s - MaxLen ELSE s
Wrap(s)        == IF s >= MaxLen THEN s - (MaxLen - First) ELSE s

NoRecord        == [t |-> "none"]
Descriptor(i, tags) == [t |-> "descriptor", id |-> i, tags |-> tags]
LogData(v)      == [t |-> "data", v |-> v]
Revoke(i, B)    == [t |-> "revoke", id |-> i, blocks |-> B]
Commit(i)       == [t |-> "commit", id |-> i]

\* A committed transaction: its id, its log blocks, its content, the blocks whose
\* home write has not completed, and whether one failed.
EndOf(t)   == Wrap(t.first + t.len)
Written(t) == t.pending = {}

TagSeq(B) == CHOOSE s \in [1..Cardinality(B) -> B] : \A b \in B : \E k \in DOMAIN s : s[k] = b

Init ==
  /\ home = [b \in Blocks |-> Cell(0)]
  /\ log = [s \in Ring |-> Cell(NoRecord)]
  /\ jsb = Cell([start |-> 0, seq |-> 1]) /\ flag = Cell(FALSE)
  /\ pc = "down"
  /\ tail = [start |-> 0, id |-> 0] /\ published = 0 /\ last = 0 /\ nextId = 0
  /\ queue = <<>> /\ dirty = {} /\ revoked = {} /\ slots = <<>>
  /\ alloc = "none" /\ leaked = {}
  /\ committed = [b \in Blocks |-> 0]
  /\ flight = committed /\ flightId = 0
  /\ crashed = [b \in Blocks |-> 0] /\ gaveUp = FALSE
  /\ ver = 0 /\ mounts = 0 /\ fails = 0

-----------------------------------------------------------------------------
(* The running transaction *)

\* The metadata state the running transaction leads to.
Result(D, R) == [b \in Blocks |-> IF b \in D THEN ver ELSE IF b \in R THEN Free
                                  ELSE committed[b]]

\* Bound: no transaction begins past MaxTxns, nor after the last mount.
Begins == ver < MaxTxns /\ mounts < MaxMounts

\* jbd_trans_set_block_dirty: journaling a block cancels its revoke.
jbd_trans_set_block_dirty(b) ==
  /\ pc = "run" /\ Begins /\ b \notin dirty
  /\ dirty' = dirty \cup {b} /\ revoked' = revoked \ {b}
  /\ UNCHANGED <<medium, pc, tail, published, last, nextId, queue, slots, alloc, leaked, history, bounds>>

\* Freeing a block revokes it and invalidates its buffer, so that prepare drops
\* it from the transaction (ext4_balloc_free_block, jbd_journal_prepare).
jbd_trans_revoke_block(b) ==
  /\ pc = "run" /\ Begins /\ b \notin revoked
  /\ committed[b] # Free \/ b \in dirty
  /\ dirty' = dirty \ {b} /\ revoked' = revoked \cup {b}
  /\ UNCHANGED <<medium, pc, tail, published, last, nextId, queue, slots, alloc, leaked, history, bounds>>

\* A free block is given to a file, whose data is written home at once.
WriteFileData(b) ==
  /\ pc = "run" /\ b \notin dirty /\ home[b].now # Data
  /\ \/ committed[b] = Free
     \/ "reuse" \in Windows /\ b \in revoked
  /\ home' = [home EXCEPT ![b] = Put(@, Data)]
  /\ UNCHANGED <<log, jsb, flag, session, history, bounds>>

\* Some transaction still owes the home write of b.
Pending(b) == \E k \in DOMAIN queue : b \in queue[k].pending

\* jbd_trans_try_revoke_block: every block freed gets a revoke record, because
\* the log reaches further back than the checkpoint queue.
MRevokeOnlyTracked == {b \in revoked : Pending(b)}
ToRevoke           == revoked

-----------------------------------------------------------------------------
(* Checkpointing *)

\* jbd_trans_end_write: the home write of these blocks completed, for their
\* owner and for every older transaction that had logged them.
Completed(q, B) == [k \in DOMAIN q |-> [q[k] EXCEPT !.pending = @ \ B]]

\* A transaction the tail may move past: every block written, none failed.
MDoneDespiteError(t) == Written(t)
Done(t)              == Written(t) /\ ~t.bad

\* The done transactions at the head of the queue.
DonePrefix(q) ==
  CHOOSE n \in 0..Len(q) :
    /\ \A k \in 1..n : Done(q[k])
    /\ n < Len(q) => ~Done(q[n + 1])

\* The queue and the tail after n transactions retire.
Retired(q, n) == SubSeq(q, n + 1, Len(q))
MTailStays(q, n) == tail
TailPast(q, n) == IF n = 0 THEN tail ELSE [start |-> EndOf(q[n]), id |-> q[n].id + 1]

\* jbd_trans_end_write purges on from there, and stops where the first
\* transaction that is still unwritten starts.
TailStops(q, n) ==
  IF n > 0 /\ n < Len(q) /\ ~Written(q[n + 1])
  THEN [start |-> q[n + 1].first, id |-> q[n + 1].id]
  ELSE TailPast(q, n)

\* What a completion does to the queue: if it was the last one of the head,
\* the head and every done transaction behind it retire.
RetireCount(q, B) ==
  LET q2 == Completed(q, B) IN
  IF q # <<>> /\ ~Written(q[1]) /\ Written(q2[1]) THEN DonePrefix(q2) ELSE 0

\* The copy of b that goes home: the newest one logged, or for a superseded
\* transaction its own log copy.  Both are the number of its transaction.
Owner(q, b)  == CHOOSE k \in DOMAIN q : /\ b \in q[k].pending
                                        /\ \A m \in DOMAIN q : b \in q[m].pending => m <= k

\* A buffer that stayed in the cache after its commit is flushed.  Buffers of
\* the running transaction are pinned; a freed one is no longer dirty.
FlushBuffer(b) ==
  LET n == RetireCount(queue, {b}) IN
  /\ pc = "run" /\ Pending(b) /\ b \notin dirty \cup revoked
  /\ home' = [home EXCEPT ![b] = Put(@, queue[Owner(queue, b)].ver)]
  /\ queue' = Retired(Completed(queue, {b}), n)
  /\ tail' = TailStops(Completed(queue, {b}), n)
  /\ UNCHANGED <<log, jsb, flag, pc, published, last, nextId, running, slots,
                 alloc, leaked, history, bounds>>

\* The blocks B of a transaction that is given up go back to the copy the
\* youngest transaction before it logged, and are written home.
RollBack(B) == WriteHome(home, B, LAMBDA b : queue[Owner(queue, b)].ver)

\* txn_abort: the blocks of the running transaction go back to their last
\* logged copy, and that copy is written home if it had not been.
txn_abort ==
  LET B == {b \in dirty : Pending(b)}
      n == RetireCount(queue, B)
  IN
  /\ pc = "run" /\ dirty \cup revoked # {}
  /\ home' = RollBack(B)
  /\ queue' = Retired(Completed(queue, B), n)
  /\ tail' = TailStops(Completed(queue, B), n)
  /\ dirty' = {} /\ revoked' = {}
  /\ UNCHANGED <<log, jsb, flag, pc, published, last, nextId, slots, alloc,
                 leaked, history, bounds>>

\* jbd_journal_flush_trans: what the oldest transaction still owes goes home.
FlushHead(h, B) == WriteHome(h, B, LAMBDA b : queue[1].ver)

-----------------------------------------------------------------------------
(* Log space *)

Allocating == pc \in {"descriptor", "revoke", "commit"}
Wanted == CASE pc = "descriptor" -> 1 + Cardinality(dirty)
            [] pc = "revoke"     -> IF dirty = {} THEN 1 ELSE 2 + Cardinality(dirty)
            [] pc = "commit"     -> 1 + (IF dirty = {} THEN 0 ELSE 1 + Cardinality(dirty))
                                      + (IF revoked = {} THEN 0 ELSE 1)
            [] OTHER             -> 0
Advanced == Wrap(last + 1)
Take     == slots' = Append(slots, last) /\ last' = Advanced

\* The head of the log would run into a tail the medium still names.
MNeverLaps == FALSE
LapsPublished == Advanced = published /\ Advanced # tail.start

AllocBlock ==
  /\ Allocating /\ alloc = "none" /\ Len(slots) < Wanted
  /\ Advanced # tail.start /\ ~LapsPublished
  /\ Take
  /\ UNCHANGED <<medium, pc, tail, published, nextId, queue, running, alloc, leaked, history, bounds>>

\* The ring is full: jbd_journal_purge_cp_trans(flush, once) checkpoints the
\* oldest transaction and retires it.  A pure revoke retires with no writes.
MPurgeWithoutRetiring ==
  /\ Allocating /\ alloc = "none" /\ Len(slots) < Wanted
  /\ Advanced = tail.start /\ queue # <<>> /\ ~queue[1].bad
  /\ home' = FlushHead(home, queue[1].pending)
  /\ queue' = Completed(queue, Blocks)
  /\ alloc' = "tail"
  /\ UNCHANGED <<log, jsb, flag, pc, tail, published, last, nextId, running, slots, leaked, history, bounds>>
AllocPurge ==
  /\ Allocating /\ alloc = "none" /\ Len(slots) < Wanted
  /\ Advanced = tail.start /\ queue # <<>> /\ ~queue[1].bad
  /\ home' = FlushHead(home, queue[1].pending)
  /\ queue' = Retired(queue, 1)
  /\ tail' = TailPast(queue, 1)
  /\ alloc' = IF Written(queue[1]) THEN "tailNow" ELSE "tail"
  /\ UNCHANGED <<log, jsb, flag, pc, published, last, nextId, running, slots, leaked, history, bounds>>

\* The purge frees nothing, because the queue is empty, a home write of its
\* head failed before or one fails now: the allocation, and with it the commit,
\* fail with ENOSPC.  The transaction is neither aborted nor freed, and last
\* stays where it is.
AllocFails(Landed) ==
  LET flush == queue # <<>> /\ ~Written(queue[1]) IN
  /\ Allocating /\ alloc = "none" /\ Len(slots) < Wanted
  /\ Advanced = tail.start /\ "full" \in Windows
  /\ \/ (queue = <<>> \/ queue[1].bad) /\ Landed = {} /\ UNCHANGED fails
     \/ /\ flush /\ Landed \subseteq queue[1].pending
        /\ fails < MaxFails /\ fails' = fails + 1
  /\ home' = IF flush THEN FlushHead(home, Landed) ELSE home
  /\ queue' = IF flush THEN [queue EXCEPT ![1].pending = {}, ![1].bad = TRUE] ELSE queue
  /\ pc' = "run" /\ slots' = <<>>
  /\ leaked' = leaked \cup dirty
  /\ dirty' = {} /\ revoked' = {}
  /\ gaveUp' = TRUE
  /\ UNCHANGED <<log, jsb, flag, tail, published, last, nextId, alloc, committed, flight, flightId,
                 crashed, ver, mounts>>

\* Publish the tail before the blocks it frees are written: a barrier behind
\* the checkpoint, then the journal superblock ...
TailDue ==
  /\ Allocating /\ Len(slots) < Wanted
  /\ \/ alloc \in {"tail", "tailNow"}
     \/ alloc = "none" /\ Advanced # tail.start /\ LapsPublished
Behind(cell) == IF alloc # "tailNow" THEN Settle(cell) ELSE cell
Checkpointed ==
  /\ home' = IF alloc # "tailNow" THEN Settled(home) ELSE home
  /\ log'  = IF alloc # "tailNow" THEN Settled(log) ELSE log
  /\ flag' = Behind(flag)

AllocTail ==
  /\ TailDue /\ Checkpointed
  /\ jsb' = Put(Behind(jsb), [start |-> tail.start, seq |-> tail.id])
  /\ alloc' = "seal"
  /\ UNCHANGED <<pc, tail, published, last, nextId, queue, running, slots, leaked, history, bounds>>

\* The write fails and nothing is published.  Behind a purge the code tries
\* again at once if the head is at what the medium names; otherwise the block
\* is handed out all the same.
AllocTailFails ==
  LET again == alloc # "none" /\ LapsPublished IN
  /\ TailDue /\ Checkpointed
  /\ again \/ "lapped" \in Windows
  /\ fails < MaxFails /\ fails' = fails + 1
  /\ jsb' = Behind(jsb) /\ alloc' = "none"
  /\ IF again THEN UNCHANGED <<slots, last>> ELSE Take
  /\ UNCHANGED <<pc, tail, published, nextId, queue, running, leaked, history, mounts>>

\* ... then a barrier behind that.
MPublishUnsealed ==
  /\ Allocating /\ alloc = "seal"
  /\ published' = tail.start /\ alloc' = "none" /\ Take
  /\ UNCHANGED <<medium, pc, tail, nextId, queue, running, leaked, history, bounds>>
AllocSeal ==
  /\ Allocating /\ alloc = "seal"
  /\ Barrier(Settled(home), Settled(log), Settle(jsb), Settle(flag))
  /\ published' = tail.start /\ alloc' = "none" /\ Take
  /\ UNCHANGED <<pc, tail, nextId, queue, running, leaked, history, bounds>>

-----------------------------------------------------------------------------
(* Committing *)

CommitBegin ==
  /\ pc = "run" /\ dirty \cup revoked # {}
  /\ "restart" \in Windows \/ jsb.fly = {} \/ jsb.dur.start = 0
  /\ pc' = IF dirty # {} THEN "descriptor" ELSE "revoke"
  /\ ver' = ver + 1
  /\ UNCHANGED <<medium, tail, published, last, nextId, queue, running, slots, alloc, leaked,
                 committed, flight, flightId, crashed, gaveUp, bounds>>

Allocated == Len(slots) = Wanted /\ alloc = "none"

\* jbd_journal_prepare: the descriptor and a copy of every dirty block.
jbd_journal_prepare ==
  LET tags == TagSeq(dirty)
      Body == {slots[k] : k \in 1..(1 + Len(tags))}
  IN
  /\ pc = "descriptor" /\ Allocated
  /\ log' = [s \in Ring |->
               IF s \notin Body THEN log[s]
               ELSE Put(log[s], IF s = slots[1] THEN Descriptor(nextId, tags)
                                                ELSE LogData(ver))]
  /\ pc' = IF revoked # {} THEN "revoke" ELSE "body"
  /\ UNCHANGED <<home, jsb, flag, tail, published, last, nextId, queue, running, slots, alloc, leaked,
                 history, bounds>>

jbd_journal_prepare_revoke ==
  /\ pc = "revoke" /\ Allocated
  /\ log' = [log EXCEPT ![slots[Len(slots)]] = Put(@, Revoke(nextId, ToRevoke))]
  /\ pc' = "body"
  /\ UNCHANGED <<home, jsb, flag, tail, published, last, nextId, queue, running, slots, alloc, leaked,
                 history, bounds>>

\* The commit block must not overtake the transaction it vouches for.
MNoBodyBarrier ==
  /\ pc = "body" /\ pc' = "commit"
  /\ UNCHANGED <<medium, tail, published, last, nextId, queue, running, slots, alloc, leaked, history, bounds>>
BodyBarrier ==
  /\ pc = "body"
  /\ Barrier(Settled(home), Settled(log), Settle(jsb), Settle(flag))
  /\ pc' = "commit"
  /\ UNCHANGED <<tail, published, last, nextId, queue, running, slots, alloc, leaked, history, bounds>>

jbd_trans_write_commit_block ==
  /\ pc = "commit" /\ Allocated
  /\ log' = [log EXCEPT ![slots[Len(slots)]] = Put(@, Commit(nextId))]
  /\ flight' = Result(dirty, revoked) /\ flightId' = nextId
  /\ pc' = "finish"
  /\ UNCHANGED <<home, jsb, flag, tail, published, last, nextId, queue, running, slots, alloc,
                 leaked, committed, crashed, gaveUp, ver, bounds>>

\* The barrier behind the commit block, and then everything up to the return:
\* revoked blocks need no checkpoint any more, the transaction joins the
\* checkpoint queue, and its buffers are released, which writes them home --
\* except the Late ones somebody still holds, and the Failed ones.
Finish(Late, Failed) ==
  LET q1 == Completed(queue, revoked)
      n1 == RetireCount(queue, revoked)
      t  == [id |-> nextId, first |-> slots[1], len |-> Len(slots),
             ver |-> ver, pending |-> dirty, bad |-> FALSE]
      q2 == Retired(q1, n1)
      q3 == Append(q2, t)
      Home == dirty \ Late
      q4 == [q3 EXCEPT ![Len(q3)].bad = Failed # {}]
      n4 == RetireCount(q4, Home)
  IN
  /\ pc = "finish"
  /\ Late \subseteq dirty /\ Failed \subseteq dirty \ Late
  /\ fails + Cardinality(Failed) <= MaxFails /\ fails' = fails + Cardinality(Failed)
  /\ nextId' = nextId + 1
  /\ home' = WriteHome(Settled(home), Home \ Failed, LAMBDA b : ver)
  /\ log' = Settled(log) /\ jsb' = Settle(jsb) /\ flag' = Settle(flag)
  /\ IF dirty = {} /\ q2 = <<>>
     THEN queue' = <<>> /\ tail' = TailPast(<<t>>, 1)
     ELSE /\ queue' = Retired(Completed(q4, Home), n4)
          /\ tail' = IF n4 > 0 THEN TailStops(Completed(q4, Home), n4)
                     ELSE IF q2 = <<>> THEN [start |-> t.first, id |-> t.id]
                     ELSE TailStops(q1, n1)
  /\ committed' = flight
  /\ pc' = "run" /\ dirty' = {} /\ revoked' = {} /\ slots' = <<>>
  /\ UNCHANGED <<published, last, alloc, leaked, flight, flightId, crashed, gaveUp, ver, mounts>>

\* A write or the barrier before the commit block fails: last goes back and
\* the transaction is aborted.  With "seal", so does the barrier behind it.
CommitFails ==
  LET B == {b \in dirty : Pending(b)}
      n == RetireCount(queue, B)
  IN
  /\ \/ pc \in {"descriptor", "revoke", "body", "commit"}
     \/ pc = "finish" /\ "seal" \in Windows
  /\ slots # <<>> /\ alloc = "none"
  /\ fails < MaxFails /\ fails' = fails + 1
  /\ last' = slots[1] /\ slots' = <<>>
  /\ home' = RollBack(B)
  /\ queue' = Retired(Completed(queue, B), n)
  /\ tail' = TailStops(Completed(queue, B), n)
  /\ pc' = "run" /\ dirty' = {} /\ revoked' = {}
  /\ UNCHANGED <<log, jsb, flag, published, nextId, alloc, leaked, history, mounts>>

\* ext4b_sync: nothing is running, and a barrier follows what was written.
ext4b_sync ==
  /\ pc = "run" /\ dirty \cup revoked = {}
  /\ jsb.fly # {} \/ \E b \in Blocks : home[b].fly # {}
  /\ Barrier(Settled(home), Settled(log), Settle(jsb), Settle(flag))
  /\ UNCHANGED <<session, history, bounds>>

-----------------------------------------------------------------------------
(* Stopping *)

\* jbd_journal_stop's purge: the oldest n transactions go home, in order.  It
\* ends early at one with a failed home write, or where a write fails now and
\* only Landed of its blocks went home; then the superblocks stay as they are,
\* and ext4_umount flushes the buffers still dirty, which the log covers too.
StopPurge(n, Landed) ==
  LET clean == n = Len(queue)
      now   == ~clean /\ ~queue[n + 1].bad
      Rest(b) == {k \in (n + 2)..Len(queue) : b \in queue[k].pending}
      owed(b) == {queue[k].ver : k \in {m \in 1..n : b \in queue[m].pending}}
                   \cup (IF b \in Landed THEN {queue[n + 1].ver} ELSE {})
                   \cup (IF Rest(b) # {} THEN {queue[Max(Rest(b))].ver} ELSE {})
      B     == {b \in Blocks : owed(b) # {}}
  IN
  /\ pc = "run" /\ dirty \cup revoked = {} /\ mounts < MaxMounts
  /\ "stop" \in Windows \/ \A b \in Blocks : home[b].fly = {}
  /\ \A k \in 1..n : ~queue[k].bad
  /\ IF now THEN /\ Landed \subseteq queue[n + 1].pending /\ queue[n + 1].pending # {}
                 /\ fails < MaxFails /\ fails' = fails + 1
            ELSE Landed = {} /\ UNCHANGED fails
  /\ home' = [b \in Blocks |->
                IF b \in B THEN [home[b] EXCEPT !.now = Max(owed(b)), !.fly = @ \cup owed(b)]
                           ELSE home[b]]
  /\ queue' = <<>>
  /\ tail' = TailPast(queue, n)
  /\ pc' = IF ~clean THEN "unmount" ELSE IF B = {} THEN "stop" ELSE "stopBarrier"
  /\ UNCHANGED <<log, jsb, flag, published, last, nextId, running, slots, alloc, leaked,
                 history, mounts>>

\* "No replay is needed", then the journal superblock with the last id used.
MStopResetsSequence ==
  LET barrier == pc = "stopBarrier" IN
  /\ pc \in {"stop", "stopBarrier"}
  /\ home' = IF barrier THEN Settled(home) ELSE home
  /\ log'  = IF barrier THEN Settled(log) ELSE log
  /\ flag' = Put(IF barrier THEN Settle(flag) ELSE flag, FALSE)
  /\ jsb'  = Put(IF barrier THEN Settle(jsb) ELSE jsb, [start |-> 0, seq |-> 0])
  /\ pc' = "unmount"
  /\ UNCHANGED <<tail, published, last, nextId, queue, running, slots, alloc, leaked, history, bounds>>
StopClear ==
  LET barrier == pc = "stopBarrier" IN
  /\ pc \in {"stop", "stopBarrier"}
  /\ home' = IF barrier THEN Settled(home) ELSE home
  /\ log'  = IF barrier THEN Settled(log) ELSE log
  /\ flag' = Put(IF barrier THEN Settle(flag) ELSE flag, FALSE)
  /\ jsb'  = Put(IF barrier THEN Settle(jsb) ELSE jsb, [start |-> 0, seq |-> tail.id])
  /\ pc' = "unmount"
  /\ UNCHANGED <<tail, published, last, nextId, queue, running, slots, alloc, leaked, history, bounds>>

\* ext4_umount flushes every buffer that is still dirty, also those of a
\* transaction that was given up; then ext4b_unmount's last barrier.
Unmount ==
  /\ pc = "unmount"
  /\ home' = WriteHome(home, leaked, LAMBDA b : Garbage)
  /\ leaked' = {} /\ pc' = "off"
  /\ UNCHANGED <<log, jsb, flag, tail, published, last, nextId, queue, running, slots, alloc,
                 history, bounds>>

UnmountBarrier ==
  /\ pc = "off" /\ pc' = "down"
  /\ Barrier(Settled(home), Settled(log), Settle(jsb), Settle(flag))
  /\ crashed' = [b \in Blocks |-> home[b].now]
  /\ UNCHANGED <<tail, published, last, nextId, queue, running, slots, alloc, leaked,
                 committed, flight, flightId, gaveUp, ver, bounds>>

-----------------------------------------------------------------------------
(* Crash *)

\* Every state a crash can leave these cells in.
Survivors(f) ==
  FoldSet(LAMBDA a, acc : UNION {{[g EXCEPT ![a] = Cell(v)] : v \in Outcomes(f[a])} : g \in acc},
          {Settled(f)}, {a \in DOMAIN f : f[a].fly # {}})

Crash ==
  /\ pc \notin {"down", "crashed"} /\ mounts < MaxMounts
  /\ home' \in Survivors(home) /\ log' \in Survivors(log)
  /\ \E j \in Outcomes(jsb), f \in Outcomes(flag) :
       /\ jsb' = Cell(j) /\ flag' = Cell(f)
       /\ \/ "torn" \in Windows
          \/ ~(flag.dur /\ ~f /\ j = jsb.dur /\ j.start # 0)
  /\ crashed' = [b \in Blocks |-> home'[b].now]
  /\ pc' = "crashed"
  /\ tail' = [start |-> 0, id |-> 0] /\ published' = 0 /\ last' = 0 /\ nextId' = 0
  /\ queue' = <<>> /\ dirty' = {} /\ revoked' = {} /\ slots' = <<>>
  /\ alloc' = "none" /\ leaked' = {}
  /\ UNCHANGED <<committed, flight, flightId, gaveUp, ver, bounds>>

-----------------------------------------------------------------------------
(* Recovery *)

\* jbd_iterate_log: from the tail the superblock names, follow records that
\* carry the expected id; a commit block moves on to the next id.
Walk ==
  LET s == jsb.now.start
      w[n \in 0..(2 * MaxLen)] ==
        IF n = 0
        THEN [pos |-> s, id |-> jsb.now.seq, end |-> FALSE, seen |-> <<>>]
        ELSE LET p == w[n - 1]
                 r == log[p.pos].now
                 next == Wrap(p.pos + 1 + (IF r.t = "descriptor" THEN Len(r.tags) ELSE 0))
             IN  IF p.end THEN p
                 ELSE IF r.t \in {"none", "data"} THEN [p EXCEPT !.end = TRUE]
                 ELSE IF r.id # p.id THEN [p EXCEPT !.end = TRUE]
                 ELSE [pos |-> next, id |-> IF r.t = "commit" THEN p.id + 1 ELSE p.id,
                       end |-> next = s, seen |-> Append(p.seen, [rec |-> r, pos |-> p.pos])]
  IN w[2 * MaxLen]

\* The last transaction with a commit block, or the first one if none has.
LastId == IF Walk.id > jsb.now.seq THEN Walk.id - 1 ELSE jsb.now.seq

\* Replay takes the records of the transactions that have a commit block.
Replayable(w, k) == w.seen[k].rec.id < w.id

\* The transaction id of the last committed revoke of b.
RevokeId(w, b) ==
  Max({0} \cup {w.seen[k].rec.id : k \in {m \in DOMAIN w.seen :
         Replayable(w, m) /\ w.seen[m].rec.t = "revoke" /\ b \in w.seen[m].rec.blocks}})

\* jbd_replay_block_tags skips what its own or a later transaction revoked.
Revoked(i, r) == i <= r

\* The logged copies of b that replay writes home, in log order.
Copies(w, b) ==
  {k \in DOMAIN w.seen : /\ Replayable(w, k) /\ w.seen[k].rec.t = "descriptor"
                         /\ \E j \in DOMAIN w.seen[k].rec.tags : w.seen[k].rec.tags[j] = b
                         /\ ~Revoked(w.seen[k].rec.id, RevokeId(w, b))}
CopyAt(e, b) ==
  LET j == CHOOSE m \in DOMAIN e.rec.tags : e.rec.tags[m] = b
      r == log[Wrap(e.pos + j)].now
  IN  IF r.t = "data" THEN r.v ELSE Garbage

\* What replay leaves at home: the last copy of every block that has one.
jbd_replay_wb_flush(w) ==
  [b \in Blocks |-> IF Copies(w, b) = {} THEN home[b]
                    ELSE Put(home[b], CopyAt(w.seen[Max(Copies(w, b))], b))]

\* ext4b_mount replays only what EXT4_FINCOM_RECOVER asks for.
Mount ==
  /\ pc \in {"down", "crashed"} /\ mounts < MaxMounts /\ mounts' = mounts + 1
  /\ pc' = IF flag.now THEN "recover" ELSE "attach"
  /\ UNCHANGED <<medium, tail, published, last, nextId, queue, running, slots, alloc, leaked, history, fails>>

\* jbd_recover up to its barrier.  A log that starts nowhere is not replayed.
jbd_recover ==
  LET w == Walk IN
  /\ pc = "recover"
  /\ IF jsb.now.start = 0
     THEN pc' = "attach" /\ UNCHANGED <<home, committed>>
     ELSE /\ home' = jbd_replay_wb_flush(w)
          /\ committed' = IF w.id > flightId THEN flight ELSE committed
          /\ pc' = "replayed"
  /\ flight' = committed'
  /\ UNCHANGED <<log, jsb, flag, tail, published, last, nextId, queue, running, slots, alloc, leaked,
                 flightId, crashed, gaveUp, ver, bounds>>

\* The replay is on the medium before the superblocks say it is not needed.
MNoReplayBarrier ==
  /\ pc = "replayed" /\ pc' = "attach"
  /\ flag' = Put(flag, FALSE) /\ jsb' = Put(jsb, [start |-> 0, seq |-> LastId])
  /\ UNCHANGED <<home, log, tail, published, last, nextId, queue, running, slots, alloc, leaked, history, bounds>>
RecoverDone ==
  /\ pc = "replayed" /\ pc' = "attach"
  /\ home' = Settled(home) /\ log' = Settled(log)
  /\ flag' = Put(Settle(flag), FALSE)
  /\ jsb' = Put(Settle(jsb), [start |-> 0, seq |-> LastId])
  /\ UNCHANGED <<tail, published, last, nextId, queue, running, slots, alloc, leaked, history, bounds>>

jbd_journal_start ==
  /\ pc = "attach" /\ pc' = "run"
  /\ flag' = Put(flag, TRUE)
  /\ tail' = [start |-> First, id |-> jsb.now.seq + 1]
  /\ last' = First /\ published' = First /\ nextId' = jsb.now.seq + 1
  /\ jsb' = Put(jsb, [start |-> First, seq |-> jsb.now.seq + 1])
  /\ queue' = <<>> /\ flight' = committed /\ crashed' = [b \in Blocks |-> 0]
  /\ UNCHANGED <<home, log, running, slots, alloc, leaked, committed, flightId, gaveUp, ver, bounds>>

-----------------------------------------------------------------------------

Next ==
  \/ \E b \in Blocks : \/ jbd_trans_set_block_dirty(b) \/ jbd_trans_revoke_block(b)
                       \/ WriteFileData(b) \/ FlushBuffer(b)
  \/ CommitBegin \/ txn_abort
  \/ AllocBlock \/ AllocPurge \/ AllocTail \/ AllocTailFails \/ AllocSeal
  \/ jbd_journal_prepare \/ jbd_journal_prepare_revoke \/ BodyBarrier
  \/ jbd_trans_write_commit_block
  \/ \E Late, Failed \in SUBSET Blocks : Finish(Late, Failed)
  \/ \E Landed \in SUBSET Blocks : AllocFails(Landed)
  \/ CommitFails \/ ext4b_sync
  \/ (\E n \in 0..Len(queue), Landed \in SUBSET Blocks : StopPurge(n, Landed)) \/ StopClear \/ Unmount \/ UnmountBarrier
  \/ Crash \/ Mount \/ jbd_recover \/ RecoverDone \/ jbd_journal_start

Spec == Init /\ [][Next]_vars

-----------------------------------------------------------------------------
(* Properties *)

\* Types, and the shape every record the code reads back has: ids in use lie
\* behind journal->alloc_trans_id, log blocks handed out lie inside the ring.
Contents == Nat \cup {Free, Data, Garbage}
Position == [start : 0..(MaxLen - 1), id : Nat]
Transaction ==
  [id : Nat, first : Ring, len : 1..(MaxLen - 1), ver : Nat,
   pending : SUBSET Blocks, bad : BOOLEAN]
IsRecord(r) ==
  \/ r = NoRecord
  \/ r.t = "descriptor" /\ r.id \in Nat /\ \A k \in DOMAIN r.tags : r.tags[k] \in Blocks
  \/ r.t = "data" /\ r.v \in Nat
  \/ r.t = "revoke" /\ r.id \in Nat /\ r.blocks \subseteq Blocks
  \/ r.t = "commit" /\ r.id \in Nat
TypeOK ==
  /\ \A b \in Blocks : {home[b].now} \cup Outcomes(home[b]) \subseteq Contents
  /\ \A s \in Ring : \A r \in {log[s].now} \cup Outcomes(log[s]) : IsRecord(r)
  /\ tail \in Position /\ published \in 0..(MaxLen - 1) /\ last \in 0..(MaxLen - 1)
  /\ \A j \in {jsb.now} \cup Outcomes(jsb) : j.start \in 0..(MaxLen - 1) /\ j.seq \in Nat
  /\ \A k \in DOMAIN queue : queue[k] \in Transaction /\ queue[k].id < nextId
  /\ \A k \in DOMAIN slots : slots[k] \in Ring
  /\ dirty \cap revoked = {} /\ dirty \cup revoked \cup leaked \subseteq Blocks
  /\ pc \in {"down", "run", "descriptor", "revoke", "body", "commit", "finish", "stop",
              "stopBarrier", "unmount", "off", "crashed", "recover", "replayed", "attach"}
  /\ alloc \in {"none", "tail", "tailNow", "seal"} /\ gaveUp \in BOOLEAN

\* After a crash the volume is in the state of the last commit that returned,
\* or of the one whose commit block was in flight -- whole, whichever it is --
\* and replay has touched no block that state does not hold metadata in.  A
\* commit that __jbd_journal_commit_trans gives up for want of log space voids
\* this: its records stay in the log under an id that is used again.
Restored ==
  ~gaveUp /\ pc \in {"replayed", "attach"} => \A b \in Blocks :
    home[b].now = IF committed[b] = Free THEN crashed[b] ELSE committed[b]

\* The log blocks of different live transactions are different blocks, and
\* none of them is what the committing one is handed next.
LiveLogDisjoint ==
  LET SlotsOf(t) == {Wrap(t.first + k) : k \in 0..(t.len - 1)}
      Live == UNION {SlotsOf(queue[k]) : k \in DOMAIN queue}
  IN  /\ \A j, k \in DOMAIN queue : j # k => SlotsOf(queue[j]) \cap SlotsOf(queue[k]) = {}
      /\ \A k \in DOMAIN slots : slots[k] \notin Live
      /\ pc = "run" => last \notin Live

\* When the head of the log meets its tail there is a transaction to retire: the
\* log is never full of nothing, not even after a commit that it had no room for.
LogNeverStuck ==
  Allocating /\ alloc = "none" /\ Advanced = tail.start => queue # <<>>

\* No commit block on the medium, and none a crash could leave there, carries
\* an id this session has not used: what the log still holds of earlier
\* sessions is never taken for a current transaction.
NoStaleCommit ==
  pc \in {"run", "descriptor", "revoke", "body", "commit"} =>
    \A s \in Ring : \A r \in Outcomes(log[s]) : r.t = "commit" => r.id < nextId

\* The log is well formed at every step: records have their shape, live
\* transactions do not overlap, and the room they take can be had back
\* (jbd_journal_alloc_block, jbd_journal_purge_cp_trans).
LogOK == TypeOK /\ LiveLogDisjoint /\ LogNeverStuck

\* Recovery restores the last commit or the one in flight, and what the log still
\* holds cannot mislead the next one (jbd_recover, jbd_journal_stop).
Recovered == Restored /\ NoStaleCommit
=============================================================================
