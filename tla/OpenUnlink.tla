----------------------------- MODULE OpenUnlink -----------------------------
(***************************************************************************)
(* How the extension decides when an inode that has lost its last name may *)
(* be freed (Ext4Volume and its OpenClose, Deactivation, Operations and    *)
(* Preallocate extensions).                                                *)
(*                                                                         *)
(* FSKit delivers volume operations concurrently.  Two things serialise    *)
(* them: itemsLock, around a handful of dictionary accesses, and the       *)
(* executor, a serial queue every call into the core goes through.  An     *)
(* operation suspends between the two, so the model has one step per       *)
(* critical section and one per executor block, and any other call may run *)
(* in between.  The only executor block that takes itemsLock inside is     *)
(* removeItem's: it is two steps, and `exec' keeps the queue busy between  *)
(* them.                                                                   *)
(*                                                                         *)
(* The core below (ext4_bridge.c) appears as the state of each inode: its  *)
(* link count, its bit in the inode bitmap, whether it owns blocks past    *)
(* end-of-file, and its place on the orphan list.                          *)
(***************************************************************************)
EXTENDS Naturals, Sequences, FiniteSets, Functions

CONSTANTS
  Inodes,       \* inode numbers of regular files
  Calls,        \* FSKit operations that can be in flight at once
  None,         \* no call, no inode
  KernelRaces,  \* kernel behaviours allowed beyond the orderly ones, see below
  MaxLinks,     \* bound: names per inode
  MaxOpens,     \* bound: descriptors per inode
  MaxFails      \* bound: core calls that fail with an I/O error

(***************************************************************************)
(* What the VFS layer may do that the extension cannot prevent:            *)
(*   "open"         opens an item while one of its names is being removed  *)
(*   "reopen"       opens an item while its last close, or a deactivation   *)
(*                  or reclaim of it, is still in progress                 *)
(*   "rename"       renames over a file that is open                       *)
(*   "preallocate"  sends two preallocations of one file at once           *)
(*   "unmount"      unmounts while closes, deactivations or reclaims are    *)
(*                  in progress, and goes on sending them                  *)
(***************************************************************************)
ASSUME ConstAssumption ==
  /\ None \notin Calls \cup Inodes
  /\ Inodes # {}
  /\ KernelRaces \subseteq {"open", "reopen", "rename", "preallocate", "unmount"}
  /\ MaxLinks \in Nat \ {0} /\ MaxOpens \in Nat /\ MaxFails \in Nat

VARIABLES
  \* the core
  links,            \* link count of each inode
  alloc,            \* inodes marked in use in the inode bitmap
  ahead,            \* inodes with preallocated blocks past end-of-file
  orphans,          \* the orphan list, head first
  \* Ext4Volume
  openCounts,       \* how often each inode is open
  pendingRelease,   \* unlinked inodes waiting for their last user
  trimOnDeactivate, \* inodes owing a trim of non-persistent space
  mounted,          \* whether the core handle is open
  \* FSKit and the executor
  held,             \* inodes the kernel holds an item for
  call,             \* the operation each call is executing
  exec,             \* the call whose block occupies the executor
  fails,            \* I/O errors so far
  loan,             \* history: inodes last preallocated without .persist
  abandoned         \* history: inodes without names nothing is left to release

core    == <<links, alloc, ahead, orphans, loan>>
volume  == <<openCounts, pendingRelease, trimOnDeactivate>>
vars    == <<core, volume, mounted, held, call, exec, fails, abandoned>>

\* orphan_del: the chain without the entry of i, if it has one.
Without(s, i) ==
  IF i \notin Range(s) THEN s
  ELSE LET k == CHOOSE n \in DOMAIN s : s[n] = i
       IN  [n \in 1..(Len(s) - 1) |-> IF n < k THEN s[n] ELSE s[n + 1]]

\* A call: its operation, the inode of its item, where it has got to, and
\* the inodes its releaseAllPending or drainPendingTrims snapshot still holds.
Idle == [op |-> "none", ino |-> None, pc |-> "idle",
         todo |-> {}]
Ops  == {"none", "remove", "close", "deactivate", "reclaim",
         "preallocate", "unmount"}
PCs  == {"idle", "enter", "checkedOpen", "checkedFree", "note", "take",
         "release", "putBack", "trim", "noteLoan", "noteKept",
         "drain", "drainTrims"}

CallRecord == [op : Ops, ino : Inodes \cup {None}, pc : PCs, todo : SUBSET Inodes]

StateOK ==
  /\ links \in [Inodes -> 0..MaxLinks]
  /\ alloc \subseteq Inodes /\ ahead \subseteq Inodes
  /\ orphans \in Seq(Inodes)
  /\ openCounts \in [Inodes -> 0..MaxOpens]
  /\ pendingRelease \subseteq Inodes
  /\ trimOnDeactivate \subseteq Inodes
  /\ held \subseteq Inodes
  /\ mounted \in BOOLEAN
  /\ exec \in Calls \cup {None}
  /\ fails \in 0..MaxFails
  /\ loan \subseteq Inodes /\ abandoned \subseteq Inodes

TypeOK == StateOK /\ call \in [Calls -> CallRecord]

Init ==
  /\ links = [i \in Inodes |-> 0] /\ alloc = {} /\ ahead = {} /\ orphans = <<>>
  /\ openCounts = [i \in Inodes |-> 0]
  /\ pendingRelease = {} /\ trimOnDeactivate = {}
  /\ mounted = TRUE /\ held = {}
  /\ call = [c \in Calls |-> Idle] /\ exec = None
  /\ fails = 0 /\ loan = {} /\ abandoned = {}

-----------------------------------------------------------------------------
(* Calls and the executor *)

At(c, op, pc)   == call[c].op = op /\ call[c].pc = pc
Goto(c, pc)     == call' = [call EXCEPT ![c].pc = pc]
Return(c)       == call' = [call EXCEPT ![c] = Idle]
Busy(i)         == \E c \in Calls : call[c].ino = i /\ call[c].op # "none"
Removing(i)     == \E c \in Calls : call[c].ino = i /\ call[c].op = "remove"
Releasing(i)    == \E c \in Calls : /\ call[c].ino = i
                                    /\ call[c].op \in {"close", "deactivate", "reclaim"}
Unmounting      == \E c \in Calls : call[c].op = "unmount"
Orderly         == "unmount" \in KernelRaces \/ ~Unmounting

\* Ext4Executor.run: a block starts only when the serial queue is idle.
OnExecutor == exec = None /\ UNCHANGED exec

Begin(c, op, i, pc) ==
  /\ call[c] = Idle
  /\ call' = [call EXCEPT ![c] = [Idle EXCEPT !.op = op, !.ino = i, !.pc = pc]]

\* A core call that fails alone in its transaction leaves the core as it was.
CoreFails == fails < MaxFails /\ fails' = fails + 1 /\ UNCHANGED core

-----------------------------------------------------------------------------
(* Names come and go *)

\* ext4_fs_truncate_inode and ext4_fs_free_inode: blocks and bitmap bit go.
Freed(i) ==
  /\ alloc' = alloc \ {i} /\ ahead' = ahead \ {i} /\ loan' = loan \ {i}
Kept == UNCHANGED <<alloc, ahead, loan>>

\* createItem and lookupItem: a single executor block, then the item is cached.
createItem(i) ==
  /\ mounted /\ OnExecutor /\ ~Unmounting
  /\ i \notin alloc
  /\ alloc' = alloc \cup {i} /\ links' = [links EXCEPT ![i] = 1]
  /\ held' = held \cup {i}
  /\ UNCHANGED <<ahead, orphans, loan, volume, mounted, abandoned, call, fails>>

lookupItem(i) ==
  /\ mounted /\ OnExecutor /\ ~Unmounting
  /\ links[i] > 0
  /\ held' = held \cup {i}
  /\ UNCHANGED <<core, volume, mounted, abandoned, call, fails>>

createLink(i) ==
  /\ mounted /\ OnExecutor /\ ~Unmounting
  /\ i \in held /\ links[i] \in 1..(MaxLinks - 1)
  /\ links' = [links EXCEPT ![i] = @ + 1]
  /\ Kept /\ UNCHANGED <<orphans, volume, mounted, abandoned, held, call, fails>>

\* unlink_ex decides by the link count that unlink_child left behind.
MLastNameAlways(i) == links[i] > 0
LastName(i)        == links[i] = 1

\* The orphan list grows at its head.
MForgetsChain(i) == orphans' = <<i>>
JoinOrphans(i)   == orphans' = <<i>> \o orphans

\* removeItem, up to its executor block: requireWritable.
removeItem(c, i) ==
  /\ mounted /\ ~Unmounting
  /\ i \in held /\ links[i] > 0
  /\ Begin(c, "remove", i, "enter")
  /\ UNCHANGED <<core, volume, mounted, abandoned, held, exec, fails>>

\* The block begins by asking isOpen, under itemsLock ...
MRemoveNeverDefers(c) ==
  /\ At(c, "remove", "enter") /\ exec = None
  /\ exec' = c /\ Goto(c, "checkedFree")
  /\ UNCHANGED <<core, volume, mounted, abandoned, held, fails>>
RemoveCheck(c) ==
  /\ At(c, "remove", "enter") /\ exec = None
  /\ exec' = c
  /\ Goto(c, IF openCounts[call[c].ino] > 0 THEN "checkedOpen" ELSE "checkedFree")
  /\ UNCHANGED <<core, volume, mounted, abandoned, held, fails>>

\* ... and goes on to ext4b_unlink_ex with that answer.
RemoveUnlink(c) ==
  LET i     == call[c].ino
      defer == call[c].pc = "checkedOpen"
  IN
  /\ call[c].op = "remove" /\ call[c].pc \in {"checkedOpen", "checkedFree"}
  /\ links[i] > 0
  /\ links' = [links EXCEPT ![i] = @ - 1]
  /\ exec' = None
  /\ \/ /\ ~LastName(i)
        /\ Return(c) /\ Kept /\ UNCHANGED <<orphans, fails>>
     \/ /\ LastName(i) /\ ~defer
        /\ Freed(i) /\ Return(c) /\ UNCHANGED <<orphans, fails>>
     \/ /\ LastName(i) /\ defer
        /\ JoinOrphans(i)
        /\ Goto(c, "note") /\ Kept /\ UNCHANGED fails
     \/ \* orphan_publish_head fails, which only logs
        /\ LastName(i) /\ defer /\ fails < MaxFails
        /\ fails' = fails + 1
        /\ Goto(c, "note") /\ Kept /\ UNCHANGED orphans
  /\ UNCHANGED <<volume, mounted, abandoned, held>>

\* The name is gone by now (ENOENT), the handle is (ENXIO), or the call fails.
\* If it shares its transaction, the failure commits what was already done: the name has gone and
\* neither the free nor the list entry followed (txn_finish).
RemoveError(c) ==
  LET i == call[c].ino IN
  /\ call[c].op = "remove" /\ call[c].pc \in {"checkedOpen", "checkedFree"}
  /\ \/ (~mounted \/ links[i] = 0) /\ UNCHANGED <<core, fails>>
     \/ CoreFails
     \/ /\ links[i] > 0 /\ fails < MaxFails
        /\ links' = [links EXCEPT ![i] = @ - 1] /\ fails' = fails + 1
        /\ Kept /\ UNCHANGED orphans
  /\ abandoned' = IF links'[i] < links[i] /\ links'[i] = 0 THEN abandoned \cup {i} ELSE abandoned
  /\ exec' = None /\ Return(c)
  /\ UNCHANGED <<volume, mounted, held>>

notePendingRelease(c) ==
  /\ At(c, "remove", "note")
  /\ pendingRelease' = pendingRelease \cup {call[c].ino}
  /\ Return(c)
  /\ UNCHANGED <<core, openCounts, trimOnDeactivate, mounted, abandoned, held,
                 exec, fails>>

\* renameItem over i: ext4b_rename unlinks the file it replaces and frees it.
renameItem(i) ==
  /\ mounted /\ OnExecutor /\ ~Unmounting
  /\ i \in held /\ links[i] > 0
  /\ "rename" \in KernelRaces \/ openCounts[i] = 0
  /\ links' = [links EXCEPT ![i] = @ - 1]
  /\ IF links[i] = 1 THEN Freed(i) ELSE Kept
  /\ UNCHANGED <<orphans, volume, mounted, abandoned, held, call, fails>>

\* ext4b_rename frees what has lost its last name in the same call; when that
\* fails and the transaction is shared, the lost name is committed alone.
RenameError(i) ==
  /\ mounted /\ OnExecutor /\ ~Unmounting
  /\ i \in held /\ links[i] > 0 /\ fails < MaxFails
  /\ "rename" \in KernelRaces \/ openCounts[i] = 0
  /\ links' = [links EXCEPT ![i] = @ - 1] /\ fails' = fails + 1
  /\ Kept /\ UNCHANGED orphans
  /\ abandoned' = IF links'[i] = 0 THEN abandoned \cup {i} ELSE abandoned
  /\ UNCHANGED <<volume, mounted, held, call>>

-----------------------------------------------------------------------------
(* Open and close *)

\* openItem asks nothing.  The kernel opens an item it holds, on a volume it is
\* not unmounting, that a name or another descriptor leads to.
openItem(i) ==
  /\ i \in held /\ openCounts[i] < MaxOpens /\ mounted /\ ~Unmounting
  /\ links[i] > 0 \/ openCounts[i] > 0
  /\ "open" \in KernelRaces \/ ~Removing(i)
  /\ "reopen" \in KernelRaces \/ ~Releasing(i)
  /\ openCounts' = [openCounts EXCEPT ![i] = @ + 1]
  /\ UNCHANGED <<core, pendingRelease, trimOnDeactivate, mounted, abandoned, held,
                 call, exec, fails>>

\* closeItem's critical section; the last close goes on to releaseIfPending.
closeItem(c, i) ==
  /\ i \in held /\ openCounts[i] > 0 /\ Orderly
  /\ openCounts' = [openCounts EXCEPT ![i] = @ - 1]
  /\ IF openCounts[i] = 1
     THEN Begin(c, "close", i, "take")
     ELSE call[c] = Idle /\ UNCHANGED call
  /\ UNCHANGED <<core, pendingRelease, trimOnDeactivate, mounted, abandoned,
                 held, exec, fails>>

\* The kernel is done with an item: no descriptor, no operation in progress.
Unused(i) == i \in held /\ openCounts[i] = 0 /\ ~Busy(i) /\ Orderly

\* deactivateItem, for the items itemDeactivationPolicy asks for.
deactivateItem(c, i) ==
  /\ Unused(i) /\ (links[i] = 0 \/ i \in ahead)
  /\ Begin(c, "deactivate", i,
           IF i \in trimOnDeactivate THEN "trim" ELSE "take")
  /\ trimOnDeactivate' = trimOnDeactivate \ {i}
  /\ UNCHANGED <<core, openCounts, pendingRelease, mounted, abandoned, held,
                 exec, fails>>

\* trimIfPending's executor block; its error is swallowed (try?).
TrimBlock(c) ==
  /\ At(c, "deactivate", "trim") /\ OnExecutor
  /\ \/ /\ mounted /\ ahead' = ahead \ {call[c].ino}
        /\ UNCHANGED <<links, alloc, orphans, loan, fails>>
     \/ ~mounted /\ UNCHANGED <<core, fails>>
     \/ CoreFails
  /\ Goto(c, "take")
  /\ UNCHANGED <<volume, mounted, abandoned, held>>

\* reclaimItem: the kernel lets go of the item.
reclaimItem(c, i) ==
  /\ Unused(i)
  /\ Begin(c, "reclaim", i, "take")
  /\ held' = held \ {i}
  /\ UNCHANGED <<core, volume, mounted, abandoned, exec, fails>>

MReleaseOnCloseOnly(c) ==
  /\ call[c].pc = "take"
  /\ IF call[c].ino \in pendingRelease /\ call[c].op = "close"
     THEN /\ pendingRelease' = pendingRelease \ {call[c].ino}
          /\ Goto(c, "release")
     ELSE Return(c) /\ UNCHANGED pendingRelease
  /\ UNCHANGED <<core, openCounts, trimOnDeactivate, mounted, abandoned, held, exec, fails>>

\* releaseIfPending: whoever takes the inode out of the set owes the release.
ReleaseTake(c) ==
  /\ call[c].pc = "take"
  /\ IF call[c].ino \in pendingRelease
     THEN /\ pendingRelease' = pendingRelease \ {call[c].ino}
          /\ Goto(c, "release")
     ELSE Return(c) /\ UNCHANGED pendingRelease
  /\ UNCHANGED <<core, openCounts, trimOnDeactivate, mounted, abandoned, held,
                 exec, fails>>

\* ext4b_release_inode when it succeeds: off the list, blocks and inode freed.
ReleaseInode(i) ==
  /\ links[i] = 0
  /\ orphans' = Without(orphans, i)
  /\ IF i \in alloc THEN Freed(i) ELSE Kept
  /\ UNCHANGED links

\* ext4b_release_inode when it fails.  An entry that is not the head comes off
\* the list in a transaction of its own (orphan_del), before the part that can
\* still fail.
\* A named inode is refused (EBUSY).
ReleaseInodeFails(i) ==
  /\ links[i] > 0 \/ fails < MaxFails
  /\ fails' = IF links[i] > 0 THEN fails ELSE fails + 1
  /\ \/ UNCHANGED orphans
     \/ orphans # <<>> /\ Head(orphans) # i /\ orphans' = Without(orphans, i)
  /\ Kept /\ UNCHANGED links

ReleaseBlock(c) ==
  /\ call[c].pc = "release" /\ OnExecutor
  /\ \/ mounted /\ ReleaseInode(call[c].ino) /\ Return(c) /\ UNCHANGED fails
     \/ mounted /\ ReleaseInodeFails(call[c].ino) /\ Goto(c, "putBack")
     \/ ~mounted /\ Goto(c, "putBack") /\ UNCHANGED <<core, fails>>
  /\ UNCHANGED <<volume, mounted, abandoned, held>>

MNoPutBack(c) ==
  /\ call[c].pc = "putBack" /\ Return(c)
  /\ UNCHANGED <<core, volume, mounted, abandoned, held, exec, fails>>

\* The failed release is owed again.
ReleasePutBack(c) ==
  /\ call[c].pc = "putBack"
  /\ pendingRelease' = pendingRelease \cup {call[c].ino}
  /\ Return(c)
  /\ UNCHANGED <<core, openCounts, trimOnDeactivate, mounted, abandoned, held,
                 exec, fails>>

-----------------------------------------------------------------------------
(* Preallocation *)

\* preallocateSpace: the executor block allocates past end-of-file ...
preallocateSpace(c, i, persist) ==
  /\ mounted /\ OnExecutor /\ ~Unmounting
  /\ openCounts[i] > 0 /\ i \in alloc
  /\ \/ "preallocate" \in KernelRaces
     \/ \A d \in Calls : ~(call[d].op = "preallocate" /\ call[d].ino = i)
  /\ ahead' = ahead \cup {i}
  /\ loan' = IF persist THEN loan \ {i} ELSE loan \cup {i}
  /\ Begin(c, "preallocate", i, IF persist THEN "noteKept" ELSE "noteLoan")
  /\ UNCHANGED <<links, alloc, orphans, volume, mounted, abandoned, held, fails>>

\* ... and notePreallocation records afterwards whether it is on loan.
notePreallocation(c) ==
  /\ call[c].op = "preallocate"
  /\ trimOnDeactivate' = IF call[c].pc = "noteKept"
                         THEN trimOnDeactivate \ {call[c].ino}
                         ELSE trimOnDeactivate \cup {call[c].ino}
  /\ Return(c)
  /\ UNCHANGED <<core, openCounts, pendingRelease, mounted, abandoned, held,
                 exec, fails>>

-----------------------------------------------------------------------------
(* Unmount and the next mount *)

\* The work list a critical section hands on.
MSnapshotEmpty(set) == {}
Snapshot(set)       == set

\* unmount arrives when nothing uses the volume; releaseAllPending snapshots
\* and empties the set in one critical section.
unmount(c) ==
  /\ mounted /\ ~Unmounting
  /\ \A d \in Calls : \/ call[d] = Idle
                       \/ /\ "unmount" \in KernelRaces /\ d # c
                          /\ call[d].op \in {"close", "deactivate", "reclaim"}
  /\ \A i \in Inodes : openCounts[i] = 0
  /\ call' = [call EXCEPT ![c] = [Idle EXCEPT !.op = "unmount", !.pc = "drain",
                                              !.todo = Snapshot(pendingRelease)]]
  /\ pendingRelease' = {}
  /\ UNCHANGED <<core, openCounts, trimOnDeactivate, mounted, abandoned, held,
                 exec, fails>>

\* One executor block per inode; a failed release is logged and dropped.
UnmountRelease(c, i) ==
  /\ At(c, "unmount", "drain") /\ i \in call[c].todo /\ OnExecutor
  /\ \/ ReleaseInode(i) /\ UNCHANGED <<fails, abandoned>>
     \/ ReleaseInodeFails(i) /\ abandoned' = abandoned \cup {i}
  /\ call' = [call EXCEPT ![c].todo = @ \ {i}]
  /\ UNCHANGED <<volume, mounted, held>>

\* drainPendingTrims: the same snapshot for the trims owed.
UnmountTrims(c) ==
  /\ At(c, "unmount", "drain") /\ call[c].todo = {}
  /\ call' = [call EXCEPT ![c].pc = "drainTrims", ![c].todo = Snapshot(trimOnDeactivate)]
  /\ trimOnDeactivate' = {}
  /\ UNCHANGED <<core, openCounts, pendingRelease, mounted, abandoned, held,
                 exec, fails>>

UnmountTrim(c, i) ==
  /\ At(c, "unmount", "drainTrims") /\ i \in call[c].todo /\ OnExecutor
  /\ \/ ahead' = ahead \ {i} /\ UNCHANGED <<links, alloc, orphans, loan, fails>>
     \/ CoreFails
  /\ call' = [call EXCEPT ![c].todo = @ \ {i}]
  /\ UNCHANGED <<volume, mounted, abandoned, held>>

\* The final sync, closeVolume, and deactivate's forgetAllItems.
UnmountClose(c) ==
  /\ At(c, "unmount", "drainTrims") /\ call[c].todo = {} /\ OnExecutor
  /\ mounted' = FALSE /\ held' = {}
  /\ Return(c)
  /\ UNCHANGED <<core, volume, abandoned, fails>>

\* The next read-write mount starts a fresh Ext4Volume, and
\* ext4b_orphan_cleanup frees what the orphan list still names.
Remount ==
  LET cleaned == {i \in Range(orphans) : links[i] = 0} IN
  /\ ~mounted /\ mounted' = TRUE
  /\ \A c \in Calls : call[c] = Idle
  /\ alloc' = alloc \ cleaned /\ ahead' = ahead \ cleaned /\ loan' = loan \ cleaned
  /\ orphans' = <<>>
  /\ abandoned' = {i \in alloc \ cleaned : links[i] = 0}
  /\ openCounts' = [i \in Inodes |-> 0]
  /\ pendingRelease' = {} /\ trimOnDeactivate' = {}
  /\ UNCHANGED <<links, held, call, exec, fails>>

-----------------------------------------------------------------------------

\* The rest of an operation that has begun; it needs nothing from the kernel.
Step(c) ==
  \/ RemoveCheck(c) \/ RemoveUnlink(c) \/ RemoveError(c) \/ notePendingRelease(c)
  \/ ReleaseTake(c) \/ ReleaseBlock(c) \/ ReleasePutBack(c) \/ TrimBlock(c)
  \/ notePreallocation(c)
  \/ UnmountTrims(c) \/ UnmountClose(c)
  \/ \E i \in Inodes : UnmountRelease(c, i) \/ UnmountTrim(c, i)

Next ==
  \/ \E c \in Calls : Step(c) \/ unmount(c)
  \/ \E i \in Inodes :
       \/ createItem(i) \/ lookupItem(i) \/ createLink(i)
       \/ renameItem(i) \/ RenameError(i) \/ openItem(i)
       \/ \E c \in Calls :
            \/ removeItem(c, i) \/ closeItem(c, i)
            \/ deactivateItem(c, i) \/ reclaimItem(c, i)
            \/ \E persist \in BOOLEAN : preallocateSpace(c, i, persist)
  \/ Remount

Spec == Init /\ [][Next]_vars

(***************************************************************************)
(* Fairness.  An operation that has begun runs to its end: Swift resumes   *)
(* it, and the executor is a FIFO queue, so a block waiting for it runs    *)
(* however often others get there first (strong fairness).  FSKit promises *)
(* the deactivation that itemDeactivationPolicy asks for.  Nothing makes a *)
(* process close a descriptor, the kernel reclaim an item or anybody       *)
(* unmount.                                                                *)
(***************************************************************************)
Fairness ==
  /\ \A c \in Calls : SF_vars(Step(c))
  /\ \A i \in Inodes : SF_vars(\E c \in Calls : deactivateItem(c, i))

FairSpec == Spec /\ Fairness

-----------------------------------------------------------------------------
(* Properties *)

Unreferenced == {i \in alloc : links[i] = 0}
Owing(i)     == \E c \in Calls :
                  \/ call[c].ino = i /\ call[c].pc \in {"note", "release", "putBack"}
                  \/ call[c].pc = "drain" /\ i \in call[c].todo

\* An inode something has open is never freed: what removeItem defers for.
NoOpenInodeFreed == \A i \in Inodes : openCounts[i] > 0 => i \in alloc

\* A name never leads to a free inode: unlink and release free only what has
\* lost its last name.
NamesAllocated == \A i \in Inodes : links[i] > 0 => i \in alloc

\* Whoever holds the duty to release an inode holds it for one without names,
\* and only one holds it: ext4b_release_inode's EBUSY and its "somebody got
\* here first" are never met.
ReleasesAreDue ==
  /\ \A i \in Inodes : (i \in pendingRelease \/ Owing(i)) => i \in Unreferenced
  /\ \A i \in pendingRelease : ~Owing(i)
  /\ \A c, d \in Calls :
       (call[c].pc = "release" /\ call[d].pc = "release" /\ c # d)
         => call[c].ino # call[d].ino

\* While mounted, every inode without names is waiting in pendingRelease or an
\* operation in progress is about to release it or to put it there.  (What the
\* code gives up is in `abandoned': the inode of an unlink that failed inside a
\* batch, of a release that failed at unmount, or that a mount finds off the
\* orphan list.)
UnreferencedIsOwed ==
  mounted /\ ~Unmounting => \A i \in Unreferenced \ abandoned :
                               i \in pendingRelease \/ Owing(i)

\* The durable half of the bookkeeping mirrors the live half: a crash at any
\* moment finds every inode without names on the orphan list.
UnreferencedIsListed ==
  fails = 0 => /\ Range(orphans) = Unreferenced
               /\ Len(orphans) = Cardinality(Unreferenced)

\* "A clean unmount never leaves an unreferenced inode behind"
\* (releaseAllPending).
CleanUnmount == ~mounted /\ fails = 0 => Unreferenced = {}

\* "Without the persist flag the space is on loan": unmount has returned it
\* (preallocateSpace, trimIfPending, drainPendingTrims).
LoansReturned == ~mounted /\ fails = 0 => ahead \cap loan = {}

\* A file that has lost its last name and its last descriptor is eventually
\* freed, without anybody unmounting.
EventuallyFreed ==
  \A i \in Inodes :
    <>[](links[i] = 0 /\ openCounts[i] = 0) => <>[](i \notin alloc)

\* Whatever the unlinks, closes, releases and failures, an inode without names
\* is known twice: to somebody who will release it and, for a crash, to the
\* orphan list (pendingRelease against ext4b_unlink_ex's chain).
UnreferencedIsTracked == UnreferencedIsOwed /\ UnreferencedIsListed

\* An unmount leaves neither an inode without names nor borrowed space behind
\* (releaseAllPending, drainPendingTrims).
NothingLeftBehind == CleanUnmount /\ LoansReturned
=============================================================================
