------------------------- MODULE OpenUnlink_proofs -------------------------
(***************************************************************************)
(* Proofs about OpenUnlink, for any number of inodes, calls, names,        *)
(* descriptors and failures.                                               *)
(***************************************************************************)
EXTENDS OpenUnlink, TLAPS

\* Taking an entry out of a chain of inodes leaves a chain of inodes
\* (orphan_del).
LEMMA WithoutType ==
  ASSUME NEW s \in Seq(Inodes), NEW i
  PROVE  Without(s, i) \in Seq(Inodes)
<1>1. CASE i \notin Range(s)
  BY <1>1 DEF Without
<1>2. CASE i \in Range(s)
  <2> DEFINE k == CHOOSE n \in DOMAIN s : s[n] = i
             t == [n \in 1..(Len(s) - 1) |-> IF n < k THEN s[n] ELSE s[n + 1]]
  <2>1. \E n \in DOMAIN s : s[n] = i
    BY <1>2 DEF Range
  <2>2. k \in DOMAIN s
    BY <2>1
  <2>3. Len(s) \in Nat /\ DOMAIN s = 1..Len(s) /\ \A n \in 1..Len(s) : s[n] \in Inodes
    OBVIOUS
  <2>4. Len(s) - 1 \in Nat
    BY <2>2, <2>3
  <2>5. \A n \in 1..(Len(s) - 1) : n \in 1..Len(s) /\ n + 1 \in 1..Len(s)
    BY <2>3
  <2>6. t \in [1..(Len(s) - 1) -> Inodes]
    BY <2>3, <2>5
  <2>7. t \in Seq(Inodes)
    BY <2>4, <2>6
  <2> QED
    BY <1>2, <2>7 DEF Without
<1> QED
  BY <1>1, <1>2

\* ext4b_release_inode, whether it succeeds or fails, keeps the types of what
\* it may change.
LEMMA ReleaseType ==
  ASSUME StateOK, NEW i,
         (ReleaseInode(i) /\ UNCHANGED fails) \/ ReleaseInodeFails(i)
  PROVE  /\ UNCHANGED links /\ orphans' \in Seq(Inodes) /\ fails' \in 0..MaxFails
         /\ alloc' \subseteq Inodes /\ ahead' \subseteq Inodes /\ loan' \subseteq Inodes
<1>1. UNCHANGED links
  BY DEF ReleaseInode, ReleaseInodeFails
<1>2. orphans' \in Seq(Inodes)
  <2>1. orphans' = orphans \/ orphans' = Without(orphans, i)
    BY DEF ReleaseInode, ReleaseInodeFails
  <2>2. orphans \in Seq(Inodes)
    BY DEF StateOK
  <2> QED
    BY <2>1, <2>2, WithoutType
<1>3. fails' \in 0..MaxFails
  <2>1. fails' = fails \/ (fails < MaxFails /\ fails' = fails + 1)
    BY DEF ReleaseInodeFails
  <2>2. fails \in 0..MaxFails
    BY DEF StateOK
  <2> QED
    BY <2>1, <2>2, ConstAssumption DEF ConstAssumption
<1>4. alloc' \subseteq Inodes /\ ahead' \subseteq Inodes /\ loan' \subseteq Inodes
  <2>1. Freed(i) \/ Kept
    BY DEF ReleaseInode, ReleaseInodeFails
  <2> QED
    BY <2>1 DEF Freed, Kept, StateOK
<1> QED
  BY <1>1, <1>2, <1>3, <1>4

\* An inode that joins the orphan list makes it a longer chain of inodes.
LEMMA JoinType ==
  ASSUME NEW s \in Seq(Inodes), NEW i \in Inodes
  PROVE  <<i>> \o s \in Seq(Inodes)
OBVIOUS

-----------------------------------------------------------------------------
(* Types *)

\* What a call's progress says about its operation and its item.
Shape(r) ==
  /\ r.pc \in {"take", "release", "putBack"} => r.op \in {"close", "deactivate", "reclaim"}
  /\ r.op = "preallocate" => r.pc \in {"noteKept", "noteLoan"}
  /\ r.op \notin {"none", "unmount"} => r.ino \in Inodes

CallsOK == /\ call \in [Calls -> CallRecord]
           /\ \A c \in Calls : Shape(call[c])

TypeInv == StateOK /\ CallsOK

\* A step that changes one call keeps the others as they are.
LEMMA OneCall ==
  ASSUME CallsOK, NEW c \in Calls, NEW r \in CallRecord, Shape(r),
         call' = [call EXCEPT ![c] = r]
  PROVE  CallsOK'
BY DEF CallsOK, Shape

LEMMA GotoCall ==
  ASSUME CallsOK, NEW c \in Calls, NEW p \in PCs, Goto(c, p), call[c].op # "preallocate",
         p \in {"take", "release", "putBack"} => call[c].op \in {"close", "deactivate", "reclaim"}
  PROVE  CallsOK'
<1> DEFINE r == [call[c] EXCEPT !.pc = p]
<1>1. call[c] \in CallRecord /\ Shape(call[c])
  BY DEF CallsOK
<1>2. r \in CallRecord
  BY <1>1 DEF CallRecord
<1>3. Shape(r)
  BY <1>1, <1>2 DEF Shape, CallRecord
<1>4. call' = [call EXCEPT ![c] = r]
  BY <1>1 DEF Goto, CallsOK, CallRecord
<1> QED
  BY <1>2, <1>3, <1>4, OneCall

LEMMA IdleCall ==
  Idle \in CallRecord /\ Shape(Idle)
BY DEF Idle, CallRecord, Shape, Ops, PCs

LEMMA ReturnCall ==
  ASSUME CallsOK, NEW c \in Calls, Return(c)
  PROVE  CallsOK'
BY IdleCall, OneCall DEF Return

LEMMA BeginCall ==
  ASSUME CallsOK, NEW c \in Calls, NEW op \in Ops, NEW i \in Inodes, NEW p \in PCs,
         Begin(c, op, i, p), op = "preallocate" => p \in {"noteKept", "noteLoan"},
         p \in {"take", "release", "putBack"} => op \in {"close", "deactivate", "reclaim"}
  PROVE  CallsOK'
<1> DEFINE r == [Idle EXCEPT !.op = op, !.ino = i, !.pc = p]
<1>1. r \in CallRecord /\ Shape(r)
  BY IdleCall DEF Idle, CallRecord, Shape
<1> QED
  BY <1>1, OneCall DEF Begin

LEMMA TodoCall ==
  ASSUME CallsOK, NEW c \in Calls, NEW T \in SUBSET Inodes, NEW p \in PCs,
         call[c].op = "unmount", p \in {"drain", "drainTrims"},
         call' = [call EXCEPT ![c].pc = p, ![c].todo = T]
  PROVE  CallsOK'
<1> DEFINE r == [call[c] EXCEPT !.pc = p, !.todo = T]
<1>1. call[c] \in CallRecord /\ Shape(call[c])
  BY DEF CallsOK
<1>2. r \in CallRecord
  BY <1>1 DEF CallRecord
<1>3. Shape(r)
  BY <1>1, <1>2 DEF Shape, CallRecord
<1>4. call' = [call EXCEPT ![c] = r]
  BY <1>1 DEF CallsOK, CallRecord
<1> QED
  BY <1>2, <1>3, <1>4, OneCall

\* A name that goes takes one off a link count that is not zero.
LEMMA NameGoes ==
  ASSUME StateOK, NEW i \in Inodes, links[i] > 0
  PROVE  [links EXCEPT ![i] = @ - 1] \in [Inodes -> 0..MaxLinks]
<1>1. links[i] \in 0..MaxLinks /\ links[i] - 1 \in 0..MaxLinks
  BY ConstAssumption DEF StateOK
<1> QED
  BY <1>1 DEF StateOK

\* Every step of a call that has begun keeps the types.
LEMMA StepType ==
  ASSUME TypeInv, NEW c \in Calls, Step(c)
  PROVE  TypeInv'
<1> USE ConstAssumption DEF TypeInv
<1>0. /\ call[c] \in CallRecord /\ Shape(call[c])
      /\ call[c].op \in Ops /\ call[c].ino \in Inodes \cup {None}
      /\ call[c].pc \in PCs /\ call[c].todo \subseteq Inodes
  BY DEF CallsOK, CallRecord
<1>1. CASE RemoveCheck(c)
  <2>1. CallsOK'
    BY <1>1, GotoCall DEF RemoveCheck, At, PCs
  <2>2. StateOK'
    BY <1>1 DEF RemoveCheck, StateOK, core, volume
  <2> QED
    BY <2>1, <2>2
<1>2. CASE RemoveUnlink(c)
  <2>1. CallsOK'
    BY <1>2, GotoCall, ReturnCall DEF RemoveUnlink, PCs
  <2>2. call[c].ino \in Inodes /\ links[call[c].ino] > 0
    BY <1>2, <1>0 DEF RemoveUnlink, Shape
  <2>3. links' \in [Inodes -> 0..MaxLinks]
    BY <1>2, <2>2, NameGoes DEF RemoveUnlink
  <2>4. orphans' \in Seq(Inodes)
    <3>1. orphans \in Seq(Inodes)
      BY DEF StateOK
    <3>2. orphans' = orphans \/ orphans' = <<call[c].ino>> \o orphans
      BY <1>2 DEF RemoveUnlink, JoinOrphans
    <3> QED
      BY <2>2, <3>1, <3>2, JoinType
  <2>5. alloc' \subseteq Inodes /\ ahead' \subseteq Inodes /\ loan' \subseteq Inodes
    BY <1>2 DEF RemoveUnlink, Freed, Kept, StateOK
  <2>6. fails' \in 0..MaxFails
    BY <1>2 DEF RemoveUnlink, StateOK
  <2>7. StateOK'
    BY <1>2, <2>3, <2>4, <2>5, <2>6 DEF RemoveUnlink, StateOK, volume
  <2> QED
    BY <2>1, <2>7
<1>3. CASE RemoveError(c)
  <2>1. CallsOK'
    BY <1>3, ReturnCall DEF RemoveError
  <2>2. call[c].ino \in Inodes
    BY <1>3, <1>0 DEF RemoveError, Shape
  <2>3. links' \in [Inodes -> 0..MaxLinks]
    <3>1. \/ links' = links
          \/ /\ links[call[c].ino] > 0
             /\ links' = [links EXCEPT ![call[c].ino] = @ - 1]
      BY <1>3 DEF RemoveError, CoreFails, core
    <3>2. links \in [Inodes -> 0..MaxLinks]
      BY DEF StateOK
    <3> QED
      BY <2>2, <3>1, <3>2, NameGoes
  <2>4. fails' \in 0..MaxFails
    BY <1>3 DEF RemoveError, CoreFails, StateOK
  <2>5. UNCHANGED <<alloc, ahead, loan, orphans>>
    BY <1>3 DEF RemoveError, CoreFails, Kept, core
  <2>6. abandoned' \subseteq Inodes
    BY <1>3, <2>2 DEF RemoveError, StateOK
  <2>7. StateOK'
    BY <1>3, <2>3, <2>4, <2>5, <2>6 DEF RemoveError, StateOK, volume
  <2> QED
    BY <2>1, <2>7
<1>4. CASE notePendingRelease(c)
  <2>1. CallsOK'
    BY <1>4, ReturnCall DEF notePendingRelease
  <2>2. StateOK'
    BY <1>4, <1>0 DEF notePendingRelease, At, Shape, StateOK, core
  <2> QED
    BY <2>1, <2>2
<1>5. CASE ReleaseTake(c)
  <2>1. CallsOK'
    BY <1>5, <1>0, GotoCall, ReturnCall DEF ReleaseTake, Shape, PCs
  <2>2. StateOK'
    BY <1>5 DEF ReleaseTake, StateOK, core
  <2> QED
    BY <2>1, <2>2
<1>6. CASE ReleaseBlock(c)
  <2>1. CallsOK'
    BY <1>6, <1>0, GotoCall, ReturnCall DEF ReleaseBlock, Shape, PCs
  <2>2. StateOK'
    <3>1. /\ UNCHANGED links /\ orphans' \in Seq(Inodes) /\ fails' \in 0..MaxFails
          /\ alloc' \subseteq Inodes /\ ahead' \subseteq Inodes /\ loan' \subseteq Inodes
      <4>1. CASE (ReleaseInode(call[c].ino) /\ UNCHANGED fails) \/ ReleaseInodeFails(call[c].ino)
        BY <4>1, ReleaseType
      <4>2. CASE UNCHANGED <<core, fails>>
        BY <4>2 DEF StateOK, core
      <4> QED
        BY <1>6, <4>1, <4>2 DEF ReleaseBlock
    <3> QED
      BY <1>6, <3>1 DEF ReleaseBlock, StateOK, OnExecutor, volume
  <2> QED
    BY <2>1, <2>2
<1>7. CASE ReleasePutBack(c)
  <2>1. CallsOK'
    BY <1>7, ReturnCall DEF ReleasePutBack
  <2>2. StateOK'
    BY <1>7, <1>0 DEF ReleasePutBack, Shape, StateOK, core
  <2> QED
    BY <2>1, <2>2
<1>8. CASE TrimBlock(c)
  <2>1. CallsOK'
    BY <1>8, <1>0, GotoCall DEF TrimBlock, At, Shape, PCs
  <2>2. StateOK'
    BY <1>8 DEF TrimBlock, StateOK, CoreFails, OnExecutor, core, volume
  <2> QED
    BY <2>1, <2>2
<1>9. CASE notePreallocation(c)
  <2>1. CallsOK'
    BY <1>9, ReturnCall DEF notePreallocation
  <2>2. StateOK'
    BY <1>9, <1>0 DEF notePreallocation, Shape, StateOK, core
  <2> QED
    BY <2>1, <2>2
<1>10. CASE UnmountTrims(c)
  <2>1. CallsOK'
    BY <1>10, TodoCall DEF UnmountTrims, At, Snapshot, StateOK, PCs
  <2>2. StateOK'
    BY <1>10 DEF UnmountTrims, StateOK, core
  <2> QED
    BY <2>1, <2>2
<1>11. CASE UnmountClose(c)
  <2>1. CallsOK'
    BY <1>11, ReturnCall DEF UnmountClose
  <2>2. StateOK'
    BY <1>11 DEF UnmountClose, StateOK, OnExecutor, core, volume
  <2> QED
    BY <2>1, <2>2
<1>12. ASSUME NEW i \in Inodes, UnmountRelease(c, i)
       PROVE  TypeInv'
  <2>1. call' = [call EXCEPT ![c].pc = call[c].pc, ![c].todo = call[c].todo \ {i}]
    BY <1>12, <1>0 DEF UnmountRelease, At, CallsOK, CallRecord
  <2>2. CallsOK'
    BY <1>12, <1>0, <2>1, TodoCall DEF UnmountRelease, At
  <2>3. StateOK'
    <3>1. /\ UNCHANGED links /\ orphans' \in Seq(Inodes) /\ fails' \in 0..MaxFails
          /\ alloc' \subseteq Inodes /\ ahead' \subseteq Inodes /\ loan' \subseteq Inodes
      BY <1>12, ReleaseType DEF UnmountRelease
    <3> QED
      BY <1>12, <3>1 DEF UnmountRelease, StateOK, OnExecutor, volume
  <2> QED
    BY <2>2, <2>3
<1>13. ASSUME NEW i \in Inodes, UnmountTrim(c, i)
       PROVE  TypeInv'
  <2>1. call' = [call EXCEPT ![c].pc = call[c].pc, ![c].todo = call[c].todo \ {i}]
    BY <1>13, <1>0 DEF UnmountTrim, At, CallsOK, CallRecord
  <2>2. CallsOK'
    BY <1>13, <1>0, <2>1, TodoCall DEF UnmountTrim, At
  <2>3. StateOK'
    BY <1>13 DEF UnmountTrim, StateOK, CoreFails, OnExecutor, core, volume
  <2> QED
    BY <2>2, <2>3
<1> QED
  BY <1>1, <1>2, <1>3, <1>4, <1>5, <1>6, <1>7, <1>8, <1>9, <1>10, <1>11, <1>12, <1>13 DEF Step

\* What the kernel starts keeps the types too.
LEMMA NextType ==
  ASSUME TypeInv, [Next]_vars
  PROVE  TypeInv'
<1> USE ConstAssumption DEF TypeInv
<1>1. ASSUME NEW c \in Calls, Step(c) PROVE TypeInv'
  BY <1>1, StepType
<1>2. ASSUME NEW c \in Calls, unmount(c) PROVE TypeInv'
  <2> DEFINE r == [Idle EXCEPT !.op = "unmount", !.pc = "drain", !.todo = pendingRelease]
  <2>1. r \in CallRecord /\ Shape(r)
    BY IdleCall DEF Idle, CallRecord, Shape, Ops, PCs, StateOK
  <2>2. CallsOK'
    BY <1>2, <2>1, OneCall DEF unmount, Snapshot
  <2>3. StateOK'
    BY <1>2 DEF unmount, StateOK, core
  <2> QED
    BY <2>2, <2>3
<1>3. ASSUME NEW i \in Inodes, createItem(i) PROVE TypeInv'
  BY <1>3 DEF createItem, CallsOK, StateOK, OnExecutor, volume
<1>4. ASSUME NEW i \in Inodes, lookupItem(i) PROVE TypeInv'
  BY <1>4 DEF lookupItem, CallsOK, StateOK, OnExecutor, core, volume
<1>5. ASSUME NEW i \in Inodes, createLink(i) PROVE TypeInv'
  <2>1. links[i] + 1 \in 0..MaxLinks
    BY <1>5 DEF createLink, StateOK
  <2> QED
    BY <1>5, <2>1 DEF createLink, CallsOK, StateOK, Kept, OnExecutor, volume
<1>6. ASSUME NEW i \in Inodes, renameItem(i) PROVE TypeInv'
  <2>1. links' \in [Inodes -> 0..MaxLinks]
    BY <1>6, NameGoes DEF renameItem
  <2> QED
    BY <1>6, <2>1 DEF renameItem, CallsOK, StateOK, Freed, Kept, OnExecutor, volume
<1>15. ASSUME NEW i \in Inodes, RenameError(i) PROVE TypeInv'
  <2>1. links' \in [Inodes -> 0..MaxLinks]
    BY <1>15, NameGoes DEF RenameError
  <2>2. fails' \in 0..MaxFails
    BY <1>15, ConstAssumption DEF RenameError, StateOK
  <2>3. abandoned' \subseteq Inodes
    BY <1>15 DEF RenameError, StateOK
  <2> QED
    BY <1>15, <2>1, <2>2, <2>3 DEF RenameError, CallsOK, StateOK, Kept, OnExecutor, volume
<1>7. ASSUME NEW i \in Inodes, openItem(i) PROVE TypeInv'
  <2>1. openCounts[i] + 1 \in 0..MaxOpens
    BY <1>7 DEF openItem, StateOK
  <2> QED
    BY <1>7, <2>1 DEF openItem, CallsOK, StateOK, core
<1>8. ASSUME NEW i \in Inodes, NEW c \in Calls, removeItem(c, i) PROVE TypeInv'
  <2>1. CallsOK'
    BY <1>8, BeginCall DEF removeItem, Ops, PCs
  <2> QED
    BY <1>8, <2>1 DEF removeItem, StateOK, core, volume
<1>9. ASSUME NEW i \in Inodes, NEW c \in Calls, closeItem(c, i) PROVE TypeInv'
  <2>1. CallsOK'
    BY <1>9, BeginCall DEF closeItem, CallsOK, Ops, PCs
  <2>2. openCounts[i] - 1 \in 0..MaxOpens
    BY <1>9 DEF closeItem, StateOK
  <2>3. openCounts' \in [Inodes -> 0..MaxOpens]
    BY <1>9, <2>2 DEF closeItem, StateOK
  <2> QED
    BY <1>9, <2>1, <2>3 DEF closeItem, StateOK, core
<1>10. ASSUME NEW i \in Inodes, NEW c \in Calls, deactivateItem(c, i) PROVE TypeInv'
  <2>1. CallsOK'
    BY <1>10, BeginCall DEF deactivateItem, Ops, PCs
  <2> QED
    BY <1>10, <2>1 DEF deactivateItem, StateOK, core
<1>11. ASSUME NEW i \in Inodes, NEW c \in Calls, reclaimItem(c, i) PROVE TypeInv'
  <2>1. CallsOK'
    BY <1>11, BeginCall DEF reclaimItem, Ops, PCs
  <2> QED
    BY <1>11, <2>1 DEF reclaimItem, StateOK, core, volume
<1>12. ASSUME NEW i \in Inodes, NEW c \in Calls, NEW persist \in BOOLEAN,
              preallocateSpace(c, i, persist)
       PROVE  TypeInv'
  <2>1. CallsOK'
    BY <1>12, BeginCall DEF preallocateSpace, Ops, PCs
  <2> QED
    BY <1>12, <2>1 DEF preallocateSpace, StateOK, OnExecutor, volume
<1>13. ASSUME Remount PROVE TypeInv'
  BY <1>13 DEF Remount, CallsOK, StateOK
<1>14. ASSUME UNCHANGED vars PROVE TypeInv'
  BY <1>14 DEF vars, core, volume, CallsOK, StateOK
<1> QED
  BY <1>1, <1>2, <1>3, <1>4, <1>5, <1>6, <1>7, <1>8, <1>9, <1>10, <1>11, <1>12,
     <1>13, <1>14, <1>15 DEF Next

LEMMA InitType == Init => TypeInv
BY IdleCall, ConstAssumption DEF Init, TypeInv, StateOK, CallsOK

LEMMA TypeInvariant == Spec => []TypeInv
<1>1. TypeInv /\ [Next]_vars => TypeInv'
  BY NextType
<1> QED
  BY InitType, <1>1, PTL DEF Spec

\* Every variable of the volume's bookkeeping keeps its type, whatever FSKit
\* sends and however its calls interleave.
THEOREM TypeCorrect == Spec => []TypeOK
<1>1. TypeInv => TypeOK
  BY DEF TypeInv, TypeOK, CallsOK
<1> QED
  BY TypeInvariant, <1>1, PTL

-----------------------------------------------------------------------------
(* Names *)

\* A release or a release that fails touches no link count, and frees only an
\* inode that has no name.
LEMMA ReleaseKeepsNames ==
  ASSUME NamesAllocated, NEW i, ReleaseInode(i) \/ ReleaseInodeFails(i)
  PROVE  NamesAllocated'
BY DEF NamesAllocated, ReleaseInode, ReleaseInodeFails, Freed, Kept

\* Every step keeps names leading to allocated inodes.
LEMMA NextNames ==
  ASSUME TypeInv, NamesAllocated, [Next]_vars
  PROVE  NamesAllocated'
<1> USE DEF NamesAllocated
<1>1. CASE UNCHANGED <<links, alloc>>
  BY <1>1
<1>2. ASSUME NEW c \in Calls, Step(c) PROVE NamesAllocated'
  <2>1. CASE RemoveUnlink(c)
    <3>1. links \in [Inodes -> 0..MaxLinks]
      BY DEF TypeInv, StateOK
    <3> QED
      BY <2>1, <3>1 DEF RemoveUnlink, LastName, Freed, Kept
  <2>2. CASE RemoveError(c)
    <3>1. links \in [Inodes -> 0..MaxLinks] /\ MaxLinks \in Nat
      BY ConstAssumption DEF TypeInv, StateOK
    <3> QED
      BY <2>2, <3>1 DEF RemoveError, CoreFails, Kept, core
  <2>3. CASE ReleaseBlock(c)
    BY <2>3, ReleaseKeepsNames DEF ReleaseBlock, core
  <2>4. ASSUME NEW i \in Inodes, UnmountRelease(c, i) PROVE NamesAllocated'
    BY <2>4, ReleaseKeepsNames DEF UnmountRelease
  <2>5. CASE TrimBlock(c)
    BY <2>5 DEF TrimBlock, CoreFails, core
  <2>6. ASSUME NEW i \in Inodes, UnmountTrim(c, i) PROVE NamesAllocated'
    BY <2>6 DEF UnmountTrim, CoreFails, core
  <2>7. CASE RemoveCheck(c) \/ notePendingRelease(c) \/ ReleaseTake(c) \/ ReleasePutBack(c)
             \/ notePreallocation(c) \/ UnmountTrims(c) \/ UnmountClose(c)
    BY <2>7 DEF RemoveCheck, notePendingRelease, ReleaseTake, ReleasePutBack,
                notePreallocation, UnmountTrims, UnmountClose, core
  <2> QED
    BY <1>2, <2>1, <2>2, <2>3, <2>4, <2>5, <2>6, <2>7 DEF Step
<1>3. ASSUME NEW i \in Inodes, createItem(i) PROVE NamesAllocated'
  BY <1>3 DEF createItem, TypeInv, StateOK
<1>4. ASSUME NEW i \in Inodes, createLink(i) PROVE NamesAllocated'
  BY <1>4 DEF createLink, Kept, TypeInv, StateOK
<1>5. ASSUME NEW i \in Inodes, renameItem(i) PROVE NamesAllocated'
  <2>1. links \in [Inodes -> 0..MaxLinks]
    BY DEF TypeInv, StateOK
  <2> QED
    BY <1>5, <2>1 DEF renameItem, Freed, Kept
<1>11. ASSUME NEW i \in Inodes, RenameError(i) PROVE NamesAllocated'
  <2>1. links \in [Inodes -> 0..MaxLinks]
    BY DEF TypeInv, StateOK
  <2> QED
    BY <1>11, <2>1 DEF RenameError, Kept
<1>6. ASSUME Remount PROVE NamesAllocated'
  BY <1>6 DEF Remount, TypeInv, StateOK
<1>7. ASSUME NEW i \in Inodes, NEW c \in Calls,
             \/ removeItem(c, i) \/ closeItem(c, i) \/ deactivateItem(c, i)
             \/ reclaimItem(c, i) \/ \E persist \in BOOLEAN : preallocateSpace(c, i, persist)
      PROVE  UNCHANGED <<links, alloc>>
  BY <1>7 DEF removeItem, closeItem, deactivateItem, reclaimItem, preallocateSpace, core
<1>8. ASSUME NEW i \in Inodes, lookupItem(i) \/ openItem(i) PROVE UNCHANGED <<links, alloc>>
  BY <1>8 DEF lookupItem, openItem, core
<1>9. ASSUME NEW c \in Calls, unmount(c) PROVE UNCHANGED <<links, alloc>>
  BY <1>9 DEF unmount, core
<1>10. ASSUME UNCHANGED vars PROVE UNCHANGED <<links, alloc>>
  BY <1>10 DEF vars, core
<1> QED
  BY <1>1, <1>2, <1>3, <1>4, <1>5, <1>6, <1>7, <1>8, <1>9, <1>10, <1>11 DEF Next

\* A name never leads to a free inode, whatever interleaving of unlinks, renames
\* and deferred releases freed it.
THEOREM NamesAlwaysAllocated == Spec => []NamesAllocated
<1>1. Init => NamesAllocated
  BY ConstAssumption DEF Init, NamesAllocated
<1>2. TypeInv /\ NamesAllocated /\ [Next]_vars => NamesAllocated'
  BY NextNames
<1> QED
  BY <1>1, <1>2, TypeInvariant, PTL DEF Spec

-----------------------------------------------------------------------------
(* Open files *)

\* The kernel opens no item while it is being removed, closed for the last time,
\* deactivated or reclaimed, and renames over no open file.
NoOpenRaces == KernelRaces \cap {"open", "reopen", "rename"} = {}

\* What a call may rely on about the descriptors of its item: whoever is on the
\* way to free an inode has seen its last descriptor go, and none comes back.
SafeCall(r) ==
  /\ r.op \in {"close", "deactivate", "reclaim"} => openCounts[r.ino] = 0
  /\ r.op = "remove" /\ r.pc = "checkedFree" => openCounts[r.ino] = 0
  /\ r.op = "unmount" => \A i \in Inodes : openCounts[i] = 0

CallsSafe == \A c \in Calls : SafeCall(call[c])

OpenInv == NoOpenInodeFreed /\ CallsSafe

LEMMA OneSafe ==
  ASSUME CallsOK, CallsSafe, NEW c \in Calls, NEW r \in CallRecord, SafeCall(r),
         call' = [call EXCEPT ![c] = r], UNCHANGED openCounts
  PROVE  CallsSafe'
BY DEF CallsOK, CallsSafe, SafeCall

LEMMA GotoSafe ==
  ASSUME CallsOK, CallsSafe, NEW c \in Calls, NEW p \in PCs, Goto(c, p),
         p = "checkedFree" => openCounts[call[c].ino] = 0, UNCHANGED openCounts
  PROVE  CallsSafe'
<1> DEFINE r == [call[c] EXCEPT !.pc = p]
<1>1. call[c] \in CallRecord /\ SafeCall(call[c])
  BY DEF CallsOK, CallsSafe
<1>2. r \in CallRecord
  BY <1>1 DEF CallRecord
<1>3. SafeCall(r)
  BY <1>1, <1>2 DEF SafeCall, CallRecord
<1>4. call' = [call EXCEPT ![c] = r]
  BY <1>1 DEF Goto, CallsOK, CallRecord
<1> QED
  BY <1>2, <1>3, <1>4, OneSafe

LEMMA ReturnSafe ==
  ASSUME CallsOK, CallsSafe, NEW c \in Calls, Return(c), UNCHANGED openCounts
  PROVE  CallsSafe'
<1>1. SafeCall(Idle)
  BY DEF SafeCall, Idle
<1> QED
  BY <1>1, IdleCall, OneSafe DEF Return

LEMMA TodoSafe ==
  ASSUME CallsOK, CallsSafe, NEW c \in Calls, NEW T \in SUBSET Inodes, NEW p \in PCs,
         p \in {"drain", "drainTrims"}, UNCHANGED openCounts,
         call' = [call EXCEPT ![c].pc = p, ![c].todo = T]
  PROVE  CallsSafe'
<1> DEFINE r == [call[c] EXCEPT !.pc = p, !.todo = T]
<1>1. call[c] \in CallRecord /\ SafeCall(call[c])
  BY DEF CallsOK, CallsSafe
<1>2. r \in CallRecord
  BY <1>1 DEF CallRecord
<1>3. SafeCall(r)
  BY <1>1, <1>2 DEF SafeCall, CallRecord
<1>4. call' = [call EXCEPT ![c] = r]
  BY <1>1 DEF CallsOK, CallRecord
<1> QED
  BY <1>2, <1>3, <1>4, OneSafe

LEMMA BeginSafe ==
  ASSUME CallsOK, CallsSafe, NEW c \in Calls, NEW op \in Ops \ {"unmount"}, NEW i \in Inodes,
         NEW p \in PCs \ {"checkedFree"}, Begin(c, op, i, p), UNCHANGED openCounts,
         op \in {"close", "deactivate", "reclaim"} => openCounts[i] = 0
  PROVE  CallsSafe'
<1> DEFINE r == [Idle EXCEPT !.op = op, !.ino = i, !.pc = p]
<1>1. r \in CallRecord /\ SafeCall(r)
  BY IdleCall DEF Idle, CallRecord, SafeCall
<1> QED
  BY <1>1, OneSafe DEF Begin

\* A release of an inode that is not open frees no open inode.
LEMMA ReleaseKeepsOpen ==
  ASSUME NoOpenInodeFreed, NEW i \in Inodes, openCounts[i] = 0, UNCHANGED openCounts,
         ReleaseInode(i) \/ ReleaseInodeFails(i)
  PROVE  NoOpenInodeFreed'
BY DEF NoOpenInodeFreed, ReleaseInode, ReleaseInodeFails, Freed, Kept

LEMMA StepOpen ==
  ASSUME TypeInv, OpenInv, NEW c \in Calls, Step(c)
  PROVE  OpenInv'
<1> USE DEF TypeInv, OpenInv
<1>0. /\ Shape(call[c]) /\ SafeCall(call[c])
      /\ call[c].pc \in PCs /\ call[c].todo \subseteq Inodes
  BY DEF CallsOK, CallsSafe, CallRecord
<1>1. CASE RemoveCheck(c)
  <2>1. openCounts[call[c].ino] \in Nat
    BY <1>0, <1>1, ConstAssumption DEF RemoveCheck, At, Shape, StateOK
  <2>2. CallsSafe'
    <3>1. CASE openCounts[call[c].ino] > 0
      BY <1>1, <3>1, GotoSafe DEF RemoveCheck, PCs, volume
    <3>2. CASE ~(openCounts[call[c].ino] > 0)
      BY <1>1, <2>1, <3>2, GotoSafe DEF RemoveCheck, PCs, volume
    <3> QED
      BY <3>1, <3>2
  <2>3. NoOpenInodeFreed'
    BY <1>1 DEF RemoveCheck, NoOpenInodeFreed, core, volume
  <2> QED
    BY <2>2, <2>3
<1>2. CASE RemoveUnlink(c)
  <2>1. CallsSafe'
    BY <1>2, GotoSafe, ReturnSafe DEF RemoveUnlink, PCs, volume
  <2>2. call[c].ino \in Inodes
    BY <1>0, <1>2 DEF RemoveUnlink, Shape
  <2>3. NoOpenInodeFreed'
    BY <1>0, <1>2, <2>2 DEF RemoveUnlink, SafeCall, NoOpenInodeFreed, Freed, Kept, volume
  <2> QED
    BY <2>1, <2>3
<1>3. CASE RemoveError(c)
  <2>1. CallsSafe'
    BY <1>3, ReturnSafe DEF RemoveError, volume
  <2>2. NoOpenInodeFreed'
    BY <1>3 DEF RemoveError, CoreFails, NoOpenInodeFreed, Kept, core, volume
  <2> QED
    BY <2>1, <2>2
<1>4. CASE notePendingRelease(c) \/ ReleasePutBack(c) \/ notePreallocation(c)
  <2>1. CallsSafe'
    BY <1>4, ReturnSafe DEF notePendingRelease, ReleasePutBack, notePreallocation
  <2>2. NoOpenInodeFreed'
    BY <1>4 DEF notePendingRelease, ReleasePutBack, notePreallocation, NoOpenInodeFreed, core
  <2> QED
    BY <2>1, <2>2
<1>5. CASE ReleaseTake(c)
  <2>1. CallsSafe'
    BY <1>5, GotoSafe, ReturnSafe DEF ReleaseTake, PCs
  <2>2. NoOpenInodeFreed'
    BY <1>5 DEF ReleaseTake, NoOpenInodeFreed, core
  <2> QED
    BY <2>1, <2>2
<1>6. CASE ReleaseBlock(c)
  <2>1. CallsSafe'
    BY <1>6, GotoSafe, ReturnSafe DEF ReleaseBlock, PCs, volume
  <2>2. call[c].ino \in Inodes /\ openCounts[call[c].ino] = 0
    BY <1>0, <1>6 DEF ReleaseBlock, Shape, SafeCall
  <2>3. NoOpenInodeFreed'
    <3>1. CASE UNCHANGED core
      BY <1>6, <3>1 DEF ReleaseBlock, NoOpenInodeFreed, core, volume
    <3>2. CASE ReleaseInode(call[c].ino) \/ ReleaseInodeFails(call[c].ino)
      BY <1>6, <2>2, <3>2, ReleaseKeepsOpen DEF ReleaseBlock, volume
    <3> QED
      BY <1>6, <3>1, <3>2 DEF ReleaseBlock
  <2> QED
    BY <2>1, <2>3
<1>7. CASE TrimBlock(c)
  <2>1. CallsSafe'
    BY <1>7, GotoSafe DEF TrimBlock, PCs, volume
  <2>2. NoOpenInodeFreed'
    BY <1>7 DEF TrimBlock, CoreFails, NoOpenInodeFreed, core, volume
  <2> QED
    BY <2>1, <2>2
<1>8. CASE UnmountTrims(c)
  <2>1. CallsSafe'
    BY <1>8, TodoSafe DEF UnmountTrims, At, Snapshot, StateOK, PCs
  <2>2. NoOpenInodeFreed'
    BY <1>8 DEF UnmountTrims, NoOpenInodeFreed, core
  <2> QED
    BY <2>1, <2>2
<1>9. CASE UnmountClose(c)
  <2>1. CallsSafe'
    BY <1>9, ReturnSafe DEF UnmountClose, volume
  <2>2. NoOpenInodeFreed'
    BY <1>9 DEF UnmountClose, NoOpenInodeFreed, core, volume
  <2> QED
    BY <2>1, <2>2
<1>10. ASSUME NEW i \in Inodes, UnmountRelease(c, i) PROVE OpenInv'
  <2>1. call' = [call EXCEPT ![c].pc = call[c].pc, ![c].todo = call[c].todo \ {i}]
    BY <1>10, <1>0 DEF UnmountRelease, At, CallsOK, CallRecord
  <2>2. CallsSafe'
    BY <1>10, <1>0, <2>1, TodoSafe DEF UnmountRelease, At, volume
  <2>3. openCounts[i] = 0
    BY <1>0, <1>10 DEF UnmountRelease, At, SafeCall
  <2>4. NoOpenInodeFreed'
    BY <1>10, <2>3, ReleaseKeepsOpen DEF UnmountRelease, volume
  <2> QED
    BY <2>2, <2>4
<1>11. ASSUME NEW i \in Inodes, UnmountTrim(c, i) PROVE OpenInv'
  <2>1. call' = [call EXCEPT ![c].pc = call[c].pc, ![c].todo = call[c].todo \ {i}]
    BY <1>11, <1>0 DEF UnmountTrim, At, CallsOK, CallRecord
  <2>2. CallsSafe'
    BY <1>11, <1>0, <2>1, TodoSafe DEF UnmountTrim, At, volume
  <2>3. NoOpenInodeFreed'
    BY <1>11 DEF UnmountTrim, CoreFails, NoOpenInodeFreed, core, volume
  <2> QED
    BY <2>2, <2>3
<1> QED
  BY <1>1, <1>2, <1>3, <1>4, <1>5, <1>6, <1>7, <1>8, <1>9, <1>10, <1>11 DEF Step

LEMMA NextOpen ==
  ASSUME NoOpenRaces, TypeInv, NamesAllocated, OpenInv, [Next]_vars
  PROVE  OpenInv'
<1> USE DEF TypeInv, OpenInv
<1>1. ASSUME NEW c \in Calls, Step(c) PROVE OpenInv'
  BY <1>1, StepOpen
<1>2. ASSUME NEW c \in Calls, unmount(c) PROVE OpenInv'
  <2> DEFINE r == [Idle EXCEPT !.op = "unmount", !.pc = "drain", !.todo = pendingRelease]
  <2>1. r \in CallRecord
    BY IdleCall DEF Idle, CallRecord, Ops, PCs, StateOK
  <2>2. SafeCall(r)
    BY <1>2 DEF unmount, SafeCall, Idle
  <2>3. CallsSafe'
    BY <1>2, <2>1, <2>2, OneSafe DEF unmount, Snapshot
  <2>4. NoOpenInodeFreed'
    BY <1>2 DEF unmount, NoOpenInodeFreed, core
  <2> QED
    BY <2>3, <2>4
<1>3. ASSUME NEW i \in Inodes, createItem(i) \/ lookupItem(i) \/ createLink(i) PROVE OpenInv'
  <2>1. UNCHANGED <<openCounts, call>> /\ alloc \subseteq alloc'
    BY <1>3 DEF createItem, lookupItem, createLink, Kept, core, volume
  <2> QED
    BY <2>1 DEF NoOpenInodeFreed, CallsSafe, SafeCall
<1>4. ASSUME NEW i \in Inodes, renameItem(i) PROVE OpenInv'
  <2>1. openCounts[i] = 0
    BY <1>4 DEF renameItem, NoOpenRaces
  <2> QED
    BY <1>4, <2>1 DEF renameItem, Freed, Kept, volume, NoOpenInodeFreed, CallsSafe, SafeCall
<1>12. ASSUME NEW i \in Inodes, RenameError(i) PROVE OpenInv'
  BY <1>12 DEF RenameError, Kept, volume, NoOpenInodeFreed, CallsSafe, SafeCall
<1>5. ASSUME NEW i \in Inodes, openItem(i) PROVE OpenInv'
  <2>1. i \in alloc
    BY <1>5 DEF openItem, NamesAllocated, NoOpenInodeFreed
  <2>2. ~Removing(i) /\ ~Releasing(i) /\ ~Unmounting
    BY <1>5 DEF openItem, NoOpenRaces
  <2>3. \A j \in Inodes : j # i => openCounts'[j] = openCounts[j]
    BY <1>5 DEF openItem, StateOK
  <2>4. NoOpenInodeFreed'
    BY <1>5, <2>1, <2>3 DEF openItem, NoOpenInodeFreed, core
  <2>5. ASSUME NEW c \in Calls PROVE SafeCall(call[c])'
    <3>1. Shape(call[c]) /\ SafeCall(call[c]) /\ UNCHANGED call
      BY <1>5 DEF openItem, CallsOK, CallsSafe
    <3>2. call[c].op \in {"remove", "close", "deactivate", "reclaim"} => call[c].ino # i
      BY <2>2 DEF Removing, Releasing
    <3>3. call[c].op # "unmount"
      BY <2>2 DEF Unmounting
    <3> QED
      BY <2>3, <3>1, <3>2, <3>3 DEF Shape, SafeCall
  <2> QED
    BY <2>4, <2>5 DEF CallsSafe
<1>6. ASSUME NEW i \in Inodes, NEW c \in Calls, removeItem(c, i) PROVE OpenInv'
  <2>1. CallsSafe'
    BY <1>6, BeginSafe DEF removeItem, Ops, PCs, volume
  <2> QED
    BY <1>6, <2>1 DEF removeItem, NoOpenInodeFreed, core, volume
<1>7. ASSUME NEW i \in Inodes, NEW c \in Calls, closeItem(c, i) PROVE OpenInv'
  <2>1. openCounts \in [Inodes -> 0..MaxOpens] /\ MaxOpens \in Nat
    BY ConstAssumption DEF StateOK
  <2>2. openCounts'[i] = openCounts[i] - 1
    BY <1>7, <2>1 DEF closeItem
  <2>3. \A j \in Inodes : j # i => openCounts'[j] = openCounts[j]
    BY <1>7, <2>1 DEF closeItem
  <2>4. NoOpenInodeFreed'
    <3>1. UNCHANGED alloc /\ openCounts[i] > 0
      BY <1>7 DEF closeItem, core
    <3> QED
      BY <2>1, <2>2, <2>3, <3>1 DEF NoOpenInodeFreed
  <2>5. ASSUME NEW d \in Calls, call'[d] = call[d] PROVE SafeCall(call[d])'
    <3>1. Shape(call[d]) /\ SafeCall(call[d])
      BY DEF CallsOK, CallsSafe
    <3>2. openCounts[i] > 0
      BY <1>7 DEF closeItem
    <3>3. call[d].op \in {"close", "deactivate", "reclaim"} => call[d].ino # i
      BY <3>1, <3>2 DEF SafeCall
    <3>4. call[d].op = "remove" /\ call[d].pc = "checkedFree" => call[d].ino # i
      BY <3>1, <3>2 DEF SafeCall
    <3>5. call[d].op # "unmount"
      BY <3>1, <3>2 DEF SafeCall
    <3> QED
      BY <2>3, <2>5, <3>1, <3>3, <3>4, <3>5 DEF Shape, SafeCall
  <2>6. CASE openCounts[i] = 1
    <3>1. call' = [call EXCEPT ![c] = [Idle EXCEPT !.op = "close", !.ino = i, !.pc = "take"]]
      BY <1>7, <2>6 DEF closeItem, Begin
    <3>2. call'[c].op = "close" /\ call'[c].ino = i
      BY <3>1 DEF CallsOK, Idle
    <3>3. openCounts'[i] = 0
      BY <2>2, <2>6
    <3>4. SafeCall(call[c])'
      BY <3>2, <3>3 DEF SafeCall
    <3>5. \A d \in Calls : d # c => call'[d] = call[d]
      BY <3>1 DEF CallsOK
    <3> QED
      BY <2>4, <2>5, <3>4, <3>5 DEF CallsSafe
  <2>7. CASE openCounts[i] # 1
    <3>1. UNCHANGED call
      BY <1>7, <2>7 DEF closeItem
    <3> QED
      BY <2>4, <2>5, <3>1 DEF CallsSafe
  <2> QED
    BY <2>6, <2>7
<1>8. ASSUME NEW i \in Inodes, NEW c \in Calls, deactivateItem(c, i) \/ reclaimItem(c, i)
      PROVE  OpenInv'
  <2>1. openCounts[i] = 0 /\ UNCHANGED <<openCounts, alloc>>
    BY <1>8 DEF deactivateItem, reclaimItem, Unused, core, volume
  <2>2. CallsSafe'
    BY <1>8, <2>1, BeginSafe DEF deactivateItem, reclaimItem, Ops, PCs
  <2> QED
    BY <2>1, <2>2 DEF NoOpenInodeFreed
<1>9. ASSUME NEW i \in Inodes, NEW c \in Calls, NEW persist \in BOOLEAN,
             preallocateSpace(c, i, persist)
      PROVE  OpenInv'
  <2>1. CallsSafe'
    BY <1>9, BeginSafe DEF preallocateSpace, Ops, PCs, volume
  <2> QED
    BY <1>9, <2>1 DEF preallocateSpace, NoOpenInodeFreed, volume
<1>10. ASSUME Remount PROVE OpenInv'
  <2>1. \A i \in Inodes : openCounts'[i] = 0
    BY <1>10 DEF Remount
  <2>2. \A c \in Calls : call'[c] = Idle
    BY <1>10 DEF Remount
  <2> QED
    BY <2>1, <2>2 DEF NoOpenInodeFreed, CallsSafe, SafeCall, Idle
<1>11. ASSUME UNCHANGED vars PROVE OpenInv'
  BY <1>11 DEF vars, core, volume, NoOpenInodeFreed, CallsSafe, SafeCall
<1> QED
  BY <1>1, <1>2, <1>3, <1>4, <1>5, <1>6, <1>7, <1>8, <1>9, <1>10, <1>11, <1>12 DEF Next

\* As long as the kernel neither opens an item that is being removed or let go
\* nor renames over an open file, an open inode is never freed: not by unlink,
\* nor by the deferred release of closeItem, deactivateItem, reclaimItem or
\* unmount.
THEOREM OpenNeverFreed == NoOpenRaces => (Spec => []NoOpenInodeFreed)
<1> SUFFICES ASSUME NoOpenRaces PROVE Spec => []NoOpenInodeFreed
  OBVIOUS
<1>1. Init => OpenInv
  BY ConstAssumption DEF Init, OpenInv, NoOpenInodeFreed, CallsSafe, SafeCall, Idle
<1>2. TypeInv /\ NamesAllocated /\ OpenInv /\ [Next]_vars => OpenInv'
  BY NextOpen
<1>3. OpenInv => NoOpenInodeFreed
  BY DEF OpenInv
<1> QED
  BY <1>1, <1>2, <1>3, TypeInvariant, NamesAlwaysAllocated, PTL DEF Spec
=============================================================================
