--------------------------- MODULE Release_proofs ---------------------------
(***************************************************************************)
(* Who owes the release of an inode without names, and what an unmount     *)
(* leaves behind, proved for OpenUnlink with any number of inodes, calls,  *)
(* names, descriptors and failures.                                        *)
(***************************************************************************)
EXTENDS OpenUnlink_proofs, FiniteSetTheorems

-----------------------------------------------------------------------------
(* Chains *)

\* Taking an entry out of a chain that names no inode twice takes out that
\* inode and nothing else (orphan_del).
LEMMA WithoutRange ==
  ASSUME NEW s \in Seq(Inodes), IsInjective(s), NEW i
  PROVE  /\ Range(Without(s, i)) = Range(s) \ {i}
         /\ IsInjective(Without(s, i))
<1>1. CASE i \notin Range(s)
  BY <1>1 DEF Without
<1>2. CASE i \in Range(s)
  <2> DEFINE k == CHOOSE n \in DOMAIN s : s[n] = i
             t == [n \in 1..(Len(s) - 1) |-> IF n < k THEN s[n] ELSE s[n + 1]]
  <2>1. \E n \in DOMAIN s : s[n] = i
    BY <1>2 DEF Range
  <2>2. k \in DOMAIN s /\ s[k] = i
    BY <2>1
  <2>3. Len(s) \in Nat /\ DOMAIN s = 1..Len(s)
    OBVIOUS
  <2>4. k \in 1..Len(s) /\ k \in Nat
    BY <2>2, <2>3
  <2> HIDE DEF k
  <2>5. \A m, n \in 1..Len(s) : s[m] = s[n] => m = n
    BY <2>3 DEF IsInjective
  <2>6. DOMAIN t = 1..(Len(s) - 1)
    OBVIOUS
  <2>7. \A n \in DOMAIN t : t[n] = s[IF n < k THEN n ELSE n + 1]
    BY <2>6
  <2>8. \A n \in DOMAIN t : (IF n < k THEN n ELSE n + 1) \in (1..Len(s)) \ {k}
    BY <2>3, <2>4, <2>6
  <2>9. IsInjective(t)
    <3> SUFFICES ASSUME NEW m \in DOMAIN t, NEW n \in DOMAIN t, t[m] = t[n]
                 PROVE  m = n
      BY DEF IsInjective
    <3>1. (IF m < k THEN m ELSE m + 1) = (IF n < k THEN n ELSE n + 1)
      BY <2>5, <2>7, <2>8
    <3>2. m \in Nat /\ n \in Nat
      BY <2>3, <2>6
    <3> QED
      BY <3>1, <3>2, <2>4
  <2>10. \A n \in DOMAIN t : t[n] \in Range(s) \ {i}
    BY <2>2, <2>3, <2>5, <2>7, <2>8 DEF Range
  <2>11. ASSUME NEW j \in Range(s) \ {i} PROVE j \in Range(t)
    <3>1. PICK m \in 1..Len(s) : s[m] = j /\ m # k
      BY <2>2, <2>3 DEF Range
    <3>2. CASE m < k
      <4>1. m \in DOMAIN t
        BY <2>3, <2>4, <2>6, <3>2
      <4>2. t[m] = j
        BY <2>7, <3>1, <3>2, <4>1
      <4> QED
        BY <4>1, <4>2 DEF Range
    <3>3. CASE ~(m < k)
      <4>1. m - 1 \in DOMAIN t /\ ~(m - 1 < k) /\ (m - 1) + 1 = m
        BY <2>3, <2>4, <2>6, <3>1, <3>3
      <4>2. t[m - 1] = j
        BY <2>7, <3>1, <4>1
      <4> QED
        BY <4>1, <4>2 DEF Range
    <3> QED
      BY <3>2, <3>3
  <2>12. Range(t) = Range(s) \ {i}
    BY <2>10, <2>11 DEF Range
  <2>13. Without(s, i) = t
    BY <1>2 DEF Without, k
  <2> QED
    BY <2>9, <2>12, <2>13
<1> QED
  BY <1>1, <1>2

\* An inode that is not on the chain joins it at the head.
LEMMA JoinRange ==
  ASSUME NEW s \in Seq(Inodes), IsInjective(s), NEW i \in Inodes, i \notin Range(s)
  PROVE  /\ Range(<<i>> \o s) = Range(s) \cup {i}
         /\ IsInjective(<<i>> \o s)
<1> DEFINE t == <<i>> \o s
<1>1. Len(s) \in Nat /\ DOMAIN s = 1..Len(s) /\ DOMAIN t = 1..(Len(s) + 1)
  OBVIOUS
<1>2. t[1] = i /\ \A n \in 1..Len(s) : t[n + 1] = s[n]
  OBVIOUS
<1> HIDE DEF t
<1>3. \A n \in DOMAIN t : n = 1 \/ (n - 1 \in 1..Len(s) /\ t[n] = s[n - 1])
  BY <1>1, <1>2
<1>4. \A n \in 1..Len(s) : s[n] # i
  BY <1>1 DEF Range
<1>5. IsInjective(t)
  <2> SUFFICES ASSUME NEW m \in DOMAIN t, NEW n \in DOMAIN t, t[m] = t[n]
               PROVE  m = n
    BY DEF IsInjective
  <2>1. m \in Nat /\ n \in Nat
    BY <1>1
  <2>2. CASE m = 1 \/ n = 1
    BY <1>2, <1>3, <1>4, <2>2
  <2>3. CASE m # 1 /\ n # 1
    <3>1. m - 1 \in DOMAIN s /\ n - 1 \in DOMAIN s /\ s[m - 1] = s[n - 1]
      BY <1>1, <1>3, <2>3
    <3>2. m - 1 = n - 1
      BY <3>1 DEF IsInjective
    <3> QED
      BY <2>1, <3>2
  <2> QED
    BY <2>2, <2>3
<1>6. Range(t) \subseteq Range(s) \cup {i}
  BY <1>1, <1>2, <1>3 DEF Range
<1>7. i \in Range(t)
  <2>1. 1 \in DOMAIN t
    BY <1>1
  <2> QED
    BY <1>2, <2>1 DEF Range
<1>8. ASSUME NEW j \in Range(s) PROVE j \in Range(t)
  <2>1. PICK n \in 1..Len(s) : s[n] = j
    BY <1>1 DEF Range
  <2>2. n + 1 \in DOMAIN t
    BY <1>1
  <2> QED
    BY <1>2, <2>1, <2>2 DEF Range
<1> QED
  BY <1>5, <1>6, <1>7, <1>8 DEF t

\* A chain that names no inode twice is as long as the set it names.
LEMMA ChainLength ==
  ASSUME NEW s \in Seq(Inodes), IsInjective(s)
  PROVE  Len(s) = Cardinality(Range(s))
<1>1. Len(s) \in Nat /\ DOMAIN s = 1..Len(s)
  OBVIOUS
<1>2. s \in [1..Len(s) -> Range(s)]
  BY <1>1 DEF Range
<1>3. s \in Bijection(1..Len(s), Range(s))
  BY <1>1, <1>2 DEF Bijection, Injection, Surjection, Range
<1>4. IsFiniteSet(1..Len(s)) /\ Cardinality(1..Len(s)) = Len(s)
  BY <1>1, FS_Interval
<1> QED
  BY <1>3, <1>4, FS_Bijection DEF ExistsBijection

-----------------------------------------------------------------------------
(* Duties *)

\* The inodes a call has to release or to put back: from ext4b_unlink_ex to
\* notePendingRelease, from releaseIfPending's critical section to the end of
\* the release, and while releaseAllPending works through its snapshot.
Duties(r) ==
  {i \in Inodes : \/ r.ino = i /\ r.pc \in {"note", "release", "putBack"}
                  \/ r.pc = "drain" /\ i \in r.todo}

\* Every duty is held once, and for an inode without names.
DutyInv ==
  /\ pendingRelease \subseteq Unreferenced
  /\ \A c \in Calls : /\ Duties(call[c]) \subseteq Unreferenced
                      /\ Duties(call[c]) \cap pendingRelease = {}
  /\ \A c, d \in Calls : c # d => Duties(call[c]) \cap Duties(call[d]) = {}

\* Every inode without names that has not been given up is somebody's duty.
Owed == \A i \in Unreferenced \ abandoned :
          i \in pendingRelease \/ \E c \in Calls : i \in Duties(call[c])
OwedInv == mounted /\ ~Unmounting => Owed

\* The orphan list names exactly the inodes without names, each once.
ListInv == fails = 0 => Range(orphans) = Unreferenced /\ IsInjective(orphans)

TrackInv == DutyInv /\ OwedInv /\ ListInv

LEMMA OwingIsDuty ==
  ASSUME NEW i \in Inodes
  PROVE  Owing(i) <=> \E c \in Calls : i \in Duties(call[c])
BY DEF Owing, Duties

LEMMA NoDuties ==
  ASSUME NEW r, r.pc \notin {"note", "release", "putBack", "drain"}
  PROVE  Duties(r) = {}
BY DEF Duties

LEMMA OneDuty ==
  ASSUME NEW r, r.pc \in {"note", "release", "putBack"}, r.ino \in Inodes
  PROVE  Duties(r) = {r.ino}
BY DEF Duties

\* What a call that changes alone may do to the duties: c and pendingRelease end
\* up with disjoint sets of inodes without names, taken from what they held
\* before and from inodes that had names, and no other inode gets a name or is
\* freed.
LEMMA DutyStep ==
  ASSUME TypeInv, DutyInv, NEW c \in Calls,
         \A d \in Calls \ {c} : call'[d] = call[d],
         (Duties(call[c]))' \cup pendingRelease' \subseteq Unreferenced',
         (Duties(call[c]))' \cap pendingRelease' = {},
         \A i \in (Duties(call[c]))' \cup pendingRelease' :
            i \in Duties(call[c]) \cup pendingRelease \/ i \notin Unreferenced,
         \A i \in Unreferenced :
            i \in Duties(call[c]) \cup pendingRelease \/ i \in Unreferenced'
  PROVE  DutyInv'
<1>1. ASSUME NEW d \in Calls \ {c}
      PROVE  /\ (Duties(call[d]))' = Duties(call[d])
             /\ Duties(call[d]) \subseteq Unreferenced
             /\ Duties(call[d]) \cap (Duties(call[c]) \cup pendingRelease) = {}
  BY <1>1 DEF DutyInv, Duties
<1>2. ASSUME NEW d \in Calls \ {c}
      PROVE  /\ (Duties(call[d]))' \subseteq Unreferenced'
             /\ (Duties(call[d]))' \cap ((Duties(call[c]))' \cup pendingRelease') = {}
  BY <1>1, <1>2
<1>3. ASSUME NEW d \in Calls \ {c}, NEW e \in Calls \ {c}, d # e
      PROVE  (Duties(call[d]))' \cap (Duties(call[e]))' = {}
  BY <1>1, <1>3 DEF DutyInv
<1> QED
  BY <1>2, <1>3 DEF DutyInv

\* What it may do to the inodes without names: each one after the step is a duty
\* of c or in pendingRelease, or was without names and neither before.
LEMMA OwedStep ==
  ASSUME OwedInv, NEW c \in Calls,
         \A d \in Calls \ {c} : call'[d] = call[d],
         mounted' /\ ~Unmounting' => mounted /\ ~Unmounting,
         \A i \in Unreferenced' \ abandoned' :
            \/ i \in (Duties(call[c]))' \cup pendingRelease'
            \/ /\ i \in Unreferenced \ abandoned
               /\ i \notin Duties(call[c]) \cup pendingRelease
  PROVE  OwedInv'
<1> SUFFICES ASSUME mounted', ~Unmounting', NEW i \in Unreferenced' \ abandoned'
             PROVE  i \in pendingRelease' \/ \E d \in Calls : i \in (Duties(call[d]))'
  BY DEF OwedInv, Owed
<1>1. ASSUME NEW d \in Calls \ {c} PROVE (Duties(call[d]))' = Duties(call[d])
  BY <1>1 DEF Duties
<1>2. CASE i \in (Duties(call[c]))' \cup pendingRelease'
  BY <1>2
<1>3. CASE i \in Unreferenced \ abandoned /\ i \notin Duties(call[c]) \cup pendingRelease
  <2>1. PICK d \in Calls \ {c} : i \in Duties(call[d])
    BY <1>3 DEF OwedInv, Owed
  <2> QED
    BY <1>1, <2>1
<1> QED
  BY <1>2, <1>3

\* A step that leaves calls, duties and the inodes without names alone.
LEMMA SameDuties ==
  ASSUME DutyInv, OwedInv,
         UNCHANGED <<call, pendingRelease>>, Unreferenced' = Unreferenced
  PROVE  /\ DutyInv'
         /\ abandoned' = abandoned /\ mounted' = mounted => OwedInv'
<1>1. ASSUME NEW c \in Calls PROVE (Duties(call[c]))' = Duties(call[c])
  BY DEF Duties
<1>2. DutyInv'
  BY <1>1 DEF DutyInv
<1>3. ASSUME abandoned' = abandoned, mounted' = mounted PROVE OwedInv'
  BY <1>1, <1>3 DEF OwedInv, Owed, Unmounting
<1> QED
  BY <1>2, <1>3

\* The operation of a call that goes on stays the same, and one that returns was
\* no unmount: no unmount ends here.
LEMMA GoesOn ==
  ASSUME CallsOK, NEW c \in Calls,
         \/ \E p \in PCs : Goto(c, p)
         \/ Return(c) /\ call[c].op # "unmount"
         \/ \E T : call' = [call EXCEPT ![c].todo = T]
  PROVE  /\ \A d \in Calls \ {c} : call'[d] = call[d]
         /\ Unmounting => Unmounting'
<1>1. \A d \in Calls \ {c} : call'[d] = call[d]
  BY DEF CallsOK, Goto, Return
<1>2. call[c].op = "unmount" => call'[c].op = "unmount"
  BY DEF CallsOK, CallRecord, Goto, Return
<1> QED
  BY <1>1, <1>2 DEF Unmounting

LEMMA GotoRecord ==
  ASSUME CallsOK, NEW c \in Calls, NEW p \in PCs, Goto(c, p)
  PROVE  /\ call'[c].pc = p
         /\ call'[c].ino = call[c].ino /\ call'[c].op = call[c].op
BY DEF CallsOK, CallRecord, Goto

LEMMA ReturnDuties ==
  ASSUME CallsOK, NEW c \in Calls, Return(c)
  PROVE  call'[c] = Idle /\ (Duties(call[c]))' = {}
<1>1. call'[c] = Idle
  BY DEF CallsOK, Return
<1> QED
  BY <1>1 DEF Duties, Idle

\* A release that succeeds takes the inode off the list and frees it.
LEMMA ReleaseTracks ==
  ASSUME StateOK, ListInv, NEW i \in Unreferenced, ReleaseInode(i), UNCHANGED fails
  PROVE  Unreferenced' = Unreferenced \ {i} /\ ListInv'
<1>1. Unreferenced' = Unreferenced \ {i}
  BY DEF ReleaseInode, Freed, Unreferenced
<1>2. orphans \in Seq(Inodes) /\ orphans' = Without(orphans, i)
  BY DEF StateOK, ReleaseInode
<1>3. ListInv'
  BY <1>1, <1>2, WithoutRange DEF ListInv
<1> QED
  BY <1>1, <1>3

\* One that fails leaves it without names, and has met an I/O error.
LEMMA ReleaseFailsTracks ==
  ASSUME StateOK, NEW i \in Unreferenced, ReleaseInodeFails(i)
  PROVE  Unreferenced' = Unreferenced /\ ListInv'
<1>1. Unreferenced' = Unreferenced
  BY DEF ReleaseInodeFails, Kept, Unreferenced
<1>2. fails' # 0
  <2>1. fails \in Nat /\ ~(links[i] > 0)
    BY ConstAssumption DEF StateOK, Unreferenced
  <2> QED
    BY <2>1 DEF ReleaseInodeFails
<1> QED
  BY <1>1, <1>2 DEF ListInv

\* A name that is not the last one goes, or one is added: no inode loses its
\* names, is freed or listed.
LEMMA SameUnreferenced ==
  ASSUME UNCHANGED alloc, \A i \in alloc : links'[i] = 0 <=> links[i] = 0
  PROVE  Unreferenced' = Unreferenced
BY DEF Unreferenced

LEMMA SameList ==
  ASSUME ListInv, Unreferenced' = Unreferenced,
         (fails' = fails /\ orphans' = orphans) \/ fails' # 0
  PROVE  ListInv'
BY DEF ListInv

\* ext4b_unlink_ex on the last name: the inode joins the list and becomes a duty
\* of its call, or is freed at once.
LEMMA RemoveTracks ==
  ASSUME TypeInv, NamesAllocated, TrackInv, NEW c \in Calls, RemoveUnlink(c)
  PROVE  TrackInv'
<1> DEFINE i == call[c].ino
<1> USE DEF TypeInv, TrackInv
<1>1. i \in Inodes /\ call[c].op = "remove"
  BY DEF RemoveUnlink, CallsOK, Shape
<1>2. links \in [Inodes -> Nat] /\ alloc \subseteq Inodes /\ fails \in Nat /\ links[i] > 0
  BY ConstAssumption DEF StateOK, RemoveUnlink
<1>3. i \in alloc /\ i \notin Unreferenced
  BY <1>1, <1>2 DEF NamesAllocated, Unreferenced
<1>4. links'[i] = links[i] - 1 /\ \A j \in Inodes \ {i} : links'[j] = links[j]
  BY <1>1, <1>2 DEF RemoveUnlink
<1>5. Duties(call[c]) = {}
  BY NoDuties DEF RemoveUnlink
<1>6. UNCHANGED <<pendingRelease, mounted, abandoned>>
  BY DEF RemoveUnlink, volume
<1>7. /\ \A d \in Calls \ {c} : call'[d] = call[d]
      /\ Unmounting => Unmounting'
  BY <1>1, GoesOn DEF RemoveUnlink, PCs
<1>8. CASE ~LastName(i)
  <2>1. Unreferenced' = Unreferenced
    BY <1>1, <1>2, <1>4, <1>8 DEF RemoveUnlink, LastName, Kept, Unreferenced
  <2>2. Return(c) /\ UNCHANGED <<orphans, fails>>
    BY <1>8 DEF RemoveUnlink
  <2>3. (Duties(call[c]))' = {}
    BY <2>2, ReturnDuties
  <2>4. DutyInv'
    BY <1>5, <1>6, <1>7, <2>1, <2>3, DutyStep DEF DutyInv
  <2>5. OwedInv'
    BY <1>5, <1>6, <1>7, <2>1, <2>3, OwedStep
  <2> QED
    BY <2>1, <2>2, <2>4, <2>5, SameList
<1>9. CASE LastName(i) /\ call[c].pc # "checkedOpen"
  <2>1. Freed(i) /\ Return(c) /\ UNCHANGED <<orphans, fails>>
    BY <1>9 DEF RemoveUnlink
  <2>2. Unreferenced' = Unreferenced
    BY <1>1, <1>2, <1>3, <1>4, <2>1 DEF Freed, Unreferenced
  <2>3. (Duties(call[c]))' = {}
    BY <2>1, ReturnDuties
  <2>4. DutyInv'
    BY <1>5, <1>6, <1>7, <2>2, <2>3, DutyStep DEF DutyInv
  <2>5. OwedInv'
    BY <1>5, <1>6, <1>7, <2>2, <2>3, OwedStep
  <2> QED
    BY <2>1, <2>2, <2>4, <2>5, SameList
<1>10. CASE LastName(i) /\ call[c].pc = "checkedOpen"
  <2>1. Goto(c, "note") /\ Kept
    BY <1>10 DEF RemoveUnlink
  <2>2. (orphans' = <<i>> \o orphans /\ fails' = fails) \/ fails' = fails + 1
    BY <1>10 DEF RemoveUnlink, JoinOrphans
  <2>3. Unreferenced' = Unreferenced \cup {i}
    BY <1>1, <1>2, <1>3, <1>4, <1>10, <2>1 DEF LastName, Kept, Unreferenced
  <2>4. (Duties(call[c]))' = {i}
    <3>1. call'[c].pc = "note" /\ call'[c].ino = i
      BY <2>1, GotoRecord DEF PCs
    <3> QED
      BY <1>1, <3>1 DEF Duties
  <2>5. i \notin pendingRelease /\ pendingRelease \subseteq Unreferenced
    BY <1>3 DEF DutyInv
  <2>6. DutyInv'
    BY <1>3, <1>5, <1>6, <1>7, <2>3, <2>4, <2>5, DutyStep
  <2>7. OwedInv'
    BY <1>5, <1>6, <1>7, <2>3, <2>4, <2>5, OwedStep
  <2>8. ListInv'
    <3>1. CASE fails' # 0
      BY <3>1 DEF ListInv
    <3>2. CASE fails' = 0
      <4>1. fails = 0 /\ orphans' = <<i>> \o orphans /\ orphans \in Seq(Inodes)
        BY <1>2, <2>2, <3>2 DEF StateOK
      <4>2. Range(orphans) = Unreferenced /\ IsInjective(orphans)
        BY <4>1 DEF ListInv
      <4>3. Range(orphans') = Unreferenced \cup {i} /\ IsInjective(orphans')
        BY <1>1, <1>3, <4>1, <4>2, JoinRange
      <4> QED
        BY <2>3, <4>3 DEF ListInv
    <3> QED
      BY <3>1, <3>2
  <2> QED
    BY <2>6, <2>7, <2>8
<1> QED
  BY <1>8, <1>9, <1>10

\* The release of one duty, wherever it is done from: the executor block of
\* releaseIfPending or one round of releaseAllPending.
LEMMA ReleaseBlockTracks ==
  ASSUME TypeInv, TrackInv, NEW c \in Calls, ReleaseBlock(c)
  PROVE  TrackInv'
<1> DEFINE i == call[c].ino
<1> USE DEF TypeInv, TrackInv
<1>1. /\ call[c].op \in {"close", "deactivate", "reclaim"} /\ i \in Inodes
      /\ call[c].pc = "release"
  BY DEF ReleaseBlock, CallsOK, Shape
<1>2. Duties(call[c]) = {i}
  BY <1>1 DEF Duties
<1>3. i \in Unreferenced /\ i \notin pendingRelease /\ pendingRelease \subseteq Unreferenced
  BY <1>2 DEF DutyInv
<1>4. UNCHANGED <<pendingRelease, mounted, abandoned>>
  BY DEF ReleaseBlock, volume
<1>5. /\ \A d \in Calls \ {c} : call'[d] = call[d]
      /\ Unmounting => Unmounting'
  BY <1>1, GoesOn DEF ReleaseBlock, PCs
<1>6. CASE ReleaseInode(i) /\ Return(c) /\ UNCHANGED fails
  <2>1. (Duties(call[c]))' = {}
    BY <1>6, ReturnDuties
  <2>2. Unreferenced' = Unreferenced \ {i} /\ ListInv'
    BY <1>3, <1>6, ReleaseTracks
  <2>3. DutyInv'
    BY <1>2, <1>3, <1>4, <1>5, <2>1, <2>2, DutyStep
  <2>4. OwedInv'
    BY <1>2, <1>3, <1>4, <1>5, <2>1, <2>2, OwedStep
  <2> QED
    BY <2>2, <2>3, <2>4
<1>7. CASE Goto(c, "putBack") /\ (ReleaseInodeFails(i) \/ UNCHANGED <<core, fails>>)
  <2>1. (Duties(call[c]))' = {i}
    <3>1. call'[c].pc = "putBack" /\ call'[c].ino = i
      BY <1>7, GotoRecord DEF PCs
    <3> QED
      BY <1>1, <3>1 DEF Duties
  <2>2. Unreferenced' = Unreferenced /\ ListInv'
    <3>1. CASE ReleaseInodeFails(i)
      BY <1>3, <3>1, ReleaseFailsTracks
    <3>2. CASE UNCHANGED <<core, fails>>
      BY <3>2 DEF core, Unreferenced, ListInv
    <3> QED
      BY <1>7, <3>1, <3>2
  <2>3. DutyInv'
    BY <1>2, <1>3, <1>4, <1>5, <2>1, <2>2, DutyStep
  <2>4. OwedInv'
    BY <1>2, <1>3, <1>4, <1>5, <2>1, <2>2, OwedStep
  <2> QED
    BY <2>2, <2>3, <2>4
<1> QED
  BY <1>6, <1>7 DEF ReleaseBlock

LEMMA UnmountReleaseTracks ==
  ASSUME TypeInv, TrackInv, NEW c \in Calls, NEW i \in Inodes, UnmountRelease(c, i)
  PROVE  TrackInv'
<1> USE DEF TypeInv, TrackInv
<1>1. call[c].op = "unmount" /\ call[c].pc = "drain" /\ i \in call[c].todo
  BY DEF UnmountRelease, At
<1>2. call[c] \in CallRecord /\ call' = [call EXCEPT ![c].todo = call[c].todo \ {i}]
  BY DEF UnmountRelease, CallsOK
<1>3. /\ call'[c].pc = "drain" /\ call'[c].ino = call[c].ino
      /\ call'[c].todo = call[c].todo \ {i}
      /\ call'[c].op = "unmount"
  BY <1>1, <1>2 DEF CallsOK, CallRecord
<1>4. (Duties(call[c]))' = Duties(call[c]) \ {i} /\ i \in Duties(call[c])
  BY <1>1, <1>3 DEF Duties
<1>5. i \in Unreferenced /\ Duties(call[c]) \cup pendingRelease \subseteq Unreferenced
      /\ Duties(call[c]) \cap pendingRelease = {}
  BY <1>4 DEF DutyInv
<1>6. UNCHANGED <<pendingRelease, mounted>>
  BY DEF UnmountRelease, volume
<1>7. \A d \in Calls \ {c} : call'[d] = call[d]
  BY <1>2 DEF CallsOK
<1>8. OwedInv'
  BY <1>3 DEF OwedInv, Unmounting
<1>9. (Unreferenced' = Unreferenced \ {i} \/ Unreferenced' = Unreferenced) /\ ListInv'
  BY <1>5, ReleaseTracks, ReleaseFailsTracks DEF UnmountRelease
<1>10. DutyInv'
  BY <1>4, <1>5, <1>6, <1>7, <1>9, DutyStep
<1> QED
  BY <1>8, <1>9, <1>10

\* Every step of a call that has begun keeps the duties.
LEMMA StepTracks ==
  ASSUME TypeInv, NamesAllocated, TrackInv, NEW c \in Calls, Step(c)
  PROVE  TrackInv'
<1> USE DEF TypeInv, TrackInv
<1>0. /\ call[c] \in CallRecord /\ Shape(call[c]) /\ call[c].pc \in PCs
      /\ links \in [Inodes -> Nat] /\ alloc \subseteq Inodes /\ fails \in Nat
      /\ Duties(call[c]) \cup pendingRelease \subseteq Unreferenced
      /\ Duties(call[c]) \cap pendingRelease = {}
  BY ConstAssumption DEF CallsOK, StateOK, CallRecord, DutyInv
<1>1. CASE RemoveCheck(c)
  <2>1. Duties(call[c]) = {}
    BY <1>1, NoDuties DEF RemoveCheck, At
  <2>2. PICK p \in {"checkedOpen", "checkedFree"} : Goto(c, p)
    BY <1>1 DEF RemoveCheck
  <2>3. (Duties(call[c]))' = {}
    BY <2>2, GotoRecord DEF PCs, Duties
  <2>4. UNCHANGED <<pendingRelease, mounted, abandoned, orphans, fails>> /\ Unreferenced' = Unreferenced
    BY <1>1 DEF RemoveCheck, core, volume, Unreferenced
  <2>5. /\ \A d \in Calls \ {c} : call'[d] = call[d]
        /\ Unmounting => Unmounting'
    BY <2>2, GoesOn DEF PCs
  <2>6. DutyInv' /\ OwedInv'
    BY <1>0, <2>1, <2>3, <2>4, <2>5, DutyStep, OwedStep
  <2> QED
    BY <2>4, <2>6, SameList
<1>2. CASE RemoveUnlink(c)
  BY <1>2, RemoveTracks
<1>3. CASE RemoveError(c)
  <2> DEFINE i == call[c].ino
  <2>1. Duties(call[c]) = {}
    BY <1>3, NoDuties DEF RemoveError
  <2>2. Return(c) /\ UNCHANGED <<pendingRelease, mounted>> /\ i \in Inodes /\ call[c].op = "remove"
    BY <1>0, <1>3 DEF RemoveError, volume, Shape
  <2>3. (Duties(call[c]))' = {}
    BY <2>2, ReturnDuties
  <2>4. /\ \A d \in Calls \ {c} : call'[d] = call[d]
        /\ Unmounting => Unmounting'
    BY <2>2, GoesOn
  <2>5. CASE UNCHANGED core
    <3>1. Unreferenced' = Unreferenced /\ UNCHANGED <<links, orphans>>
      BY <2>5 DEF core, Unreferenced
    <3>2. UNCHANGED abandoned
      BY <1>0, <1>3, <2>2, <3>1 DEF RemoveError
    <3>3. fails' = fails \/ fails' # 0
      BY <1>0, <1>3 DEF RemoveError, CoreFails
    <3> QED
      BY <1>0, <2>1, <2>2, <2>3, <2>4, <3>1, <3>2, <3>3, DutyStep, OwedStep, SameList
  <2>6. CASE links[i] > 0 /\ links' = [links EXCEPT ![i] = @ - 1] /\ fails' = fails + 1
             /\ Kept /\ UNCHANGED orphans
    <3>1. links'[i] = links[i] - 1 /\ \A j \in Inodes \ {i} : links'[j] = links[j]
      BY <1>0, <2>2, <2>6
    <3>2. Unreferenced' = Unreferenced \/ (Unreferenced' = Unreferenced \cup {i} /\ links'[i] = 0)
      BY <1>0, <2>2, <2>6, <3>1 DEF Unreferenced, Kept
    <3>3. abandoned \subseteq abandoned' /\ (links'[i] = 0 => i \in abandoned')
      BY <1>0, <1>3, <2>2, <2>6, <3>1 DEF RemoveError
    <3>4. fails' # 0
      BY <1>0, <2>6
    <3>5. ListInv'
      BY <3>4 DEF ListInv
    <3>6. DutyInv'
      BY <1>0, <2>1, <2>2, <2>3, <2>4, <3>2, DutyStep
    <3>7. OwedInv'
      BY <1>0, <2>1, <2>2, <2>3, <2>4, <3>2, <3>3, OwedStep DEF DutyInv
    <3> QED
      BY <3>5, <3>6, <3>7
  <2> QED
    BY <1>3, <2>5, <2>6 DEF RemoveError, CoreFails
<1>4. CASE notePendingRelease(c) \/ ReleasePutBack(c)
  <2> DEFINE i == call[c].ino
  <2>1. /\ call[c].pc \in {"note", "putBack"} /\ call[c].op # "unmount" /\ i \in Inodes
        /\ pendingRelease' = pendingRelease \cup {i} /\ Return(c)
        /\ UNCHANGED <<mounted, abandoned, orphans, fails>> /\ Unreferenced' = Unreferenced
    BY <1>0, <1>4 DEF notePendingRelease, ReleasePutBack, At, Shape, core, Unreferenced
  <2>2. Duties(call[c]) = {i}
    BY <2>1, OneDuty
  <2>3. (Duties(call[c]))' = {}
    BY <2>1, ReturnDuties
  <2>4. /\ \A d \in Calls \ {c} : call'[d] = call[d]
        /\ Unmounting => Unmounting'
    BY <2>1, GoesOn
  <2>5. DutyInv' /\ OwedInv'
    BY <1>0, <2>1, <2>2, <2>3, <2>4, DutyStep, OwedStep
  <2> QED
    BY <2>1, <2>5, SameList
<1>5. CASE ReleaseTake(c)
  <2> DEFINE i == call[c].ino
  <2>1. /\ call[c].pc = "take" /\ call[c].op # "unmount" /\ i \in Inodes
        /\ UNCHANGED <<mounted, abandoned, orphans, fails>> /\ Unreferenced' = Unreferenced
    BY <1>0, <1>5 DEF ReleaseTake, Shape, core, Unreferenced
  <2>2. Duties(call[c]) = {}
    BY <2>1, NoDuties
  <2>3. /\ \A d \in Calls \ {c} : call'[d] = call[d]
        /\ Unmounting => Unmounting'
    BY <1>5, <2>1, GoesOn DEF ReleaseTake, PCs
  <2>4. \/ i \in pendingRelease /\ pendingRelease' = pendingRelease \ {i} /\ (Duties(call[c]))' = {i}
        \/ pendingRelease' = pendingRelease /\ (Duties(call[c]))' = {}
    <3>1. CASE i \in pendingRelease
      <4>1. pendingRelease' = pendingRelease \ {i} /\ Goto(c, "release")
        BY <1>5, <3>1 DEF ReleaseTake
      <4>2. call'[c].pc = "release" /\ call'[c].ino = i
        BY <4>1, GotoRecord DEF PCs
      <4> QED
        BY <2>1, <3>1, <4>1, <4>2 DEF Duties
    <3>2. CASE i \notin pendingRelease
      BY <1>5, <3>2, ReturnDuties DEF ReleaseTake
    <3> QED
      BY <3>1, <3>2
  <2>5. DutyInv' /\ OwedInv'
    BY <1>0, <2>1, <2>2, <2>3, <2>4, DutyStep, OwedStep
  <2> QED
    BY <2>1, <2>5, SameList
<1>6. CASE ReleaseBlock(c)
  BY <1>6, ReleaseBlockTracks
<1>7. CASE TrimBlock(c)
  <2>1. Duties(call[c]) = {} /\ Goto(c, "take")
    BY <1>7, NoDuties DEF TrimBlock, At
  <2>2. (Duties(call[c]))' = {}
    BY <2>1, GotoRecord DEF PCs, Duties
  <2>3. UNCHANGED <<pendingRelease, mounted, abandoned, orphans>> /\ Unreferenced' = Unreferenced
    BY <1>7 DEF TrimBlock, CoreFails, core, volume, Unreferenced
  <2>4. fails' = fails \/ fails' # 0
    BY <1>0, <1>7 DEF TrimBlock, CoreFails
  <2>5. /\ \A d \in Calls \ {c} : call'[d] = call[d]
        /\ Unmounting => Unmounting'
    BY <2>1, GoesOn DEF PCs
  <2>6. DutyInv' /\ OwedInv'
    BY <1>0, <2>1, <2>2, <2>3, <2>5, DutyStep, OwedStep
  <2> QED
    BY <2>3, <2>4, <2>6, SameList
<1>8. CASE notePreallocation(c)
  <2>1. /\ UNCHANGED <<pendingRelease, mounted, abandoned, orphans, fails>>
        /\ Unreferenced' = Unreferenced /\ Return(c) /\ call[c].op = "preallocate"
    BY <1>8 DEF notePreallocation, core, Unreferenced
  <2>2. Duties(call[c]) = {}
    BY <1>0, <1>8, NoDuties DEF notePreallocation, Shape
  <2>3. (Duties(call[c]))' = {}
    BY <2>1, ReturnDuties
  <2>4. /\ \A d \in Calls \ {c} : call'[d] = call[d]
        /\ Unmounting => Unmounting'
    BY <2>1, GoesOn
  <2>5. DutyInv' /\ OwedInv'
    BY <1>0, <2>1, <2>2, <2>3, <2>4, DutyStep, OwedStep
  <2> QED
    BY <2>1, <2>5, SameList
<1>9. CASE UnmountTrims(c)
  <2>1. /\ UNCHANGED <<pendingRelease, mounted, abandoned, orphans, fails>>
        /\ Unreferenced' = Unreferenced
        /\ \A d \in Calls \ {c} : call'[d] = call[d]
        /\ call'[c].pc = "drainTrims" /\ call'[c].op = "unmount"
    BY <1>0, <1>9 DEF UnmountTrims, At, core, Unreferenced, CallsOK, CallRecord
  <2>2. (Duties(call[c]))' = {}
    BY <2>1 DEF Duties
  <2>3. OwedInv'
    BY <2>1 DEF OwedInv, Unmounting
  <2>4. DutyInv'
    BY <1>0, <2>1, <2>2, DutyStep
  <2> QED
    BY <2>1, <2>3, <2>4, SameList
<1>10. CASE UnmountClose(c)
  <2>1. /\ UNCHANGED <<pendingRelease, abandoned, orphans, fails>>
        /\ Unreferenced' = Unreferenced /\ Return(c) /\ ~mounted'
    BY <1>10 DEF UnmountClose, core, volume, Unreferenced
  <2>2. \A d \in Calls \ {c} : call'[d] = call[d]
    BY <2>1 DEF Return, CallsOK
  <2>3. (Duties(call[c]))' = {}
    BY <2>1, ReturnDuties
  <2>4. DutyInv'
    BY <1>0, <2>1, <2>2, <2>3, DutyStep
  <2>5. OwedInv'
    BY <2>1 DEF OwedInv
  <2> QED
    BY <2>1, <2>4, <2>5, SameList
<1>11. ASSUME NEW i \in Inodes, UnmountRelease(c, i) PROVE TrackInv'
  BY <1>11, UnmountReleaseTracks
<1>12. ASSUME NEW i \in Inodes, UnmountTrim(c, i) PROVE TrackInv'
  <2>1. /\ UNCHANGED <<pendingRelease, mounted, abandoned, orphans>>
        /\ Unreferenced' = Unreferenced
        /\ \A d \in Calls \ {c} : call'[d] = call[d]
        /\ call'[c].pc = "drainTrims" /\ call'[c].op = "unmount"
    BY <1>0, <1>12 DEF UnmountTrim, At, CoreFails, core, volume, Unreferenced, CallsOK, CallRecord
  <2>2. fails' = fails \/ fails' # 0
    BY <1>0, <1>12 DEF UnmountTrim, CoreFails
  <2>3. (Duties(call[c]))' = {}
    BY <2>1 DEF Duties
  <2>4. OwedInv'
    BY <2>1 DEF OwedInv, Unmounting
  <2>5. DutyInv'
    BY <1>0, <2>1, <2>3, DutyStep
  <2> QED
    BY <2>1, <2>2, <2>4, <2>5, SameList
<1> QED
  BY <1>1, <1>2, <1>3, <1>4, <1>5, <1>6, <1>7, <1>8, <1>9, <1>10, <1>11, <1>12 DEF Step

\* A call that begins has no duty yet.
LEMMA BeginTracks ==
  ASSUME CallsOK, DutyInv, OwedInv, NEW c \in Calls, NEW op, NEW i \in Inodes, NEW p \in PCs,
         p \notin {"note", "release", "putBack", "drain"}, Begin(c, op, i, p), TypeInv,
         UNCHANGED <<pendingRelease, mounted, abandoned>>, Unreferenced' = Unreferenced
  PROVE  DutyInv' /\ OwedInv'
<1>1. /\ call[c] = Idle /\ \A d \in Calls \ {c} : call'[d] = call[d]
      /\ call'[c].pc = p
  BY DEF Begin, CallsOK, Idle
<1>2. Duties(call[c]) = {} /\ (Duties(call[c]))' = {}
  BY <1>1 DEF Duties, Idle
<1>3. Unmounting => Unmounting'
  BY <1>1 DEF Unmounting, Idle
<1>4. pendingRelease \subseteq Unreferenced
  BY DEF DutyInv
<1> QED
  BY <1>1, <1>2, <1>3, <1>4, DutyStep, OwedStep

\* Every step, the kernel's included, keeps the duties.
LEMMA NextTracks ==
  ASSUME TypeInv, NamesAllocated, TrackInv, [Next]_vars
  PROVE  TrackInv'
<1> USE DEF TypeInv, TrackInv
<1>0. links \in [Inodes -> Nat] /\ alloc \subseteq Inodes
  BY ConstAssumption DEF StateOK
<1>1. ASSUME NEW c \in Calls, Step(c) PROVE TrackInv'
  BY <1>1, StepTracks
<1>2. ASSUME NEW c \in Calls, unmount(c) PROVE TrackInv'
  <2>1. /\ pendingRelease' = {} /\ UNCHANGED <<mounted, abandoned, orphans, fails>>
        /\ Unreferenced' = Unreferenced /\ call[c] = Idle
    BY <1>2 DEF unmount, core, Unreferenced
  <2>2. /\ \A d \in Calls \ {c} : call'[d] = call[d]
        /\ call'[c].op = "unmount" /\ call'[c].pc = "drain" /\ call'[c].todo = pendingRelease
        /\ call'[c].ino = None
    BY <1>2 DEF unmount, Snapshot, CallsOK, Idle
  <2>3. Duties(call[c]) = {}
    BY <2>1 DEF Duties, Idle
  <2>4. (Duties(call[c]))' = pendingRelease
    BY <2>2 DEF Duties, StateOK
  <2>5. pendingRelease \subseteq Unreferenced
    BY DEF DutyInv
  <2>6. DutyInv'
    BY <2>1, <2>2, <2>3, <2>4, <2>5, DutyStep
  <2>7. OwedInv'
    BY <2>2 DEF OwedInv, Unmounting
  <2> QED
    BY <2>1, <2>6, <2>7, SameList
<1>3. ASSUME NEW i \in Inodes, createItem(i) PROVE TrackInv'
  <2>1. UNCHANGED <<call, pendingRelease, mounted, abandoned, orphans, fails>>
    BY <1>3 DEF createItem, volume
  <2>2. Unreferenced' = Unreferenced
    BY <1>0, <1>3 DEF createItem, Unreferenced
  <2> QED
    BY <2>1, <2>2, SameDuties, SameList
<1>4. ASSUME NEW i \in Inodes, lookupItem(i) \/ openItem(i) PROVE TrackInv'
  <2>1. UNCHANGED <<call, pendingRelease, mounted, abandoned, orphans, fails>>
        /\ Unreferenced' = Unreferenced
    BY <1>4 DEF lookupItem, openItem, core, volume, Unreferenced
  <2> QED
    BY <2>1, SameDuties, SameList
<1>5. ASSUME NEW i \in Inodes, createLink(i) PROVE TrackInv'
  <2>1. UNCHANGED <<call, pendingRelease, mounted, abandoned, orphans, fails>>
    BY <1>5 DEF createLink, volume
  <2>2. Unreferenced' = Unreferenced
    BY <1>0, <1>5 DEF createLink, Kept, Unreferenced
  <2> QED
    BY <2>1, <2>2, SameDuties, SameList
<1>6. ASSUME NEW i \in Inodes, renameItem(i) PROVE TrackInv'
  <2>1. UNCHANGED <<call, pendingRelease, mounted, abandoned, orphans, fails>>
    BY <1>6 DEF renameItem, volume
  <2>2. links[i] > 0 /\ links'[i] = links[i] - 1 /\ \A j \in Inodes \ {i} : links'[j] = links[j]
    BY <1>0, <1>6 DEF renameItem
  <2>3. (links[i] = 1 /\ alloc' = alloc \ {i}) \/ (links[i] # 1 /\ alloc' = alloc)
    BY <1>6 DEF renameItem, Freed, Kept
  <2>4. Unreferenced' = Unreferenced
    BY <1>0, <2>2, <2>3 DEF Unreferenced
  <2> QED
    BY <2>1, <2>4, SameDuties, SameList
<1>14. ASSUME NEW i \in Inodes, RenameError(i) PROVE TrackInv'
  <2>1. UNCHANGED <<call, pendingRelease, mounted>> /\ fails' = fails + 1
    BY <1>14 DEF RenameError, volume
  <2>2. links[i] > 0 /\ links'[i] = links[i] - 1 /\ \A j \in Inodes \ {i} : links'[j] = links[j]
    BY <1>0, <1>14 DEF RenameError
  <2>3. alloc' = alloc /\ abandoned \subseteq abandoned' /\ (links'[i] = 0 => i \in abandoned')
    BY <1>14 DEF RenameError, Kept
  <2>4. Unreferenced \subseteq Unreferenced' /\ Unreferenced' \ abandoned' \subseteq Unreferenced \ abandoned
    BY <1>0, <2>2, <2>3 DEF Unreferenced
  <2>5. ASSUME NEW c \in Calls PROVE (Duties(call[c]))' = Duties(call[c])
    BY <2>1 DEF Duties
  <2>6. DutyInv'
    BY <2>1, <2>4, <2>5 DEF DutyInv
  <2>7. OwedInv'
    BY <2>1, <2>4, <2>5 DEF OwedInv, Owed, Unmounting
  <2>8. fails' # 0
    BY <2>1 DEF StateOK
  <2>9. ListInv'
    BY <2>8 DEF ListInv
  <2> QED
    BY <2>6, <2>7, <2>9
<1>7. ASSUME NEW i \in Inodes, NEW c \in Calls, removeItem(c, i) PROVE TrackInv'
  <2>1. UNCHANGED <<pendingRelease, mounted, abandoned, orphans, fails>>
        /\ Unreferenced' = Unreferenced /\ Begin(c, "remove", i, "enter")
    BY <1>7 DEF removeItem, core, volume, Unreferenced
  <2> QED
    BY <2>1, BeginTracks, SameList DEF PCs
<1>8. ASSUME NEW i \in Inodes, NEW c \in Calls, closeItem(c, i) PROVE TrackInv'
  <2>1. UNCHANGED <<pendingRelease, mounted, abandoned, orphans, fails>>
        /\ Unreferenced' = Unreferenced
    BY <1>8 DEF closeItem, core, Unreferenced
  <2>2. CASE Begin(c, "close", i, "take")
    BY <2>1, <2>2, BeginTracks, SameList DEF PCs
  <2>3. CASE UNCHANGED call
    BY <2>1, <2>3, SameDuties, SameList
  <2> QED
    BY <1>8, <2>2, <2>3 DEF closeItem
<1>9. ASSUME NEW i \in Inodes, NEW c \in Calls, deactivateItem(c, i) PROVE TrackInv'
  <2>1. UNCHANGED <<pendingRelease, mounted, abandoned, orphans, fails>>
        /\ Unreferenced' = Unreferenced
    BY <1>9 DEF deactivateItem, core, Unreferenced
  <2>2. PICK p \in {"trim", "take"} : Begin(c, "deactivate", i, p)
    BY <1>9 DEF deactivateItem
  <2> QED
    BY <2>1, <2>2, BeginTracks, SameList DEF PCs
<1>10. ASSUME NEW i \in Inodes, NEW c \in Calls, reclaimItem(c, i) PROVE TrackInv'
  <2>1. UNCHANGED <<pendingRelease, mounted, abandoned, orphans, fails>>
        /\ Unreferenced' = Unreferenced /\ Begin(c, "reclaim", i, "take")
    BY <1>10 DEF reclaimItem, core, volume, Unreferenced
  <2> QED
    BY <2>1, BeginTracks, SameList DEF PCs
<1>11. ASSUME NEW i \in Inodes, NEW c \in Calls, NEW persist \in BOOLEAN,
              preallocateSpace(c, i, persist)
       PROVE  TrackInv'
  <2>1. UNCHANGED <<pendingRelease, mounted, abandoned, orphans, fails>>
        /\ Unreferenced' = Unreferenced
    BY <1>11 DEF preallocateSpace, volume, Unreferenced
  <2>2. PICK p \in {"noteKept", "noteLoan"} : Begin(c, "preallocate", i, p)
    BY <1>11 DEF preallocateSpace
  <2> QED
    BY <2>1, <2>2, BeginTracks, SameList DEF PCs
<1>12. ASSUME Remount PROVE TrackInv'
  <2> DEFINE cleaned == {i \in Range(orphans) : links[i] = 0}
  <2>1. /\ pendingRelease' = {} /\ orphans' = <<>> /\ UNCHANGED <<call, fails, links>>
        /\ \A c \in Calls : call[c] = Idle
        /\ alloc' = alloc \ cleaned
        /\ abandoned' = {i \in alloc \ cleaned : links[i] = 0}
    BY <1>12 DEF Remount
  <2>2. Unreferenced' = abandoned' /\ Unreferenced' = Unreferenced \ cleaned
    BY <2>1 DEF Unreferenced
  <2>3. \A c \in Calls : (Duties(call[c]))' = {}
    BY <2>1 DEF Duties, Idle
  <2>4. DutyInv' /\ OwedInv'
    BY <2>1, <2>2, <2>3 DEF DutyInv, OwedInv, Owed
  <2>5. ListInv'
    <3>1. Range(orphans') = {} /\ IsInjective(orphans')
      BY <2>1 DEF Range, IsInjective
    <3>2. fails = 0 => Unreferenced \subseteq cleaned
      BY DEF ListInv, Unreferenced
    <3> QED
      BY <2>1, <2>2, <3>1, <3>2 DEF ListInv
  <2> QED
    BY <2>4, <2>5
<1>13. ASSUME UNCHANGED vars PROVE TrackInv'
  <2>1. UNCHANGED <<call, pendingRelease, mounted, abandoned, orphans, fails>>
        /\ Unreferenced' = Unreferenced
    BY <1>13 DEF vars, core, volume, Unreferenced
  <2> QED
    BY <2>1, SameDuties, SameList
<1> QED
  BY <1>1, <1>2, <1>3, <1>4, <1>5, <1>6, <1>7, <1>8, <1>9, <1>10, <1>11, <1>12, <1>13, <1>14 DEF Next

LEMMA InitTracks == Init => TrackInv
<1> SUFFICES ASSUME Init PROVE TrackInv
  OBVIOUS
<1>1. Unreferenced = {} /\ pendingRelease = {} /\ Range(orphans) = {} /\ IsInjective(orphans)
  BY DEF Init, Unreferenced, Range, IsInjective
<1>2. \A c \in Calls : Duties(call[c]) = {}
  BY DEF Init, Duties, Idle
<1> QED
  BY <1>1, <1>2 DEF TrackInv, DutyInv, OwedInv, Owed, ListInv

LEMMA TrackInvariant == Spec => []TrackInv
<1>1. TypeInv /\ NamesAllocated /\ TrackInv /\ [Next]_vars => TrackInv'
  BY NextTracks
<1> QED
  BY InitTracks, <1>1, TypeInvariant, NamesAlwaysAllocated, PTL DEF Spec

\* Whatever the kernel sends and however its calls interleave, the duty to
\* release an inode is held for an inode without names, and by one holder:
\* ext4b_release_inode never meets a named or a freed inode.
THEOREM ReleasesAlwaysDue == Spec => []ReleasesAreDue
<1>1. TypeInv /\ TrackInv => ReleasesAreDue
  <2> SUFFICES ASSUME TypeInv, DutyInv PROVE ReleasesAreDue
    BY DEF TrackInv
  <2>1. \A i \in Inodes : (i \in pendingRelease \/ Owing(i)) => i \in Unreferenced
    BY OwingIsDuty DEF DutyInv
  <2>2. \A i \in pendingRelease : ~Owing(i)
    <3>1. pendingRelease \subseteq Inodes
      BY DEF TypeInv, StateOK
    <3> QED
      BY <3>1, OwingIsDuty DEF DutyInv
  <2>3. ASSUME NEW c \in Calls, NEW d \in Calls, c # d,
               call[c].pc = "release", call[d].pc = "release"
        PROVE  call[c].ino # call[d].ino
    <3>1. call[c].ino \in Inodes /\ call[d].ino \in Inodes
      BY <2>3 DEF TypeInv, CallsOK, Shape
    <3>2. Duties(call[c]) = {call[c].ino} /\ Duties(call[d]) = {call[d].ino}
      BY <2>3, <3>1, OneDuty
    <3> QED
      BY <2>3, <3>2 DEF DutyInv
  <2> QED
    BY <2>1, <2>2, <2>3 DEF ReleasesAreDue
<1> QED
  BY <1>1, TrackInvariant, TypeInvariant, PTL

\* An inode without names is always known to somebody who will release it and,
\* until a first I/O error, to the orphan list that a crash leaves behind, once.
THEOREM UnreferencedAlwaysTracked == Spec => []UnreferencedIsTracked
<1>1. TypeInv /\ TrackInv => UnreferencedIsTracked
  <2> SUFFICES ASSUME TypeInv, TrackInv PROVE UnreferencedIsTracked
    OBVIOUS
  <2>1. UnreferencedIsOwed
    <3>1. Unreferenced \subseteq Inodes
      BY DEF TypeInv, StateOK, Unreferenced
    <3> QED
      BY <3>1, OwingIsDuty DEF TrackInv, OwedInv, Owed, UnreferencedIsOwed
  <2>2. UnreferencedIsListed
    <3>1. orphans \in Seq(Inodes)
      BY DEF TypeInv, StateOK
    <3> QED
      BY <3>1, ChainLength DEF TrackInv, ListInv, UnreferencedIsListed
  <2> QED
    BY <2>1, <2>2 DEF UnreferencedIsTracked
<1> QED
  BY <1>1, TrackInvariant, TypeInvariant, PTL

-----------------------------------------------------------------------------
(* What an unmount leaves behind *)

\* The kernel sends nothing while it unmounts, unmounts only when nothing is in
\* progress, and preallocates for one file one call at a time.
NoUnmountRaces == KernelRaces \cap {"unmount", "preallocate"} = {}

\* The loans a call will see to: it is about to note them, or it trims them.
Trims(r) ==
  {i \in Inodes : \/ r.pc \in {"noteLoan", "trim"} /\ r.ino = i
                  \/ r.pc = "drainTrims" /\ i \in r.todo}

\* An unmount is alone, has nothing left in pendingRelease, and without an I/O
\* error every inode without names is in its snapshot.
Draining ==
  \A c \in Calls : call[c].op = "unmount" =>
    /\ mounted /\ pendingRelease = {} /\ \A d \in Calls \ {c} : call[d] = Idle
    /\ call[c].pc = "drainTrims" => trimOnDeactivate = {}
    /\ fails = 0 => Unreferenced \subseteq Duties(call[c])

\* An unmounted volume has no item, no call and, without an I/O error, nothing
\* left behind.
Closed ==
  ~mounted => /\ held = {} /\ \A c \in Calls : call[c] = Idle
              /\ fails = 0 => Unreferenced = {} /\ ahead \cap loan = {}

QuietInv == Draining /\ Closed /\ (fails = 0 => abandoned = {})

\* Space on loan is waiting in trimOnDeactivate, or a call will see to it.
Noted == \A i \in ahead \cap loan :
           i \in trimOnDeactivate \/ \E c \in Calls : i \in Trims(call[c])

\* One preallocation of a file at a time, and the one that says `keep it' speaks
\* of space that is not on loan.
OneAtATime ==
  /\ \A c, d \in Calls : c # d /\ call[c].op = "preallocate" /\ call[d].op = "preallocate"
                           => call[c].ino # call[d].ino
  /\ \A c \in Calls : call[c].op = "preallocate" /\ call[c].pc = "noteKept"
                           => call[c].ino \notin loan

LoanInv == (mounted /\ fails = 0 => Noted) /\ OneAtATime

LeaveInv == QuietInv /\ LoanInv

\* While the volume is mounted and nobody unmounts it, and the step does not
\* change that, only what was given up counts.
LEMMA Ordinary ==
  ASSUME QuietInv, mounted', ~Unmounting', fails' = 0 => fails = 0 /\ abandoned' = abandoned
  PROVE  QuietInv'
BY DEF QuietInv, Draining, Closed, Unmounting

\* The loans after a step of one call.
LEMMA LoanStep ==
  ASSUME mounted /\ fails = 0 => Noted, NEW c \in Calls,
         \A d \in Calls \ {c} : call'[d] = call[d],
         mounted' /\ fails' = 0 => mounted /\ fails = 0,
         fails' = 0 => \A i \in ahead' \cap loan' :
            \/ i \in (Trims(call[c]))' \cup trimOnDeactivate'
            \/ /\ i \in ahead \cap loan
               /\ i \notin Trims(call[c]) \cup trimOnDeactivate
  PROVE  mounted' /\ fails' = 0 => Noted'
<1> SUFFICES ASSUME mounted', fails' = 0, NEW i \in ahead' \cap loan'
             PROVE  i \in trimOnDeactivate' \/ \E d \in Calls : i \in (Trims(call[d]))'
  BY DEF Noted
<1>1. ASSUME NEW d \in Calls \ {c} PROVE (Trims(call[d]))' = Trims(call[d])
  BY <1>1 DEF Trims
<1>2. CASE i \in (Trims(call[c]))' \cup trimOnDeactivate'
  BY <1>2
<1>3. CASE i \in ahead \cap loan /\ i \notin Trims(call[c]) \cup trimOnDeactivate
  <2>1. PICK d \in Calls \ {c} : i \in Trims(call[d])
    BY <1>3 DEF Noted
  <2> QED
    BY <1>1, <2>1
<1> QED
  BY <1>2, <1>3

LEMMA KeptStep ==
  ASSUME OneAtATime, NEW c \in Calls, \A d \in Calls \ {c} : call'[d] = call[d],
         call'[c].op # "preallocate", loan' \subseteq loan
  PROVE  OneAtATime'
BY DEF OneAtATime

\* The step of a call that sees to no loan, before or after it.
LEMMA PlainStep ==
  ASSUME LoanInv, NEW c \in Calls, \A d \in Calls \ {c} : call'[d] = call[d],
         call'[c].op # "preallocate", Trims(call[c]) = {}, loan' \subseteq loan, ahead' \subseteq ahead,
         UNCHANGED trimOnDeactivate,
         mounted' /\ fails' = 0 => mounted /\ fails = 0
  PROVE  LoanInv'
<1>1. mounted' /\ fails' = 0 => Noted'
  BY LoanStep DEF LoanInv
<1> QED
  BY <1>1, KeptStep DEF LoanInv

\* A step that changes no call and lends nothing.
LEMMA SameLoans ==
  ASSUME LoanInv, loan' \subseteq loan, ahead' \subseteq ahead,
         UNCHANGED <<call, trimOnDeactivate, mounted, fails>>
  PROVE  LoanInv'
<1>1. ASSUME NEW c \in Calls PROVE (Trims(call[c]))' = Trims(call[c])
  BY DEF Trims
<1> QED
  BY <1>1 DEF LoanInv, Noted, OneAtATime

\* While an unmount is in progress, or once the volume is unmounted, no other
\* call takes a step.
LEMMA OnlyUnmount ==
  ASSUME CallsOK, QuietInv, NEW c \in Calls, call[c] # Idle, call[c].op # "unmount"
  PROVE  mounted /\ ~Unmounting
BY DEF QuietInv, Draining, Closed, Unmounting

LEMMA StillQuiet ==
  ASSUME CallsOK, ~Unmounting, NEW c \in Calls,
         (\E p \in PCs : Goto(c, p)) \/ Return(c)
  PROVE  /\ \A d \in Calls \ {c} : call'[d] = call[d]
         /\ ~Unmounting' /\ (call[c].op # "preallocate" => call'[c].op # "preallocate")
<1>1. \A d \in Calls \ {c} : call'[d] = call[d]
  BY DEF CallsOK, Goto, Return
<1>2. call'[c].op \in {call[c].op, "none"}
  BY DEF CallsOK, CallRecord, Goto, Return, Idle
<1> QED
  BY <1>1, <1>2 DEF Unmounting

\* The steps of removals, closes, deactivations, reclaims and preallocations.
LEMMA CallLeaves ==
  ASSUME TypeInv, TrackInv, LeaveInv, NEW c \in Calls, Step(c), call[c].op # "unmount"
  PROVE  LeaveInv'
<1> USE DEF TypeInv, LeaveInv
<1>0. fails \in Nat /\ Shape(call[c]) /\ call[c].pc \in PCs
  BY ConstAssumption DEF StateOK, CallsOK, CallRecord
<1>1. call[c] # Idle
  BY DEF Step, Idle, RemoveCheck, RemoveUnlink, RemoveError, notePendingRelease, ReleaseTake,
         ReleaseBlock, ReleasePutBack, TrimBlock, notePreallocation, UnmountTrims, UnmountClose,
         UnmountRelease, UnmountTrim, At
<1>2. mounted /\ ~Unmounting
  BY <1>1, OnlyUnmount
<1>3. CASE RemoveCheck(c)
  <2>1. /\ UNCHANGED <<ahead, loan, trimOnDeactivate, mounted, abandoned, fails>>
        /\ Trims(call[c]) = {} /\ call[c].op = "remove"
    BY <1>3 DEF RemoveCheck, At, core, volume, Trims
  <2>2. /\ \A d \in Calls \ {c} : call'[d] = call[d]
        /\ ~Unmounting' /\ call'[c].op # "preallocate"
    BY <1>2, <1>3, <2>1, StillQuiet DEF RemoveCheck, PCs
  <2> QED
    BY <1>2, <2>1, <2>2, Ordinary, PlainStep
<1>4. CASE RemoveUnlink(c)
  <2>1. /\ UNCHANGED <<trimOnDeactivate, mounted, abandoned>>
        /\ Trims(call[c]) = {} /\ call[c].op = "remove"
    BY <1>4 DEF RemoveUnlink, volume, Trims
  <2>2. ahead' \subseteq ahead /\ loan' \subseteq loan
    BY <1>4 DEF RemoveUnlink, Freed, Kept
  <2>3. fails' = 0 => fails = 0
    BY <1>0, <1>4 DEF RemoveUnlink
  <2>4. /\ \A d \in Calls \ {c} : call'[d] = call[d]
        /\ ~Unmounting' /\ call'[c].op # "preallocate"
    BY <1>2, <1>4, <2>1, StillQuiet DEF RemoveUnlink, PCs
  <2> QED
    BY <1>2, <2>1, <2>2, <2>3, <2>4, Ordinary, PlainStep
<1>5. CASE RemoveError(c)
  <2>1. /\ UNCHANGED <<ahead, loan, trimOnDeactivate, mounted>>
        /\ Trims(call[c]) = {} /\ call[c].op = "remove" /\ Return(c)
    BY <1>5 DEF RemoveError, CoreFails, core, volume, Kept, Trims
  <2>2. fails' = 0 => fails = 0 /\ UNCHANGED links
    BY <1>0, <1>5 DEF RemoveError, CoreFails, core
  <2>3. fails' = 0 => UNCHANGED abandoned
    <3>1. links[call[c].ino] \in Nat
      BY <1>0, <2>1, ConstAssumption DEF Shape, StateOK
    <3> QED
      BY <1>5, <2>2, <3>1 DEF RemoveError
  <2>4. /\ \A d \in Calls \ {c} : call'[d] = call[d]
        /\ ~Unmounting' /\ call'[c].op # "preallocate"
    BY <1>2, <2>1, StillQuiet
  <2> QED
    BY <1>2, <2>1, <2>2, <2>3, <2>4, Ordinary, PlainStep
<1>6. CASE notePendingRelease(c) \/ ReleasePutBack(c) \/ ReleaseTake(c)
  <2>1. /\ UNCHANGED <<ahead, loan, trimOnDeactivate, mounted, abandoned, fails>>
        /\ Trims(call[c]) = {}
    BY <1>6 DEF notePendingRelease, ReleasePutBack, ReleaseTake, At, core, Trims
  <2>2. call[c].op # "preallocate"
    BY <1>0, <1>6 DEF notePendingRelease, ReleasePutBack, ReleaseTake, At, Shape
  <2>3. /\ \A d \in Calls \ {c} : call'[d] = call[d]
        /\ ~Unmounting' /\ call'[c].op # "preallocate"
    BY <1>2, <1>6, <2>2, StillQuiet DEF notePendingRelease, ReleasePutBack, ReleaseTake, PCs
  <2> QED
    BY <1>2, <2>1, <2>3, Ordinary, PlainStep
<1>7. CASE ReleaseBlock(c)
  <2>1. /\ UNCHANGED <<trimOnDeactivate, mounted, abandoned>>
        /\ Trims(call[c]) = {} /\ call[c].op # "preallocate"
    BY <1>0, <1>7 DEF ReleaseBlock, volume, Trims, Shape
  <2>2. ahead' \subseteq ahead /\ loan' \subseteq loan
    BY <1>7 DEF ReleaseBlock, ReleaseInode, ReleaseInodeFails, Freed, Kept, core
  <2>3. fails' = 0 => fails = 0
    BY <1>0, <1>7 DEF ReleaseBlock, ReleaseInodeFails
  <2>4. /\ \A d \in Calls \ {c} : call'[d] = call[d]
        /\ ~Unmounting' /\ call'[c].op # "preallocate"
    BY <1>2, <1>7, <2>1, StillQuiet DEF ReleaseBlock, PCs
  <2> QED
    BY <1>2, <2>1, <2>2, <2>3, <2>4, Ordinary, PlainStep
<1>8. CASE TrimBlock(c)
  <2> DEFINE i == call[c].ino
  <2>1. /\ UNCHANGED <<loan, trimOnDeactivate, mounted, abandoned>>
        /\ call[c].op = "deactivate" /\ call[c].pc = "trim" /\ Goto(c, "take")
    BY <1>8 DEF TrimBlock, CoreFails, At, core, volume
  <2>2. i \in Inodes /\ Trims(call[c]) = {i}
    BY <1>0, <2>1 DEF Shape, Trims
  <2>3. fails' = 0 => fails = 0 /\ ahead' = ahead \ {i}
    BY <1>0, <1>2, <1>8 DEF TrimBlock, CoreFails
  <2>4. /\ \A d \in Calls \ {c} : call'[d] = call[d]
        /\ ~Unmounting' /\ call'[c].op # "preallocate"
    BY <1>2, <2>1, StillQuiet DEF PCs
  <2>5. LoanInv'
    <3>1. mounted' /\ fails' = 0 => Noted'
      BY <1>2, <2>1, <2>2, <2>3, <2>4, LoanStep DEF LoanInv
    <3> QED
      BY <2>1, <2>4, <3>1, KeptStep DEF LoanInv
  <2> QED
    BY <1>2, <2>1, <2>3, <2>4, <2>5, Ordinary
<1>9. CASE notePreallocation(c)
  <2> DEFINE i == call[c].ino
  <2>1. /\ UNCHANGED <<ahead, loan, mounted, abandoned, fails>>
        /\ call[c].op = "preallocate" /\ Return(c)
    BY <1>9 DEF notePreallocation, core
  <2>2. call'[c] = Idle /\ ~Unmounting' /\ \A d \in Calls \ {c} : call'[d] = call[d]
    BY <1>2, <2>1, StillQuiet, ReturnDuties
  <2>3. call'[c].op # "preallocate"
    BY <2>2 DEF Idle
  <2>4. i \in Inodes /\ call[c].pc \in {"noteKept", "noteLoan"}
    BY <1>0, <2>1 DEF Shape
  <2>5. QuietInv'
    BY <1>2, <2>1, <2>2, Ordinary
  <2>6. CASE call[c].pc = "noteKept"
    <3>1. trimOnDeactivate' = trimOnDeactivate \ {i} /\ i \notin loan /\ Trims(call[c]) = {}
      BY <1>9, <2>1, <2>6 DEF notePreallocation, LoanInv, OneAtATime, Trims
    <3>2. mounted' /\ fails' = 0 => Noted'
      BY <2>1, <2>2, <3>1, LoanStep DEF LoanInv
    <3> QED
      BY <2>1, <2>2, <2>3, <2>5, <3>2, KeptStep DEF LoanInv
  <2>7. CASE call[c].pc = "noteLoan"
    <3>1. trimOnDeactivate' = trimOnDeactivate \cup {i} /\ Trims(call[c]) = {i}
      BY <1>9, <2>4, <2>7 DEF notePreallocation, Trims
    <3>2. mounted' /\ fails' = 0 => Noted'
      BY <2>1, <2>2, <3>1, LoanStep DEF LoanInv
    <3> QED
      BY <2>1, <2>2, <2>3, <2>5, <3>2, KeptStep DEF LoanInv
  <2> QED
    BY <2>4, <2>6, <2>7
<1> QED
  BY <1>3, <1>4, <1>5, <1>6, <1>7, <1>8, <1>9
     DEF Step, UnmountTrims, UnmountClose, UnmountRelease, UnmountTrim, At

\* The steps of an unmount.
LEMMA UnmountLeaves ==
  ASSUME TypeInv, TrackInv, LeaveInv, NEW c \in Calls, Step(c), call[c].op = "unmount"
  PROVE  LeaveInv'
<1> USE DEF TypeInv, LeaveInv
<1>0. fails \in Nat /\ Shape(call[c]) /\ call[c] \in CallRecord
      /\ call[c].todo \subseteq Inodes
  BY ConstAssumption DEF StateOK, CallsOK, CallRecord
<1>1. /\ mounted /\ pendingRelease = {} /\ \A d \in Calls \ {c} : call[d] = Idle
      /\ call[c].pc = "drainTrims" => trimOnDeactivate = {}
      /\ fails = 0 => Unreferenced \subseteq Duties(call[c])
  BY DEF QuietInv, Draining
<1>2. ASSUME NEW i \in Inodes, UnmountRelease(c, i) PROVE LeaveInv'
  <2>1. /\ call[c].pc = "drain" /\ i \in call[c].todo
        /\ call' = [call EXCEPT ![c].todo = call[c].todo \ {i}]
        /\ UNCHANGED <<pendingRelease, trimOnDeactivate, mounted, held>>
    BY <1>2 DEF UnmountRelease, At, volume
  <2>2. /\ call'[c].op = "unmount" /\ call'[c].pc = "drain" /\ call'[c].ino = call[c].ino
        /\ call'[c].todo = call[c].todo \ {i}
        /\ \A d \in Calls \ {c} : call'[d] = call[d]
    BY <1>0, <2>1 DEF CallsOK, CallRecord
  <2>3. (Duties(call[c]))' = Duties(call[c]) \ {i} /\ i \in Duties(call[c])
    BY <2>1, <2>2 DEF Duties
  <2>4. i \in Unreferenced
    BY <2>3 DEF TrackInv, DutyInv
  <2>5. ahead' \subseteq ahead /\ loan' \subseteq loan
    BY <1>2 DEF UnmountRelease, ReleaseInode, ReleaseInodeFails, Freed, Kept
  <2>6. fails' = 0 => fails = 0 /\ UNCHANGED abandoned /\ Unreferenced' = Unreferenced \ {i}
    <3>1. CASE ReleaseInode(i) /\ UNCHANGED <<fails, abandoned>>
      BY <2>4, <3>1, ReleaseTracks DEF TrackInv
    <3>2. CASE ReleaseInodeFails(i)
      BY <1>0, <2>4, <3>2 DEF ReleaseInodeFails, Unreferenced
    <3> QED
      BY <1>2, <3>1, <3>2 DEF UnmountRelease
  <2>7. QuietInv'
    <3>1. Draining'
      BY <1>1, <2>1, <2>2, <2>3, <2>6 DEF Draining, Idle
    <3> QED
      BY <1>1, <2>1, <2>6, <3>1 DEF QuietInv, Closed
  <2>8. LoanInv'
    <3>1. Trims(call[c]) = {}
      BY <2>1 DEF Trims
    <3> QED
      BY <2>1, <2>2, <2>5, <2>6, <3>1, PlainStep
  <2> QED
    BY <2>7, <2>8
<1>3. CASE UnmountTrims(c)
  <2>1. /\ call[c].pc = "drain" /\ call[c].todo = {} /\ trimOnDeactivate' = {}
        /\ UNCHANGED <<pendingRelease, mounted, held, abandoned, fails, ahead, loan>>
        /\ Unreferenced' = Unreferenced
    BY <1>3 DEF UnmountTrims, At, core, Unreferenced
  <2>2. /\ call'[c].op = "unmount" /\ call'[c].pc = "drainTrims"
        /\ call'[c].todo = trimOnDeactivate
        /\ \A d \in Calls \ {c} : call'[d] = call[d]
    BY <1>0, <1>3 DEF UnmountTrims, Snapshot, At, CallsOK, CallRecord
  <2>3. Duties(call[c]) = {} /\ (Duties(call[c]))' = {}
    BY <2>1, <2>2 DEF Duties
  <2>4. Trims(call[c]) = {} /\ (Trims(call[c]))' = trimOnDeactivate
    BY <2>1, <2>2 DEF Trims, StateOK
  <2>5. QuietInv'
    BY <1>1, <2>1, <2>2, <2>3 DEF QuietInv, Draining, Closed, Idle
  <2>6. LoanInv'
    <3>1. mounted' /\ fails' = 0 => Noted'
      BY <2>1, <2>2, <2>4, LoanStep DEF LoanInv
    <3> QED
      BY <2>1, <2>2, <3>1, KeptStep DEF LoanInv
  <2> QED
    BY <2>5, <2>6
<1>4. ASSUME NEW i \in Inodes, UnmountTrim(c, i) PROVE LeaveInv'
  <2>1. /\ call[c].pc = "drainTrims" /\ i \in call[c].todo
        /\ call' = [call EXCEPT ![c].todo = call[c].todo \ {i}]
        /\ UNCHANGED <<pendingRelease, trimOnDeactivate, mounted, held, abandoned, loan>>
        /\ Unreferenced' = Unreferenced
    BY <1>4 DEF UnmountTrim, CoreFails, At, core, volume, Unreferenced
  <2>2. /\ call'[c].op = "unmount" /\ call'[c].pc = "drainTrims" /\ call'[c].ino = call[c].ino
        /\ call'[c].todo = call[c].todo \ {i}
        /\ \A d \in Calls \ {c} : call'[d] = call[d]
    BY <1>0, <2>1 DEF CallsOK, CallRecord
  <2>3. Duties(call[c]) = {} /\ (Duties(call[c]))' = {}
    BY <2>1, <2>2 DEF Duties
  <2>4. (Trims(call[c]))' = Trims(call[c]) \ {i}
    BY <2>1, <2>2 DEF Trims
  <2>5. fails' = 0 => fails = 0 /\ ahead' = ahead \ {i}
    BY <1>0, <1>4 DEF UnmountTrim, CoreFails
  <2>6. QuietInv'
    BY <1>1, <2>1, <2>2, <2>3, <2>5 DEF QuietInv, Draining, Closed, Idle
  <2>7. LoanInv'
    <3>1. mounted' /\ fails' = 0 => Noted'
      BY <2>1, <2>2, <2>4, <2>5, LoanStep DEF LoanInv
    <3> QED
      BY <2>1, <2>2, <3>1, KeptStep DEF LoanInv
  <2> QED
    BY <2>6, <2>7
<1>5. CASE UnmountClose(c)
  <2>1. /\ call[c].pc = "drainTrims" /\ call[c].todo = {} /\ ~mounted' /\ held' = {}
        /\ UNCHANGED <<abandoned, fails, ahead, loan>> /\ Return(c)
        /\ Unreferenced' = Unreferenced
    BY <1>5 DEF UnmountClose, At, core, Unreferenced
  <2>2. /\ call'[c] = Idle /\ \A d \in Calls \ {c} : call'[d] = call[d]
    BY <2>1, ReturnDuties DEF Return, CallsOK
  <2>3. \A d \in Calls : call'[d] = Idle
    BY <1>1, <2>2
  <2>4. Duties(call[c]) = {}
    BY <2>1 DEF Duties
  <2>5. Trims(call[c]) = {}
    BY <2>1 DEF Trims
  <2>6. \A d \in Calls \ {c} : Trims(call[d]) = {}
    BY <1>1 DEF Trims, Idle
  <2>7. fails = 0 => ahead \cap loan = {}
    BY <1>1, <2>1, <2>5, <2>6 DEF LoanInv, Noted
  <2>8. QuietInv'
    BY <1>1, <2>1, <2>3, <2>4, <2>7 DEF QuietInv, Draining, Closed, Idle
  <2>9. LoanInv'
    BY <2>1, <2>3 DEF LoanInv, OneAtATime, Idle
  <2> QED
    BY <2>8, <2>9
<1> QED
  BY <1>0, <1>2, <1>3, <1>4, <1>5
     DEF Step, RemoveCheck, RemoveUnlink, RemoveError, notePendingRelease, ReleaseTake,
         ReleaseBlock, ReleasePutBack, TrimBlock, notePreallocation, At, Shape

\* A call that begins sees to no loan yet, unless it lends or trims.
LEMMA BeginLeaves ==
  ASSUME CallsOK, NEW c \in Calls, NEW op \in Ops \ {"unmount"}, NEW i \in Inodes, NEW p \in PCs,
         Begin(c, op, i, p), ~Unmounting
  PROVE  /\ \A d \in Calls \ {c} : call'[d] = call[d]
         /\ ~Unmounting' /\ Trims(call[c]) = {} /\ call[c] = Idle
         /\ call'[c].op = op /\ call'[c].ino = i /\ call'[c].pc = p
<1>1. /\ \A d \in Calls \ {c} : call'[d] = call[d]
      /\ call'[c].op = op /\ call'[c].ino = i /\ call'[c].pc = p /\ call[c] = Idle
  BY DEF Begin, CallsOK, Idle
<1>2. Trims(call[c]) = {}
  BY <1>1 DEF Trims, Idle
<1>3. ~Unmounting'
  BY <1>1 DEF Unmounting
<1> QED
  BY <1>1, <1>2, <1>3

LEMMA NextLeaves ==
  ASSUME NoUnmountRaces, TypeInv, TrackInv, LeaveInv, [Next]_vars
  PROVE  LeaveInv'
<1> USE DEF TypeInv, LeaveInv
<1>0. Orderly => ~Unmounting
  BY DEF Orderly, NoUnmountRaces
<1>1. ASSUME NEW c \in Calls, Step(c) PROVE LeaveInv'
  BY <1>1, CallLeaves, UnmountLeaves
<1>2. ASSUME NEW c \in Calls, unmount(c) PROVE LeaveInv'
  <2>1. /\ mounted /\ ~Unmounting /\ \A d \in Calls : call[d] = Idle
        /\ UNCHANGED <<mounted, abandoned, fails, ahead, loan, trimOnDeactivate, held>>
        /\ pendingRelease' = {} /\ Unreferenced' = Unreferenced
    BY <1>2 DEF unmount, core, Unreferenced, NoUnmountRaces
  <2>2. /\ \A d \in Calls \ {c} : call'[d] = call[d]
        /\ call'[c].op = "unmount" /\ call'[c].pc = "drain" /\ call'[c].todo = pendingRelease
    BY <1>2 DEF unmount, Snapshot, CallsOK, Idle
  <2>3. \A d \in Calls : Duties(call[d]) = {} /\ Trims(call[d]) = {}
    BY <2>1 DEF Duties, Trims, Idle
  <2>4. pendingRelease \subseteq (Duties(call[c]))'
    BY <2>2 DEF Duties, StateOK
  <2>5. fails = 0 => Unreferenced \subseteq pendingRelease
    BY <2>1, <2>3 DEF TrackInv, OwedInv, Owed, QuietInv
  <2>6. Draining'
    BY <2>1, <2>2, <2>4, <2>5 DEF Draining, Idle
  <2>7. QuietInv'
    BY <2>1, <2>6 DEF QuietInv, Closed
  <2>8. LoanInv'
    BY <2>1, <2>2, <2>3, PlainStep
  <2> QED
    BY <2>7, <2>8
<1>3. ASSUME NEW i \in Inodes,
             createItem(i) \/ lookupItem(i) \/ createLink(i) \/ renameItem(i) \/ openItem(i)
      PROVE  LeaveInv'
  <2>1. /\ mounted /\ ~Unmounting
        /\ UNCHANGED <<mounted, abandoned, fails, trimOnDeactivate, call>>
    BY <1>3 DEF createItem, lookupItem, createLink, renameItem, openItem, core, volume
  <2>2. ahead' \subseteq ahead /\ loan' \subseteq loan
    BY <1>3 DEF createItem, lookupItem, createLink, renameItem, openItem, core, Freed, Kept
  <2>3. ~Unmounting'
    BY <2>1 DEF Unmounting
  <2> QED
    BY <2>1, <2>2, <2>3, Ordinary, SameLoans
<1>10. ASSUME NEW i \in Inodes, RenameError(i) PROVE LeaveInv'
  <2>1. /\ mounted /\ ~Unmounting /\ fails' = fails + 1
        /\ UNCHANGED <<mounted, call, loan>>
    BY <1>10 DEF RenameError, Kept
  <2>2. ~Unmounting' /\ fails' # 0
    BY <2>1, ConstAssumption DEF StateOK, Unmounting
  <2>3. QuietInv'
    BY <2>1, <2>2, Ordinary
  <2>4. LoanInv'
    BY <2>1, <2>2 DEF LoanInv, OneAtATime
  <2> QED
    BY <2>3, <2>4
<1>4. ASSUME NEW i \in Inodes, NEW c \in Calls, removeItem(c, i) \/ reclaimItem(c, i)
      PROVE  LeaveInv'
  <2>1. /\ mounted /\ ~Unmounting
        /\ UNCHANGED <<mounted, abandoned, fails, trimOnDeactivate, ahead, loan>>
    BY <1>0, <1>4 DEF removeItem, reclaimItem, Unused, core, volume, QuietInv, Closed
  <2>2. PICK op \in {"remove", "reclaim"}, p \in {"enter", "take"} : Begin(c, op, i, p)
    BY <1>4 DEF removeItem, reclaimItem
  <2>3. /\ \A d \in Calls \ {c} : call'[d] = call[d]
        /\ ~Unmounting' /\ Trims(call[c]) = {} /\ call'[c].op # "preallocate"
    <3>1. op \in Ops \ {"unmount"} /\ p \in PCs /\ op # "preallocate"
      BY DEF Ops, PCs
    <3> QED
      BY <2>1, <2>2, <3>1, BeginLeaves
  <2> QED
    BY <2>1, <2>3, Ordinary, PlainStep
<1>5. ASSUME NEW i \in Inodes, NEW c \in Calls, closeItem(c, i) PROVE LeaveInv'
  <2>1. /\ mounted /\ ~Unmounting
        /\ UNCHANGED <<mounted, abandoned, fails, trimOnDeactivate, ahead, loan>>
    BY <1>0, <1>5 DEF closeItem, core, QuietInv, Closed
  <2>2. CASE Begin(c, "close", i, "take")
    <3>1. /\ \A d \in Calls \ {c} : call'[d] = call[d]
          /\ ~Unmounting' /\ Trims(call[c]) = {} /\ call'[c].op # "preallocate"
      BY <2>1, <2>2, BeginLeaves DEF Ops, PCs
    <3> QED
      BY <2>1, <3>1, Ordinary, PlainStep
  <2>3. CASE UNCHANGED call
    <3>1. ~Unmounting'
      BY <2>1, <2>3 DEF Unmounting
    <3> QED
      BY <2>1, <2>3, <3>1, Ordinary, SameLoans
  <2> QED
    BY <1>5, <2>2, <2>3 DEF closeItem
<1>6. ASSUME NEW i \in Inodes, NEW c \in Calls, deactivateItem(c, i) PROVE LeaveInv'
  <2> DEFINE p == IF i \in trimOnDeactivate THEN "trim" ELSE "take"
  <2>1. /\ mounted /\ ~Unmounting
        /\ UNCHANGED <<mounted, abandoned, fails, ahead, loan>>
        /\ trimOnDeactivate' = trimOnDeactivate \ {i} /\ Begin(c, "deactivate", i, p)
    BY <1>0, <1>6 DEF deactivateItem, Unused, core, QuietInv, Closed
  <2>2. p \in PCs
    BY DEF PCs
  <2>3. /\ \A d \in Calls \ {c} : call'[d] = call[d]
        /\ ~Unmounting' /\ Trims(call[c]) = {}
        /\ call'[c].op = "deactivate" /\ call'[c].ino = i /\ call'[c].pc = p
    BY <2>1, <2>2, BeginLeaves DEF Ops
  <2>4. i \in trimOnDeactivate => i \in (Trims(call[c]))'
    BY <2>3 DEF Trims
  <2>5. mounted' /\ fails' = 0 => Noted'
    BY <2>1, <2>3, <2>4, LoanStep DEF LoanInv
  <2>6. OneAtATime'
    BY <2>1, <2>3, KeptStep DEF LoanInv
  <2>7. QuietInv'
    BY <2>1, <2>3, Ordinary
  <2> QED
    BY <2>5, <2>6, <2>7 DEF LoanInv
<1>7. ASSUME NEW i \in Inodes, NEW c \in Calls, NEW persist \in BOOLEAN,
             preallocateSpace(c, i, persist)
      PROVE  LeaveInv'
  <2> DEFINE p == IF persist THEN "noteKept" ELSE "noteLoan"
  <2>1. /\ mounted /\ ~Unmounting
        /\ UNCHANGED <<mounted, abandoned, fails, trimOnDeactivate>>
        /\ ahead' = ahead \cup {i} /\ Begin(c, "preallocate", i, p)
        /\ loan' = IF persist THEN loan \ {i} ELSE loan \cup {i}
        /\ \A d \in Calls : ~(call[d].op = "preallocate" /\ call[d].ino = i)
    BY <1>7 DEF preallocateSpace, volume, NoUnmountRaces
  <2>2. p \in PCs
    BY DEF PCs
  <2>3. /\ \A d \in Calls \ {c} : call'[d] = call[d]
        /\ ~Unmounting' /\ Trims(call[c]) = {}
        /\ call'[c].op = "preallocate" /\ call'[c].ino = i /\ call'[c].pc = p
    BY <2>1, <2>2, BeginLeaves DEF Ops
  <2>4. ~persist => i \in (Trims(call[c]))'
    BY <2>3 DEF Trims
  <2>5. mounted' /\ fails' = 0 => Noted'
    <3>1. CASE persist
      BY <2>1, <2>3, <3>1, LoanStep DEF LoanInv
    <3>2. CASE ~persist
      BY <2>1, <2>3, <2>4, <3>2, LoanStep DEF LoanInv
    <3> QED
      BY <3>1, <3>2
  <2>6. OneAtATime'
    <3>1. CASE persist
      BY <2>1, <2>3, <3>1 DEF LoanInv, OneAtATime
    <3>2. CASE ~persist
      BY <2>1, <2>3, <3>2 DEF LoanInv, OneAtATime
    <3> QED
      BY <3>1, <3>2
  <2>7. QuietInv'
    BY <2>1, <2>3, Ordinary
  <2> QED
    BY <2>5, <2>6, <2>7 DEF LoanInv
<1>8. ASSUME Remount PROVE LeaveInv'
  <2>1. /\ ~mounted /\ mounted' /\ \A c \in Calls : call[c] = Idle
        /\ UNCHANGED <<call, fails>>
        /\ ahead' \subseteq ahead /\ loan' \subseteq loan
        /\ alloc' \subseteq alloc /\ abandoned' \subseteq Unreferenced
    BY <1>8 DEF Remount, Unreferenced
  <2>2. fails = 0 => Unreferenced = {} /\ ahead \cap loan = {}
    BY <2>1 DEF QuietInv, Closed
  <2>3. QuietInv'
    BY <2>1, <2>2 DEF QuietInv, Draining, Closed, Idle
  <2>4. LoanInv'
    BY <2>1, <2>2 DEF LoanInv, Noted, OneAtATime, Idle
  <2> QED
    BY <2>3, <2>4
<1>9. ASSUME UNCHANGED vars PROVE LeaveInv'
  <2>1. UNCHANGED <<ahead, loan, call, trimOnDeactivate, mounted, fails, abandoned, held, pendingRelease>>
        /\ Unreferenced' = Unreferenced
    BY <1>9 DEF vars, core, volume, Unreferenced
  <2>2. \A c \in Calls : (Duties(call[c]))' = Duties(call[c])
    BY <2>1 DEF Duties
  <2>3. QuietInv'
    BY <2>1, <2>2 DEF QuietInv, Draining, Closed
  <2> QED
    BY <2>1, <2>3, SameLoans
<1> QED
  BY <1>1, <1>2, <1>3, <1>4, <1>5, <1>6, <1>7, <1>8, <1>9, <1>10 DEF Next

\* Unless the kernel goes on using a volume it unmounts or sends overlapping
\* preallocations, an unmount that meets no I/O error leaves neither an inode
\* without names nor borrowed space behind: releaseAllPending and
\* drainPendingTrims between them have seen to everything.
THEOREM NothingEverLeftBehind == NoUnmountRaces => (Spec => []NothingLeftBehind)
<1> SUFFICES ASSUME NoUnmountRaces PROVE Spec => []NothingLeftBehind
  OBVIOUS
<1>1. Init => LeaveInv
  BY DEF Init, LeaveInv, QuietInv, Draining, Closed, LoanInv, Noted, OneAtATime, Idle
<1>2. TypeInv /\ TrackInv /\ LeaveInv /\ [Next]_vars => LeaveInv'
  BY NextLeaves
<1>3. LeaveInv => NothingLeftBehind
  BY DEF LeaveInv, QuietInv, Closed, NothingLeftBehind, CleanUnmount, LoansReturned
<1> QED
  BY <1>1, <1>2, <1>3, TypeInvariant, TrackInvariant, PTL DEF Spec
=============================================================================
