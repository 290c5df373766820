----------------------------- MODULE Gate_proofs -----------------------------
(***************************************************************************)
(* What passes the gate, and what the probe and the audit say of it, for   *)
(* any volume, any damage and any image in the log.                        *)
(***************************************************************************)
EXTENDS Gate, FiniteSetTheorems, TLAPS

\* What the probe has established of a superblock that it lets through.
Passed(s) == s.log_bs <= 6 /\ Geometry(s)

\* Two superblocks that differ at most in the checksum and the total of free blocks.
Same(s, r) == \A f \in Fields \ {"csum", "free"} : s[f] = r[f]

\* The volume of a mount under way: the driver and the medium hold the same superblock, which
\* has passed the gate unless it came out of the log and is about to be read again.
MountedInv ==
  /\ DOMAIN fs = {"sb", "bsize", "read_only", "dev_ro", "has_journal", "attached"}
  /\ IsSuperblock(fs.sb) /\ Same(fs.sb, medium)
  /\ fs.read_only \in BOOLEAN /\ fs.dev_ro = fs.read_only /\ fs.attached \in BOOLEAN
  /\ ~ Live => ~ fs.read_only /\ ~ fs.attached
  /\ fs.sb.log_bs <= 6
  /\ pc # "reprobe" => /\ Passed(fs.sb) /\ fs.sb.incompat \subseteq Incompat.supported
                       /\ fs.sb.ro \cap RoCompat.refused = {}
                       /\ ~ fs.read_only => fs.sb.ro \subseteq RoCompat.supported
  /\ "reshaped" \notin Windows => /\ fs.bsize = ext4_sb_get_block_size(fs.sb)
                                  /\ fs.has_journal = fs.sb.has_journal
                                  /\ Live /\ ~ fs.read_only /\ fs.has_journal => fs.attached
  /\ fs.attached => "needs_recovery" \in medium.incompat

GateInv ==
  /\ IsSuperblock(medium) /\ Agreed(medium)
  /\ log # NoSb => IsSuperblock(log) /\ Image(medium, log)
  /\ pc \in {"idle", "recover", "reprobe", "journal", "walk", "done", "trapped"}
  /\ pc = "idle" => fs = NoSb
  /\ pc = "trapped" => "unproven" \in Windows
  /\ pc # "idle" => MountedInv

-----------------------------------------------------------------------------

LEMMA ProbePasses ==
  ASSUME NEW s, IsSuperblock(s), ext4b_probe(s) \in {"usable", "read_only"}
  PROVE  /\ s.magic /\ Passed(s) /\ ChecksumMatches(s) /\ s.incompat \subseteq Incompat.supported
         /\ s.ro \cap RoCompat.refused = {}
         /\ ext4b_probe(s) = "usable" => s.ro \subseteq RoCompat.supported
<1>1. s.magic /\ ~ (s.log_bs > 6) /\ Geometry(s) /\ ChecksumMatches(s)
  BY DEF ext4b_probe
<1>2. s.incompat \subseteq Incompat.supported /\ s.ro \cap RoCompat.refused = {}
  BY DEF ext4b_probe
<1>3. ext4b_probe(s) = "usable" => s.ro \subseteq RoCompat.supported
  BY DEF ext4b_probe
<1>4. s.log_bs \in Nat
  BY DEF IsSuperblock, Numbers
<1>5. QED
  BY <1>1, <1>2, <1>3, <1>4 DEF Passed

\* The driver's own list of what it may write under is that of the gate.
LEMMA ListsAgree == RoCompat.supported = CONFIG_SUPPORTED_FRO_COM
  BY DEF RoCompat, CONFIG_SUPPORTED_FRO_COM

LEMMA GeometryLike ==
  ASSUME NEW s, NEW r, s.log_bs = r.log_bs,
         \A f \in Numbers : s[f] = r[f], "64bit" \in s.incompat <=> "64bit" \in r.incompat
  PROVE  /\ Geometry(s) <=> Geometry(r)
         /\ Passed(s) <=> Passed(r)
<1>1. /\ s.lo = r.lo /\ s.hi = r.hi /\ s.inodes = r.inodes /\ s.inode_size = r.inode_size
      /\ s.fdb = r.fdb /\ s.bpg = r.bpg /\ s.ipg = r.ipg /\ s.first_ino = r.first_ino
      /\ s.journal_inum = r.journal_inum /\ s.reserved_gdt = r.reserved_gdt /\ s.flex = r.flex
      /\ s.rev = r.rev /\ s.desc = r.desc
  BY DEF Numbers
<1>2. BlockCount(s) = BlockCount(r)
  BY <1>1 DEF BlockCount
<1>3. /\ InodeSizePossible(s) <=> InodeSizePossible(r)
      /\ GroupShapePossible(s) <=> GroupShapePossible(r)
      /\ NumbersPossible(s) <=> NumbersPossible(r)
      /\ DescSizePossible(s) <=> DescSizePossible(r)
  BY <1>1, <1>2 DEF InodeSizePossible, GroupShapePossible, NumbersPossible, DescSizePossible
<1>4. GroupsPossible(s) <=> GroupsPossible(r)
  BY <1>1, <1>2 DEF GroupsPossible, GateGroups
<1>5. QED
  BY <1>3, <1>4 DEF Geometry, Passed

LEMMA AgreedLike ==
  ASSUME NEW s, NEW r, s.has_journal = r.has_journal,
         \A f \in Numbers : s[f] = r[f], "64bit" \in s.incompat <=> "64bit" \in r.incompat
  PROVE  Agreed(s) <=> Agreed(r)
<1>1. /\ s.lo = r.lo /\ s.hi = r.hi /\ s.fdb = r.fdb /\ s.bpg = r.bpg /\ s.first_ino = r.first_ino
      /\ s.journal_inum = r.journal_inum /\ s.rev = r.rev /\ s.desc = r.desc
  BY DEF Numbers
<1>2. QED
  BY <1>1 DEF Agreed, ext4_sb_get_blocks_cnt

\* A superblock that the driver stamps, or whose recovery flag it changes, is otherwise the same.
LEMMA Rewritten ==
  ASSUME NEW s, IsSuperblock(s), NEW r, DOMAIN r = Fields,
         \A f \in Fields \ {"csum", "free", "incompat"} : r[f] = s[f],
         "64bit" \in r.incompat <=> "64bit" \in s.incompat
  PROVE  /\ IsSuperblock(r)
         /\ Passed(r) <=> Passed(s)
         /\ Agreed(r) <=> Agreed(s)
         /\ r.log_bs = s.log_bs /\ r.has_journal = s.has_journal /\ r.desc = s.desc
         /\ r.ro = s.ro /\ r.bpg = s.bpg
<1>1. IsSuperblock(r)
  BY DEF IsSuperblock, Numbers, Fields
<1>2. /\ \A f \in Numbers : r[f] = s[f]
      /\ r.log_bs = s.log_bs /\ r.has_journal = s.has_journal /\ r.desc = s.desc
      /\ r.ro = s.ro /\ r.bpg = s.bpg
  BY DEF Numbers, Fields
<1>3. QED
  BY <1>1, <1>2, GeometryLike, AgreedLike

LEMMA SameIs ==
  ASSUME NEW s, NEW r, Same(s, r)
  PROVE  /\ \A f \in Numbers : s[f] = r[f]
         /\ s.log_bs = r.log_bs /\ s.has_journal = r.has_journal /\ s.desc = r.desc
         /\ s.incompat = r.incompat /\ s.ro = r.ro
  BY DEF Same, Fields, Numbers

\* An image stays one of the volume as long as what it shares with the superblock does.
LEMMA ImageLike ==
  ASSUME NEW s, NEW r, NEW image, Image(s, image), r.log_bs = s.log_bs,
         r.has_journal = s.has_journal, r.desc = s.desc
  PROVE  Image(r, image)
  BY DEF Image

\* A superblock is an image of itself.
LEMMA ImageOfItself ==
  ASSUME NEW s, NEW r, Image(r, s), NEW t, t.log_bs = s.log_bs, t.has_journal = s.has_journal,
         t.desc = s.desc
  PROVE  Image(t, s)
  BY DEF Image

LEMMA HitIsSuperblock ==
  ASSUME NEW s, IsSuperblock(s), NEW f \in DOMAIN Values, NEW r \in Hit(s, f), NEW c
  PROVE  IsSuperblock(r) /\ IsSuperblock([r EXCEPT !.csum = c])
<1>1. DOMAIN r = Fields
  BY DEF Hit, IsSuperblock
<1>2. ASSUME NEW g \in Numbers PROVE r[g] \in Nat
  <2>1. CASE f \in {"incompat", "ro"}
    BY <2>1 DEF Hit, IsSuperblock, Numbers, Fields
  <2>2. CASE f \notin {"incompat", "ro"}
    <3>1. PICK v \in Values[f] : r = [s EXCEPT ![f] = v]
      BY <2>2 DEF Hit
    <3>2. CASE g = f
      BY <3>1, <3>2, ValuesAssumption DEF IsSuperblock, Fields
    <3>3. CASE g # f
      BY <3>1, <3>3 DEF IsSuperblock, Fields
    <3>4. QED BY <3>2, <3>3
  <2>3. QED BY <2>1, <2>2
<1>3. QED
  BY <1>1, <1>2 DEF IsSuperblock, Numbers, Fields

\* Only the checksum changes: what is agreed on and what is an image stays so.
LEMMA StampedLike ==
  ASSUME NEW s, IsSuperblock(s), NEW c, NEW r, r = [s EXCEPT !.csum = c]
  PROVE  /\ IsSuperblock(r) /\ (Agreed(s) <=> Agreed(r)) /\ Same(s, r)
         /\ r.log_bs = s.log_bs /\ r.has_journal = s.has_journal /\ r.desc = s.desc
<1>1. DOMAIN r = Fields /\ \A f \in Fields \ {"csum"} : r[f] = s[f]
  BY DEF IsSuperblock
<1>2. r.incompat = s.incompat
  BY <1>1 DEF Fields
<1>3. QED
  BY <1>1, <1>2, Rewritten DEF Same

-----------------------------------------------------------------------------

LEMMA GateInit == Init => GateInv
<1>1. SUFFICES ASSUME Init PROVE GateInv
  OBVIOUS
<1>2. PICK v \in Volumes : medium = v.sb /\ log = v.log
  BY <1>1 DEF Init
<1>3. QED
  BY <1>1, <1>2, VolumesAssumption DEF Init, GateInv

LEMMA DamageStep ==
  ASSUME GateInv, NEW f \in DOMAIN Values, Damage(f) \/ DamageLog(f)
  PROVE  GateInv'
<1>1. CASE Damage(f)
  <2>1. PICK s \in Hit(medium, f), stamped \in BOOLEAN :
          Agreed(s) /\ (log # NoSb => Image(s, log)) /\ medium' = [s EXCEPT !.csum = stamped]
    BY <1>1 DEF Damage
  <2>2. IsSuperblock(s)
    BY HitIsSuperblock DEF GateInv
  <2>3. /\ IsSuperblock(medium') /\ Agreed(medium')
        /\ medium'.log_bs = s.log_bs /\ medium'.has_journal = s.has_journal /\ medium'.desc = s.desc
    BY <2>1, <2>2, StampedLike
  <2>4. log # NoSb => Image(medium', log)
    BY <2>1, <2>3, ImageLike
  <2>5. QED
    BY <1>1, <2>3, <2>4 DEF GateInv, Damage
<1>2. CASE DamageLog(f)
  <2>1. PICK s \in Hit(log, f) : Image(medium, s) /\ log' = [s EXCEPT !.csum = FALSE]
    BY <1>2 DEF DamageLog
  <2>2. IsSuperblock(s)
    BY <1>2, HitIsSuperblock DEF GateInv, DamageLog
  <2>3. /\ IsSuperblock(log') /\ (Agreed(s) <=> Agreed(log')) /\ Same(s, log')
        /\ log'.log_bs = s.log_bs /\ log'.has_journal = s.has_journal /\ log'.desc = s.desc
    BY <2>1, <2>2, StampedLike
  <2>4. log'.bpg = s.bpg
    BY <2>3 DEF Same, Fields, Numbers
  <2>5. Image(medium, log')
    BY <2>1, <2>3, <2>4 DEF Image
  <2>6. QED
    BY <1>2, <2>3, <2>5 DEF GateInv, DamageLog
<1>3. QED
  BY <1>1, <1>2

LEMMA MountStep ==
  ASSUME GateInv, NEW read_only \in BOOLEAN, ext4b_mount(read_only)
  PROVE  GateInv'
<1> DEFINE verdict == ext4b_probe(medium)
<1>1. CASE pc' = "idle" /\ fs' = NoSb
  BY <1>1 DEF GateInv, ext4b_mount
<1>2. CASE ~ (pc' = "idle" /\ fs' = NoSb)
  <2>1. /\ GateErrno(verdict, read_only) = "EOK" /\ fs' = Attached(read_only)
        /\ pc' = IF read_only THEN "walk"
                 ELSE IF "needs_recovery" \in medium.incompat THEN "recover" ELSE "journal"
        /\ UNCHANGED <<medium, log>>
    BY <1>2 DEF ext4b_mount, Refuse, Answer
  <2>2. verdict \in {"usable", "read_only"} /\ (~ read_only => verdict = "usable")
    BY <2>1 DEF GateErrno, ext4b_probe
  <2>3. /\ Passed(medium) /\ medium.incompat \subseteq Incompat.supported
        /\ medium.ro \cap RoCompat.refused = {}
        /\ verdict = "usable" => medium.ro \subseteq RoCompat.supported
    BY <2>2, ProbePasses DEF GateInv
  <2>4. read_only \/ ext4_fs_check_features(medium) # "ro"
    BY <2>2, <2>3, ListsAgree DEF ext4_fs_check_features
  <2>5. /\ DOMAIN fs' = {"sb", "bsize", "read_only", "dev_ro", "has_journal", "attached"}
        /\ fs'.sb = medium /\ fs'.bsize = ext4_sb_get_block_size(medium)
        /\ fs'.read_only = read_only /\ fs'.dev_ro = read_only /\ fs'.attached = FALSE
        /\ fs'.has_journal = medium.has_journal
    BY <2>1, <2>4 DEF Attached
  <2>6. IF read_only THEN pc' = "walk" ELSE pc' \in {"recover", "journal"}
    BY <2>1
  <2>7. MountedInv'
    BY <2>1, <2>2, <2>3, <2>5, <2>6 DEF GateInv, MountedInv, Same, Live, Passed
  <2>8. QED
    BY <2>1, <2>6, <2>7 DEF GateInv
<1>3. QED
  BY <1>1, <1>2

\* Without the flag that asked for the replay, or with it.
LEMMA FlagLike ==
  ASSUME NEW s, IsSuperblock(s), NEW r, NEW i,
         r = Stamped([s EXCEPT !.incompat = i]), "64bit" \in i <=> "64bit" \in s.incompat
  PROVE  /\ IsSuperblock(r) /\ (Passed(r) <=> Passed(s)) /\ (Agreed(r) <=> Agreed(s))
         /\ r.log_bs = s.log_bs /\ r.has_journal = s.has_journal /\ r.desc = s.desc
         /\ r.ro = s.ro /\ r.bpg = s.bpg /\ r.incompat = i
<1>1. /\ DOMAIN r = Fields /\ \A f \in Fields \ {"csum", "incompat"} : r[f] = s[f]
      /\ r.incompat = i
  BY DEF IsSuperblock, Stamped, Fields
<1>2. QED
  BY <1>1, Rewritten

LEMMA RecoverStep ==
  ASSUME GateInv, ext4_recover
  PROVE  GateInv'
<1>1. /\ pc = "recover" /\ MountedInv /\ IsSuperblock(medium) /\ Agreed(medium)
      /\ IsSuperblock(fs.sb) /\ Same(fs.sb, medium) /\ Passed(fs.sb)
  BY DEF GateInv, ext4_recover, MountedInv
<1>2. /\ \A f \in Numbers : fs.sb[f] = medium[f]
      /\ fs.sb.log_bs = medium.log_bs /\ fs.sb.has_journal = medium.has_journal
      /\ fs.sb.desc = medium.desc /\ fs.sb.incompat = medium.incompat /\ fs.sb.ro = medium.ro
  BY <1>1, SameIs
<1>3. Agreed(fs.sb)
  BY <1>1, <1>2, AgreedLike
<1>4. IsSuperblock(Replayed) /\ Agreed(Replayed)
  BY <1>1, <1>3 DEF GateInv, Replayed, Image
<1>5. log # NoSb => Image(fs.sb, log) /\ Image(Replayed, log) /\ Replayed = log
  BY <1>2, ImageLike, ImageOfItself DEF GateInv, Replayed
<1>6. CASE ~ JournalFound(fs.sb)
  <2>1. medium' = Stamped(fs.sb) /\ log' = log /\ pc' = "idle" /\ fs' = NoSb
    BY <1>6 DEF ext4_recover, Refuse, Answer
  <2>2. /\ IsSuperblock(medium') /\ Agreed(medium') /\ medium'.log_bs = fs.sb.log_bs
        /\ medium'.has_journal = fs.sb.has_journal /\ medium'.desc = fs.sb.desc
    BY <2>1, <1>1, <1>3, StampedLike DEF Stamped
  <2>3. QED
    BY <2>1, <2>2, <1>5, ImageLike DEF GateInv
<1>7. CASE JournalFound(fs.sb) /\ ~ Replayable(Replayed)
  <2>1. medium' = Stamped(Replayed) /\ log' = log /\ pc' = "idle" /\ fs' = NoSb
    BY <1>7 DEF ext4_recover, Refuse, Answer
  <2>2. /\ IsSuperblock(medium') /\ Agreed(medium') /\ medium'.log_bs = Replayed.log_bs
        /\ medium'.has_journal = Replayed.has_journal /\ medium'.desc = Replayed.desc
    BY <2>1, <1>4, StampedLike DEF Stamped
  <2>3. QED
    BY <2>1, <2>2, <1>5, ImageLike DEF GateInv
<1>8. CASE JournalFound(fs.sb) /\ Replayable(Replayed) /\ Replayed.bpg = 0
  <2>1. pc' = "trapped" /\ UNCHANGED <<medium, log, fs>>
    BY <1>8 DEF ext4_recover
  <2>2. Replayed = fs.sb => FALSE
    BY <1>8, <1>1 DEF Passed, Geometry, GroupShapePossible
  <2>3. "unproven" \in Windows
    BY <2>2, <1>5, <1>8 DEF Replayed, Image
  <2>4. MountedInv'
    BY <1>1, <2>1 DEF MountedInv, Live
  <2>5. QED
    BY <2>1, <2>3, <2>4 DEF GateInv
<1>9. CASE JournalFound(fs.sb) /\ Replayable(Replayed) /\ Replayed.bpg # 0
  <2> DEFINE rest == Replayed.incompat \ {"needs_recovery"}
  <2>1. /\ medium' = Cleared(Replayed) /\ log' = NoSb /\ pc' = "reprobe"
        /\ fs' = [fs EXCEPT !.sb = Recovered(Replayed)]
    BY <1>9 DEF ext4_recover
  <2>2. medium' = Stamped([Replayed EXCEPT !.incompat = rest])
    BY <2>1 DEF Cleared
  <2>3. /\ IsSuperblock(medium') /\ Agreed(medium')
        /\ medium'.log_bs = Replayed.log_bs /\ medium'.has_journal = Replayed.has_journal
    BY <2>2, <1>4, FlagLike
  <2>4. /\ fs'.sb = Recovered(Replayed) /\ fs'.bsize = fs.bsize /\ fs'.read_only = fs.read_only
        /\ fs'.dev_ro = fs.dev_ro /\ fs'.has_journal = fs.has_journal /\ fs'.attached = fs.attached
        /\ DOMAIN fs' = DOMAIN fs
    BY <1>1, <2>1 DEF MountedInv
  <2>5. DOMAIN fs'.sb = Fields /\ \A f \in Fields \ {"free"} : fs'.sb[f] = medium'[f]
    BY <2>1, <2>3, <2>4 DEF Recovered, IsSuperblock
  <2>6. IsSuperblock(fs'.sb) /\ Same(fs'.sb, medium') /\ fs'.sb.log_bs = Replayed.log_bs
        /\ fs'.sb.has_journal = Replayed.has_journal
    BY <2>3, <2>5 DEF Same, IsSuperblock, Numbers, Fields
  <2>7. Replayed.log_bs \in Nat /\ Replayed.log_bs <= 6
    BY <1>4, <1>9 DEF IsSuperblock, Numbers, Replayable
  <2>8. "reshaped" \notin Windows => /\ Replayed.log_bs = fs.sb.log_bs
                                     /\ Replayed.has_journal = fs.sb.has_journal
    BY <1>5, <2>7 DEF Image, Replayed
  <2>9. /\ fs.read_only \in BOOLEAN /\ fs.dev_ro = fs.read_only /\ ~ fs.read_only /\ ~ fs.attached
        /\ fs.attached \in BOOLEAN
        /\ "reshaped" \notin Windows => /\ fs.bsize = ext4_sb_get_block_size(fs.sb)
                                        /\ fs.has_journal = fs.sb.has_journal
        /\ DOMAIN fs = {"sb", "bsize", "read_only", "dev_ro", "has_journal", "attached"}
    BY <1>1 DEF MountedInv, Live
  <2>10. "reshaped" \notin Windows => fs'.bsize = ext4_sb_get_block_size(fs'.sb)
    BY <2>4, <2>6, <2>8, <2>9 DEF ext4_sb_get_block_size
  <2>11. MountedInv'
    BY <2>1, <2>4, <2>6, <2>7, <2>8, <2>9, <2>10 DEF MountedInv, Live
  <2>12. QED
    BY <2>1, <2>3, <2>11 DEF GateInv
<1>10. QED
  BY <1>6, <1>7, <1>8, <1>9

LEMMA ReprobeStep ==
  ASSUME GateInv, Reprobe
  PROVE  GateInv'
<1>1. /\ pc = "reprobe" /\ MountedInv /\ IsSuperblock(medium) /\ Agreed(medium)
      /\ IsSuperblock(fs.sb) /\ Same(fs.sb, medium) /\ log' = log
  BY DEF GateInv, Reprobe, MountedInv
<1>2. CASE pc' = "idle" /\ fs' = NoSb
  <2>1. /\ fs.sb.log_bs = medium.log_bs /\ fs.sb.has_journal = medium.has_journal
        /\ fs.sb.desc = medium.desc /\ Agreed(fs.sb)
    BY <1>1, SameIs, AgreedLike
  <2>2. medium' = Stamped(fs.sb)
    BY <1>2 DEF Reprobe, Refuse, Answer
  <2>3. /\ IsSuperblock(medium') /\ Agreed(medium') /\ medium'.log_bs = medium.log_bs
        /\ medium'.has_journal = medium.has_journal /\ medium'.desc = medium.desc
    BY <1>1, <2>1, <2>2, StampedLike DEF Stamped
  <2>4. QED
    BY <1>1, <1>2, <2>3, ImageLike DEF GateInv
<1>3. CASE ~ (pc' = "idle" /\ fs' = NoSb)
  <2>1. ext4b_probe(medium) = "usable" /\ pc' = "journal" /\ fs' = fs /\ medium' = medium
    BY <1>3 DEF Reprobe, Refuse, Answer, ext4b_probe
  <2>2. /\ Passed(medium) /\ medium.incompat \subseteq Incompat.supported
        /\ medium.ro \cap RoCompat.refused = {}
        /\ medium.ro \subseteq RoCompat.supported
    BY <1>1, <2>1, ProbePasses
  <2>3. /\ Passed(fs.sb) /\ fs.sb.incompat = medium.incompat /\ fs.sb.ro = medium.ro
    BY <1>1, <2>2, SameIs, GeometryLike DEF MountedInv
  <2>4. MountedInv'
    BY <1>1, <2>1, <2>2, <2>3 DEF MountedInv, Live
  <2>5. QED
    BY <1>1, <2>1, <2>4 DEF GateInv
<1>4. QED
  BY <1>2, <1>3

LEMMA JournalStep ==
  ASSUME GateInv, ext4_journal_start
  PROVE  GateInv'
<1>1. /\ pc = "journal" /\ MountedInv /\ IsSuperblock(medium) /\ Agreed(medium)
      /\ IsSuperblock(fs.sb) /\ Same(fs.sb, medium) /\ Passed(fs.sb)
      /\ fs.sb.incompat \subseteq Incompat.supported /\ fs.sb.ro \subseteq RoCompat.supported
      /\ fs.sb.ro \cap RoCompat.refused = {} /\ ~ fs.read_only /\ ~ fs.attached
  BY DEF GateInv, ext4_journal_start, MountedInv, Live
<1>2. /\ \A f \in Numbers : fs.sb[f] = medium[f]
      /\ fs.sb.log_bs = medium.log_bs /\ fs.sb.has_journal = medium.has_journal
      /\ fs.sb.desc = medium.desc /\ fs.sb.incompat = medium.incompat /\ fs.sb.ro = medium.ro
  BY <1>1, SameIs
<1>3. Agreed(fs.sb)
  BY <1>1, <1>2, AgreedLike
<1>4. CASE ~ fs.has_journal \/ ~ fs.sb.has_journal
  <2>1. pc' = "walk" /\ UNCHANGED <<fs, medium, log>>
    BY <1>1, <1>4 DEF ext4_journal_start, JournalFound
  <2>2. "reshaped" \notin Windows => ~ fs.has_journal
    BY <1>1, <1>4 DEF MountedInv
  <2>3. MountedInv'
    BY <1>1, <2>1, <2>2 DEF MountedInv, Live
  <2>4. QED
    BY <2>1, <2>3 DEF GateInv
<1>5. CASE fs.has_journal /\ JournalFound(fs.sb)
  <2> DEFINE flags == fs.sb.incompat \cup {"needs_recovery"}
             s == Stamped([fs.sb EXCEPT !.incompat = flags])
  <2>1. /\ fs' = [fs EXCEPT !.sb = s, !.attached = TRUE]
        /\ medium' = s /\ log' \in {NoSb, s} /\ pc' = "walk"
    BY <1>1, <1>5 DEF ext4_journal_start, JournalFound
  <2>2. /\ IsSuperblock(s) /\ (Passed(s) <=> Passed(fs.sb)) /\ (Agreed(s) <=> Agreed(fs.sb))
        /\ s.log_bs = fs.sb.log_bs /\ s.has_journal = fs.sb.has_journal /\ s.desc = fs.sb.desc
        /\ s.ro = fs.sb.ro /\ s.bpg = fs.sb.bpg /\ s.incompat = flags
    <3>1. "64bit" \in flags <=> "64bit" \in fs.sb.incompat
      OBVIOUS
    <3>2. s = Stamped([fs.sb EXCEPT !.incompat = flags])
      OBVIOUS
    <3>3. QED
      <4> HIDE DEF s, flags
      <4> QED BY <1>1, <3>1, <3>2, FlagLike
  <2>3. Image(s, s)
    BY <2>2, <1>1, <1>3 DEF Image, Passed, Geometry, GroupShapePossible
  <2>4. /\ fs'.sb = s /\ fs'.bsize = fs.bsize /\ fs'.read_only = fs.read_only
        /\ fs'.dev_ro = fs.dev_ro /\ fs'.has_journal = fs.has_journal /\ fs'.attached = TRUE
        /\ DOMAIN fs' = DOMAIN fs
    BY <1>1, <2>1 DEF MountedInv
  <2>5. flags \subseteq Incompat.supported
    BY <1>1 DEF Incompat
  <2>6. fs.bsize = ext4_sb_get_block_size(fs.sb) => fs'.bsize = ext4_sb_get_block_size(s)
    BY <2>2, <2>4 DEF ext4_sb_get_block_size
  <2>7. MountedInv'
    <3> HIDE DEF s
    <3>1. Same(s, s)
      BY DEF Same
    <3> QED
      BY <1>1, <2>1, <2>2, <2>4, <2>5, <2>6, <3>1 DEF MountedInv, Live
  <2>8. QED
    <3> HIDE DEF s
    <3> QED BY <1>1, <1>3, <2>1, <2>2, <2>3, <2>7 DEF GateInv
<1>6. CASE fs.has_journal /\ fs.sb.has_journal /\ ~ JournalFound(fs.sb)
  <2>1. medium' = Stamped(fs.sb) /\ log' = log /\ pc' = "idle" /\ fs' = NoSb
    BY <1>1, <1>6 DEF ext4_journal_start, Refuse, Answer
  <2>2. /\ IsSuperblock(medium') /\ Agreed(medium') /\ medium'.log_bs = medium.log_bs
        /\ medium'.has_journal = medium.has_journal /\ medium'.desc = medium.desc
    BY <2>1, <1>1, <1>2, <1>3, StampedLike DEF Stamped
  <2>3. QED
    BY <2>1, <2>2, ImageLike DEF GateInv
<1>7. QED
  BY <1>4, <1>5, <1>6

LEMMA UmountStep ==
  ASSUME GateInv, ext4_umount
  PROVE  GateInv'
<1>1. /\ pc = "done" /\ IsSuperblock(medium) /\ Agreed(medium)
      /\ IsSuperblock(fs.sb) /\ Same(fs.sb, medium)
      /\ pc' = "idle" /\ fs' = NoSb /\ fs.read_only \in BOOLEAN /\ fs.attached \in BOOLEAN
  BY DEF GateInv, ext4_umount, MountedInv
<1>2. /\ \A f \in Numbers : fs.sb[f] = medium[f]
      /\ fs.sb.log_bs = medium.log_bs /\ fs.sb.has_journal = medium.has_journal
      /\ fs.sb.desc = medium.desc /\ fs.sb.incompat = medium.incompat
  BY <1>1, SameIs
<1>3. Agreed(fs.sb)
  BY <1>1, <1>2, AgreedLike
<1>4. medium' \in {medium, Cleared(fs.sb), Stamped(fs.sb)} /\ log' \in {NoSb, log}
  BY DEF ext4_umount
<1>5. /\ IsSuperblock(Cleared(fs.sb)) /\ Agreed(Cleared(fs.sb))
      /\ Cleared(fs.sb).log_bs = fs.sb.log_bs /\ Cleared(fs.sb).has_journal = fs.sb.has_journal
      /\ Cleared(fs.sb).desc = fs.sb.desc
  <2>1. Cleared(fs.sb) = Stamped([fs.sb EXCEPT !.incompat = fs.sb.incompat \ {"needs_recovery"}])
    BY DEF Cleared
  <2>2. QED
    BY <2>1, <1>1, <1>3, FlagLike
<1>6. /\ IsSuperblock(Stamped(fs.sb)) /\ Agreed(Stamped(fs.sb))
      /\ Stamped(fs.sb).log_bs = fs.sb.log_bs /\ Stamped(fs.sb).has_journal = fs.sb.has_journal
      /\ Stamped(fs.sb).desc = fs.sb.desc
  BY <1>1, <1>3, StampedLike DEF Stamped
<1>7. /\ IsSuperblock(medium') /\ Agreed(medium') /\ medium'.log_bs = medium.log_bs
      /\ medium'.has_journal = medium.has_journal /\ medium'.desc = medium.desc
  BY <1>1, <1>2, <1>4, <1>5, <1>6
<1>8. QED
  BY <1>1, <1>4, <1>7, ImageLike DEF GateInv

\* Every step keeps the driver and the gate at one superblock.
LEMMA GateStep == GateInv /\ [Next]_vars => GateInv'
<1> SUFFICES ASSUME GateInv, [Next]_vars PROVE GateInv'
  OBVIOUS
<1>1. ASSUME NEW f \in DOMAIN Values, Damage(f) \/ DamageLog(f) PROVE GateInv'
  BY <1>1, DamageStep
<1>2. ASSUME NEW g \in 0 .. 3, DamageDescriptor(g) PROVE GateInv'
  BY <1>2 DEF DamageDescriptor, GateInv
<1>3. ASSUME NEW read_only \in BOOLEAN, ext4b_mount(read_only) PROVE GateInv'
  BY <1>3, MountStep
<1>4. CASE bridge_audit_free_accounting
  <2>1. pc = "walk" /\ pc' \in {"walk", "done"} /\ UNCHANGED <<medium, log, fs>>
    BY <1>4 DEF bridge_audit_free_accounting
  <2>2. MountedInv'
    BY <2>1 DEF GateInv, MountedInv, Live
  <2>3. QED
    BY <2>1, <2>2 DEF GateInv
<1>5. CASE Crash
  BY <1>5 DEF Crash, GateInv
<1>6. CASE UNCHANGED vars
  BY <1>6 DEF vars, GateInv, MountedInv, Live
<1>7. QED
  BY <1>1, <1>2, <1>3, <1>4, <1>5, <1>6, RecoverStep, ReprobeStep, JournalStep, UmountStep
     DEF Next

\* Nothing that the gate does not know is ever written under: whatever the superblock and the
\* log hold and however they were damaged, a mounted volume has no feature outside the
\* allow-list, and the bridge and lwext4 agree on whether it may be written (ext4b_probe,
\* ext4b_mount, ext4_fs_check_features).
THEOREM OnlyKnownWritten == Spec => []WritableOnlyKnown
<1>1. GateInv => WritableOnlyKnown
  BY DEF GateInv, MountedInv, WritableOnlyKnown, Live
<1>2. QED
  BY <1>1, GateInit, GateStep, PTL DEF Spec

\* A mount writes only to what the gate has allowed, with its journal attached and with buffers
\* of the size of its blocks, also when a replay has put another superblock in the place of the
\* first, as long as that one has the same shape and blocks per group (ext4b_mount, ext4_recover).
THEOREM MountsAlwaysAllowed ==
  ASSUME Windows \cap {"reshaped", "unproven"} = {}
  PROVE  Spec => []MountAllowed
<1>1. GateInv => MountAllowed
  <2> SUFFICES ASSUME GateInv PROVE MountAllowed
    OBVIOUS
  <2>1. TypeOK
    BY DEF GateInv, TypeOK
  <2>2. WritableOnlyKnown
    BY DEF GateInv, MountedInv, WritableOnlyKnown, Live
  <2>3. MountsWhatItChecked
    BY DEF GateInv, MountedInv, MountsWhatItChecked, Live
  <2>4. QED
    BY <2>1, <2>2, <2>3 DEF MountAllowed
<1>2. QED
  BY <1>1, GateInit, GateStep, PTL DEF Spec

-----------------------------------------------------------------------------
(* Addresses.                                                              *)

BlockSizes == {1024, 2048, 4096, 8192, 16384, 32768, 65536}

LEMMA BlockSizeIs ==
  ASSUME NEW k \in Nat, k <= 6
  PROVE  BlockSize(k) \in BlockSizes
<1>1. k \in {0, 1, 2, 3, 4, 5, 6}
  OBVIOUS
<1>2. BlockSize(0) = 1024 /\ BlockSize(1) = 2048 /\ BlockSize(2) = 4096 /\ BlockSize(3) = 8192
  BY DEF BlockSize
<1>3. BlockSize(4) = 16384 /\ BlockSize(5) = 32768 /\ BlockSize(6) = 65536
  BY DEF BlockSize
<1>4. QED
  BY <1>1, <1>2, <1>3 DEF BlockSizes

LEMMA PowersOfTwoAre ==
  PowersOfTwo \subseteq {1, 2, 4, 8, 16, 32, 64, 128, 256, 512, 1024, 2048, 4096, 8192, 16384,
                         32768, 65536}
<1>1. 0 .. 16 = {0, 1, 2, 3, 4, 5, 6, 7, 8, 9, 10, 11, 12, 13, 14, 15, 16}
  OBVIOUS
<1>2. /\ 2 ^ 0 = 1 /\ 2 ^ 1 = 2 /\ 2 ^ 2 = 4 /\ 2 ^ 3 = 8 /\ 2 ^ 4 = 16 /\ 2 ^ 5 = 32
      /\ 2 ^ 6 = 64 /\ 2 ^ 7 = 128 /\ 2 ^ 8 = 256
  OBVIOUS
<1>3. /\ 2 ^ 9 = 512 /\ 2 ^ 10 = 1024 /\ 2 ^ 11 = 2048 /\ 2 ^ 12 = 4096 /\ 2 ^ 13 = 8192
      /\ 2 ^ 14 = 16384 /\ 2 ^ 15 = 32768 /\ 2 ^ 16 = 65536
  OBVIOUS
<1>4. QED
  BY <1>1, <1>2, <1>3 DEF PowersOfTwo

LEMMA Division ==
  ASSUME NEW n \in Nat, NEW b \in Nat \ {0}
  PROVE  /\ n \div b \in Nat /\ n % b \in 0 .. b - 1
         /\ n % b = n - b * (n \div b)
<1>1. n \div b \in Int /\ n \div b >= 0
  OBVIOUS
<1>2. n % b \in 0 .. b - 1
  OBVIOUS
<1>3. n % b = n - b * (n \div b)
  OBVIOUS
<1>4. QED
  BY <1>1, <1>2, <1>3

LEMMA Quotient ==
  ASSUME NEW b \in Nat \ {0}, NEW q \in Nat, NEW r \in 0 .. b - 1
  PROVE  (b * q + r) \div b = q
<1>1. b * q \in Nat
  OBVIOUS
<1>2. QED
  BY <1>1

\* Two ways to divide and round up.  They part where the first block counts for one more group.
LEMMA RoundedUp ==
  ASSUME NEW n \in Nat, NEW b \in Nat, b >= 8, NEW z \in {0, 1}, n > z, z = 1 => n % b # 1
  PROVE  (n - z + b - 1) \div b = n \div b + (IF n % b # 0 THEN 1 ELSE 0)
<1> DEFINE q == n \div b
           r == n % b
<1>1. q \in Nat /\ r \in 0 .. b - 1 /\ n = b * q + r
  BY Division
<1>2. b * (q + 1) = b * q + b /\ b * q \in Int
  BY <1>1
<1> HIDE DEF q, r
<1>3. CASE r = 0
  <2>1. n - z + b - 1 = b * q + (b - 1 - z) /\ b - 1 - z \in 0 .. b - 1
    BY <1>1, <1>2, <1>3
  <2>2. (n - z + b - 1) \div b = q
    BY <2>1, <1>1, Quotient
  <2>3. QED
    BY <2>2, <1>3, <1>1 DEF q, r
<1>4. CASE r # 0
  <2>1. r - 1 - z \in 0 .. b - 1
    BY <1>1, <1>4 DEF r
  <2>2. n - z + b - 1 = b * (q + 1) + (r - 1 - z)
    BY <1>1, <1>2
  <2>3. (n - z + b - 1) \div b = q + 1
    BY <2>1, <2>2, <1>1, Quotient
  <2>4. QED
    BY <2>3, <1>4 DEF q, r
<1>5. QED
  BY <1>3, <1>4

\* Records of a power of two bytes never lie across two blocks.
LEMMA RecordInBlock ==
  ASSUME NEW k \in Nat, NEW b \in BlockSizes, NEW e \in PowersOfTwo, e >= 128, e <= b
  PROVE  ((k * e) % b) + e <= b
<1>1. e \in {128, 256, 512, 1024, 2048, 4096, 8192, 16384, 32768, 65536}
  BY PowersOfTwoAre
<1> DEFINE m == b \div e
<1>2. b = m * e /\ m \in Nat \ {0}
  <2>1. CASE e \in {128, 256, 512}
    BY <2>1 DEF BlockSizes
  <2>2. CASE e \in {1024, 2048, 4096}
    BY <2>2 DEF BlockSizes
  <2>3. CASE e \in {8192, 16384, 32768, 65536}
    BY <2>3 DEF BlockSizes
  <2>4. QED
    BY <1>1, <2>1, <2>2, <2>3
<1> HIDE DEF m
<1>3. k * e \in Nat /\ b \in Nat \ {0} /\ e \in Nat \ {0}
  BY <1>1 DEF BlockSizes
<1> DEFINE q == (k * e) \div b
           j == k - m * q
<1>4. q \in Nat /\ (k * e) % b = k * e - b * q /\ (k * e) % b \in 0 .. b - 1
  BY <1>3, Division
<1>5. j \in Int /\ (k * e) % b = j * e
  BY <1>2, <1>3, <1>4
<1> HIDE DEF q, j
<1>6. j * e < m * e
  BY <1>2, <1>4, <1>5
<1>7. j < m
  BY <1>2, <1>3, <1>5, <1>6
<1>8. j * e + e <= m * e
  BY <1>2, <1>3, <1>5, <1>7
<1>9. QED
  BY <1>2, <1>5, <1>8

\* The numbers of a superblock that has passed, as the gate and as lwext4 read them.
Possible(s) ==
  /\ IsSuperblock(s) /\ Passed(s) /\ Agreed(s)
  /\ Windows \cap {"phantom", "high", "desc", "zero"} = {}

LEMMA Shape ==
  ASSUME NEW s, Possible(s)
  PROVE  /\ ext4_sb_get_block_size(s) = BlockSize(s.log_bs) /\ BlockSize(s.log_bs) \in BlockSizes
         /\ s.bpg \in Nat /\ s.bpg >= 8 /\ s.bpg <= 8 * BlockSize(s.log_bs)
         /\ s.ipg \in Nat /\ s.ipg >= 1 /\ s.ipg <= 8 * BlockSize(s.log_bs)
         /\ s.fdb \in {0, 1} /\ s.inodes \in Nat
         /\ ext4_sb_get_blocks_cnt(s) \in Nat /\ ext4_sb_get_blocks_cnt(s) > s.fdb
         /\ BlockCount(s) = ext4_sb_get_blocks_cnt(s)
         /\ s.fdb = 1 => ext4_sb_get_blocks_cnt(s) % s.bpg # 1
         /\ s.ipg * GateGroups(s) = s.inodes
         /\ GateGroups(s) # 0 /\ GateGroups(s) < Word
<1>1. /\ s.log_bs \in Nat /\ s.lo \in Nat /\ s.hi \in Nat /\ s.bpg \in Nat /\ s.ipg \in Nat
      /\ s.fdb \in Nat /\ s.inodes \in Nat /\ s.log_bs <= 6
  BY DEF Possible, IsSuperblock, Numbers, Passed
<1>2. ext4_sb_get_block_size(s) = BlockSize(s.log_bs) /\ BlockSize(s.log_bs) \in BlockSizes
  BY <1>1, BlockSizeIs DEF ext4_sb_get_block_size
<1>3. /\ s.bpg >= 8 /\ s.bpg <= 8 * BlockSize(s.log_bs)
      /\ s.ipg >= 1 /\ s.ipg <= 8 * BlockSize(s.log_bs)
      /\ s.fdb \in {0, 1} /\ BlockCount(s) > s.fdb
  BY <1>1 DEF Possible, Passed, Geometry, GroupShapePossible
<1>4. s.hi * Word \in Nat
  BY <1>1, WordAssumption
<1>5. BlockCount(s) = ext4_sb_get_blocks_cnt(s) /\ ext4_sb_get_blocks_cnt(s) \in Nat
  <2>1. s.hi = 0 \/ "64bit" \in s.incompat
    BY DEF Possible, Agreed
  <2>2. CASE "64bit" \in s.incompat
    BY <1>1, <1>4, <2>2 DEF BlockCount, ext4_sb_get_blocks_cnt
  <2>3. CASE s.hi = 0 /\ "64bit" \notin s.incompat
    BY <1>1, <2>3, WordAssumption DEF BlockCount, ext4_sb_get_blocks_cnt
  <2>4. QED BY <2>1, <2>2, <2>3
<1>6. s.fdb = 1 => ext4_sb_get_blocks_cnt(s) % s.bpg # 1
  BY <1>1, <1>3 DEF Possible, Agreed
<1>7. s.ipg * GateGroups(s) = s.inodes /\ GateGroups(s) # 0 /\ GateGroups(s) < Word
  BY DEF Possible, Passed, Geometry, GroupsPossible
<1>8. QED
  BY <1>1, <1>2, <1>3, <1>5, <1>6, <1>7

\* The gate and lwext4 count the same groups.
LEMMA GroupsAgree ==
  ASSUME NEW s, Possible(s)
  PROVE  /\ ext4_block_group_cnt(s) = GateGroups(s) /\ GateGroups(s) \in Nat
         /\ ext4_sb_get_blocks_cnt(s) <= s.bpg * GateGroups(s)
         /\ s.bpg * (GateGroups(s) - 1) <= ext4_sb_get_blocks_cnt(s)
<1> DEFINE n == ext4_sb_get_blocks_cnt(s)
           up == n \div s.bpg + (IF n % s.bpg # 0 THEN 1 ELSE 0)
<1>1. /\ n \in Nat /\ n > s.fdb /\ s.bpg \in Nat /\ s.bpg >= 8 /\ s.fdb \in {0, 1}
      /\ s.fdb = 1 => n % s.bpg # 1
      /\ GateGroups(s) < Word /\ GateGroups(s) = (n - s.fdb + s.bpg - 1) \div s.bpg
  BY Shape DEF GateGroups
<1>2. ext4_block_group_cnt(s) = up % Word
  BY DEF ext4_block_group_cnt
<1> HIDE DEF n
<1>3. GateGroups(s) = up
  BY <1>1, RoundedUp
<1> DEFINE b == s.bpg
           q == n \div b
           r == n % b
<1>4. q \in Nat /\ r \in 0 .. b - 1 /\ n = b * q + r /\ b \in Nat \ {0}
  <2>1. b \in Nat \ {0}
    BY <1>1
  <2>2. q \in Nat /\ r \in 0 .. b - 1 /\ r = n - b * q
    BY <1>1, <2>1, Division
  <2>3. b * q \in Int
    BY <2>1, <2>2
  <2>4. QED
    BY <1>1, <2>1, <2>2, <2>3
<1>5. up = q + (IF r # 0 THEN 1 ELSE 0)
  OBVIOUS
<1> HIDE DEF q, r, up, b
<1>6. up \in Nat
  BY <1>4, <1>5
<1>7. up % Word = up
  <2>1. up < Word
    BY <1>1, <1>3
  <2>2. QED
    BY <1>6, <2>1, WordAssumption
<1>8. b * (q + 1) = b * q + b /\ b * (q - 1) = b * q - b /\ b * q \in Int
  BY <1>4
<1>9. n <= b * up /\ b * (up - 1) <= n
  <2>1. CASE r = 0
    <3>1. up = q
      BY <1>4, <1>5, <2>1
    <3>2. QED BY <1>4, <1>8, <2>1, <3>1
  <2>2. CASE r # 0
    <3>1. up = q + 1 /\ up - 1 = q
      BY <1>4, <1>5, <2>2
    <3>2. QED BY <1>4, <1>8, <2>2, <3>1
  <2>3. QED BY <2>1, <2>2
<1>10. QED
  BY <1>2, <1>3, <1>6, <1>7, <1>9 DEF n, b

LEMMA BitmapFits ==
  ASSUME NEW s, Possible(s), NEW g \in 0 .. ext4_block_group_cnt(s) - 1
  PROVE  /\ ext4_inodes_in_group_cnt(s, g) <= 8 * BlockSize(s.log_bs)
         /\ ext4_blocks_in_group_cnt(s, g) <= 8 * BlockSize(s.log_bs)
<1> DEFINE n == ext4_sb_get_blocks_cnt(s)
           G == GateGroups(s)
           most == 8 * BlockSize(s.log_bs)
           blocks == n - (G - 1) * s.bpg
           inodes == s.inodes - (G - 1) * s.ipg
<1>1. /\ n \in Nat /\ s.bpg \in Nat /\ s.ipg \in Nat /\ s.inodes \in Nat /\ s.bpg <= most
      /\ s.ipg <= most /\ s.ipg * G = s.inodes /\ most \in Nat
  BY Shape DEF BlockSizes
<1>2. ext4_block_group_cnt(s) = G /\ G \in Nat /\ n <= s.bpg * G /\ s.bpg * (G - 1) <= n
  BY GroupsAgree
<1>3. /\ ext4_inodes_in_group_cnt(s, g) \in {s.ipg, inodes % Word}
      /\ ext4_blocks_in_group_cnt(s, g) \in {s.bpg, blocks % Word}
  BY <1>2 DEF ext4_inodes_in_group_cnt, ext4_blocks_in_group_cnt
<1> HIDE DEF n, G, most
<1>4. inodes = s.ipg
  BY <1>1, <1>2
<1>5. blocks \in Nat /\ blocks <= s.bpg
  BY <1>1, <1>2
<1>6. ASSUME NEW x \in Nat PROVE x % Word \in Nat /\ x % Word <= x
  BY WordAssumption
<1>7. QED
  BY <1>1, <1>3, <1>4, <1>5, <1>6 DEF most

LEMMA InodeAddressed ==
  ASSUME NEW s, Possible(s), NEW i \in 1 .. s.inodes
  PROVE  /\ InodeAt(s, i).group < ext4_block_group_cnt(s)
         /\ InodeAt(s, i).offset + s.inode_size <= BlockSize(s.log_bs)
<1>1. /\ s.ipg \in Nat \ {0} /\ s.inodes \in Nat /\ s.ipg * GateGroups(s) = s.inodes
      /\ ext4_sb_get_block_size(s) = BlockSize(s.log_bs) /\ BlockSize(s.log_bs) \in BlockSizes
  BY Shape
<1>2. ext4_block_group_cnt(s) = GateGroups(s) /\ GateGroups(s) \in Nat
  BY GroupsAgree
<1>3. /\ (i - 1) \div s.ipg \in Nat /\ (i - 1) % s.ipg \in 0 .. s.ipg - 1
      /\ (i - 1) % s.ipg = (i - 1) - s.ipg * ((i - 1) \div s.ipg)
  <2>1. i - 1 \in Nat
    BY <1>1
  <2>2. QED BY <1>1, <2>1, Division
<1>4. (i - 1) \div s.ipg < GateGroups(s)
  <2> DEFINE q == (i - 1) \div s.ipg
             G == GateGroups(s)
  <2>1. q \in Nat /\ G \in Nat /\ s.ipg * q < s.ipg * G
    BY <1>1, <1>2, <1>3
  <2> HIDE DEF q, G
  <2>2. q < G
    BY <1>1, <2>1
  <2>3. QED BY <2>2 DEF q, G
<1>5. s.inode_size \in PowersOfTwo /\ s.inode_size >= 128 /\ s.inode_size <= BlockSize(s.log_bs)
  BY DEF Possible, Passed, Geometry, InodeSizePossible
<1>6. ((((i - 1) % s.ipg) * s.inode_size) % BlockSize(s.log_bs)) + s.inode_size
        <= BlockSize(s.log_bs)
  BY <1>1, <1>3, <1>5, RecordInBlock
<1>7. QED
  BY <1>1, <1>2, <1>4, <1>6 DEF InodeAt

LEMMA DescriptorInTable ==
  ASSUME NEW s, Possible(s), NEW g \in 0 .. ext4_block_group_cnt(s) - 1
  PROVE  InTable(s, g, BlockSize(s.log_bs))
<1> DEFINE b == BlockSize(s.log_bs)
           d == ext4_sb_get_desc_size(s)
           c == b \div d
           G == GateGroups(s)
<1>1. ext4_sb_get_block_size(s) = b /\ b \in BlockSizes /\ s.fdb \in {0, 1}
  BY Shape
<1>2. d \in {32, 64}
  <2>1. s.desc \in Nat /\ s.desc <= 64
    BY DEF Possible, IsSuperblock, Numbers, Agreed
  <2>2. s.desc = 0 \/ (s.desc >= 32 /\ s.desc \in PowersOfTwo)
    BY DEF Possible, Passed, Geometry, DescSizePossible
  <2>3. s.desc \in {0, 32, 64}
    BY <2>1, <2>2, PowersOfTwoAre
  <2>4. QED
    BY <2>3 DEF ext4_sb_get_desc_size
<1>3. G \in Nat /\ g \in Nat /\ g < G
  BY GroupsAgree
<1>4. c \in Nat \ {0} /\ b = c * d
  BY <1>1, <1>2 DEF BlockSizes
<1>5. DescriptorAt(s, g) = [block |-> s.fdb + g \div c + 1, offset |-> (g % c) * d]
  BY <1>1 DEF DescriptorAt, ext4_fs_get_descriptor_block
<1>6. TableEnd(s) = s.fdb + (G + c - 1) \div c
  BY <1>1 DEF TableEnd
<1> HIDE DEF b, d, c, G
<1>7. g \div c \in Nat /\ g % c \in 0 .. c - 1 /\ g % c = g - c * (g \div c)
  BY <1>3, <1>4, Division
<1>8. g \div c + 1 <= (G + c - 1) \div c
  <2> DEFINE q == g \div c
             p == (G + c - 1) \div c
  <2>1. p \in Nat /\ (G + c - 1) % c \in 0 .. c - 1 /\ (G + c - 1) % c = (G + c - 1) - c * p
    <3>1. G + c - 1 \in Nat
      BY <1>3, <1>4
    <3>2. QED BY <3>1, <1>4, Division
  <2>2. q \in Nat /\ c * q <= g /\ c * q \in Int /\ c * p \in Int
    BY <1>3, <1>4, <1>7, <2>1
  <2> HIDE DEF q, p
  <2>3. c * p > G - 1
    BY <1>3, <1>4, <2>1, <2>2 DEF p
  <2>4. c * q < c * p
    BY <1>3, <2>2, <2>3
  <2>5. q < p
    BY <1>4, <2>1, <2>2, <2>4
  <2>6. QED
    BY <2>1, <2>2, <2>5 DEF q, p
<1>9. (g % c) * d + d <= b
  BY <1>2, <1>4, <1>7
<1>10. ((g % c) * d) % 4 = 0
  BY <1>2, <1>4, <1>7
<1>11. (G + c - 1) \div c \in Int
  BY <1>3, <1>4
<1>12. QED
  BY <1>1, <1>5, <1>6, <1>7, <1>8, <1>9, <1>10, <1>11 DEF InTable, d, b

\* The superblock of a mount under way is one that the gate and lwext4 read alike.
LEMMA MountedPossible ==
  ASSUME Windows \cap {"phantom", "high", "desc", "zero", "reshaped"} = {}, GateInv,
         pc # "idle", pc # "reprobe"
  PROVE  Possible(fs.sb) /\ fs.bsize = BlockSize(fs.sb.log_bs)
<1>1. /\ IsSuperblock(fs.sb) /\ Passed(fs.sb) /\ Same(fs.sb, medium) /\ Agreed(medium)
      /\ fs.bsize = ext4_sb_get_block_size(fs.sb)
  BY DEF GateInv, MountedInv
<1>2. Agreed(fs.sb)
  BY <1>1, SameIs, AgreedLike
<1>3. Possible(fs.sb)
  BY <1>1, <1>2 DEF Possible
<1>4. QED
  BY <1>1, <1>3, Shape

\* Every address that lwext4 computes from a superblock that passed the gate lies in its table,
\* bitmap or block, for any size of volume, group, inode and descriptor, on the volumes that the
\* gate and lwext4 read alike (ext4b_probe against ext4_fs_get_block_group_ref,
\* ext4_fs_get_inode_ref and ext4_ialloc.c).
THEOREM AddressesAlwaysFit ==
  ASSUME Windows \cap {"phantom", "high", "desc", "zero", "reshaped"} = {}
  PROVE  Spec => []AddressesFit
<1>1. GateInv => AddressesFit
  <2> SUFFICES ASSUME GateInv PROVE AddressesFit
    OBVIOUS
  <2>1. ASSUME pc # "idle", pc # "reprobe"
        PROVE  Possible(fs.sb) /\ fs.bsize = BlockSize(fs.sb.log_bs)
    BY <2>1, MountedPossible
  <2>2. DescriptorsInTable
    BY <2>1, DescriptorInTable DEF DescriptorsInTable, Live
  <2>3. BitmapsFit
    BY <2>1, BitmapFits DEF BitmapsFit, Live
  <2>4. InodesAddressed
    <3>1. ASSUME pc \in {"recover", "journal"}, fs.sb.has_journal
          PROVE  fs.sb.journal_inum \in 1 .. fs.sb.inodes
      <4>1. Possible(fs.sb)
        BY <2>1, <3>1
      <4>2. fs.sb.journal_inum \in Nat /\ fs.sb.inodes \in Nat
        BY <4>1 DEF Possible, IsSuperblock, Numbers
      <4>3. fs.sb.journal_inum <= fs.sb.inodes
        BY <4>1 DEF Possible, Passed, Geometry, NumbersPossible
      <4>4. fs.sb.journal_inum # 0
        BY <3>1, <4>1 DEF Possible, Agreed
      <4>5. QED
        BY <4>2, <4>3, <4>4
    <3>2. QED
      BY <2>1, <3>1, InodeAddressed DEF InodesAddressed, Live
  <2>5. QED
    BY <2>2, <2>3, <2>4 DEF AddressesFit
<1>2. QED
  BY <1>1, GateInit, GateStep, PTL DEF Spec

\* The checks of lwext4 behind the gate never refuse what the probe calls usable.
LEMMA UsableMounts ==
  ASSUME NEW s, IsSuperblock(s), Agreed(s), ext4b_probe(s) = "usable",
         Windows \cap {"desc", "high", "rev0"} = {}
  PROVE  ext4_fs_init(s) = "EOK"
<1>1. /\ s.magic /\ Passed(s) /\ ChecksumMatches(s) /\ s.incompat \subseteq Incompat.supported
      /\ s.ro \subseteq RoCompat.supported
  BY ProbePasses
<1>2. /\ s.log_bs \in Nat /\ s.lo \in Nat /\ s.hi \in Nat /\ s.desc \in Nat /\ s.inodes \in Nat
      /\ s.bpg \in Nat /\ s.ipg \in Nat /\ s.first_ino \in Nat /\ s.fdb \in Nat
      /\ s.inode_size \in Nat
  BY DEF IsSuperblock, Numbers
<1>3. s.bpg # 0 /\ s.ipg # 0 /\ s.inodes # 0 /\ s.inode_size >= 128
  BY <1>1, <1>2 DEF Passed, Geometry, GroupShapePossible, InodeSizePossible
<1>4. s.first_ino >= 11
  BY <1>1, <1>2 DEF Passed, Geometry, NumbersPossible, Agreed
<1>5. ext4_sb_get_desc_size(s) >= 32 /\ ext4_sb_get_desc_size(s) <= 64
  BY <1>2 DEF Agreed, ext4_sb_get_desc_size
<1>6. ext4_sb_get_blocks_cnt(s) # 0
  <2>1. BlockCount(s) > s.fdb
    BY <1>1 DEF Passed, Geometry, GroupShapePossible
  <2>2. s.hi = 0 \/ "64bit" \in s.incompat
    BY DEF Agreed
  <2>3. s.hi * Word \in Nat
    BY <1>2, WordAssumption
  <2>4. QED
    BY <1>2, <2>1, <2>2, <2>3, WordAssumption DEF BlockCount, ext4_sb_get_blocks_cnt
<1>7. ext4_sb_check(s)
  BY <1>1, <1>3, <1>4, <1>5, <1>6 DEF ext4_sb_check, ext4_sb_verify_csum, ChecksumMatches
<1>8. ext4_fs_check_features(s) # "no"
  BY <1>1 DEF ext4_fs_check_features, Incompat, CONFIG_SUPPORTED_FINCOM
<1>9. QED
  BY <1>7, <1>8 DEF ext4_fs_init

\* Recovery is on its way only where the superblock on the medium asks for it.
Recovering == pc = "recover" => "needs_recovery" \in medium.incompat

\* What the probe calls usable is not refused as unsupported further on, on the volumes that
\* the gate and lwext4 read alike and with the one exception of a superblock that asks for a
\* replay of a journal it does not have (ext4b_probe, ext4_sb_check, ext4_fs_check_features,
\* __ext4_recover).
THEOREM UsableUnlessLogless ==
  ASSUME Windows \cap {"desc", "high", "rev0"} = {}
  PROVE  Spec => []VerdictHonest
<1>1. Init => VerdictHonest /\ Recovering
  BY DEF Init, VerdictHonest, Recovering
<1>2. GateInv /\ Recovering /\ [Next]_vars => Recovering'
  <2> SUFFICES ASSUME Recovering, [Next]_vars, pc' = "recover"
               PROVE  "needs_recovery" \in medium'.incompat
    BY DEF Recovering
  <2>1. ASSUME NEW read_only \in BOOLEAN, ext4b_mount(read_only)
        PROVE  "needs_recovery" \in medium'.incompat
    BY <2>1 DEF ext4b_mount, Refuse
  <2>2. CASE UNCHANGED vars
    BY <2>2 DEF vars, Recovering
  <2>3. QED
    BY <2>1, <2>2 DEF Next, Damage, DamageLog, DamageDescriptor, ext4_recover, Reprobe,
       ext4_journal_start, Refuse, bridge_audit_free_accounting, ext4_umount, Crash
<1>3. GateInv /\ Recovering /\ VerdictHonest /\ [Next]_vars => VerdictHonest'
  <2> SUFFICES ASSUME GateInv, Recovering, VerdictHonest, [Next]_vars PROVE VerdictHonest'
    OBVIOUS
  <2>1. CASE last' = last
    BY <2>1 DEF VerdictHonest
  <2>2. ASSUME NEW read_only \in BOOLEAN, ext4b_mount(read_only) PROVE VerdictHonest'
    <3>1. ext4b_probe(medium) = "usable" => /\ ext4_fs_init(medium) = "EOK"
                                           /\ GateErrno(ext4b_probe(medium), read_only) = "EOK"
      BY UsableMounts DEF GateInv, GateErrno
    <3>2. QED
      BY <2>2, <3>1 DEF ext4b_mount, Refuse, Answer, VerdictHonest
  <2>3. CASE ext4_recover
    <3>1. CASE last'.errno # "ENOTSUP"
      BY <3>1 DEF VerdictHonest
    <3>2. CASE fs.sb.has_journal
      <4>1. last' = last \/ last'.errno = "EIO"
        BY <2>3, <3>2 DEF ext4_recover, Refuse, Answer
      <4>2. QED
        BY <2>1, <4>1 DEF VerdictHonest
    <3>3. CASE ~ fs.sb.has_journal
      <4>1. pc = "recover" /\ Same(fs.sb, medium) /\ Recovering
        BY <2>3 DEF ext4_recover, GateInv, MountedInv
      <4>2. Logless(medium)
        BY <4>1, <3>3, SameIs DEF Logless, Recovering
      <4>3. last'.logless = Logless(medium)
        BY <2>3, <3>3 DEF ext4_recover, JournalFound, Refuse, Answer
      <4>4. QED
        BY <4>2, <4>3 DEF VerdictHonest
    <3>4. QED
      BY <3>2, <3>3
  <2>4. CASE Reprobe
    BY <2>4 DEF Reprobe, Refuse, Answer, VerdictHonest
  <2>5. CASE ext4_journal_start
    BY <2>5 DEF ext4_journal_start, Refuse, Answer, VerdictHonest
  <2>6. QED
    BY <2>1, <2>2, <2>3, <2>4, <2>5 DEF Next, vars, Damage, DamageLog, DamageDescriptor,
       bridge_audit_free_accounting, ext4_umount, Crash
<1>4. QED
  BY <1>1, <1>2, <1>3, GateInit, GateStep, PTL DEF Spec

-----------------------------------------------------------------------------
(* What the probe and the audit say of a volume.                           *)

\* The cases in which the gate and lwext4 read a superblock alike.
ReadAlike == Windows \cap {"phantom", "high", "desc", "zero", "reshaped", "rev0"} = {}

\* A group that the audit has to report.
Broken(g) == g \in impossible \/ FreePerGroup > ext4_blocks_in_group_cnt(fs.sb, g)

\* What the audit knows of the groups it has been to.
WalkInv ==
  /\ ~ Live => walk = NoWalk
  /\ Live => /\ DOMAIN walk = {"group", "sum", "bad", "report"}
             /\ walk.group \in 0 .. GateGroups(fs.sb) /\ walk.bad \in BOOLEAN
             /\ walk.bad <=> \E g \in 0 .. walk.group - 1 : Broken(g)
             /\ ~ walk.bad => walk.sum = FreePerGroup * walk.group
  /\ pc = "walk" => walk.report = "none"
  /\ pc = "done" => walk.group = GateGroups(fs.sb) /\ walk.report = Report(walk)

\* What nobody has damaged is healthy, on the medium, in the log and in memory.
HealthInv ==
  /\ damaged \in Nat
  /\ damaged = 0 => /\ impossible = {} /\ Healthy(medium) /\ (log # NoSb => Healthy(log))
                    /\ pc # "idle" => Healthy(fs.sb)
  /\ pc # "idle" => last.verdict \in {"usable", "read_only"}
  /\ last.damaged = 0 => last.verdict # "damaged"

-----------------------------------------------------------------------------

LEMMA HealthyLike ==
  ASSUME NEW s, Healthy(s), NEW r, \A f \in Numbers : r[f] = s[f], r.ro = s.ro, r.free = s.free,
         "64bit" \in r.incompat <=> "64bit" \in s.incompat, r.csum = s.csum \/ r.csum
  PROVE  Healthy(r)
<1>1. /\ r.lo = s.lo /\ r.hi = s.hi /\ r.inodes = s.inodes /\ r.inode_size = s.inode_size
      /\ r.fdb = s.fdb /\ r.bpg = s.bpg /\ r.ipg = s.ipg /\ r.first_ino = s.first_ino
      /\ r.journal_inum = s.journal_inum /\ r.reserved_gdt = s.reserved_gdt /\ r.flex = s.flex
      /\ r.rev = s.rev /\ r.desc = s.desc /\ r.log_bs = s.log_bs
  BY DEF Numbers
<1>2. \A g : ext4_blocks_in_group_cnt(r, g) = ext4_blocks_in_group_cnt(s, g)
  BY <1>1 DEF ext4_blocks_in_group_cnt, ext4_block_group_cnt, ext4_sb_get_blocks_cnt
<1>3. QED
  BY <1>1, <1>2 DEF Healthy

\* The gate lets every healthy volume through that has a geometry it knows.
LEMMA HealthyPasses ==
  ASSUME NEW s, IsSuperblock(s), Healthy(s), "bigalloc" \notin s.ro
  PROVE  /\ Passed(s)
         /\ s.free = FreePerGroup * GateGroups(s)
         /\ \A g \in 0 .. GateGroups(s) - 1 : FreePerGroup <= ext4_blocks_in_group_cnt(s, g)
<1> DEFINE bs     == BlockSize(s.log_bs)
           blocks == s.lo + s.hi * Word - s.fdb
           full   == blocks \div s.bpg
           groups == full + (IF blocks % s.bpg = 0 THEN 0 ELSE 1)
<1>1. /\ s.log_bs \in Nat /\ s.lo \in Nat /\ s.hi \in Nat /\ s.bpg \in Nat /\ s.ipg \in Nat
      /\ s.fdb \in Nat /\ s.inodes \in Nat /\ s.reserved_gdt \in Nat /\ s.inode_size \in Nat
  BY DEF IsSuperblock, Numbers
<1>2. /\ s.log_bs <= 6 /\ s.fdb = (IF s.log_bs = 0 THEN 1 ELSE 0)
      /\ s.hi = 0 \/ "64bit" \in s.incompat
      /\ s.inode_size \in PowersOfTwo /\ s.inode_size \in 128 .. bs /\ (s.rev = 0 => s.inode_size = 128)
      /\ s.bpg \in 8 .. 8 * bs /\ s.bpg % 8 = 0
      /\ s.ipg \in 8 .. 8 * bs /\ s.ipg % 8 = 0
      /\ blocks > 0 /\ groups < Word /\ s.inodes = s.ipg * groups
      /\ s.first_ino >= 11 /\ s.journal_inum <= s.inodes
      /\ s.flex <= 31 /\ 4 * s.reserved_gdt <= bs
      /\ s.desc \in {0, 32, 64} /\ ("64bit" \in s.incompat => s.desc = 64)
      /\ s.free = FreePerGroup * groups
      /\ \A g \in 0 .. groups - 1 : FreePerGroup <= ext4_blocks_in_group_cnt(s, g)
  BY DEF Healthy, BlockSize
<1>3. bs \in BlockSizes /\ (bs = 1024 <=> s.log_bs = 0)
  <2>1. s.log_bs \in {0, 1, 2, 3, 4, 5, 6}
    BY <1>1, <1>2
  <2>2. BlockSize(0) = 1024 /\ BlockSize(1) = 2048 /\ BlockSize(2) = 4096 /\ BlockSize(3) = 8192
    BY DEF BlockSize
  <2>3. BlockSize(4) = 16384 /\ BlockSize(5) = 32768 /\ BlockSize(6) = 65536
    BY DEF BlockSize
  <2>4. QED
    BY <2>1, <2>2, <2>3 DEF BlockSizes
<1>4. /\ s.hi * Word \in Nat /\ BlockCount(s) = s.lo + s.hi * Word
      /\ BlockCount(s) \in Nat /\ BlockCount(s) > s.fdb
  <2>1. s.hi * Word \in Nat
    BY <1>1, WordAssumption
  <2>2. s.hi = 0 => s.hi * Word = 0
    BY WordAssumption
  <2>3. BlockCount(s) = s.lo + s.hi * Word
    BY <1>1, <1>2, <2>1, <2>2 DEF BlockCount
  <2>4. QED
    BY <1>1, <1>2, <2>1, <2>3
<1>5. /\ blocks \in Nat /\ blocks = BlockCount(s) - s.fdb /\ blocks > 0 /\ s.bpg >= 8
  BY <1>1, <1>2, <1>4
<1>6. GateGroups(s) = groups
  <2>1. GateGroups(s) = (blocks - 0 + s.bpg - 1) \div s.bpg
    BY <1>1, <1>4, <1>5 DEF GateGroups
  <2> HIDE DEF blocks
  <2>2. (blocks - 0 + s.bpg - 1) \div s.bpg = blocks \div s.bpg + (IF blocks % s.bpg # 0 THEN 1 ELSE 0)
    BY <1>1, <1>5, RoundedUp
  <2>3. QED
    BY <2>1, <2>2
<1>7. groups \in Nat \ {0}
  <2> DEFINE q == blocks \div s.bpg
             r == blocks % s.bpg
  <2>1. q \in Nat /\ r \in 0 .. s.bpg - 1 /\ r = blocks - s.bpg * q
    <3>1. s.bpg \in Nat \ {0}
      BY <1>1, <1>5
    <3> HIDE DEF blocks
    <3>2. QED BY <1>5, <3>1, Division
  <2>2. groups = q + (IF r = 0 THEN 0 ELSE 1)
    OBVIOUS
  <2> HIDE DEF q, r, blocks, groups
  <2>3. q = 0 => s.bpg * q = 0
    BY <1>1
  <2>4. QED
    BY <1>5, <2>1, <2>2, <2>3
<1> HIDE DEF blocks, groups, bs
<1>8. InodeSizePossible(s)
  BY <1>1, <1>2, <1>3 DEF InodeSizePossible, bs, BlockSizes
<1>9. GroupShapePossible(s)
  <2>1. s.ipg <= s.ipg * groups
    BY <1>1, <1>7
  <2>2. QED
    BY <1>1, <1>2, <1>3, <1>4, <2>1 DEF GroupShapePossible, bs, BlockSizes
<1>10. NumbersPossible(s)
  <2>1. s.reserved_gdt <= bs \div 4
    BY <1>1, <1>2, <1>3 DEF BlockSizes
  <2>2. QED
    BY <1>2, <2>1 DEF NumbersPossible, bs
<1>11. DescSizePossible(s)
  <2>1. 32 \in PowersOfTwo /\ 64 \in PowersOfTwo
    <3>1. 2 ^ 5 = 32 /\ 2 ^ 6 = 64
      OBVIOUS
    <3>2. QED BY <3>1 DEF PowersOfTwo
  <2>2. QED
    BY <1>2, <1>3, <2>1 DEF DescSizePossible, bs, BlockSizes
<1>12. GroupsPossible(s)
  BY <1>2, <1>6, <1>7 DEF GroupsPossible
<1>13. QED
  BY <1>2, <1>6, <1>8, <1>9, <1>10, <1>11, <1>12 DEF Passed, Geometry

LEMMA HealthyNeverDamaged ==
  ASSUME NEW s, IsSuperblock(s), Healthy(s)
  PROVE  ext4b_probe(s) # "damaged"
<1>1. CASE "bigalloc" \in s.ro
  BY <1>1 DEF ext4b_probe, RoCompat
<1>2. CASE "bigalloc" \notin s.ro
  <2>1. Geometry(s)
    BY <1>2, HealthyPasses DEF Passed
  <2>2. ChecksumMatches(s)
    BY DEF Healthy, ChecksumMatches
  <2>3. QED
    BY <2>1, <2>2 DEF ext4b_probe
<1>3. QED
  BY <1>1, <1>2

-----------------------------------------------------------------------------
(* Healthy volumes stay healthy.                                           *)

\* What the driver writes of a healthy superblock is healthy.
LEMMA HealthyWritten ==
  ASSUME NEW s, IsSuperblock(s), Healthy(s), NEW i, "64bit" \in i <=> "64bit" \in s.incompat
  PROVE  Healthy(Stamped(s)) /\ Healthy(Stamped([s EXCEPT !.incompat = i]))
<1>1. /\ \A f \in Numbers : Stamped(s)[f] = s[f]
      /\ Stamped(s).ro = s.ro /\ Stamped(s).free = s.free /\ Stamped(s).incompat = s.incompat
      /\ Stamped(s).csum = TRUE
  BY DEF Stamped, IsSuperblock, Fields, Numbers
<1>2. Healthy(Stamped(s))
  BY <1>1, HealthyLike
<1> DEFINE r == Stamped([s EXCEPT !.incompat = i])
<1>3. /\ \A f \in Numbers : r[f] = s[f]
      /\ r.ro = s.ro /\ r.free = s.free /\ r.incompat = i /\ r.csum = TRUE
  BY DEF Stamped, IsSuperblock, Fields, Numbers
<1>4. Healthy(r)
  <2> HIDE DEF r
  <2> QED BY <1>3, HealthyLike
<1>5. QED
  BY <1>2, <1>4

\* Nothing to add up.
LEMMA SumOfNone ==
  ASSUME NEW S, S = {}, NEW s, NEW b
  PROVE  SumOver(s, S, b) = 0
<1> DEFINE body(f) == [x \in SUBSET S |-> IF x = {} THEN 0 ELSE
                         FreeIn(s, CHOOSE y \in x : TRUE, b) + f[x \ {CHOOSE y \in x : TRUE}]]
           iter == CHOOSE iter : iter = body(iter)
<1>1. SumOver(s, S, b) = iter[S]
  BY DEF SumOver, MapThenSumSet, MapThenFoldSet
<1>2. ASSUME NEW f PROVE body(f) = [x \in SUBSET S |-> 0]
  OBVIOUS
<1>3. \E f : f = body(f)
  <2>1. [x \in SUBSET S |-> 0] = body([x \in SUBSET S |-> 0])
    BY <1>2
  <2> HIDE DEF body
  <2> QED BY <2>1
<1>4. iter = body(iter)
  <2> HIDE DEF body
  <2> QED BY <1>3
<1>5. QED
  <2> HIDE DEF iter
  <2>1. body(iter)[S] = 0
    OBVIOUS
  <2> QED BY <1>1, <1>4, <2>1

\* The total that recovery takes from descriptors that are all in order.
LEMMA HealthySum ==
  ASSUME NEW s, Possible(s), impossible = {}, NEW b, b = BlockSize(s.log_bs)
  PROVE  SumOfDescriptors(s, b) = FreePerGroup * GateGroups(s)
<1> DEFINE n == ext4_block_group_cnt(s)
           odd == {g \in 0 .. n - 1 : Wrong(s, g, b)}
<1>1. odd = {}
  BY DescriptorInTable DEF Wrong
<1>2. Cardinality(odd) = 0
  BY <1>1, FS_EmptySet
<1>3. SumOver(s, odd, b) = 0
  <2> HIDE DEF odd
  <2> QED BY <1>1, SumOfNone
<1>4. SumOfDescriptors(s, b) = FreePerGroup * (n - Cardinality(odd)) + SumOver(s, odd, b)
  BY DEF SumOfDescriptors
<1>5. n = GateGroups(s) /\ GateGroups(s) \in Nat
  BY GroupsAgree
<1> HIDE DEF n, odd
<1>6. QED
  BY <1>2, <1>3, <1>4, <1>5 DEF FreePerGroup

LEMMA HealthInit == Init => HealthInv
<1>1. SUFFICES ASSUME Init PROVE HealthInv
  OBVIOUS
<1>2. PICK v \in Volumes : medium = v.sb /\ log = v.log
  BY <1>1 DEF Init
<1>3. QED
  BY <1>1, <1>2, VolumesAssumption DEF Init, HealthInv

LEMMA HealthMount ==
  ASSUME GateInv, HealthInv, NEW read_only \in BOOLEAN, ext4b_mount(read_only)
  PROVE  HealthInv'
<1>1. UNCHANGED <<medium, size, log, impossible, damaged>> /\ pc = "idle"
  BY DEF ext4b_mount
<1>2. /\ last'.verdict = ext4b_probe(medium) /\ last'.damaged = damaged
      /\ pc' # "idle" => /\ GateErrno(ext4b_probe(medium), read_only) = "EOK"
                         /\ fs'.sb = medium
  BY DEF ext4b_mount, Refuse, Answer, Attached
<1>3. pc' # "idle" => last'.verdict \in {"usable", "read_only"}
  BY <1>2 DEF GateErrno, ext4b_probe
<1>4. damaged = 0 => last'.verdict # "damaged"
  BY <1>2, HealthyNeverDamaged DEF HealthInv, GateInv
<1>5. QED
  BY <1>1, <1>2, <1>3, <1>4 DEF HealthInv

LEMMA HealthRecover ==
  ASSUME ReadAlike, GateInv, HealthInv, ext4_recover
  PROVE  HealthInv'
<1>1. /\ pc = "recover" /\ IsSuperblock(fs.sb) /\ UNCHANGED <<impossible, damaged>>
      /\ last.verdict \in {"usable", "read_only"} /\ damaged \in Nat
      /\ fs.bsize = ext4_sb_get_block_size(fs.sb) /\ Same(fs.sb, medium) /\ Agreed(medium)
      /\ DOMAIN fs = {"sb", "bsize", "read_only", "dev_ro", "has_journal", "attached"}
      /\ fs.sb.log_bs \in Nat /\ fs.sb.log_bs <= 6
  BY DEF GateInv, MountedInv, HealthInv, ext4_recover, ReadAlike, IsSuperblock, Numbers
<1>2. Agreed(fs.sb)
  BY <1>1, SameIs, AgreedLike
<1>3. /\ IsSuperblock(Replayed) /\ Agreed(Replayed)
      /\ damaged = 0 => Healthy(fs.sb) /\ Healthy(Replayed) /\ impossible = {}
      /\ damaged = 0 /\ log # NoSb => Healthy(log)
  BY <1>1, <1>2 DEF GateInv, HealthInv, Replayed, Image
<1>4. /\ last'.verdict \in {"usable", "read_only"}
      /\ last' = last \/ last'.damaged = damaged
  BY <1>1 DEF ext4_recover, Refuse, Answer
<1>5. CASE pc' # "reprobe"
  <2>1. /\ log' = log /\ pc' \in {"idle", "trapped"} /\ (pc' = "trapped" => fs' = fs)
        /\ medium' \in {medium, Stamped(fs.sb), Stamped(Replayed)}
    BY <1>5 DEF ext4_recover, Refuse, Answer
  <2>2. damaged = 0 => Healthy(Stamped(fs.sb)) /\ Healthy(Stamped(Replayed))
    BY <1>1, <1>3, HealthyWritten
  <2>3. damaged = 0 => Healthy(medium')
    BY <2>1, <2>2 DEF HealthInv
  <2>4. QED
    BY <1>1, <1>3, <1>4, <2>1, <2>3 DEF HealthInv
<1>6. CASE pc' = "reprobe"
  <2> DEFINE rest == Replayed.incompat \ {"needs_recovery"}
             r == Recovered(Replayed)
  <2>1. /\ medium' = Stamped([Replayed EXCEPT !.incompat = rest]) /\ log' = NoSb
        /\ fs' = [fs EXCEPT !.sb = r] /\ Replayable(Replayed)
    BY <1>6 DEF ext4_recover, Refuse, Answer, Cleared
  <2>2. /\ IsSuperblock(medium') /\ (damaged = 0 => Healthy(medium'))
        /\ medium'.ro = Replayed.ro /\ medium'.log_bs = Replayed.log_bs /\ Agreed(medium')
    BY <1>3, <2>1, HealthyWritten, FlagLike
  <2>3. fs'.sb = r
    BY <1>1, <2>1
  <2>4. /\ \A f \in Fields \ {"free"} : r[f] = medium'[f]
        /\ r.free = SumOfDescriptors(Replayed, fs.bsize)
    BY <2>1, <2>2 DEF Recovered, Cleared, IsSuperblock, Fields
  <2>5. /\ \A f \in Numbers : r[f] = medium'[f]
        /\ r.ro = medium'.ro /\ r.incompat = medium'.incompat /\ r.csum = medium'.csum
    BY <2>4 DEF Fields, Numbers
  <2> HIDE DEF r
  <2>6. ASSUME damaged = 0, "bigalloc" \in Replayed.ro PROVE Healthy(r)
    BY <2>2, <2>5, <2>6 DEF Healthy
  <2>7. ASSUME damaged = 0, "bigalloc" \notin Replayed.ro PROVE Healthy(r)
    <3>1. Passed(Replayed) /\ Replayed.free = FreePerGroup * GateGroups(Replayed)
      BY <1>3, <2>7, HealthyPasses
    <3>2. Possible(Replayed)
      BY <1>3, <3>1 DEF Possible, ReadAlike
    <3>3. Replayed.log_bs \in Nat /\ Replayed.log_bs <= 6
      BY <1>3, <3>1 DEF IsSuperblock, Numbers, Passed
    <3>4. Replayed.log_bs = fs.sb.log_bs
      BY <1>1, <3>3, SameIs DEF GateInv, Replayed, Image, ReadAlike
    <3>5. fs.bsize = BlockSize(Replayed.log_bs)
      BY <1>1, <3>4 DEF ext4_sb_get_block_size
    <3>6. r.free = Replayed.free
      BY <1>3, <2>4, <2>7, <3>1, <3>2, <3>5, HealthySum
    <3>7. medium'.free = Replayed.free
      BY <1>3, <2>1 DEF Stamped, IsSuperblock, Fields
    <3>8. QED
      BY <2>2, <2>5, <2>7, <3>6, <3>7, HealthyLike
  <2>8. QED
    BY <1>1, <1>3, <1>4, <1>6, <2>1, <2>2, <2>3, <2>6, <2>7 DEF HealthInv
<1>7. QED
  BY <1>5, <1>6

LEMMA HealthReprobe ==
  ASSUME GateInv, HealthInv, Reprobe
  PROVE  HealthInv'
<1>1. /\ pc = "reprobe" /\ UNCHANGED <<log, impossible, damaged>>
      /\ last.verdict \in {"usable", "read_only"} /\ IsSuperblock(fs.sb)
  BY DEF Reprobe, HealthInv, GateInv, MountedInv
<1>2. /\ damaged = 0 => ext4b_probe(medium) # "damaged"
      /\ damaged = 0 => Healthy(Stamped(fs.sb))
  BY <1>1, HealthyNeverDamaged, HealthyWritten DEF GateInv, HealthInv
<1>3. \/ /\ pc' = "idle" /\ last'.damaged = damaged /\ last'.verdict = ext4b_probe(medium)
         /\ medium' = Stamped(fs.sb)
      \/ pc' = "journal" /\ fs' = fs /\ last' = last /\ medium' = medium
  BY DEF Reprobe, Refuse, Answer
<1>4. QED
  BY <1>1, <1>2, <1>3 DEF HealthInv

LEMMA HealthJournal ==
  ASSUME GateInv, HealthInv, ext4_journal_start
  PROVE  HealthInv'
<1> DEFINE flags == fs.sb.incompat \cup {"needs_recovery"}
           s == Stamped([fs.sb EXCEPT !.incompat = flags])
<1>1. /\ pc = "journal" /\ IsSuperblock(fs.sb) /\ UNCHANGED <<impossible, damaged>>
      /\ last.verdict \in {"usable", "read_only"} /\ (damaged = 0 => Healthy(fs.sb))
      /\ DOMAIN fs = {"sb", "bsize", "read_only", "dev_ro", "has_journal", "attached"}
  BY DEF GateInv, MountedInv, HealthInv, ext4_journal_start
<1>2. damaged = 0 => Healthy(s) /\ Healthy(Stamped(fs.sb))
  <2>1. "64bit" \in flags <=> "64bit" \in fs.sb.incompat
    OBVIOUS
  <2>2. QED
    <3> HIDE DEF flags
    <3> QED BY <1>1, <2>1, HealthyWritten
<1>3. \/ pc' = "walk" /\ UNCHANGED <<fs, medium, log, last>>
      \/ /\ pc' = "walk" /\ medium' = s /\ log' \in {NoSb, s} /\ last' = last
         /\ fs' = [fs EXCEPT !.sb = s, !.attached = TRUE]
      \/ /\ pc' = "idle" /\ medium' = Stamped(fs.sb) /\ log' = log
         /\ last'.damaged = damaged /\ last'.verdict = last.verdict
  BY DEF ext4_journal_start, Refuse, Answer
<1> HIDE DEF s
<1>4. fs' = [fs EXCEPT !.sb = s, !.attached = TRUE] => fs'.sb = s
  BY <1>1
<1>5. QED
  BY <1>1, <1>2, <1>3, <1>4 DEF HealthInv

LEMMA HealthStep ==
  ASSUME ReadAlike, GateInv, HealthInv, [Next]_vars
  PROVE  HealthInv'
<1>1. ASSUME NEW f \in DOMAIN Values, Damage(f) \/ DamageLog(f) PROVE HealthInv'
  BY <1>1 DEF Damage, DamageLog, HealthInv
<1>2. ASSUME NEW g \in 0 .. 3, DamageDescriptor(g) PROVE HealthInv'
  BY <1>2 DEF DamageDescriptor, HealthInv
<1>3. ASSUME NEW read_only \in BOOLEAN, ext4b_mount(read_only) PROVE HealthInv'
  BY <1>3, HealthMount
<1>4. CASE bridge_audit_free_accounting
  BY <1>4 DEF bridge_audit_free_accounting, HealthInv
<1>5. CASE Crash
  BY <1>5 DEF Crash, HealthInv
<1>6. CASE ext4_umount
  <2>1. /\ pc = "done" /\ IsSuperblock(fs.sb) /\ pc' = "idle" /\ UNCHANGED <<impossible, damaged, last>>
        /\ damaged = 0 => Healthy(fs.sb) /\ Healthy(medium)
    BY <1>6 DEF ext4_umount, GateInv, MountedInv, HealthInv
  <2>2. /\ medium' \in {medium, Cleared(fs.sb), Stamped(fs.sb)} /\ log' \in {NoSb, log}
    BY <1>6 DEF ext4_umount
  <2>3. Cleared(fs.sb) = Stamped([fs.sb EXCEPT !.incompat = fs.sb.incompat \ {"needs_recovery"}])
    BY DEF Cleared
  <2>4. damaged = 0 => Healthy(medium')
    BY <2>1, <2>2, <2>3, HealthyWritten
  <2>5. QED
    BY <2>1, <2>2, <2>4 DEF HealthInv
<1>7. CASE UNCHANGED vars
  BY <1>7 DEF vars, HealthInv
<1>8. QED
  BY <1>1, <1>2, <1>3, <1>4, <1>5, <1>6, <1>7, HealthRecover, HealthReprobe, HealthJournal DEF Next

-----------------------------------------------------------------------------
(* The audit.                                                              *)

LEMMA BlocksInGroup ==
  ASSUME NEW s, Possible(s), NEW g \in 0 .. GateGroups(s) - 1
  PROVE  /\ ext4_blocks_in_group_cnt(s, g) \in Nat
         /\ g < GateGroups(s) - 1 => ext4_blocks_in_group_cnt(s, g) = s.bpg
         /\ g = GateGroups(s) - 1 =>
              ext4_blocks_in_group_cnt(s, g) <= ext4_sb_get_blocks_cnt(s) - g * s.bpg
<1> DEFINE n == ext4_sb_get_blocks_cnt(s)
           G == GateGroups(s)
           rest == n - (G - 1) * s.bpg
<1>1. n \in Nat /\ s.bpg \in Nat
  BY Shape
<1>2. ext4_block_group_cnt(s) = G /\ G \in Nat /\ s.bpg * (G - 1) <= n
  BY GroupsAgree
<1>3. ext4_blocks_in_group_cnt(s, g) = IF g < G - 1 THEN s.bpg ELSE rest % Word
  BY <1>2 DEF ext4_blocks_in_group_cnt
<1>4. rest \in Nat
  <2> HIDE DEF n, G
  <2> QED BY <1>1, <1>2
<1>5. g = G - 1 => rest = n - g * s.bpg
  OBVIOUS
<1> HIDE DEF n, G, rest
<1>6. rest % Word \in Nat /\ rest % Word <= rest
  BY <1>4, WordAssumption
<1>7. QED
  BY <1>1, <1>2, <1>3, <1>5, <1>6 DEF n, G

\* Groups that each have what their descriptor calls free have that much together.
LEMMA FreeFits ==
  ASSUME NEW s, Possible(s),
         \A g \in 0 .. GateGroups(s) - 1 : FreePerGroup <= ext4_blocks_in_group_cnt(s, g)
  PROVE  FreePerGroup * GateGroups(s) <= ext4_sb_get_blocks_cnt(s)
<1> DEFINE n == ext4_sb_get_blocks_cnt(s)
           G == GateGroups(s)
           g == G - 1
<1>1. n \in Nat /\ s.bpg \in Nat /\ s.bpg >= 8 /\ G \in Nat /\ G # 0
  BY Shape, GroupsAgree
<1>2. g \in 0 .. G - 1
  BY <1>1
<1>3. ext4_blocks_in_group_cnt(s, g) \in Nat /\ ext4_blocks_in_group_cnt(s, g) <= n - g * s.bpg
  BY <1>2, BlocksInGroup
<1>4. FreePerGroup <= ext4_blocks_in_group_cnt(s, g)
  BY <1>2
<1> HIDE DEF n
<1>5. g \in Nat /\ g * s.bpg >= g * 8 /\ g * s.bpg \in Int
  <2>1. g \in Nat
    BY <1>1
  <2> HIDE DEF g
  <2> QED BY <1>1, <2>1
<1>6. 5 <= n - g * s.bpg
  BY <1>1, <1>3, <1>4, <1>5 DEF FreePerGroup
<1> HIDE DEF G
<1>7. QED
  <2>1. 5 * G <= n
    BY <1>1, <1>5, <1>6
  <2> QED BY <2>1 DEF FreePerGroup, n, G

LEMMA AuditStep ==
  ASSUME ReadAlike, GateInv, WalkInv, bridge_audit_free_accounting
  PROVE  WalkInv'
<1> DEFINE G == GateGroups(fs.sb)
           g == walk.group
           free == bridge_read_group_info(g)
           here == ext4_blocks_in_group_cnt(fs.sb, g)
<1>1. /\ pc = "walk" /\ Live /\ UNCHANGED <<impossible, fs>>
      /\ walk.report = "none" /\ g \in 0 .. G /\ walk.bad \in BOOLEAN
      /\ walk.bad <=> \E k \in 0 .. g - 1 : Broken(k)
      /\ ~ walk.bad => walk.sum = FreePerGroup * g
      /\ DOMAIN walk = {"group", "sum", "bad", "report"}
  BY DEF bridge_audit_free_accounting, WalkInv, Live
<1>2. Possible(fs.sb) /\ fs.bsize = BlockSize(fs.sb.log_bs)
  BY <1>1, MountedPossible DEF ReadAlike
<1>3. ext4_block_group_cnt(fs.sb) = G /\ G \in Nat
  BY <1>2, GroupsAgree
<1>4. \A k : Broken(k)' <=> Broken(k)
  BY <1>1 DEF Broken
<1>5. CASE g < G
  <2>1. /\ walk' = [walk EXCEPT !.group = g + 1, !.sum = walk.sum + free,
                                !.bad = walk.bad \/ free > here]
        /\ pc' = "walk"
    BY <1>1, <1>3, <1>5 DEF bridge_audit_free_accounting
  <2>2. g \in 0 .. G - 1
    BY <1>1, <1>3, <1>5
  <2>3. here \in Nat
    BY <1>2, <2>2, BlocksInGroup
  <2>4. InTable(fs.sb, g, fs.bsize)
    BY <1>2, <1>3, <2>2, DescriptorInTable
  <2>5. free = IF g \in impossible THEN here + 1 ELSE FreePerGroup
    BY <2>4 DEF bridge_read_group_info, FreeIn, Wrong
  <2>6. (free > here) <=> Broken(g)
    BY <2>3, <2>5 DEF Broken, FreePerGroup
  <2>7. /\ walk'.group = g + 1 /\ walk'.sum = walk.sum + free /\ walk'.report = "none"
        /\ walk'.bad = (walk.bad \/ free > here) /\ DOMAIN walk' = DOMAIN walk
    BY <1>1, <2>1
  <2>8. walk'.bad <=> \E k \in 0 .. g : Broken(k)
    <3>1. 0 .. g = (0 .. g - 1) \cup {g}
      BY <2>2
    <3>2. QED
      BY <1>1, <2>6, <2>7, <3>1
  <2>9. ~ walk'.bad => walk'.sum = FreePerGroup * (g + 1)
    <3>1. SUFFICES ASSUME ~ walk'.bad PROVE walk'.sum = FreePerGroup * (g + 1)
      OBVIOUS
    <3>2. ~ walk.bad /\ ~ Broken(g)
      BY <2>6, <2>7, <3>1
    <3>3. walk.sum = FreePerGroup * g /\ free = FreePerGroup
      BY <1>1, <2>5, <3>2 DEF Broken
    <3>4. QED
      BY <2>2, <2>7, <3>3 DEF FreePerGroup
  <2>10. g + 1 \in 0 .. G /\ (g + 1) - 1 = g
    BY <1>3, <2>2
  <2>11. QED
    BY <1>1, <1>4, <2>1, <2>7, <2>8, <2>9, <2>10 DEF WalkInv, Live
<1>6. CASE ~ (g < G)
  <2>1. walk' = [walk EXCEPT !.report = Report(walk)] /\ pc' = "done"
    BY <1>1, <1>3, <1>6 DEF bridge_audit_free_accounting
  <2>2. /\ walk'.group = g /\ walk'.sum = walk.sum /\ walk'.bad = walk.bad
        /\ walk'.report = Report(walk) /\ DOMAIN walk' = DOMAIN walk
    BY <1>1, <2>1
  <2>3. g = G
    BY <1>1, <1>3, <1>6
  <2>4. Report(walk)' = Report(walk)
    BY <1>1, <2>2 DEF Report
  <2>5. QED
    BY <1>1, <1>4, <2>1, <2>2, <2>3, <2>4 DEF WalkInv, Live
<1>7. QED
  BY <1>5, <1>6

LEMMA WalkStep ==
  ASSUME ReadAlike, GateInv, GateInv', WalkInv, [Next]_vars
  PROVE  WalkInv'
<1>1. ASSUME ~ Live', walk' = NoWalk PROVE WalkInv'
  BY <1>1 DEF WalkInv, Live
<1>2. ASSUME pc' = "walk", walk' = NoWalk PROVE WalkInv'
  <2>1. GateGroups(fs'.sb) \in Nat
    <3>1. Possible(fs'.sb)
      <4>1. /\ IsSuperblock(fs'.sb) /\ Passed(fs'.sb) /\ Same(fs'.sb, medium') /\ Agreed(medium')
        BY <1>2 DEF GateInv, MountedInv
      <4>2. Agreed(fs'.sb)
        BY <4>1, SameIs, AgreedLike
      <4>3. QED
        BY <4>1, <4>2 DEF Possible, ReadAlike
    <3>2. QED
      BY <3>1, GroupsAgree
  <2>2. /\ walk'.group = 0 /\ walk'.sum = 0 /\ walk'.bad = FALSE /\ walk'.report = "none"
        /\ DOMAIN walk' = {"group", "sum", "bad", "report"}
    BY <1>2 DEF NoWalk
  <2>3. 0 .. 0 - 1 = {} /\ FreePerGroup * 0 = 0
    BY DEF FreePerGroup
  <2>4. walk'.group \in 0 .. GateGroups(fs'.sb)
    BY <2>1, <2>2
  <2>5. ~ \E k \in 0 .. walk'.group - 1 : Broken(k)'
    BY <2>2, <2>3
  <2>6. walk'.sum = FreePerGroup * walk'.group
    BY <2>2, <2>3
  <2>7. QED
    BY <1>2, <2>2, <2>4, <2>5, <2>6 DEF WalkInv, Live
<1>3. ASSUME NEW f \in DOMAIN Values, Damage(f) \/ DamageLog(f) PROVE WalkInv'
  BY <1>1, <1>3 DEF Damage, DamageLog, WalkInv, Live
<1>4. ASSUME NEW g \in 0 .. 3, DamageDescriptor(g) PROVE WalkInv'
  BY <1>1, <1>4 DEF DamageDescriptor, WalkInv, Live
<1>5. ASSUME NEW read_only \in BOOLEAN, ext4b_mount(read_only) PROVE WalkInv'
  BY <1>1, <1>2, <1>5 DEF ext4b_mount, Refuse, Answer, Live
<1>6. CASE ext4_recover
  BY <1>1, <1>6 DEF ext4_recover, Refuse, Answer, WalkInv, Live
<1>7. CASE Reprobe
  BY <1>1, <1>7 DEF Reprobe, Refuse, Answer, WalkInv, Live
<1>8. CASE ext4_journal_start
  BY <1>1, <1>2, <1>8 DEF ext4_journal_start, Refuse, Answer, WalkInv, Live
<1>9. CASE ext4_umount \/ Crash
  BY <1>1, <1>9 DEF ext4_umount, Crash, Live
<1>10. CASE UNCHANGED vars
  <2>1. /\ UNCHANGED <<pc, walk, fs, impossible>> /\ Report(walk)' = Report(walk)
    BY <1>10 DEF vars, Report
  <2>2. \A k : Broken(k)' <=> Broken(k)
    BY <2>1 DEF Broken
  <2>3. QED
    BY <2>1, <2>2 DEF WalkInv, Live
<1>11. QED
  BY <1>3, <1>4, <1>5, <1>6, <1>7, <1>8, <1>9, <1>10, AuditStep DEF Next

\* What the probe and the audit say of a volume is true of it, for any volume, group count and
\* damage, where the gate and lwext4 read a superblock alike: what the probe calls usable is
\* refused as unsupported only when it asks for a replay and has no journal, what nobody has
\* damaged is never called damaged, and the audit names descriptors
\* exactly when one of them is impossible (ext4b_probe, bridge_audit_free_accounting).
THEOREM VerdictsAlwaysTrue ==
  ASSUME ReadAlike
  PROVE  Spec => []VerdictsTrue
<1>1. Init => WalkInv
  BY DEF Init, WalkInv, Live
<1>2. GateInv /\ WalkInv /\ HealthInv /\ VerdictHonest => VerdictsTrue
  <2> SUFFICES ASSUME GateInv, WalkInv, HealthInv, VerdictHonest PROVE VerdictsTrue
    OBVIOUS
  <2>1. ASSUME pc = "done"
        PROVE  /\ Possible(fs.sb) /\ ext4_block_group_cnt(fs.sb) = GateGroups(fs.sb)
               /\ GateGroups(fs.sb) \in Nat
               /\ walk.bad <=> \E g \in 0 .. GateGroups(fs.sb) - 1 : Broken(g)
               /\ ~ walk.bad => walk.sum = FreePerGroup * GateGroups(fs.sb)
               /\ walk.report = Report(walk)
    BY <2>1, MountedPossible, GroupsAgree DEF ReadAlike, WalkInv, Live
  <2>2. ASSUME pc = "done", ~ walk.bad
        PROVE  /\ walk.sum <= ext4_sb_get_blocks_cnt(fs.sb)
               /\ walk.sum \in Nat /\ ext4_sb_get_blocks_cnt(fs.sb) \in Nat
    <3>1. \A g \in 0 .. GateGroups(fs.sb) - 1 :
            FreePerGroup <= ext4_blocks_in_group_cnt(fs.sb, g)
      <4>1. \A g \in 0 .. GateGroups(fs.sb) - 1 : ext4_blocks_in_group_cnt(fs.sb, g) \in Nat
        BY <2>1, <2>2, BlocksInGroup
      <4>2. QED
        BY <2>1, <2>2, <4>1 DEF Broken, FreePerGroup
    <3>2. QED
      BY <2>1, <2>2, <3>1, FreeFits, Shape DEF FreePerGroup
  <2>3. AuditTrue
    <3> SUFFICES ASSUME pc = "done" PROVE AuditTrue
      BY DEF AuditTrue
    <3>1. walk.bad => walk.report = "descriptors"
      BY <2>1 DEF Report
    <3>2. ~ walk.bad => /\ walk.report \in {"agrees", "total"}
                        /\ walk.report = "agrees" => fs.sb.free = walk.sum
      BY <2>1, <2>2 DEF Report
    <3>3. QED
      BY <2>1, <3>1, <3>2 DEF AuditTrue, Broken
  <2>4. damaged = 0 => walk.report \in {"none", "agrees"}
    <3>1. SUFFICES ASSUME damaged = 0, pc = "done" PROVE walk.report = "agrees"
      BY DEF WalkInv, Live, NoWalk, GateInv
    <3>2. /\ Healthy(fs.sb) /\ impossible = {} /\ IsSuperblock(fs.sb) /\ Passed(fs.sb)
          /\ fs.sb.incompat \subseteq Incompat.supported
          /\ fs.sb.ro \cap RoCompat.refused = {}
      BY <3>1 DEF HealthInv, GateInv, MountedInv
    <3>3. "bigalloc" \notin fs.sb.ro
      BY <3>2 DEF RoCompat
    <3>4. QED
      <4>1. /\ fs.sb.free = FreePerGroup * GateGroups(fs.sb)
            /\ \A g \in 0 .. GateGroups(fs.sb) - 1 :
                 FreePerGroup <= ext4_blocks_in_group_cnt(fs.sb, g)
        BY <3>2, <3>3, HealthyPasses
      <4>2. ~ walk.bad
        <5>1. \A g \in 0 .. GateGroups(fs.sb) - 1 : ext4_blocks_in_group_cnt(fs.sb, g) \in Nat
          BY <2>1, <3>1, BlocksInGroup
        <5>2. QED
          BY <2>1, <3>1, <3>2, <4>1, <5>1 DEF Broken, FreePerGroup
      <4>3. QED
        BY <2>1, <2>2, <3>1, <4>1, <4>2 DEF Report
  <2>5. QED
    BY <2>3, <2>4 DEF VerdictsTrue, HealthyNotDamaged, HealthInv
<1>3. Windows \cap {"desc", "high", "rev0"} = {}
  BY DEF ReadAlike
<1>4. Spec => []VerdictHonest
  BY <1>3, UsableUnlessLogless
<1>5. GateInv /\ WalkInv /\ HealthInv /\ [Next]_vars => (GateInv /\ WalkInv /\ HealthInv)'
  BY GateStep, WalkStep, HealthStep
<1>6. QED
  BY <1>1, <1>2, <1>4, <1>5, GateInit, HealthInit, PTL DEF Spec

=============================================================================
