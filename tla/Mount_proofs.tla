---------------------------- MODULE Mount_proofs ----------------------------
(***************************************************************************)
(* Proofs about Mount, for any number of devices, handles, calls and       *)
(* faults.                                                                 *)
(***************************************************************************)
EXTENDS Mount, FiniteSetTheorems, TLAPS

\* The points at which a call has a handle for itself, and those at which its handle is mounted.
Mounting == {"install", "unmount"}
Formatting == {"wipe", "super", "build", "flush"}
Owning == {"mount", "destroy", "recover"} \cup Mounting \cup Formatting
Owner(t) == task[t].pc \in Owning
Opener(t) == task[t].then = "open"
Closer(t) == task[t].then \in Closing

\* What a call at each point still has to do, and with what.
Shaped(c) ==
  /\ c \in TaskType
  /\ c.pc \in {"idle", "examine", "stat"} => c.then = "idle"
  /\ c.pc \in {"open", "busy", "mount", "install"} => c.then = "open"
  /\ c.pc \in {"take", "unmount"} => c.then \in {"open"} \cup Closing
  /\ c.pc = "destroy" => c.then \in {"idle", "open"} \cup Closing
  /\ c.pc \in {"sync", "left"} => c.then = "left"
  /\ c.pc \in {"drop", "unloaded", "fopen"} => c.then = c.pc
  /\ c.pc \in Formatting => c.then = "fopen"
  /\ c.pc \in {"check", "copen", "recover"} => c.then = "check"
  /\ c.pc \in {"op", "use"} => c.then \in {"idle", "check"}
  /\ c.pc # "idle" => c.dev \in Devices
  /\ c.pc \in Owning \cup {"op", "use", "stat"} => c.h \in Handles
  /\ c.then = "open" => c.want = c.dev

ShapeInv == TypeOK /\ \A t \in Tasks : Shaped(task[t])

\* Who has which handle, and what state it is in.
HandleInv ==
  /\ \A h \in Handles : /\ handle[h].mounted => handle[h].open /\ slot = h
                        /\ handle[h].open \/ vols[h] # "none" => handle[h].dev \in Devices
                        /\ handle[h].mounted => fs.bridge = h \/ \E t \in Tasks :
                             task[t].h = h /\ task[t].pc \in Mounting
  /\ slot # None => handle[slot].mounted
  /\ fs.bridge # None => handle[fs.bridge].mounted
  /\ \A t \in Tasks : Owner(t) =>
       /\ handle[task[t].h].open /\ task[t].h # fs.bridge
       /\ handle[task[t].h].mounted <=> task[t].pc \in Mounting
       /\ \A u \in Tasks : Owner(u) /\ task[u].h = task[t].h => u = t

\* Loads and closes keep apart, and the live volume is the one FSKit has or is leaving.
ApartInv ==
  /\ \A h \in Handles : vols[h] \in {"loaded", "active"} => fs.bridge = h
  /\ (\E h \in Handles : vols[h] = "leaving") \/ (\E t \in Tasks : Closer(t)) =>
       /\ \A t \in Tasks : ~ Opener(t)
       /\ fs.bridge # None => vols[fs.bridge] = "leaving"
  /\ \A t \in Tasks :
       /\ Closer(t) /\ task[t].pc \notin {"take", "sync"} => fs.bridge = None
       /\ Opener(t) /\ task[t].pc = "take" =>
            /\ fs.bridge # None /\ vols[fs.bridge] = "none"
            /\ handle[fs.bridge].dev = task[t].dev
       /\ \A u \in Tasks : u # t =>
            /\ Opener(t) /\ Opener(u) => task[t].dev # task[u].dev
            /\ task[t].then = "fopen" => ~ Closer(u)

\* A format is of the device that was meant, and there is a number left for it.
FormatInv ==
  /\ shells \subseteq fs.probed /\ fs.lastSeen.dev \in fs.probed \cup {None}
  /\ \A t \in Tasks : task[t].then = "fopen" =>
       /\ task[t].dev = task[t].want
       /\ task[t].pc \notin Formatting \ {"wipe"} => \A d \in Devices : media[d].id < MaxFormats

\* Whoever works through a pointer holds it open, and it is that of the device that was meant.
ExecOK(t) ==
  /\ task[t].pc \in {"use", "super", "build", "flush"} => exec = t
  /\ task[t].pc = "use" => handle[task[t].h].mounted
  /\ task[t].pc = "stat" => handle[task[t].h].open
  /\ task[t].pc \in {"op", "use"} /\ task[t].then = "idle" /\ handle[task[t].h].open =>
       handle[task[t].h].dev = task[t].dev
  /\ task[t].pc \in {"mount", "recover"} => handle[task[t].h].dev = task[t].dev
ExecInv == \A t \in Tasks : ExecOK(t)

\* The medium behind a mount is the one that was mounted.
Settled(h) ==
  LET hd == handle[h] m == media[hd.dev] IN
  /\ hd.id = m.id
  /\ ~ hd.ro => hd.over \in AtHome /\ m.kind = "ext" /\ hd.journal = m.recover
MediaInv ==
  /\ \A d \in Devices : Untouched(media[d])
  /\ \A h \in Handles : handle[h].mounted => Settled(h)
WholeInv ==
  /\ \A h \in Handles : handle[h].mounted => media[handle[h].dev].whole
  /\ \A t \in Tasks : Opener(t) /\ media[task[t].dev].kind \in {"ext", "limited"} => media[task[t].dev].whole

-----------------------------------------------------------------------------
(* What a turn of the executor leaves.                                     *)

\* A mount that fails takes nothing; one that succeeds takes the slot, and has replayed.
MountOutcome(h, r) ==
  LET hd == handle[h] m == media[hd.dev] IN
  /\ r.m \in Medium /\ r.h \in HandleType /\ r.slot \in Handles \cup {None}
  /\ r.m.id = m.id /\ r.m.whole = m.whole /\ (Untouched(m) => Untouched(r.m))
  /\ r.m.kind \in {"ext", "limited"} => m.kind \in {"ext", "limited"}
  /\ r.m # m => slot = None
  /\ r.rc # "ok" => r.slot = slot /\ r.h = hd
  /\ r.rc = "ok" => /\ slot = None /\ r.slot = h /\ ~ hd.mounted
                    /\ r.h.mounted /\ r.h.dev = hd.dev /\ r.h.open = hd.open /\ r.h.id = m.id
                    /\ m.kind \in {"ext", "limited"}
                    /\ ~ r.h.ro => r.m.kind = "ext" /\ r.h.journal = r.m.recover
                    /\ ~ r.h.ro /\ Untouched(m) => r.h.over \in AtHome

\* Whatever fails, an unmount gives the slot back; one that succeeds leaves a clean medium.
UnmountOutcome(hd, m, r) ==
  /\ r.m \in Medium /\ r.h \in HandleType /\ r.slot = None /\ r.m.id = m.id
  /\ r.h.dev = hd.dev /\ r.h.open = hd.open /\ ~ r.h.mounted
  /\ hd.id = m.id => /\ r.m.whole = m.whole /\ (Untouched(m) => Untouched(r.m))
                     /\ r.m.kind = m.kind
  /\ hd.id = m.id /\ ~ hd.ro /\ hd.journal = m.recover /\ r.rc = "ok" =>
       r.m.valid /\ ~ r.m.recover /\ (Untouched(m) => r.m.log \in AtHome)

\* Writing the superblock once more, or failing to, changes at most whether it says clean.
LEMMA LeftLike ==
  ASSUME NEW m \in Medium, NEW n \in Left(m)
  PROVE  /\ n \in Medium /\ n.kind = m.kind /\ n.journal = m.journal /\ n.recover = m.recover
         /\ n.log = m.log /\ n.whole = m.whole /\ n.id = m.id
  BY DEF Left, Finished, Medium

\* A replay gives up the log with the flag, and takes at most the verdict from it.
LEMMA ReplayedIs ==
  ASSUME NEW m \in Medium
  PROVE  LET n == Replayed(m) IN
         /\ n \in Medium /\ ~ n.recover /\ n.id = m.id /\ n.whole = m.whole
         /\ n.log = "empty" /\ n.journal = m.journal
         /\ n.kind = m.kind \/ (n.kind = m.log /\ m.log \in {"blank", "limited"})
  BY DEF Replayed, Medium, Logs, Kinds

\* The superblock as a read-write mount has it before the replay and behind it.
Replaying(m, m1, m2) ==
  /\ m1 = [m EXCEPT !.valid = FALSE]
  /\ m2 = IF m1.recover THEN Replayed(m1) ELSE m1

\* A mount that a failing write has ended leaves a log that the flag speaks of, or one with
\* nothing to replay.
LEMMA BrokenMountIs ==
  ASSUME NEW m \in Medium, NEW m1 \in Medium, NEW m2 \in Medium, Replaying(m, m1, m2),
         NEW n \in BrokenMount(m, m1, m2)
  PROVE  /\ n \in Medium /\ n.id = m.id /\ n.whole = m.whole
         /\ Untouched(m) => Untouched(n)
<1> DEFINE spent == [m2 EXCEPT !.log = "spent"]
           asked == [m2 EXCEPT !.recover = TRUE]
<1>1. /\ m1.recover = m.recover /\ m1.log = m.log /\ m1.kind = m.kind /\ m1.journal = m.journal
      /\ m1.id = m.id /\ m1.whole = m.whole
  BY DEF Medium, Replaying
<1>2. /\ ~ m2.recover /\ m2.id = m.id /\ m2.whole = m.whole
      /\ m.recover => m2.log = "empty"
      /\ ~ m.recover => m2.log = m.log /\ m2.kind = m.kind
      /\ m2.kind = m.kind \/ (m2.kind = m.log /\ m.log \in {"blank", "limited"})
  <2>1. CASE m.recover
    BY <1>1, <2>1, ReplayedIs DEF Replaying
  <2>2. CASE ~ m.recover
    BY <1>1, <2>2 DEF Replaying
  <2>3. QED
    BY <2>1, <2>2
<1>3. /\ spent \in Medium /\ spent.recover = m2.recover /\ spent.log = "spent"
      /\ spent.kind = m2.kind /\ spent.id = m2.id /\ spent.whole = m2.whole
  BY DEF Medium, Logs
<1>4. /\ asked \in Medium /\ asked.recover /\ asked.log = m2.log
      /\ asked.kind = m2.kind /\ asked.id = m2.id /\ asked.whole = m2.whole
  BY DEF Medium
<1> HIDE DEF spent, asked
<1>5. \/ n = m \/ n \in Left(m1) \/ (m1.recover /\ n \in Left(spent))
      \/ (m2.kind = "ext" /\ (n \in Left(m2) \/ n \in Left(asked)))
  BY DEF BrokenMount, spent, asked
<1>6. Untouched(m) /\ ~ m.whole => m2.kind # "limited" /\ m2.log \in AtHome
  BY <1>2 DEF Untouched, AtHome
<1>7. CASE n = m
  BY <1>7
<1>8. CASE n \in Left(m1)
  <2>1. /\ n \in Medium /\ n.kind = m1.kind /\ n.recover = m1.recover /\ n.log = m1.log
        /\ n.whole = m1.whole /\ n.id = m1.id
    BY <1>8, LeftLike
  <2>2. QED
    BY <1>1, <2>1 DEF Untouched
<1>9. CASE m1.recover /\ n \in Left(spent)
  <2>1. /\ n \in Medium /\ n.kind = m2.kind /\ n.recover = m2.recover /\ n.log = "spent"
        /\ n.whole = m2.whole /\ n.id = m2.id
    BY <1>3, <1>9, LeftLike
  <2>2. QED
    BY <1>2, <1>6, <2>1 DEF Untouched, AtHome
<1>10. CASE n \in Left(m2)
  <2>1. /\ n \in Medium /\ n.kind = m2.kind /\ n.recover = m2.recover /\ n.log = m2.log
        /\ n.whole = m2.whole /\ n.id = m2.id
    BY <1>10, LeftLike
  <2>2. QED
    BY <1>2, <1>6, <2>1 DEF Untouched, AtHome
<1>11. CASE n \in Left(asked)
  <2>1. /\ n \in Medium /\ n.kind = m2.kind /\ n.recover /\ n.log = m2.log
        /\ n.whole = m2.whole /\ n.id = m2.id
    BY <1>4, <1>11, LeftLike
  <2>2. QED
    BY <1>2, <1>6, <2>1 DEF Untouched, AtHome
<1>12. QED
  BY <1>5, <1>7, <1>8, <1>9, <1>10, <1>11

LEMMA MountResult ==
  ASSUME TypeOK, NEW h \in Handles, handle[h].dev \in Devices, NEW ro \in BOOLEAN,
         NEW r \in ext4b_mount(h, ro)
  PROVE  MountOutcome(h, r)
<1> DEFINE hd == handle[h]
           m == media[hd.dev]
<1>1. hd \in HandleType /\ m \in Medium /\ slot \in Handles \cup {None}
  BY DEF TypeOK
<1>2. CASE MountGate(h, ro) # "go"
  <2>1. r = Result(MountGate(h, ro), m, hd, slot, FALSE) /\ MountGate(h, ro) # "ok"
    BY <1>2 DEF ext4b_mount, MountGate
  <2>2. QED
    BY <1>1, <2>1 DEF Result, MountOutcome
<1>3. ASSUME MountGate(h, ro) = "go"
      PROVE  /\ slot = None /\ ~ hd.mounted /\ m.kind \in {"ext", "limited"}
             /\ ~ ro => m.kind = "ext" /\ ~ hd.ro
  BY <1>3, <1>1 DEF MountGate, ext4b_probe, Medium, Kinds, HandleType
<1>4. CASE MountGate(h, ro) = "go" /\ ro
  <2>1. r = Result("ok", m, [hd EXCEPT !.mounted = TRUE, !.ro = TRUE, !.id = m.id, !.over = m.log],
                   h, FALSE)
    BY <1>4 DEF ext4b_mount
  <2>2. QED
    BY <1>1, <1>3, <1>4, <2>1 DEF Result, HandleType, Medium, MountOutcome
<1>5. CASE MountGate(h, ro) = "go" /\ ~ ro
  <2> DEFINE m1 == [m EXCEPT !.valid = FALSE]
             m2 == IF m1.recover THEN Replayed(m1) ELSE m1
             m3 == IF m2.journal THEN [m2 EXCEPT !.recover = TRUE, !.log = "empty"] ELSE m2
             done == [m3 EXCEPT !.orphans = FALSE]
             up == [hd EXCEPT !.mounted = TRUE, !.journal = m2.journal, !.id = m.id, !.over = m2.log]
             late == [up EXCEPT !.over = "spent"]
  <2>1. r \in WriteMount(h)
    BY <1>5 DEF ext4b_mount
  <2>2. /\ m1 \in Medium /\ m1.recover = m.recover /\ m1.log = m.log /\ m1.kind = m.kind
        /\ m1.id = m.id /\ m1.whole = m.whole /\ m1.journal = m.journal
    BY <1>1 DEF Medium
  <2>3. /\ m2 \in Medium /\ ~ m2.recover /\ m2.id = m.id /\ m2.whole = m.whole
        /\ m.recover => m2.log = "empty" /\ (m2.kind = m.kind \/ m2.kind \in {"blank", "limited"})
        /\ m.recover /\ m.log \notin {"blank", "limited"} => m2.kind = m.kind
        /\ ~ m.recover => m2.kind = m.kind /\ m2.log = m.log
    <3>1. CASE m.recover
      BY <2>2, <3>1, ReplayedIs
    <3>2. CASE ~ m.recover
      BY <2>2, <3>2, <1>1 DEF Medium
    <3>3. QED
      BY <3>1, <3>2
  <2>4. /\ Finished(m1) \in Medium /\ Finished(m1).recover = m.recover
        /\ Finished(m1).id = m.id /\ Finished(m1).whole = m.whole /\ Finished(m1).kind = m.kind
        /\ Finished(m1).log = m.log
    BY <2>2 DEF Medium, Finished
  <2>5. \A n \in BrokenMount(m, m1, m2) :
           n \in Medium /\ n.id = m.id /\ n.whole = m.whole /\ (Untouched(m) => Untouched(n))
    <3>1. Replaying(m, m1, m2)
      BY DEF Replaying
    <3> HIDE DEF m1, m2, m
    <3>2. QED
      BY <1>1, <2>2, <2>3, <3>1, BrokenMountIs
  <2> HIDE DEF m2
  <2>6. /\ m3 \in Medium /\ m3.recover = m2.journal /\ m3.id = m.id /\ m3.whole = m.whole
        /\ m3.kind = m2.kind /\ m3.log \in {"empty", m2.log}
    BY <2>3 DEF Medium, Logs
  <2>7. /\ done \in Medium /\ done.recover = m2.journal /\ done.id = m.id /\ done.whole = m.whole
        /\ done.kind = m2.kind /\ done.log \in {"empty", m2.log}
    BY <2>6 DEF Medium
  <2>8. /\ Finished(m2) \in Medium /\ ~ Finished(m2).recover
        /\ Finished(m2).id = m.id /\ Finished(m2).whole = m.whole /\ Finished(m2).kind = m2.kind
        /\ Finished(m2).log = m2.log
    BY <2>3 DEF Medium, Finished
  <2>9. /\ up \in HandleType /\ up.mounted /\ up.dev = hd.dev /\ up.open = hd.open /\ up.id = m.id
        /\ up.ro = hd.ro /\ up.journal = m2.journal /\ up.over = m2.log
    BY <1>1, <2>3 DEF Medium, HandleType
  <2>10. /\ late \in HandleType /\ late.mounted /\ late.dev = hd.dev /\ late.open = hd.open
         /\ late.id = m.id /\ late.ro = hd.ro /\ late.journal = m2.journal /\ late.over = "spent"
    BY <1>1, <2>9 DEF HandleType, Logs
  <2> HIDE DEF m3, up, late
  <2>11. \/ /\ r.rc = "EIO" /\ r.m \in BrokenMount(m, m1, m2) /\ r.h = hd /\ r.slot = None
         \/ /\ r.rc # "ok" /\ r.h = hd /\ r.slot = None
            /\ m.recover /\ r.m \in {Finished(m1), Finished(m2)}
         \/ /\ ~ (m.recover /\ m.log \in {"fails", "blank", "limited"})
            /\ r.rc = "ok" /\ r.m \in {m3, done} /\ r.h \in {up, late} /\ r.slot = h
    <3>1. WriteMount(h) =
            (IF MayFail THEN {Result("EIO", n, hd, None, TRUE) : n \in BrokenMount(m, m1, m2)} ELSE {})
            \cup
            CASE m1.recover /\ ~m1.journal -> {Result("ENOTSUP", Finished(m1), hd, None, FALSE)}
              [] m1.recover /\ m1.journal /\ m1.log = "fails" ->
                   {Result("EIO", Finished(m1), hd, None, FALSE)}
              [] m1.recover /\ m1.journal /\ m1.log = "blank" ->
                   {Result("EIO", Finished(m2), hd, None, FALSE)}
              [] m1.recover /\ m1.journal /\ m1.log = "limited" ->
                   {Result("EROFS", Finished(m2), hd, None, FALSE)}
              [] OTHER ->
                   {Result("ok", done, up, h, FALSE)}
                   \cup (IF MayFail /\ m2.orphans THEN {Result("ok", m3, up, h, TRUE)} ELSE {})
                   \cup (IF MayFail /\ m1.recover THEN {Result("ok", done, late, h, TRUE)} ELSE {})
      BY DEF WriteMount, m2, m3, up, late
    <3> HIDE DEF m1, m, hd, done
    <3>2. CASE \E n \in BrokenMount(m, m1, m2) : r = Result("EIO", n, hd, None, TRUE)
      BY <3>2 DEF Result
    <3>3. CASE /\ m1.recover
               /\ \/ r = Result("ENOTSUP", Finished(m1), hd, None, FALSE)
                  \/ r = Result("EIO", Finished(m1), hd, None, FALSE)
                  \/ r = Result("EIO", Finished(m2), hd, None, FALSE)
                  \/ r = Result("EROFS", Finished(m2), hd, None, FALSE)
      BY <2>2, <3>3 DEF Result
    <3>4. CASE /\ ~ (m1.recover /\ m1.log \in {"fails", "blank", "limited"})
               /\ \/ r = Result("ok", done, up, h, FALSE) \/ r = Result("ok", m3, up, h, TRUE)
                  \/ r = Result("ok", done, late, h, TRUE)
      BY <2>2, <3>4 DEF Result
    <3>5. CASE r \notin {Result("EIO", n, hd, None, TRUE) : n \in BrokenMount(m, m1, m2)}
      <4>1. CASE m1.recover /\ (~ m1.journal \/ m1.log \in {"fails", "blank", "limited"})
        <5>1. \/ r = Result("ENOTSUP", Finished(m1), hd, None, FALSE)
              \/ r = Result("EIO", Finished(m1), hd, None, FALSE)
              \/ r = Result("EIO", Finished(m2), hd, None, FALSE)
              \/ r = Result("EROFS", Finished(m2), hd, None, FALSE)
          BY <2>1, <3>1, <3>5, <4>1
        <5>2. QED
          BY <3>3, <4>1, <5>1
      <4>2. CASE ~ (m1.recover /\ (~ m1.journal \/ m1.log \in {"fails", "blank", "limited"}))
        <5>1. \/ r = Result("ok", done, up, h, FALSE) \/ r = Result("ok", m3, up, h, TRUE)
              \/ r = Result("ok", done, late, h, TRUE)
          BY <2>1, <3>1, <3>5, <4>2
        <5>2. QED
          BY <3>4, <4>2, <5>1
      <4>3. QED
        BY <4>1, <4>2
    <3>6. QED
      BY <3>2, <3>5
  <2>12. CASE r.rc = "EIO" /\ r.m \in BrokenMount(m, m1, m2) /\ r.h = hd /\ r.slot = None
    BY <1>1, <1>3, <1>5, <2>5, <2>12 DEF MountOutcome
  <2>13. CASE /\ r.rc # "ok" /\ r.h = hd /\ r.slot = None
              /\ m.recover /\ r.m \in {Finished(m1), Finished(m2)}
    <3>1. CASE r.m = Finished(m1)
      BY <1>1, <1>3, <1>5, <2>4, <2>13, <3>1 DEF Untouched, MountOutcome
    <3>2. CASE r.m = Finished(m2)
      <4>1. Untouched(m) /\ ~ m.whole => m2.kind # "limited"
        BY <1>3, <1>5, <2>3, <2>13 DEF Untouched, AtHome
      <4>2. QED
        BY <1>1, <1>3, <1>5, <2>3, <2>8, <2>13, <3>2, <4>1 DEF Untouched, AtHome, MountOutcome
    <3>3. QED
      BY <2>13, <3>1, <3>2
  <2>14. CASE /\ ~ (m.recover /\ m.log \in {"fails", "blank", "limited"})
              /\ r.rc = "ok" /\ r.m \in {m3, done} /\ r.h \in {up, late} /\ r.slot = h
    <3> HIDE DEF done, m, hd
    <3>1. /\ r.m \in Medium /\ r.m.recover = m2.journal /\ r.m.id = m.id /\ r.m.whole = m.whole
          /\ r.m.kind = m.kind /\ r.m.log \in {"empty", m2.log}
      BY <2>3, <2>6, <2>7, <2>14
    <3>2. Untouched(m) => m2.log \in AtHome /\ Untouched(r.m)
      BY <1>3, <1>5, <2>3, <3>1 DEF Untouched, AtHome
    <3>3. /\ r.h \in HandleType /\ r.h.mounted /\ r.h.dev = hd.dev /\ r.h.open = hd.open
          /\ r.h.id = m.id /\ r.h.ro = hd.ro /\ r.h.journal = m2.journal
          /\ r.h.over \in {m2.log, "spent"}
      BY <2>9, <2>10, <2>14
    <3>4. QED
      BY <1>1, <1>3, <1>5, <2>14, <3>1, <3>2, <3>3 DEF m, hd, MountOutcome, AtHome
  <2>15. QED
    BY <2>11, <2>12, <2>13, <2>14
<1>6. QED
  BY <1>2, <1>4, <1>5

LEMMA UnmountResult ==
  ASSUME NEW hd \in HandleType, NEW m \in Medium, NEW r \in UnmountOf(hd, m)
  PROVE  UnmountOutcome(hd, m, r)
<1> DEFINE down == [hd EXCEPT !.mounted = FALSE, !.journal = FALSE]
           half == HalfStopped(hd, m)
           stop == Stopped(hd, m)
           torn == [m EXCEPT !.whole = FALSE]
<1>1. /\ half \in Medium /\ half.id = m.id /\ half.whole = m.whole /\ half.kind = m.kind
      /\ half.recover = (m.recover /\ ~ hd.journal)
      /\ half.log = IF hd.journal THEN "spent" ELSE m.log
  BY DEF Medium, HalfStopped, Logs, HandleType
<1>2. /\ stop \in Medium /\ stop.id = m.id /\ stop.whole = m.whole /\ stop.kind = m.kind
      /\ stop.recover = (m.recover /\ ~ hd.journal)
      /\ stop.log = IF hd.journal THEN "empty" ELSE m.log
  BY DEF Medium, Stopped, Logs, HandleType
<1>3. torn \in Medium /\ torn.id = m.id
  BY DEF Medium
<1>4. down \in HandleType /\ down.dev = hd.dev /\ down.open = hd.open /\ ~ down.mounted
  BY DEF HandleType
<1>5. Finished(stop).valid /\ Finished(stop) \in Left(stop)
  BY <1>2 DEF Finished, Left, Medium
<1> HIDE DEF half, stop, torn, down
<1>6. /\ r.h = down /\ r.slot = None
      /\ hd.ro => r.m = m
      /\ ~ hd.ro /\ hd.id = m.id => /\ r.m \in Left(m) \cup Left(half) \cup Left(stop)
                                    /\ r.rc = "ok" => r.m = Finished(stop)
      /\ ~ hd.ro /\ hd.id # m.id => r.m \in {m, torn}
  <2>1. CASE hd.ro
    BY <2>1 DEF UnmountOf, Result, down
  <2>2. CASE ~ hd.ro /\ hd.id = m.id
    <3>1. \/ r = Result("ok", Finished(stop), down, None, FALSE)
          \/ \E n \in BrokenUnmount(hd, m) : r = Result("EIO", n, down, None, TRUE)
      BY <2>2 DEF UnmountOf, down, stop
    <3>2. QED
      BY <1>5, <2>2, <3>1 DEF Result, BrokenUnmount, half, stop
  <2>3. CASE ~ hd.ro /\ hd.id # m.id
    <3>1. \/ r = Result("ok", torn, down, None, FALSE)
          \/ \E n \in {m, torn} : r = Result("EIO", n, down, None, TRUE)
      BY <2>3 DEF UnmountOf, down, torn
    <3>2. QED
      BY <2>3, <3>1 DEF Result
  <2>4. QED
    BY <2>1, <2>2, <2>3 DEF HandleType
<1>7. ASSUME ~ hd.ro, hd.id = m.id
      PROVE  /\ r.m \in Medium /\ r.m.id = m.id /\ r.m.whole = m.whole /\ r.m.kind = m.kind
             /\ Untouched(m) => Untouched(r.m)
  <2>1. CASE r.m \in Left(m)
    BY <2>1, LeftLike DEF Untouched
  <2>2. CASE r.m \in Left(half)
    <3>1. /\ r.m \in Medium /\ r.m.kind = half.kind /\ r.m.recover = half.recover
          /\ r.m.log = half.log /\ r.m.whole = half.whole /\ r.m.id = half.id
      BY <1>1, <2>2, LeftLike
    <3>2. QED
      BY <1>1, <3>1 DEF Untouched, AtHome, HandleType
  <2>3. CASE r.m \in Left(stop)
    <3>1. /\ r.m \in Medium /\ r.m.kind = stop.kind /\ r.m.recover = stop.recover
          /\ r.m.log = stop.log /\ r.m.whole = stop.whole /\ r.m.id = stop.id
      BY <1>2, <2>3, LeftLike
    <3>2. QED
      BY <1>2, <3>1 DEF Untouched, AtHome, HandleType
  <2>4. QED
    BY <1>6, <1>7, <2>1, <2>2, <2>3
<1>8. ASSUME hd.id = m.id, ~ hd.ro, hd.journal = m.recover, r.rc = "ok"
      PROVE  r.m.valid /\ ~ r.m.recover /\ (Untouched(m) => r.m.log \in AtHome)
  <2>1. r.m = Finished(stop)
    BY <1>6, <1>8
  <2>2. r.m.recover = stop.recover /\ r.m.log = stop.log
    BY <1>2, <1>5, <2>1, LeftLike
  <2>3. QED
    BY <1>2, <1>5, <1>8, <2>1, <2>2 DEF Untouched, AtHome
<1>9. CASE hd.ro
  BY <1>4, <1>6, <1>9 DEF UnmountOutcome
<1>10. CASE ~ hd.ro /\ hd.id = m.id
  BY <1>4, <1>6, <1>7, <1>8, <1>10 DEF UnmountOutcome
<1>11. CASE ~ hd.ro /\ hd.id # m.id
  BY <1>3, <1>4, <1>6, <1>11 DEF UnmountOutcome
<1>12. QED
  BY <1>9, <1>10, <1>11 DEF HandleType

LEMMA RecoverResult ==
  ASSUME TypeOK, NEW h \in Handles, handle[h].dev \in Devices, ~ handle[h].mounted,
         NEW r \in ext4b_journal_recover(h)
  PROVE  LET m == media[handle[h].dev] IN
         /\ r.m \in Medium /\ r.h \in HandleType /\ r.slot = slot
         /\ r.h.dev = handle[h].dev /\ r.h.open = handle[h].open /\ ~ r.h.mounted
         /\ r.m.id = m.id /\ r.m.whole = m.whole /\ (Untouched(m) => Untouched(r.m))
         /\ r.m.kind \in {"ext", "limited"} => m.kind \in {"ext", "limited"}
         /\ r.m # m => slot = None
<1>1. CASE r = Result("EROFS", media[handle[h].dev], handle[h], slot, FALSE)
  BY <1>1 DEF Result, TypeOK, HandleType, Medium
<1>2. CASE \E q \in ext4b_mount(h, FALSE) : r \in IF q.rc # "ok" THEN {q} ELSE UnmountOf(q.h, q.m)
  <2>1. PICK q \in ext4b_mount(h, FALSE) : r \in IF q.rc # "ok" THEN {q} ELSE UnmountOf(q.h, q.m)
    BY <1>2
  <2>2. MountOutcome(h, q)
    BY MountResult
  <2>3. CASE q.rc # "ok"
    <3>1. r = q
      BY <2>1, <2>3
    <3>2. QED
      BY <2>2, <2>3, <3>1 DEF MountOutcome
  <2>4. CASE q.rc = "ok"
    <3>1. r \in UnmountOf(q.h, q.m) /\ q.h.id = q.m.id /\ q.h \in HandleType /\ q.m \in Medium
      BY <2>1, <2>2, <2>4 DEF MountOutcome
    <3>2. UnmountOutcome(q.h, q.m, r)
      BY <3>1, UnmountResult
    <3>3. QED
      BY <2>2, <2>4, <3>1, <3>2 DEF MountOutcome, UnmountOutcome
  <2>5. QED
    BY <2>3, <2>4
<1>3. QED
  BY <1>1, <1>2 DEF ext4b_journal_recover
-----------------------------------------------------------------------------
(* Every step keeps the shape of the calls.                                *)

\* A step of one call leaves the others where they are.
Others(t) == \A u \in Tasks \ {t} : task'[u] = task[u]
Moved(t) == task' \in [Tasks -> TaskType] /\ Others(t) /\ Shaped(task'[t])

LEMMA Moving ==
  ASSUME ShapeInv, NEW t \in Tasks, NEW c, Shaped(c), task' = [task EXCEPT ![t] = c]
  PROVE  Moved(t) /\ task'[t] = c
  BY DEF ShapeInv, TypeOK, Moved, Others, Shaped

\* A call goes on, returns or begins.
LEMMA Going ==
  ASSUME ShapeInv, NEW t \in Tasks, NEW p \in Points, Shaped([task[t] EXCEPT !.pc = p]), task' = Goto(t, p)
  PROVE  /\ Moved(t) /\ task'[t].pc = p /\ task'[t].then = task[t].then /\ task'[t].h = task[t].h
         /\ task'[t].dev = task[t].dev /\ task'[t].want = task[t].want /\ task'[t].ro = task[t].ro
<1> DEFINE c == [task[t] EXCEPT !.pc = p]
<1>1. task' = [task EXCEPT ![t] = c] /\ task[t] \in TaskType
  BY DEF Goto, ShapeInv, TypeOK
<1>2. Moved(t) /\ task'[t] = c
  BY <1>1, Moving
<1>3. QED
  BY <1>1, <1>2 DEF TaskType

LEMMA Returning ==
  ASSUME ShapeInv, NEW t \in Tasks, task' = Return(t)
  PROVE  Moved(t) /\ task'[t] = Idle
<1>1. Shaped(Idle)
  BY MountAssumption DEF Shaped, Idle, TaskType, Points, Ends, Closing, Owning, Mounting, Formatting
<1>2. QED
  BY <1>1, Moving DEF Return

LEMMA Calling ==
  ASSUME ShapeInv, NEW t \in Tasks, NEW c, Shaped(c), Call(t, c)
  PROVE  Moved(t) /\ task'[t] = c /\ task[t].pc = "idle" /\ task[t].then = "idle"
<1>1. task[t].pc = "idle" /\ task' = [task EXCEPT ![t] = c]
  BY DEF Call, At
<1>2. Moved(t) /\ task'[t] = c
  BY <1>1, Moving
<1>3. QED
  BY <1>1, <1>2 DEF ShapeInv, Shaped

-----------------------------------------------------------------------------
(* The steps that leave the owners of the handles as they are.             *)

LEMMA KeepHandles ==
  ASSUME ShapeInv, HandleInv, NEW t \in Tasks, Moved(t), UNCHANGED <<handle, slot>>,
         fs'.bridge = fs.bridge, task[t].pc \notin Owning, task'[t].pc \notin Owning,
         \A h \in Handles : vols'[h] # "none" => vols[h] # "none"
  PROVE  HandleInv'
<1>1. \A u \in Tasks : task'[u].pc \in Owning => task'[u] = task[u] /\ task[u].pc \in Owning
  BY DEF Moved, Others
<1>2. \A u \in Tasks : task[u].pc \in Mounting => task'[u] = task[u]
  BY DEF Moved, Others, Owning
<1>3. \A h \in Handles : /\ handle'[h].mounted => handle'[h].open /\ slot' = h
                         /\ handle'[h].open \/ vols'[h] # "none" => handle'[h].dev \in Devices
                         /\ handle'[h].mounted => fs'.bridge = h \/ \E u \in Tasks :
                              task'[u].h = h /\ task'[u].pc \in Mounting
  <2> TAKE h \in Handles
  <2>1. handle'[h].mounted => fs.bridge = h \/ \E u \in Tasks : task[u].h = h /\ task[u].pc \in Mounting
    BY DEF HandleInv
  <2>2. QED
    BY <1>2, <2>1 DEF HandleInv
<1>4. \A u \in Tasks : task'[u].pc \in Owning =>
        /\ handle'[task'[u].h].open /\ task'[u].h # fs'.bridge
        /\ handle'[task'[u].h].mounted <=> task'[u].pc \in Mounting
        /\ \A v \in Tasks : task'[v].pc \in Owning /\ task'[v].h = task'[u].h => v = u
  BY <1>1 DEF HandleInv, Owner
<1>5. QED
  BY <1>3, <1>4 DEF HandleInv, Owner

\* A call opens a device for itself.
LEMMA OpenHandle ==
  ASSUME ShapeInv, HandleInv, NEW t \in Tasks, Moved(t), NEW h \in Fresh, UNCHANGED <<slot, vols>>,
         fs'.bridge = fs.bridge, task[t].pc \notin Owning, task'[t].pc \in Owning \ Mounting,
         task'[t].h = h, handle'[h].open, ~ handle'[h].mounted, handle'[h].dev \in Devices,
         \A g \in Handles \ {h} : handle'[g] = handle[g]
  PROVE  HandleInv'
<1>1. h \in Handles /\ ~ handle[h].open /\ fs.bridge # h /\ \A u \in Tasks : task[u].h # h
  BY DEF Fresh
<1>2. ~ handle[h].mounted /\ slot # h
  BY <1>1, MountAssumption DEF HandleInv
<1>3. \A u \in Tasks \ {t} : task'[u] = task[u]
  BY DEF Moved, Others
<1>4. \A u \in Tasks : task[u].pc \in Mounting => task'[u] = task[u]
  BY <1>3 DEF Owning
<1>5. \A g \in Handles : /\ handle'[g].mounted => handle'[g].open /\ slot' = g
                         /\ handle'[g].open \/ vols'[g] # "none" => handle'[g].dev \in Devices
                         /\ handle'[g].mounted => fs'.bridge = g \/ \E u \in Tasks :
                              task'[u].h = g /\ task'[u].pc \in Mounting
  <2> TAKE g \in Handles
  <2>1. CASE g = h
    BY <2>1
  <2>2. CASE g # h
    <3>1. handle'[g] = handle[g]
      BY <2>2
    <3>2. handle'[g].mounted => fs.bridge = g \/ \E u \in Tasks : task[u].h = g /\ task[u].pc \in Mounting
      BY <3>1 DEF HandleInv
    <3>3. QED
      BY <1>4, <3>1, <3>2 DEF HandleInv
  <2>3. QED
    BY <2>1, <2>2
<1>6. slot' # None => handle'[slot'].mounted
  BY <1>2 DEF HandleInv, ShapeInv, TypeOK
<1>7. fs'.bridge # None => handle'[fs'.bridge].mounted
  BY <1>1 DEF HandleInv, ShapeInv, TypeOK, FsType
<1>8. ASSUME NEW u \in Tasks, task'[u].pc \in Owning
      PROVE  /\ handle'[task'[u].h].open /\ task'[u].h # fs'.bridge
             /\ handle'[task'[u].h].mounted <=> task'[u].pc \in Mounting
             /\ \A v \in Tasks : task'[v].pc \in Owning /\ task'[v].h = task'[u].h => v = u
  <2>1. CASE u = t
    BY <1>1, <1>3, <2>1
  <2>2. CASE u # t
    <3>1. task'[u] = task[u] /\ task[u].h \in Handles \ {h}
      BY <1>1, <1>3, <1>8, <2>2 DEF ShapeInv, Shaped
    <3>2. QED
      BY <1>1, <1>3, <1>8, <2>2, <3>1 DEF HandleInv, Owner
  <2>3. QED
    BY <2>1, <2>2
<1>9. QED
  BY <1>5, <1>6, <1>7, <1>8 DEF HandleInv, Owner

\* A call mounts, unmounts or formats what it has.
LEMMA KeepOwned ==
  ASSUME ShapeInv, HandleInv, NEW t \in Tasks, Moved(t), NEW h, h = task[t].h, vols' = vols,
         fs'.bridge = fs.bridge, task[t].pc \in Owning, task'[t].pc \in Owning, task'[t].h = h,
         handle'[h].open, handle'[h].dev \in Devices,
         handle'[h].mounted <=> task'[t].pc \in Mounting,
         handle'[h].mounted /\ ~ handle[h].mounted => slot = None,
         slot' = IF handle'[h].mounted THEN h ELSE IF handle[h].mounted THEN None ELSE slot,
         \A g \in Handles \ {h} : handle'[g] = handle[g]
  PROVE  HandleInv'
<1>1. h \in Handles /\ handle[h].open /\ h # fs.bridge /\ (handle[h].mounted <=> task[t].pc \in Mounting)
  BY DEF HandleInv, ShapeInv, Shaped, Owner
<1>2. \A u \in Tasks \ {t} : task'[u] = task[u]
  BY DEF Moved, Others
<1>3. handle'[h].mounted => slot \in {None, h}
  BY <1>1 DEF HandleInv
<1>4. \A g \in Handles \ {h} : handle[g].mounted => ~ handle[h].mounted /\ slot = g
  BY <1>1 DEF HandleInv
<1>5. \A g \in Handles : /\ handle'[g].mounted => handle'[g].open /\ slot' = g
                         /\ handle'[g].open \/ vols'[g] # "none" => handle'[g].dev \in Devices
                         /\ handle'[g].mounted => fs'.bridge = g \/ \E u \in Tasks :
                              task'[u].h = g /\ task'[u].pc \in Mounting
  <2> TAKE g \in Handles
  <2>1. CASE g = h
    BY <2>1
  <2>2. CASE g # h
    <3>1. handle'[g] = handle[g]
      BY <2>2
    <3>2. handle'[g].mounted => fs.bridge = g \/ \E u \in Tasks \ {t} : task[u].h = g /\ task[u].pc \in Mounting
      BY <2>2, <3>1 DEF HandleInv
    <3>3. handle'[g].mounted => slot' = g
      BY <1>3, <1>4, <2>2, <3>1, MountAssumption
    <3>4. QED
      BY <1>2, <3>1, <3>2, <3>3 DEF HandleInv
  <2>3. QED
    BY <2>1, <2>2
<1>6. slot' # None => handle'[slot'].mounted
  BY <1>1 DEF HandleInv, ShapeInv, TypeOK, FsType
<1>7. fs'.bridge # None => handle'[fs'.bridge].mounted
  BY <1>1 DEF HandleInv, ShapeInv, TypeOK, FsType
<1>8. ASSUME NEW u \in Tasks, task'[u].pc \in Owning
      PROVE  /\ handle'[task'[u].h].open /\ task'[u].h # fs'.bridge
             /\ handle'[task'[u].h].mounted <=> task'[u].pc \in Mounting
             /\ \A v \in Tasks : task'[v].pc \in Owning /\ task'[v].h = task'[u].h => v = u
  <2>1. CASE u = t
    BY <1>1, <1>2, <2>1 DEF HandleInv, Owner
  <2>2. CASE u # t
    <3>1. task'[u] = task[u] /\ task[u].h \in Handles \ {h}
      BY <1>1, <1>2, <1>8, <2>2 DEF ShapeInv, Shaped, HandleInv, Owner
    <3>2. QED
      BY <1>1, <1>2, <1>8, <2>2, <3>1 DEF HandleInv, Owner
  <2>3. QED
    BY <2>1, <2>2
<1>9. QED
  BY <1>5, <1>6, <1>7, <1>8 DEF HandleInv, Owner

\* Nobody is let in and nothing is let go.
LEMMA KeepApart ==
  ASSUME ShapeInv, ApartInv, NEW t \in Tasks, Moved(t), vols' = vols, fs'.bridge = fs.bridge,
         fs.bridge # None => handle'[fs.bridge].dev = handle[fs.bridge].dev,
         task'[t].then = "open" => /\ task[t].then = "open" /\ task'[t].dev = task[t].dev
                                   /\ task'[t].pc # "take",
         task'[t].then \in Closing =>
            /\ task'[t].then = task[t].then
            /\ task'[t].pc \notin {"take", "sync"} /\ task[t].pc \in {"take", "sync"} => fs.bridge = None
  PROVE  ApartInv'
<1>1. \A u \in Tasks \ {t} : task'[u] = task[u]
  BY DEF Moved, Others
<1>2. \A u \in Tasks : /\ task'[u].then = "open" => task[u].then = "open" /\ task'[u].dev = task[u].dev
                       /\ task'[u].then \in Closing => task'[u].then = task[u].then
  BY <1>1
<1>3. (\E h \in Handles : vols'[h] = "leaving") \/ (\E u \in Tasks : task'[u].then \in Closing) =>
        /\ \A u \in Tasks : task'[u].then # "open"
        /\ fs'.bridge # None => vols'[fs'.bridge] = "leaving"
  BY <1>2 DEF ApartInv, Opener, Closer
<1>4. ASSUME NEW u \in Tasks
      PROVE  /\ task'[u].then \in Closing /\ task'[u].pc \notin {"take", "sync"} => fs'.bridge = None
             /\ task'[u].then = "open" /\ task'[u].pc = "take" =>
                  /\ fs'.bridge # None /\ vols'[fs'.bridge] = "none"
                  /\ handle'[fs'.bridge].dev = task'[u].dev
  <2>1. CASE u = t
    BY <2>1 DEF ApartInv, Closer
  <2>2. CASE u # t
    BY <1>1, <2>2 DEF ApartInv, Opener, Closer
  <2>3. QED
    BY <2>1, <2>2
<1>5. ASSUME NEW u \in Tasks, NEW v \in Tasks, v # u
      PROVE  /\ task'[u].then = "open" /\ task'[v].then = "open" => task'[u].dev # task'[v].dev
             /\ task'[u].then = "fopen" => task'[v].then \notin Closing
  BY <1>2, <1>5 DEF ApartInv, Opener, Closer, Closing
<1>6. QED
  BY <1>3, <1>4, <1>5 DEF ApartInv, Opener, Closer

\* Everything TypeOK says of the other variables.
StateOK ==
  /\ media \in [Devices -> Medium] /\ keys \in [Devices -> KeyStates]
  /\ handle \in [Handles -> HandleType]
  /\ slot \in Handles \cup {None} /\ exec \in Tasks \cup {None}
  /\ fs \in FsType
  /\ vols \in [Handles -> {"none", "loaded", "active", "leaving"}] /\ shells \subseteq Devices
  /\ said \in [Devices -> {"nothing", "closed", "failed"}]

LEMMA KeepShape ==
  ASSUME ShapeInv, NEW t \in Tasks, Moved(t), StateOK'
  PROVE  ShapeInv'
<1>1. \A u \in Tasks : Shaped(task'[u])
  BY DEF Moved, Others, ShapeInv
<1>2. TypeOK'
  BY DEF Moved, TypeOK, StateOK
<1>3. QED
  BY <1>1, <1>2 DEF ShapeInv, Shaped

LEMMA KeepFormat ==
  ASSUME FormatInv, NEW t \in Tasks, Moved(t), shells' \subseteq fs'.probed,
         fs'.lastSeen.dev \in fs'.probed \cup {None},
         \A d \in Devices : media'[d].id = media[d].id,
         task'[t].then = "fopen" =>
           /\ task[t].then = "fopen" /\ task'[t].dev = task[t].dev /\ task'[t].want = task[t].want
           /\ task'[t].pc \in Formatting \ {"wipe"} \/ task[t].pc \notin Formatting \ {"wipe"}
  PROVE  FormatInv'
<1>1. \A u \in Tasks \ {t} : task'[u] = task[u]
  BY DEF Moved, Others
<1>2. ASSUME NEW u \in Tasks, task'[u].then = "fopen"
      PROVE  /\ task'[u].dev = task'[u].want
             /\ task'[u].pc \notin Formatting \ {"wipe"} => \A d \in Devices : media'[d].id < MaxFormats
  BY <1>1, <1>2 DEF FormatInv
<1>3. QED
  BY <1>2 DEF FormatInv

MountInv == ShapeInv /\ HandleInv /\ ApartInv /\ FormatInv

\* A step between two points at which a call has nothing, which changes nothing either.
LEMMA QuietStep ==
  ASSUME MountInv, NEW t \in Tasks, Moved(t), UNCHANGED <<media, handle, slot, vols>>,
         fs'.bridge = fs.bridge, task[t].pc \notin Owning, task'[t].pc \notin Owning,
         shells' \subseteq fs'.probed, fs'.lastSeen.dev \in fs'.probed \cup {None},
         fs' \in FsType, keys' \in [Devices -> KeyStates], exec' \in Tasks \cup {None}, said' = said,
         task'[t].then = "open" => /\ task[t].then = "open" /\ task'[t].dev = task[t].dev
                                   /\ task'[t].pc # "take",
         task'[t].then \in Closing =>
            /\ task'[t].then = task[t].then /\ task'[t].dev = task[t].dev
            /\ task'[t].want = task[t].want
            /\ task'[t].pc \notin {"take", "sync"} /\ task[t].pc \in {"take", "sync"} => fs.bridge = None
  PROVE  MountInv'
<1>1. StateOK'
  BY DEF StateOK, MountInv, ShapeInv, TypeOK, FsType
<1>2. ShapeInv'
  BY <1>1, KeepShape DEF MountInv
<1>3. HandleInv'
  BY KeepHandles DEF MountInv
<1>4. ApartInv'
  BY KeepApart DEF MountInv
<1>5. FormatInv'
  BY KeepFormat DEF MountInv, Closing, Formatting, Owning
<1>6. QED
  BY <1>2, <1>3, <1>4, <1>5 DEF MountInv

\* Where a call that is at one of these points has nothing.
LEMMA SeeKeeps ==
  ASSUME MountInv, NEW t \in Tasks, NEW d \in Devices, fs' = See(t, d)
  PROVE  /\ fs' \in FsType /\ fs'.bridge = fs.bridge /\ fs'.lastSeen.dev = d
         /\ fs'.probed = fs.probed \cup {d}
  BY DEF See, MountInv, ShapeInv, TypeOK, FsType

LEMMA KeysKeep ==
  ASSUME MountInv, NEW d \in Devices, keys' = [keys EXCEPT ![d] = openEncryptedIfNeeded(d).key]
  PROVE  keys' \in [Devices -> KeyStates]
  BY DEF MountInv, ShapeInv, TypeOK, openEncryptedIfNeeded, masterKey, KeyStates

LEMMA QuietSteps ==
  ASSUME MountInv, NEW t \in Tasks,
         \/ examine(t) \/ loadRefused(t) \/ unmountSync(t) \/ unmountLeft(t) \/ check(t)
         \/ operationEnter(t) \/ statisticsRead(t)
  PROVE  MountInv'
<1>1. /\ ShapeInv /\ Shaped(task[t]) /\ task[t] \in TaskType /\ fs \in FsType
      /\ keys \in [Devices -> KeyStates] /\ exec \in Tasks \cup {None}
      /\ shells \subseteq fs.probed /\ fs.lastSeen.dev \in fs.probed \cup {None}
  BY DEF MountInv, ShapeInv, TypeOK, FormatInv
<1>2. CASE examine(t)
  <2>1. task[t].pc = "examine" /\ task' = Return(t) /\ task[t].dev \in Devices
    BY <1>1, <1>2 DEF examine, At, Shaped
  <2>2. /\ fs' \in FsType /\ fs'.bridge = fs.bridge /\ fs'.probed = fs.probed
        /\ fs'.lastSeen.dev \in fs.probed \cup {None}
    <3>1. fs' = fs \/ fs' = [fs EXCEPT !.lastSeen = NothingSeen]
      BY <1>2 DEF examine
    <3>2. QED
      BY <1>1, <3>1 DEF FsType, NothingSeen
  <2>3. keys' \in [Devices -> KeyStates]
    BY <1>2, <2>1, KeysKeep DEF examine
  <2>4. Moved(t) /\ task'[t] = Idle
    BY <1>1, <2>1, Returning
  <2>5. QED
    BY <1>1, <1>2, <2>1, <2>2, <2>3, <2>4, QuietStep
       DEF examine, Idle, Owning, Mounting, Formatting, Closing
<1>3. CASE loadRefused(t) \/ unmountLeft(t) \/ statisticsRead(t)
  <2>1. /\ task[t].pc \in {"busy", "left", "stat"} /\ task' = Return(t)
        /\ UNCHANGED <<media, keys, handle, slot, fs, vols, shells, exec, said>>
    BY <1>3 DEF loadRefused, unmountLeft, statisticsRead, At
  <2>2. Moved(t) /\ task'[t] = Idle
    BY <1>1, <2>1, Returning
  <2>3. QED
    BY <1>1, <2>1, <2>2, QuietStep DEF Idle, Owning, Mounting, Formatting, Closing
<1>4. CASE unmountSync(t)
  <2>1. /\ task[t].pc = "sync" /\ task' = Goto(t, "take")
        /\ UNCHANGED <<media, keys, handle, slot, fs, vols, shells, exec, said>>
    BY <1>4 DEF unmountSync, At
  <2>2. Shaped([task[t] EXCEPT !.pc = "take"])
    BY <1>1, <2>1 DEF Shaped, TaskType, Points, Closing, Owning, Mounting, Formatting
  <2>3. /\ Moved(t) /\ task'[t].pc = "take" /\ task'[t].then = task[t].then /\ task[t].then = "left"
        /\ task'[t].dev = task[t].dev /\ task'[t].want = task[t].want
    BY <1>1, <2>1, <2>2, Going DEF Points, Shaped
  <2>4. QED
    BY <1>1, <2>1, <2>3, QuietStep DEF Owning, Mounting, Formatting
<1>5. CASE operationEnter(t)
  <2>1. /\ task[t].pc = "op" /\ task' \in {Goto(t, "use"), Return(t)} /\ exec' \in {t, exec}
        /\ UNCHANGED <<media, keys, handle, slot, fs, vols, shells, said>>
    BY <1>5 DEF operationEnter, At
  <2>2. Shaped([task[t] EXCEPT !.pc = "use"])
    BY <1>1, <2>1 DEF Shaped, TaskType, Points, Closing, Owning, Mounting, Formatting
  <2>3. /\ Moved(t) /\ task'[t].pc \in {"use", "idle"} /\ task'[t].then \in {"idle", "check"}
    <3>1. CASE task' = Goto(t, "use")
      BY <1>1, <2>1, <2>2, <3>1, Going DEF Points, Shaped
    <3>2. CASE task' = Return(t)
      BY <1>1, <2>1, <3>2, Returning DEF Idle
    <3>3. QED
      BY <2>1, <3>1, <3>2
  <2>4. QED
    BY <1>1, <2>1, <2>3, QuietStep DEF Owning, Mounting, Formatting, Closing
<1>6. CASE check(t)
  <2> DEFINE c == [task[t] EXCEPT !.pc = IF fs.bridge # None THEN "op" ELSE "copen", !.h = fs.bridge]
  <2>1. /\ task[t].pc = "check" /\ task' = [task EXCEPT ![t] = c]
        /\ UNCHANGED <<media, keys, handle, slot, fs, vols, shells, exec, said>>
    BY <1>6 DEF check, At
  <2>2. Shaped(c) /\ c.pc \in {"op", "copen"} /\ c.then = "check"
    BY <1>1, <2>1 DEF Shaped, TaskType, FsType, Points, Closing, Owning, Mounting, Formatting
  <2> HIDE DEF c
  <2>3. Moved(t) /\ task'[t] = c
    BY <1>1, <2>1, <2>2, Moving
  <2>4. QED
    BY <1>1, <2>1, <2>2, <2>3, QuietStep DEF Owning, Mounting, Formatting, Closing
<1>7. QED
  BY <1>2, <1>3, <1>4, <1>5, <1>6

\* A call that begins with nothing.
LEMMA AboutIs ==
  ASSUME NEW d \in Devices, NEW p \in Points
  PROVE  /\ About(d, p) \in TaskType /\ About(d, p).pc = p /\ About(d, p).dev = d
         /\ About(d, p).want = d /\ About(d, p).h = None /\ About(d, p).then = "idle"
  BY DEF About, Idle, TaskType, Points, Ends

LEMMA QuietCalls ==
  ASSUME MountInv, NEW t \in Tasks,
         \/ \E d \in Devices : probeResource(t, d) \/ \E readOnly \in BOOLEAN : startCheck(t, d, readOnly)
         \/ \E h \in Handles : operation(t, h) \/ volumeStatistics(t, h)
  PROVE  MountInv'
<1>1. /\ ShapeInv /\ HandleInv /\ fs \in FsType
      /\ keys \in [Devices -> KeyStates] /\ exec \in Tasks \cup {None}
      /\ shells \subseteq fs.probed /\ fs.lastSeen.dev \in fs.probed \cup {None}
  BY DEF MountInv, ShapeInv, TypeOK, FormatInv
<1>2. ASSUME NEW d \in Devices, probeResource(t, d) PROVE MountInv'
  <2> DEFINE c == About(d, "examine")
  <2>1. Call(t, c) /\ fs' = See(t, d) /\ UNCHANGED <<media, keys, handle, slot, vols, shells, exec, said>>
    BY <1>2 DEF probeResource
  <2>2. Shaped(c) /\ c.pc = "examine" /\ c.then = "idle"
    BY AboutIs DEF Shaped, Points, Closing, Owning, Mounting, Formatting
  <2> HIDE DEF c
  <2>3. Moved(t) /\ task'[t] = c /\ task[t].pc = "idle"
    BY <1>1, <2>1, <2>2, Calling
  <2>4. QED
    BY <1>1, <2>1, <2>2, <2>3, SeeKeeps, QuietStep DEF Owning, Mounting, Formatting, Closing
<1>3. ASSUME NEW d \in Devices, NEW readOnly \in BOOLEAN, startCheck(t, d, readOnly) PROVE MountInv'
  <2> DEFINE ro == readOnly \/ maintenanceTarget \notin Writable
             c == [About(d, "check") EXCEPT !.dev = maintenanceTarget, !.then = "check", !.ro = ro]
  <2>1. /\ Call(t, c) /\ maintenanceTarget # None
        /\ UNCHANGED <<media, keys, handle, slot, fs, vols, shells, exec, said>>
    BY <1>3 DEF startCheck
  <2>2. maintenanceTarget \in Devices
    BY <1>1, <2>1 DEF maintenanceTarget, FsType, HandleInv
  <2>3. Shaped(c) /\ c.pc = "check" /\ c.then = "check"
    <3>1. ro \in BOOLEAN
      OBVIOUS
    <3> HIDE DEF ro
    <3>2. About(d, "check") \in TaskType /\ About(d, "check").pc = "check"
      BY AboutIs DEF Points
    <3>3. c \in TaskType /\ c.pc = "check" /\ c.then = "check" /\ c.dev = maintenanceTarget
      BY <2>2, <3>1, <3>2 DEF TaskType, Ends
    <3> HIDE DEF c
    <3>4. QED
      BY <2>2, <3>3 DEF Shaped, Closing, Owning, Mounting, Formatting
  <2> HIDE DEF c
  <2>4. Moved(t) /\ task'[t] = c /\ task[t].pc = "idle"
    BY <1>1, <2>1, <2>3, Calling
  <2>5. QED
    BY <1>1, <2>1, <2>3, <2>4, QuietStep DEF Owning, Mounting, Formatting, Closing
<1>4. ASSUME NEW h \in Handles, NEW p \in {"op", "stat"},
             vols[h] \in {"active", "leaving"}, Call(t, [About(handle[h].dev, p) EXCEPT !.h = h]),
             UNCHANGED <<media, keys, handle, slot, fs, vols, shells, exec, said>>
      PROVE  MountInv'
  <2> DEFINE c == [About(handle[h].dev, p) EXCEPT !.h = h]
  <2>1. handle[h].dev \in Devices
    BY <1>1, <1>4 DEF HandleInv
  <2>2. Shaped(c) /\ c.pc = p /\ c.then = "idle"
    BY <2>1, AboutIs DEF Shaped, TaskType, Points, Ends, Closing, Owning, Mounting, Formatting
  <2> HIDE DEF c
  <2>3. Moved(t) /\ task'[t] = c /\ task[t].pc = "idle"
    <3>1. Call(t, c)
      BY <1>4 DEF c
    <3>2. QED
      BY <1>1, <2>2, <3>1, Calling
  <2>4. QED
    BY <1>1, <1>4, <2>2, <2>3, QuietStep DEF Owning, Mounting, Formatting, Closing
<1>5. QED
  BY <1>2, <1>3, <1>4 DEF operation, volumeStatistics

-----------------------------------------------------------------------------
(* Opening, mounting and closing.                                          *)

LEMMA OpenStep ==
  ASSUME MountInv, NEW t \in Tasks, Moved(t), Fresh # {}, NEW b \in HandleType, b.open, ~ b.mounted,
         b.dev \in Devices, handle' = [handle EXCEPT ![NewHandle] = b], task'[t].h = NewHandle,
         task[t].pc \in {"open", "fopen", "copen"}, task'[t].pc \in {"mount", "wipe", "recover"},
         task'[t].then = task[t].then, task'[t].dev = task[t].dev, task'[t].want = task[t].want,
         UNCHANGED <<media, slot, vols, exec, said>>, keys' \in [Devices -> KeyStates],
         fs' \in FsType, fs'.bridge = fs.bridge, shells' \subseteq fs'.probed,
         fs'.lastSeen.dev \in fs'.probed \cup {None}
  PROVE  MountInv'
<1>1. NewHandle \in Fresh
  BY DEF NewHandle
<1>2. NewHandle \in Handles /\ fs.bridge # NewHandle /\ handle \in [Handles -> HandleType]
  BY <1>1 DEF Fresh, MountInv, ShapeInv, TypeOK
<1>3. /\ handle' \in [Handles -> HandleType] /\ handle'[NewHandle] = b
      /\ \A g \in Handles \ {NewHandle} : handle'[g] = handle[g]
  BY <1>2
<1>4. StateOK'
  BY <1>3 DEF StateOK, MountInv, ShapeInv, TypeOK, FsType
<1>5. ShapeInv'
  BY <1>4, KeepShape DEF MountInv
<1>6. HandleInv'
  BY <1>1, <1>3, OpenHandle DEF MountInv, Owning, Mounting, Formatting
<1>7. fs.bridge # None => handle'[fs.bridge].dev = handle[fs.bridge].dev
  BY <1>2, <1>3 DEF MountInv, ShapeInv, TypeOK, FsType
<1>8. ApartInv'
  BY <1>7, KeepApart DEF MountInv
<1>9. FormatInv'
  BY KeepFormat DEF MountInv, Formatting
<1>10. QED
  BY <1>5, <1>6, <1>8, <1>9 DEF MountInv

LEMMA BridgeIs ==
  ASSUME NEW d \in Devices, NEW ro \in BOOLEAN, NEW e \in BOOLEAN
  PROVE  LET b == [Bridge(d, ro) EXCEPT !.enc = e] IN
         /\ b \in HandleType /\ b.open /\ ~ b.mounted /\ b.dev = d
         /\ Bridge(d, ro) \in HandleType /\ Bridge(d, ro).open /\ ~ Bridge(d, ro).mounted
         /\ Bridge(d, ro).dev = d
<1> DEFINE lock == ro \/ d \notin Writable
<1>1. lock \in BOOLEAN
  OBVIOUS
<1> HIDE DEF lock
<1>2. Bridge(d, ro) = [NoHandle EXCEPT !.dev = d, !.open = TRUE, !.ro = lock]
  BY DEF Bridge, lock
<1>3. 0 \in 0 .. MaxFormats
  BY MountAssumption
<1>4. QED
  BY <1>1, <1>2, <1>3 DEF NoHandle, HandleType, Logs

LEMMA OpenSteps ==
  ASSUME MountInv, NEW t \in Tasks, loadOpen(t) \/ formatOpen(t) \/ checkOpen(t)
  PROVE  MountInv'
<1> DEFINE d == task[t].dev
           enc == openEncryptedIfNeeded(d).rc = "opened"
<1>1. /\ ShapeInv /\ Shaped(task[t]) /\ task[t] \in TaskType /\ fs \in FsType
      /\ keys \in [Devices -> KeyStates] /\ exec \in Tasks \cup {None}
      /\ shells \subseteq fs.probed /\ fs.lastSeen.dev \in fs.probed \cup {None}
      /\ Fresh \subseteq Handles /\ (Fresh # {} => NewHandle \in Handles)
  BY DEF MountInv, ShapeInv, TypeOK, FormatInv, Fresh, NewHandle
<1>2. enc \in BOOLEAN
  OBVIOUS
<1> HIDE DEF enc
<1>3. CASE loadOpen(t)
  <2>1. /\ task[t].pc = "open" /\ d \in Devices /\ Fresh # {} /\ fs' = See(t, d)
        /\ keys' \in [Devices -> KeyStates] /\ UNCHANGED <<media, slot, vols, exec, said>>
    BY <1>1, <1>3, KeysKeep DEF loadOpen, At, Shaped
  <2>2. /\ fs' \in FsType /\ fs'.bridge = fs.bridge /\ fs'.lastSeen.dev = d
        /\ fs'.probed = fs.probed \cup {d}
    BY <2>1, SeeKeeps
  <2>3. CASE task' = Return(t) /\ handle' = handle /\ shells' \in {shells, shells \cup {d}}
    <3>1. Moved(t) /\ task'[t] = Idle
      BY <1>1, <2>3, Returning
    <3>2. QED
      BY <1>1, <2>1, <2>2, <2>3, <3>1, QuietStep DEF Idle, Owning, Mounting, Formatting, Closing
  <2>4. CASE /\ handle' = [handle EXCEPT ![NewHandle] = [Bridge(d, FALSE) EXCEPT !.enc = enc]]
             /\ \E ro \in BOOLEAN : task' = [task EXCEPT ![t].pc = "mount", ![t].h = NewHandle, ![t].ro = ro]
             /\ shells' = shells
    <3>1. PICK ro \in BOOLEAN : task' = [task EXCEPT ![t].pc = "mount", ![t].h = NewHandle, ![t].ro = ro]
      BY <2>4
    <3> DEFINE c == [task[t] EXCEPT !.pc = "mount", !.h = NewHandle, !.ro = ro]
    <3>2. task' = [task EXCEPT ![t] = c]
      BY <1>1, <3>1 DEF ShapeInv, TypeOK
    <3>3. /\ Shaped(c) /\ c.pc = "mount" /\ c.h = NewHandle /\ c.then = task[t].then
          /\ c.dev = d /\ c.want = task[t].want
      BY <1>1, <2>1 DEF Shaped, TaskType, Points, Closing, Owning, Mounting, Formatting
    <3> HIDE DEF c
    <3>4. Moved(t) /\ task'[t] = c
      BY <1>1, <3>2, <3>3, Moving
    <3>5. QED
      BY <1>1, <1>2, <2>1, <2>2, <2>4, <3>3, <3>4, BridgeIs, OpenStep
  <2>5. QED
    <3>1. \/ task' = Return(t) /\ handle' = handle /\ shells' \in {shells, shells \cup {d}}
          \/ /\ handle' = [handle EXCEPT ![NewHandle] = [Bridge(d, FALSE) EXCEPT !.enc = enc]]
             /\ task' = [task EXCEPT ![t].pc = "mount", ![t].h = NewHandle,
                                     ![t].ro = d \notin Writable \/ ext4b_probe(d, enc) = "limited"]
             /\ shells' = shells
      BY <1>3 DEF loadOpen, enc
    <3>2. (d \notin Writable \/ ext4b_probe(d, enc) = "limited") \in BOOLEAN
      OBVIOUS
    <3>3. QED
      BY <2>3, <2>4, <3>1, <3>2
<1>4. CASE formatOpen(t)
  <2> DEFINE c == [task[t] EXCEPT !.pc = "wipe", !.h = NewHandle]
  <2>1. /\ task[t].pc = "fopen" /\ d \in Devices /\ Fresh # {} /\ task' = [task EXCEPT ![t] = c]
        /\ handle' = [handle EXCEPT ![NewHandle] = Bridge(d, FALSE)]
        /\ UNCHANGED <<media, keys, slot, fs, vols, shells, exec, said>>
    BY <1>1, <1>4 DEF formatOpen, At, Shaped, ShapeInv, TypeOK
  <2>2. /\ Shaped(c) /\ c.pc = "wipe" /\ c.h = NewHandle /\ c.then = task[t].then
        /\ c.dev = d /\ c.want = task[t].want
    BY <1>1, <2>1 DEF Shaped, TaskType, Points, Closing, Owning, Mounting, Formatting
  <2> HIDE DEF c
  <2>3. Moved(t) /\ task'[t] = c
    BY <1>1, <2>1, <2>2, Moving
  <2>4. Bridge(d, FALSE) \in HandleType /\ Bridge(d, FALSE).open /\ ~ Bridge(d, FALSE).mounted
        /\ Bridge(d, FALSE).dev = d
    BY <2>1, BridgeIs
  <2>5. QED
    BY <1>1, <2>1, <2>2, <2>3, <2>4, OpenStep
<1>5. CASE checkOpen(t)
  <2>1. /\ task[t].pc = "copen" /\ d \in Devices /\ Fresh # {}
        /\ keys' \in [Devices -> KeyStates] /\ UNCHANGED <<media, slot, fs, vols, shells, exec, said>>
    BY <1>1, <1>5, KeysKeep DEF checkOpen, At, Shaped
  <2>2. CASE task' = Return(t) /\ handle' = handle
    <3>1. Moved(t) /\ task'[t] = Idle
      BY <1>1, <2>2, Returning
    <3>2. QED
      BY <1>1, <2>1, <2>2, <3>1, QuietStep DEF Idle, Owning, Mounting, Formatting, Closing
  <2>3. CASE /\ handle' = [handle EXCEPT ![NewHandle] = [Bridge(d, task[t].ro) EXCEPT !.enc = enc]]
             /\ task' = [task EXCEPT ![t].pc = "recover", ![t].h = NewHandle]
    <3> DEFINE c == [task[t] EXCEPT !.pc = "recover", !.h = NewHandle]
    <3>1. task' = [task EXCEPT ![t] = c]
      BY <1>1, <2>3 DEF ShapeInv, TypeOK
    <3>2. /\ Shaped(c) /\ c.pc = "recover" /\ c.h = NewHandle /\ c.then = task[t].then
          /\ c.dev = d /\ c.want = task[t].want /\ task[t].ro \in BOOLEAN
      BY <1>1, <2>1 DEF Shaped, TaskType, Points, Closing, Owning, Mounting, Formatting
    <3> HIDE DEF c
    <3>3. Moved(t) /\ task'[t] = c
      BY <1>1, <3>1, <3>2, Moving
    <3> DEFINE b == [Bridge(d, task[t].ro) EXCEPT !.enc = enc]
    <3>4. b \in HandleType /\ b.open /\ ~ b.mounted /\ b.dev = d
      BY <1>2, <2>1, <3>2, BridgeIs
    <3>5. handle' = [handle EXCEPT ![NewHandle] = b]
      BY <2>3
    <3> HIDE DEF b
    <3>6. QED
      BY <1>1, <2>1, <3>2, <3>3, <3>4, <3>5, OpenStep
  <2>4. QED
    BY <1>5, <2>2, <2>3 DEF checkOpen, enc
<1>6. QED
  BY <1>3, <1>4, <1>5

LEMMA TakeIs ==
  ASSUME TypeOK, NEW h \in Handles, handle[h].dev \in Devices, NEW r, r.m \in Medium,
         r.h \in HandleType, Take(h, r)
  PROVE  /\ media' \in [Devices -> Medium] /\ handle' \in [Handles -> HandleType]
         /\ handle'[h] = r.h /\ \A g \in Handles \ {h} : handle'[g] = handle[g]
         /\ media'[handle[h].dev] = r.m
         /\ \A d \in Devices \ {handle[h].dev} : media'[d] = media[d]
         /\ slot' = r.slot
  BY DEF TypeOK, Take

LEMMA OwnedStep ==
  ASSUME MountInv, NEW t \in Tasks, Moved(t), NEW h, h = task[t].h,
         task[t].pc \in Owning, task'[t].pc \in Owning, task'[t].h = h,
         task'[t].then \in {task[t].then, "idle"}, task'[t].dev = task[t].dev,
         task'[t].want = task[t].want,
         task'[t].then = "fopen" =>
           task'[t].pc \in Formatting \ {"wipe"} \/ task[t].pc \notin Formatting \ {"wipe"},
         handle' \in [Handles -> HandleType], handle'[h].open, handle'[h].dev = handle[h].dev,
         handle'[h].mounted <=> task'[t].pc \in Mounting,
         handle'[h].mounted /\ ~ handle[h].mounted => slot = None,
         slot' = IF handle'[h].mounted THEN h ELSE IF handle[h].mounted THEN None ELSE slot,
         \A g \in Handles \ {h} : handle'[g] = handle[g],
         media' \in [Devices -> Medium], \A d \in Devices : media'[d].id = media[d].id,
         UNCHANGED <<keys, fs, vols, shells>>, exec' \in Tasks \cup {None},
         said' \in [Devices -> {"nothing", "closed", "failed"}]
  PROVE  MountInv'
<1>1. /\ h \in Handles /\ h # fs.bridge /\ handle[h].dev \in Devices
  BY DEF MountInv, ShapeInv, Shaped, HandleInv, Owner
<1>2. slot' \in Handles \cup {None}
  BY <1>1 DEF MountInv, ShapeInv, TypeOK
<1>3. StateOK'
  BY <1>2 DEF StateOK, MountInv, ShapeInv, TypeOK
<1>4. ShapeInv'
  BY <1>3, KeepShape DEF MountInv
<1>5. HandleInv'
  BY <1>1, KeepOwned DEF MountInv
<1>6. fs.bridge # None => handle'[fs.bridge].dev = handle[fs.bridge].dev
  BY <1>1 DEF MountInv, ShapeInv, TypeOK, FsType
<1>7. ApartInv'
  BY <1>6, KeepApart DEF MountInv, Owning, Mounting, Formatting, Closing
<1>8. FormatInv'
  BY KeepFormat DEF MountInv, FormatInv
<1>9. QED
  BY <1>4, <1>5, <1>7, <1>8 DEF MountInv

\* A call that goes on to close what it has, and ends there or not.
LEMMA Ending ==
  ASSUME ShapeInv, NEW t \in Tasks, task[t].pc \in Owning,
         task' = [task EXCEPT ![t].pc = "destroy", ![t].then = "idle"]
  PROVE  /\ Moved(t) /\ task'[t].pc = "destroy" /\ task'[t].then = "idle" /\ task'[t].h = task[t].h
         /\ task'[t].dev = task[t].dev /\ task'[t].want = task[t].want
<1> DEFINE c == [task[t] EXCEPT !.pc = "destroy", !.then = "idle"]
<1>1. task' = [task EXCEPT ![t] = c] /\ task[t] \in TaskType /\ Shaped(task[t])
  BY DEF ShapeInv, TypeOK
<1>2. /\ Shaped(c) /\ c.pc = "destroy" /\ c.then = "idle" /\ c.h = task[t].h
      /\ c.dev = task[t].dev /\ c.want = task[t].want
  BY <1>1 DEF Shaped, TaskType, Points, Ends, Closing, Owning, Mounting, Formatting
<1> HIDE DEF c
<1>3. QED
  BY <1>1, <1>2, Moving

LEMMA OwnedSteps ==
  ASSUME MountInv, NEW t \in Tasks, loadMount(t) \/ closeUnmount(t) \/ checkRecover(t)
  PROVE  MountInv'
<1> DEFINE h == task[t].h
<1>1. /\ ShapeInv /\ TypeOK /\ HandleInv /\ Shaped(task[t]) /\ task[t] \in TaskType
      /\ said \in [Devices -> {"nothing", "closed", "failed"}] /\ exec \in Tasks \cup {None}
  BY DEF MountInv, ShapeInv, TypeOK
<1>2. task[t].pc \in Owning =>
        /\ h \in Handles /\ handle[h].open /\ handle[h].dev \in Devices /\ task[t].dev \in Devices
        /\ handle[h].mounted <=> task[t].pc \in Mounting
  BY <1>1 DEF HandleInv, Owner, Shaped, Owning, Mounting, Formatting
<1>3. CASE loadMount(t)
  <2>1. task[t].pc = "mount" /\ UNCHANGED <<keys, fs, vols, shells, exec>>
    BY <1>3 DEF loadMount, At
  <2>2. PICK r \in ext4b_mount(h, task[t].ro) :
          /\ Take(h, r)
          /\ task' = IF r.rc = "ok" THEN Goto(t, "install")
                     ELSE [task EXCEPT ![t].pc = "destroy", ![t].then = "idle"]
          /\ said' = [said EXCEPT ![task[t].dev] = "nothing"]
    BY <1>3 DEF loadMount
  <2>3. /\ task[t].pc \in Owning \ Mounting /\ h \in Handles /\ handle[h].open
        /\ handle[h].dev \in Devices /\ task[t].dev \in Devices /\ ~ handle[h].mounted
        /\ task[t].ro \in BOOLEAN /\ task[t].then = "open"
    BY <1>1, <1>2, <2>1 DEF Owning, Mounting, TaskType, Shaped
  <2>4. MountOutcome(h, r)
    BY <1>1, <2>3, MountResult
  <2>5. /\ media' \in [Devices -> Medium] /\ handle' \in [Handles -> HandleType]
        /\ handle'[h] = r.h /\ \A g \in Handles \ {h} : handle'[g] = handle[g]
        /\ media'[handle[h].dev] = r.m
        /\ \A d \in Devices \ {handle[h].dev} : media'[d] = media[d]
        /\ slot' = r.slot
    BY <1>1, <2>2, <2>3, <2>4, TakeIs DEF MountOutcome
  <2>6. \A d \in Devices : media'[d].id = media[d].id
    BY <2>4, <2>5 DEF MountOutcome
  <2>7. said' \in [Devices -> {"nothing", "closed", "failed"}]
    BY <1>1, <2>2
  <2>8. CASE r.rc = "ok"
    <3>1. Shaped([task[t] EXCEPT !.pc = "install"])
      BY <1>1, <2>1 DEF Shaped, TaskType, Points, Closing, Owning, Mounting, Formatting
    <3>2. /\ Moved(t) /\ task'[t].pc = "install" /\ task'[t].then = task[t].then /\ task'[t].h = h
          /\ task'[t].dev = task[t].dev /\ task'[t].want = task[t].want
      BY <1>1, <2>2, <2>8, <3>1, Going DEF Points
    <3>3. /\ r.h.mounted /\ r.h.open /\ r.h.dev = handle[h].dev /\ r.slot = h /\ slot = None
      BY <2>3, <2>4, <2>8 DEF MountOutcome
    <3>4. QED
      BY <1>1, <2>1, <2>3, <2>5, <2>6, <2>7, <3>2, <3>3, OwnedStep DEF Owning, Mounting, Formatting
  <2>9. CASE r.rc # "ok"
    <3>1. /\ Moved(t) /\ task'[t].pc = "destroy" /\ task'[t].then = "idle" /\ task'[t].h = h
          /\ task'[t].dev = task[t].dev /\ task'[t].want = task[t].want
      BY <1>1, <2>2, <2>3, <2>9, Ending
    <3>2. r.h = handle[h] /\ r.slot = slot
      BY <2>4, <2>9 DEF MountOutcome
    <3>3. QED
      BY <1>1, <2>1, <2>3, <2>5, <2>6, <2>7, <3>1, <3>2, OwnedStep DEF Owning, Mounting, Formatting
  <2>10. QED
    BY <2>8, <2>9
<1>4. CASE closeUnmount(t)
  <2>1. task[t].pc = "unmount" /\ task' = Goto(t, "destroy") /\ UNCHANGED <<keys, fs, vols, shells, exec>>
    BY <1>4 DEF closeUnmount, At
  <2>2. /\ task[t].pc \in Owning /\ task[t].pc \in Mounting /\ h \in Handles /\ handle[h].open
        /\ handle[h].dev \in Devices /\ handle[h].mounted
    BY <1>1, <1>2, <2>1 DEF Owning, Mounting
  <2>3. PICK r \in ext4b_unmount(h) :
          /\ Take(h, r)
          /\ said' = [said EXCEPT ![handle[h].dev] =
                       IF handle[h].ro THEN "nothing" ELSE IF r.rc = "ok" THEN "closed" ELSE "failed"]
    BY <1>4 DEF closeUnmount
  <2>4. UnmountOutcome(handle[h], media[handle[h].dev], r)
    BY <1>1, <2>2, <2>3, UnmountResult DEF ext4b_unmount, TypeOK
  <2>5. /\ media' \in [Devices -> Medium] /\ handle' \in [Handles -> HandleType]
        /\ handle'[h] = r.h /\ \A g \in Handles \ {h} : handle'[g] = handle[g]
        /\ media'[handle[h].dev] = r.m
        /\ \A d \in Devices \ {handle[h].dev} : media'[d] = media[d]
        /\ slot' = r.slot
    BY <1>1, <2>2, <2>3, <2>4, TakeIs DEF UnmountOutcome
  <2>6. \A d \in Devices : media'[d].id = media[d].id
    BY <2>4, <2>5 DEF UnmountOutcome
  <2>7. said' \in [Devices -> {"nothing", "closed", "failed"}]
    BY <1>1, <2>3
  <2>8. Shaped([task[t] EXCEPT !.pc = "destroy"])
    BY <1>1, <2>1 DEF Shaped, TaskType, Points, Closing, Owning, Mounting, Formatting
  <2>9. /\ Moved(t) /\ task'[t].pc = "destroy" /\ task'[t].then = task[t].then /\ task'[t].h = h
        /\ task'[t].dev = task[t].dev /\ task'[t].want = task[t].want
    BY <1>1, <2>1, <2>8, Going DEF Points
  <2>10. r.h.open /\ ~ r.h.mounted /\ r.h.dev = handle[h].dev /\ r.slot = None
    BY <2>2, <2>4 DEF UnmountOutcome
  <2>11. QED
    BY <1>1, <2>1, <2>2, <2>5, <2>6, <2>7, <2>9, <2>10, OwnedStep DEF Owning, Mounting, Formatting
<1>5. CASE checkRecover(t)
  <2>1. /\ task[t].pc = "recover" /\ UNCHANGED <<keys, fs, vols, shells, exec>>
        /\ task' = [task EXCEPT ![t].pc = "destroy", ![t].then = "idle"]
        /\ said' = [said EXCEPT ![task[t].dev] = "nothing"]
    BY <1>5 DEF checkRecover, At
  <2>2. /\ task[t].pc \in Owning \ Mounting /\ h \in Handles /\ handle[h].open
        /\ handle[h].dev \in Devices /\ ~ handle[h].mounted
    BY <1>1, <1>2, <2>1 DEF Owning, Mounting
  <2>3. PICK r \in ext4b_journal_recover(h) : Take(h, r)
    BY <1>5 DEF checkRecover
  <2>4. /\ r.m \in Medium /\ r.h \in HandleType /\ r.slot = slot
        /\ r.h.dev = handle[h].dev /\ r.h.open = handle[h].open /\ ~ r.h.mounted
        /\ r.m.id = media[handle[h].dev].id
    BY <1>1, <2>2, <2>3, RecoverResult
  <2>5. /\ media' \in [Devices -> Medium] /\ handle' \in [Handles -> HandleType]
        /\ handle'[h] = r.h /\ \A g \in Handles \ {h} : handle'[g] = handle[g]
        /\ media'[handle[h].dev] = r.m
        /\ \A d \in Devices \ {handle[h].dev} : media'[d] = media[d]
        /\ slot' = r.slot
    BY <1>1, <2>2, <2>3, <2>4, TakeIs
  <2>6. \A d \in Devices : media'[d].id = media[d].id
    BY <2>4, <2>5
  <2>7. said' \in [Devices -> {"nothing", "closed", "failed"}]
    BY <1>1, <2>1
  <2>8. /\ Moved(t) /\ task'[t].pc = "destroy" /\ task'[t].then = "idle" /\ task'[t].h = h
        /\ task'[t].dev = task[t].dev /\ task'[t].want = task[t].want
    BY <1>1, <2>1, <2>2, Ending
  <2>9. /\ handle'[h].open /\ handle'[h].dev = handle[h].dev /\ ~ handle'[h].mounted /\ slot' = slot
        /\ task'[t].pc \in Owning \ Mounting
    BY <2>2, <2>4, <2>5, <2>8 DEF Owning, Mounting
  <2>10. QED
    BY <1>1, <2>1, <2>2, <2>5, <2>6, <2>7, <2>8, <2>9, OwnedStep
<1>6. QED
  BY <1>3, <1>4, <1>5

\* The steps of a format and of an operation on the medium.
LEMMA MediumSteps ==
  ASSUME MountInv, NEW t \in Tasks,
         formatSuper(t) \/ formatBuild(t) \/ formatFlush(t) \/ operationUse(t)
  PROVE  /\ MountInv' /\ Moved(t) /\ UNCHANGED <<handle, slot, fs, vols, said>>
         /\ exec' \in {exec, None} /\ task'[t].pc # "wipe"
         /\ \A d \in Devices \ {task[t].dev} : media'[d] = media[d]
         /\ LET m == media[task[t].dev] n == media'[task[t].dev] IN
            /\ n.id = m.id /\ n.recover = m.recover /\ (m.valid => n.valid)
            /\ task[t].pc # "use" => n.log = m.log /\ (m.whole => n.whole)
                                     /\ n.kind \in {m.kind, "ext"}
            /\ task[t].pc = "use" =>
                 /\ n.whole = m.whole /\ n.kind = m.kind
                 /\ n.log # m.log => /\ n.log = "live" /\ handle[task[t].h].mounted
                                     /\ handle[task[t].h].journal /\ ~ handle[task[t].h].ro
                                     /\ task[t].then = "idle"
<1> DEFINE d == task[t].dev
           m == media[d]
<1>1. /\ ShapeInv /\ TypeOK /\ HandleInv /\ Shaped(task[t]) /\ task[t] \in TaskType
      /\ media \in [Devices -> Medium] /\ exec \in Tasks \cup {None}
  BY DEF MountInv, ShapeInv, TypeOK
<1>2. CASE formatSuper(t) \/ formatBuild(t) \/ formatFlush(t)
  <2>1. /\ task[t].pc \in {"super", "build", "flush"} /\ UNCHANGED <<keys, handle, slot, fs, vols, shells, said>>
        /\ exec' \in {exec, None}
    BY <1>2 DEF formatSuper, formatBuild, formatFlush, At
  <2>2. d \in Devices /\ m \in Medium
    BY <1>1, <2>1 DEF Shaped
  <2>3. \/ media' = media
        \/ \E j \in BOOLEAN : media' = [media EXCEPT ![d] = [m EXCEPT !.kind = "ext", !.journal = j]]
        \/ media' = [media EXCEPT ![d] = Finished(m)]
        \/ media' = [media EXCEPT ![d] = [m EXCEPT !.whole = TRUE]]
    <3>1. CASE formatSuper(t)
      BY <1>1, <2>2, <3>1 DEF formatSuper
    <3>2. CASE formatBuild(t)
      BY <1>1, <2>2, <3>2 DEF formatBuild
    <3>3. CASE formatFlush(t)
      BY <1>1, <2>2, <3>3 DEF formatFlush
    <3>4. QED
      BY <1>2, <3>1, <3>2, <3>3
  <2>4. /\ media' \in [Devices -> Medium] /\ \A e \in Devices \ {d} : media'[e] = media[e]
        /\ media'[d].id = m.id /\ media'[d].recover = m.recover /\ (m.valid => media'[d].valid)
        /\ media'[d].log = m.log /\ (m.whole => media'[d].whole) /\ media'[d].kind \in {m.kind, "ext"}
    <3>1. CASE media' = media
      BY <1>1, <2>2, <3>1
    <3>2. CASE \E j \in BOOLEAN : media' = [media EXCEPT ![d] = [m EXCEPT !.kind = "ext", !.journal = j]]
      <4>1. PICK j \in BOOLEAN : media' = [media EXCEPT ![d] = [m EXCEPT !.kind = "ext", !.journal = j]]
        BY <3>2
      <4>2. [m EXCEPT !.kind = "ext", !.journal = j] \in Medium
        BY <2>2 DEF Medium, Kinds
      <4>3. QED
        BY <1>1, <2>2, <4>1, <4>2 DEF Medium
    <3>3. CASE media' = [media EXCEPT ![d] = Finished(m)]
      BY <1>1, <2>2, <3>3 DEF Medium, Finished
    <3>4. CASE media' = [media EXCEPT ![d] = [m EXCEPT !.whole = TRUE]]
      BY <1>1, <2>2, <3>4 DEF Medium
    <3>5. QED
      BY <2>3, <3>1, <3>2, <3>3, <3>4
  <2>5. /\ Moved(t) /\ task'[t].pc \in {"build", "flush", "destroy"} /\ task'[t].h = task[t].h
        /\ task'[t].then \in {task[t].then, "idle"} /\ task'[t].dev = d /\ task'[t].want = task[t].want
        /\ task'[t].pc = "destroy" => task'[t].then = "idle"
    <3>1. Shaped([task[t] EXCEPT !.pc = "build"]) /\ Shaped([task[t] EXCEPT !.pc = "flush"])
      BY <1>1, <2>1 DEF Shaped, TaskType, Points, Closing, Owning, Mounting, Formatting
    <3>2. CASE task' = [task EXCEPT ![t].pc = "destroy", ![t].then = "idle"]
      BY <1>1, <2>1, <3>2, Ending DEF Owning, Formatting
    <3>3. CASE task' = Goto(t, "build")
      BY <1>1, <3>1, <3>3, Going DEF Points
    <3>4. CASE task' = Goto(t, "flush")
      BY <1>1, <3>1, <3>4, Going DEF Points
    <3>5. QED
      BY <1>2, <3>2, <3>3, <3>4 DEF formatSuper, formatBuild, formatFlush
  <2>6. /\ task[t].h \in Handles /\ handle[task[t].h].open /\ ~ handle[task[t].h].mounted
        /\ handle[task[t].h].dev \in Devices /\ task[t].pc \in Owning \ Mounting
        /\ task'[t].pc \in Owning \ Mounting
    BY <1>1, <2>1, <2>5 DEF HandleInv, Owner, Shaped, Owning, Mounting, Formatting
  <2>7. \A e \in Devices : media'[e].id = media[e].id
    BY <2>4
  <2>8. /\ said' \in [Devices -> {"nothing", "closed", "failed"}] /\ exec' \in Tasks \cup {None}
        /\ handle' \in [Handles -> HandleType]
        /\ task'[t].then = "fopen" => task'[t].pc \in Formatting \ {"wipe"}
    BY <1>1, <2>1, <2>5 DEF TypeOK, Formatting
  <2>9. MountInv'
    BY <2>1, <2>4, <2>5, <2>6, <2>7, <2>8, OwnedStep
  <2>10. QED
    BY <2>1, <2>4, <2>5, <2>9
<1>3. CASE operationUse(t)
  <2>1. /\ task[t].pc = "use" /\ UNCHANGED <<keys, handle, slot, fs, vols, shells, said>>
        /\ exec' = None /\ task' = Return(t) /\ d \in Devices /\ m \in Medium
    BY <1>1, <1>3 DEF operationUse, At, Shaped
  <2>2. /\ media' \in [Devices -> Medium] /\ \A e \in Devices \ {d} : media'[e] = media[e]
        /\ media'[d].id = m.id /\ media'[d].recover = m.recover /\ media'[d].valid = m.valid
        /\ media'[d].whole = m.whole /\ media'[d].kind = m.kind
        /\ media'[d].log # m.log => /\ media'[d].log = "live" /\ handle[task[t].h].mounted
                                    /\ handle[task[t].h].journal /\ ~ handle[task[t].h].ro
                                    /\ task[t].then = "idle"
    <3>1. CASE media' = media
      BY <1>1, <2>1, <3>1
    <3>2. CASE \E o \in BOOLEAN, l \in {m.log, "live"} :
                 /\ media' = [media EXCEPT ![d] = [m EXCEPT !.orphans = o, !.log = l]]
                 /\ l # m.log => /\ handle[task[t].h].mounted /\ handle[task[t].h].journal
                                 /\ ~ handle[task[t].h].ro /\ task[t].then = "idle"
      <4>1. PICK o \in BOOLEAN, l \in {m.log, "live"} :
                 /\ media' = [media EXCEPT ![d] = [m EXCEPT !.orphans = o, !.log = l]]
                 /\ l # m.log => /\ handle[task[t].h].mounted /\ handle[task[t].h].journal
                                 /\ ~ handle[task[t].h].ro /\ task[t].then = "idle"
        BY <3>2
      <4>2. [m EXCEPT !.orphans = o, !.log = l] \in Medium
        BY <2>1 DEF Medium, Logs
      <4>3. QED
        BY <1>1, <2>1, <4>1, <4>2 DEF Medium
    <3>3. QED
      <4>1. CASE ~ (handle[task[t].h].mounted /\ ~ handle[task[t].h].ro /\ task[t].then = "idle")
        BY <1>3, <3>1, <4>1 DEF operationUse
      <4>2. CASE handle[task[t].h].mounted /\ ~ handle[task[t].h].ro /\ task[t].then = "idle"
        <5>1. PICK o \in {m.orphans, TRUE} :
                media' = [media EXCEPT ![d].orphans = o,
                                       ![d].log = IF handle[task[t].h].journal THEN "live" ELSE @]
          BY <1>3, <4>2 DEF operationUse
        <5>2. o \in BOOLEAN
          BY <2>1 DEF Medium
        <5>3. media' = [media EXCEPT ![d] = [m EXCEPT !.orphans = o,
                          !.log = IF handle[task[t].h].journal THEN "live" ELSE m.log]]
          BY <1>1, <2>1, <5>1 DEF Medium
        <5>4. QED
          BY <3>2, <4>2, <5>2, <5>3
      <4>3. QED
        BY <4>1, <4>2
  <2>3. Moved(t) /\ task'[t].pc = "idle" /\ task'[t].then = "idle"
    <3>1. Moved(t) /\ task'[t] = Idle
      BY <1>1, <2>1, Returning
    <3>2. QED
      BY <3>1 DEF Idle
  <2>4. StateOK'
    BY <2>1, <2>2, <1>1 DEF StateOK, TypeOK
  <2>5. ShapeInv'
    BY <1>1, <2>3, <2>4, KeepShape
  <2>6. HandleInv'
    BY <1>1, <2>1, <2>3, KeepHandles DEF Owning, Mounting, Formatting
  <2>7. ApartInv'
    BY <1>1, <2>1, <2>3, KeepApart DEF MountInv, Closing
  <2>8. \A e \in Devices : media'[e].id = media[e].id
    BY <2>2
  <2>9. FormatInv'
    BY <2>1, <2>3, <2>8, KeepFormat DEF MountInv, FormatInv
  <2>10. QED
    BY <2>1, <2>2, <2>3, <2>5, <2>6, <2>7, <2>9 DEF MountInv
<1>4. QED
  BY <1>2, <1>3

\* A format takes a number nobody else is about to take.
LEMMA WipeStep ==
  ASSUME MountInv, NEW t \in Tasks, formatWipe(t)
  PROVE  MountInv'
<1> DEFINE d == task[t].dev
           m == [kind |-> "blank", journal |-> FALSE, recover |-> FALSE, valid |-> FALSE,
                 log |-> "empty", orphans |-> FALSE, whole |-> FALSE, luks |-> FALSE,
                 locked |-> FALSE, id |-> media[d].id + 1]
<1>1. /\ ShapeInv /\ TypeOK /\ HandleInv /\ Shaped(task[t]) /\ task[t] \in TaskType
      /\ media \in [Devices -> Medium] /\ said \in [Devices -> {"nothing", "closed", "failed"}]
  BY DEF MountInv, ShapeInv, TypeOK
<1>2. /\ task[t].pc = "wipe" /\ task[t].then = "fopen" /\ d \in Devices
      /\ media' = [media EXCEPT ![d] = m] /\ exec' = t /\ task' = Goto(t, "super")
      /\ said' = [said EXCEPT ![d] = "nothing"] /\ UNCHANGED <<keys, handle, slot, fs, vols, shells>>
  BY <1>1 DEF formatWipe, At, Shaped, Formatting
<1>3. media[d].id + 1 \in 0 .. MaxFormats
  <2>1. media[d].id < MaxFormats /\ media[d].id \in 0 .. MaxFormats /\ MaxFormats \in Nat
    BY <1>1, <1>2, MountAssumption DEF MountInv, FormatInv, Medium, Formatting
  <2>2. QED
    BY <2>1
<1>4. m \in Medium
  BY <1>3 DEF Medium, Kinds, Logs
<1> HIDE DEF m
<1>5. media' \in [Devices -> Medium] /\ said' \in [Devices -> {"nothing", "closed", "failed"}]
  BY <1>1, <1>2, <1>4
<1>6. Shaped([task[t] EXCEPT !.pc = "super"])
  BY <1>1, <1>2 DEF Shaped, TaskType, Points, Closing, Owning, Mounting, Formatting
<1>7. /\ Moved(t) /\ task'[t].pc = "super" /\ task'[t].then = "fopen" /\ task'[t].h = task[t].h
      /\ task'[t].dev = d /\ task'[t].want = task[t].want
  BY <1>1, <1>2, <1>6, Going DEF Points
<1>8. StateOK'
  BY <1>1, <1>2, <1>5 DEF StateOK, TypeOK
<1>9. ShapeInv'
  BY <1>1, <1>7, <1>8, KeepShape
<1>10. /\ task[t].h \in Handles /\ handle[task[t].h].open /\ ~ handle[task[t].h].mounted
       /\ handle[task[t].h].dev \in Devices /\ task[t].pc \in Owning \ Mounting
       /\ task'[t].pc \in Owning \ Mounting
  BY <1>1, <1>2, <1>7 DEF HandleInv, Owner, Shaped, Owning, Mounting, Formatting
<1>11. HandleInv'
  BY <1>1, <1>2, <1>7, <1>10, KeepOwned
<1>12. ApartInv'
  BY <1>1, <1>2, <1>7, KeepApart DEF MountInv
<1>13. FormatInv'
  <2>1. \A u \in Tasks \ {t} : task'[u] = task[u] /\ task[u].then # "fopen"
    BY <1>2, <1>7 DEF Moved, Others, MountInv, ApartInv, Closer, Closing
  <2>2. task[t].dev = task[t].want
    BY <1>2 DEF MountInv, FormatInv
  <2>3. \A u \in Tasks : task'[u].then = "fopen" => u = t
    BY <2>1
  <2>4. QED
    BY <1>2, <1>7, <2>2, <2>3 DEF MountInv, FormatInv, Formatting
<1>14. QED
  BY <1>9, <1>11, <1>12, <1>13 DEF MountInv

-----------------------------------------------------------------------------
(* Installing the live volume and taking it out again.                     *)

\* The slot is taken by the volume to install, so that none is live.
LEMMA InstallStep ==
  ASSUME MountInv, NEW t \in Tasks, loadInstall(t)
  PROVE  MountInv' /\ fs.bridge = None
<1> DEFINE h == task[t].h
<1>1. /\ ShapeInv /\ TypeOK /\ HandleInv /\ ApartInv /\ Shaped(task[t]) /\ fs \in FsType
  BY DEF MountInv, ShapeInv, TypeOK
<1>2. /\ task[t].pc = "install" /\ fs' = [fs EXCEPT !.bridge = h] /\ vols' = [vols EXCEPT ![h] = "loaded"]
      /\ task' = Return(t) /\ UNCHANGED <<media, keys, handle, slot, shells, exec, said>>
  BY DEF loadInstall, At
<1>3. /\ h \in Handles /\ handle[h].open /\ handle[h].mounted /\ handle[h].dev \in Devices /\ slot = h
      /\ h # fs.bridge /\ task[t].then = "open"
  BY <1>1, <1>2 DEF Shaped, HandleInv, Owner, Owning, Mounting
<1>4. fs.bridge = None
  BY <1>1, <1>3 DEF HandleInv, FsType
<1>5. fs' \in FsType /\ fs'.bridge = h /\ fs'.probed = fs.probed /\ fs'.lastSeen = fs.lastSeen
  BY <1>1, <1>2, <1>3 DEF FsType
<1>6. /\ vols' \in [Handles -> {"none", "loaded", "active", "leaving"}] /\ vols'[h] = "loaded"
      /\ \A g \in Handles \ {h} : vols'[g] = vols[g]
  BY <1>1, <1>2, <1>3 DEF TypeOK
<1>7. Moved(t) /\ task'[t] = Idle
  BY <1>1, <1>2, Returning
<1>8. /\ task'[t].pc = "idle" /\ task'[t].then = "idle" /\ \A u \in Tasks \ {t} : task'[u] = task[u]
  BY <1>7 DEF Idle, Moved, Others
<1>9. ShapeInv'
  <2>1. StateOK'
    BY <1>1, <1>2, <1>5, <1>6 DEF StateOK, TypeOK
  <2>2. QED
    BY <1>1, <1>7, <2>1, KeepShape
<1>10. HandleInv'
  <2>1. \A g \in Handles : /\ handle'[g].mounted => handle'[g].open /\ slot' = g /\ fs'.bridge = g
                           /\ handle'[g].open \/ vols'[g] # "none" => handle'[g].dev \in Devices
    BY <1>1, <1>2, <1>3, <1>5, <1>6 DEF HandleInv
  <2>2. ASSUME NEW u \in Tasks, task'[u].pc \in Owning
        PROVE  /\ handle'[task'[u].h].open /\ task'[u].h # fs'.bridge
               /\ handle'[task'[u].h].mounted <=> task'[u].pc \in Mounting
               /\ \A v \in Tasks : task'[v].pc \in Owning /\ task'[v].h = task'[u].h => v = u
    <3>1. u # t /\ task'[u] = task[u]
      BY <1>8, <2>2 DEF Owning, Mounting, Formatting
    <3>2. task[u].h # h
      BY <1>1, <1>2, <2>2, <3>1 DEF HandleInv, Owner, Owning, Mounting
    <3>3. \A v \in Tasks : task'[v].pc \in Owning => task'[v] = task[v]
      BY <1>8 DEF Owning, Mounting, Formatting
    <3>4. QED
      BY <1>1, <1>2, <1>5, <2>2, <3>1, <3>2, <3>3 DEF HandleInv, Owner
  <2>3. QED
    BY <1>2, <1>3, <1>5, <2>1, <2>2 DEF HandleInv, Owner
<1>11. ApartInv'
  <2>1. \A g \in Handles : vols[g] \notin {"leaving", "loaded", "active"}
    BY <1>1, <1>3, <1>4, MountAssumption DEF ApartInv, Opener
  <2>2. \A u \in Tasks : task[u].then \notin Closing
    BY <1>1, <1>3 DEF ApartInv, Opener, Closer
  <2>3. \A g \in Handles : /\ vols'[g] # "leaving"
                           /\ vols'[g] \in {"loaded", "active"} => fs'.bridge = g
    BY <1>5, <1>6, <2>1
  <2>4. \A u \in Tasks : /\ task'[u].then \notin Closing
                         /\ ~ (task'[u].then = "open" /\ task'[u].pc = "take")
                         /\ task'[u].then = "open" => task'[u] = task[u]
    BY <1>1, <1>4, <1>8, <2>2 DEF ApartInv, Opener, Closing
  <2>5. QED
    BY <1>1, <2>3, <2>4 DEF ApartInv, Opener, Closer, Closing
<1>12. FormatInv'
  BY <1>2, <1>5, <1>7, <1>8, KeepFormat DEF MountInv, FormatInv
<1>13. QED
  BY <1>4, <1>9, <1>10, <1>11, <1>12 DEF MountInv

\* Where a call goes on once the volume is closed.
LEMMA AfterIs ==
  ASSUME ShapeInv, NEW t \in Tasks, task[t].pc \in {"take", "destroy"}, NEW h \in Handles \cup {None},
         task' = After(t, h)
  PROVE  /\ Moved(t) /\ task'[t].pc = task[t].then /\ task'[t].then = task[t].then
         /\ task'[t].pc \in {"idle", "open", "drop", "unloaded", "left", "fopen"}
         /\ task'[t].then # "idle" => task'[t].dev = task[t].dev /\ task'[t].want = task[t].want
<1>1. Shaped(task[t]) /\ task[t] \in TaskType /\ task[t].then \in {"idle", "open"} \cup Closing
  BY DEF ShapeInv, TypeOK, Shaped, Closing
<1>2. CASE task[t].then = "idle"
  <2>1. Moved(t) /\ task'[t] = Idle
    BY <1>2, Returning DEF After
  <2>2. QED
    BY <1>2, <2>1 DEF Idle
<1>3. CASE task[t].then # "idle"
  <2> DEFINE c == [task[t] EXCEPT !.pc = task[t].then, !.h = h]
  <2>1. task' = [task EXCEPT ![t] = c]
    BY <1>3 DEF After, ShapeInv, TypeOK
  <2>2. /\ c \in TaskType /\ c.pc = task[t].then /\ c.then = task[t].then /\ c.dev = task[t].dev
        /\ c.want = task[t].want
    BY <1>1 DEF TaskType, Points, Closing
  <2> HIDE DEF c
  <2>3. Shaped(c)
    BY <1>1, <1>3, <2>2 DEF Shaped, Closing, Owning, Mounting, Formatting
  <2>4. Moved(t) /\ task'[t] = c
    BY <2>1, <2>3, Moving
  <2>5. QED
    BY <1>1, <1>3, <2>2, <2>4 DEF Closing
<1>4. QED
  BY <1>2, <1>3

\* Only a call that opens the same device, or FSKit when it leaves, takes the live volume.
LEMMA TakeStep ==
  ASSUME MountInv, NEW t \in Tasks, closeTake(t)
  PROVE  MountInv'
<1> DEFINE b == fs.bridge
<1>1. /\ ShapeInv /\ TypeOK /\ HandleInv /\ ApartInv /\ FormatInv /\ Shaped(task[t])
      /\ task[t] \in TaskType /\ fs \in FsType
  BY DEF MountInv, ShapeInv, TypeOK
<1>2. /\ task[t].pc = "take" /\ fs' = [fs EXCEPT !.bridge = None]
      /\ task' = IF b = None THEN After(t, task[t].h)
                 ELSE [task EXCEPT ![t].pc = "unmount", ![t].h = b]
      /\ UNCHANGED <<media, keys, handle, slot, vols, shells, exec, said>>
  BY DEF closeTake, At
<1>3. fs' \in FsType /\ fs'.bridge = None /\ fs'.probed = fs.probed /\ fs'.lastSeen = fs.lastSeen
  BY <1>1, <1>2 DEF FsType
<1>4. task[t].then \in {"open"} \cup Closing
  BY <1>1, <1>2 DEF Shaped
<1>5. CASE b = None
  <2>1. task[t].then \in Closing
    BY <1>1, <1>2, <1>4, <1>5 DEF ApartInv, Opener
  <2>2. task[t].h \in Handles \cup {None} /\ task' = After(t, task[t].h)
    BY <1>1, <1>2, <1>5 DEF TaskType
  <2>3. /\ Moved(t) /\ task'[t].pc = task[t].then /\ task'[t].then = task[t].then
        /\ task'[t].dev = task[t].dev /\ task'[t].want = task[t].want
    BY <1>1, <1>2, <2>1, <2>2, AfterIs DEF Closing
  <2>4. /\ keys' \in [Devices -> KeyStates] /\ exec' \in Tasks \cup {None}
        /\ shells' \subseteq fs'.probed /\ fs'.lastSeen.dev \in fs'.probed \cup {None}
    BY <1>1, <1>2, <1>3 DEF TypeOK, FormatInv
  <2>5. QED
    BY <1>2, <1>3, <1>5, <2>1, <2>3, <2>4, QuietStep DEF Owning, Mounting, Formatting, Closing
<1>6. CASE b # None
  <2> DEFINE c == [task[t] EXCEPT !.pc = "unmount", !.h = b]
  <2>1. task' = [task EXCEPT ![t] = c] /\ b \in Handles
    BY <1>1, <1>2, <1>6 DEF ShapeInv, TypeOK, FsType
  <2>2. /\ c \in TaskType /\ c.pc = "unmount" /\ c.h = b /\ c.then = task[t].then
        /\ c.dev = task[t].dev /\ c.want = task[t].want
    BY <1>1, <2>1 DEF TaskType, Points
  <2> HIDE DEF c
  <2>3. Shaped(c)
    BY <1>1, <1>2, <2>1, <2>2 DEF Shaped, Closing, Owning, Mounting, Formatting
  <2>4. /\ Moved(t) /\ task'[t] = c /\ \A u \in Tasks \ {t} : task'[u] = task[u]
    BY <1>1, <2>1, <2>3, Moving DEF Moved, Others
  <2>5. ShapeInv'
    <3>1. StateOK'
      BY <1>1, <1>2, <1>3 DEF StateOK, TypeOK
    <3>2. QED
      BY <1>1, <2>4, <3>1, KeepShape
  <2>6. HandleInv'
    <3>1. handle[b].mounted /\ slot = b /\ handle[b].open
      BY <1>1, <1>6, <2>1 DEF HandleInv
    <3>2. \A g \in Handles : /\ handle'[g].mounted => handle'[g].open /\ slot' = g /\ g = b
                             /\ handle'[g].open \/ vols'[g] # "none" => handle'[g].dev \in Devices
      BY <1>1, <1>2, <3>1 DEF HandleInv
    <3>3. task'[t].h = b /\ task'[t].pc \in Mounting
      BY <2>2, <2>4 DEF Mounting
    <3>4. \A u \in Tasks \ {t} : task[u].pc \in Owning => task[u].h # b
      BY <1>1 DEF HandleInv, Owner
    <3>5. ASSUME NEW u \in Tasks, task'[u].pc \in Owning
          PROVE  /\ handle'[task'[u].h].open /\ task'[u].h # fs'.bridge
                 /\ handle'[task'[u].h].mounted <=> task'[u].pc \in Mounting
                 /\ \A v \in Tasks : task'[v].pc \in Owning /\ task'[v].h = task'[u].h => v = u
      <4>1. CASE u = t
        BY <1>2, <1>3, <1>6, <2>4, <3>1, <3>3, <3>4, <4>1
      <4>2. CASE u # t
        <5>1. task'[u] = task[u] /\ task[u].h \in Handles
          BY <1>1, <2>4, <3>5, <4>2 DEF ShapeInv, Shaped
        <5>2. /\ handle[task[u].h].open /\ task[u].h # None
              /\ handle[task[u].h].mounted <=> task[u].pc \in Mounting
              /\ \A v \in Tasks : task[v].pc \in Owning /\ task[v].h = task[u].h => v = u
          BY <1>1, <3>5, <5>1, MountAssumption DEF HandleInv, Owner
        <5>3. \A v \in Tasks : task'[v].pc \in Owning /\ task'[v].h = task'[u].h => v = u
          BY <2>4, <3>3, <3>4, <3>5, <4>2, <5>1, <5>2
        <5>4. QED
          BY <1>2, <1>3, <5>1, <5>2, <5>3
      <4>3. QED
        BY <4>1, <4>2
    <3>6. \A g \in Handles : handle'[g].mounted => \E u \in Tasks : task'[u].h = g /\ task'[u].pc \in Mounting
      BY <3>2, <3>3
    <3>7. slot' # None => handle'[slot'].mounted
      BY <1>1, <1>2 DEF HandleInv
    <3>8. QED
      BY <1>3, <3>2, <3>5, <3>6, <3>7 DEF HandleInv, Owner
  <2>7. ApartInv'
    <3>1. vols[b] \in {"none", "leaving"}
      BY <1>1, <1>2, <1>4, <1>6 DEF ApartInv, Opener, Closer
    <3>2. \A g \in Handles : vols'[g] \notin {"loaded", "active"}
      BY <1>1, <1>2, <3>1 DEF ApartInv
    <3>3. \A u \in Tasks : /\ task'[u].then = task[u].then /\ task'[u].dev = task[u].dev
                           /\ u # t => task'[u] = task[u]
      BY <2>2, <2>4
    <3>4. \A u \in Tasks : ~ (task'[u].then = "open" /\ task'[u].pc = "take")
      <4>1. task'[t].pc # "take"
        BY <2>2, <2>4
      <4>2. ASSUME NEW u \in Tasks \ {t}, task[u].then = "open", task[u].pc = "take"
            PROVE  FALSE
        <5>1. task[u].dev = handle[b].dev
          BY <1>1, <4>2 DEF ApartInv, Opener
        <5>2. CASE task[t].then = "open"
          BY <1>1, <1>2, <4>2, <5>1, <5>2 DEF ApartInv, Opener
        <5>3. CASE task[t].then \in Closing
          BY <1>1, <4>2, <5>3 DEF ApartInv, Opener, Closer
        <5>4. QED
          BY <1>4, <5>2, <5>3
      <4>3. QED
        BY <3>3, <4>1, <4>2
    <3>5. (\E g \in Handles : vols'[g] = "leaving") \/ (\E u \in Tasks : task'[u].then \in Closing) =>
            \A u \in Tasks : task'[u].then # "open"
      BY <1>1, <1>2, <3>3 DEF ApartInv, Opener, Closer
    <3>6. \A u, v \in Tasks : u # v =>
            /\ task'[u].then = "open" /\ task'[v].then = "open" => task'[u].dev # task'[v].dev
            /\ task'[u].then = "fopen" => task'[v].then \notin Closing
      BY <1>1, <3>3 DEF ApartInv, Opener, Closer
    <3>7. QED
      BY <1>3, <3>2, <3>4, <3>5, <3>6 DEF ApartInv, Opener, Closer
  <2>8. FormatInv'
    BY <1>1, <1>2, <1>3, <2>2, <2>4, KeepFormat DEF FormatInv, Formatting
  <2>9. QED
    BY <2>5, <2>6, <2>7, <2>8 DEF MountInv
<1>7. QED
  BY <1>5, <1>6

\* Handles that nobody has are forgotten.
LEMMA Forget ==
  ASSUME ShapeInv, HandleInv, NEW t \in Tasks, Moved(t), UNCHANGED <<slot, fs>>,
         task'[t].pc \notin Owning, task[t].pc \notin Mounting,
         \A g \in Handles : vols'[g] \in {vols[g], "none"},
         \A g \in Handles : \/ handle'[g] = handle[g]
                            \/ /\ ~ handle[g].mounted /\ ~ handle'[g].mounted /\ ~ handle'[g].open
                               /\ vols'[g] # "none" => handle'[g].dev \in Devices
                               /\ handle[g].open => task[t].pc \in Owning /\ g = task[t].h
  PROVE  HandleInv'
<1>1. \A u \in Tasks \ {t} : task'[u] = task[u]
  BY DEF Moved, Others
<1>2. \A u \in Tasks : task[u].pc \in Mounting => task'[u] = task[u]
  BY <1>1
<1>3. \A g \in Handles : handle[g].mounted <=> handle'[g].mounted
  OBVIOUS
<1>4. ASSUME NEW g \in Handles
      PROVE  /\ handle'[g].mounted => handle'[g].open /\ slot' = g
             /\ handle'[g].open \/ vols'[g] # "none" => handle'[g].dev \in Devices
             /\ handle'[g].mounted => fs'.bridge = g \/ \E u \in Tasks :
                  task'[u].h = g /\ task'[u].pc \in Mounting
  <2>1. handle[g].mounted => fs.bridge = g \/ \E u \in Tasks : task[u].h = g /\ task[u].pc \in Mounting
    BY DEF HandleInv
  <2>2. handle'[g].mounted => fs'.bridge = g \/ \E u \in Tasks : task'[u].h = g /\ task'[u].pc \in Mounting
    BY <1>2, <1>3, <2>1
  <2>3. CASE handle'[g] = handle[g]
    BY <2>2, <2>3 DEF HandleInv
  <2>4. CASE handle'[g] # handle[g]
    BY <2>2, <2>4
  <2>5. QED
    BY <2>3, <2>4
<1>5. slot' # None => handle'[slot'].mounted
  BY <1>3 DEF HandleInv, ShapeInv, TypeOK
<1>6. fs'.bridge # None => handle'[fs'.bridge].mounted
  BY <1>3 DEF HandleInv, ShapeInv, TypeOK, FsType
<1>7. ASSUME NEW u \in Tasks, task'[u].pc \in Owning
      PROVE  /\ handle'[task'[u].h].open /\ task'[u].h # fs'.bridge
             /\ handle'[task'[u].h].mounted <=> task'[u].pc \in Mounting
             /\ \A v \in Tasks : task'[v].pc \in Owning /\ task'[v].h = task'[u].h => v = u
  <2>1. u # t /\ task'[u] = task[u] /\ task[u].h \in Handles /\ task[u].pc \in Owning
    BY <1>1, <1>7 DEF ShapeInv, Shaped
  <2>2. handle[task[u].h].open /\ (task[t].pc \in Owning => task[u].h # task[t].h)
    BY <2>1 DEF HandleInv, Owner
  <2>3. handle'[task[u].h] = handle[task[u].h]
    BY <2>1, <2>2
  <2>4. \A v \in Tasks : task'[v].pc \in Owning => task'[v] = task[v]
    BY <1>1
  <2>5. QED
    BY <2>1, <2>3, <2>4 DEF HandleInv, Owner
<1>8. QED
  BY <1>4, <1>5, <1>6, <1>7 DEF HandleInv, Owner

LEMMA NoHandleIs ==
  NoHandle \in HandleType /\ ~ NoHandle.open /\ ~ NoHandle.mounted
<1>1. 0 \in 0 .. MaxFormats
  BY MountAssumption
<1>2. QED
  BY <1>1 DEF NoHandle, HandleType, Logs

LEMMA DestroyStep ==
  ASSUME MountInv, NEW t \in Tasks, closeDestroy(t)
  PROVE  MountInv'
<1> DEFINE h == task[t].h
           n == [NoHandle EXCEPT !.dev = IF vols[h] = "none" THEN None ELSE handle[h].dev]
<1>1. /\ ShapeInv /\ TypeOK /\ HandleInv /\ ApartInv /\ FormatInv /\ Shaped(task[t])
      /\ handle \in [Handles -> HandleType] /\ fs \in FsType
  BY DEF MountInv, ShapeInv, TypeOK
<1>2. /\ task[t].pc = "destroy" /\ task' = After(t, None) /\ handle' = [handle EXCEPT ![h] = n]
      /\ UNCHANGED <<media, keys, slot, fs, vols, shells, exec, said>>
  BY DEF closeDestroy, At, Closed
<1>3. /\ h \in Handles /\ handle[h].open /\ ~ handle[h].mounted /\ handle[h].dev \in Devices
      /\ h # fs.bridge /\ task[t].pc \in Owning
  BY <1>1, <1>2 DEF Shaped, HandleInv, Owner, Owning, Mounting
<1>4. /\ n \in HandleType /\ ~ n.open /\ ~ n.mounted /\ (vols[h] # "none" => n.dev \in Devices)
  BY <1>1, <1>3, NoHandleIs DEF HandleType
<1> HIDE DEF n
<1>5. /\ handle' \in [Handles -> HandleType] /\ handle'[h] = n
      /\ \A g \in Handles \ {h} : handle'[g] = handle[g]
  BY <1>1, <1>2, <1>3, <1>4
<1>6. /\ Moved(t) /\ task'[t].pc = task[t].then /\ task'[t].then = task[t].then
      /\ task'[t].pc \in {"idle", "open", "drop", "unloaded", "left", "fopen"}
      /\ task'[t].then # "idle" => task'[t].dev = task[t].dev /\ task'[t].want = task[t].want
  BY <1>1, <1>2, AfterIs
<1>7. ShapeInv'
  <2>1. StateOK'
    BY <1>1, <1>2, <1>5 DEF StateOK, TypeOK
  <2>2. QED
    BY <1>1, <1>6, <2>1, KeepShape
<1>8. HandleInv'
  <2>1. task'[t].pc \notin Owning /\ task[t].pc \notin Mounting
    BY <1>2, <1>6 DEF Owning, Mounting, Formatting
  <2>2. QED
    BY <1>1, <1>2, <1>3, <1>4, <1>5, <1>6, <2>1, Forget
<1>9. ApartInv'
  <2>1. fs.bridge # None => handle'[fs.bridge].dev = handle[fs.bridge].dev
    BY <1>1, <1>3, <1>5 DEF FsType
  <2>2. QED
    BY <1>1, <1>2, <1>6, <2>1, KeepApart DEF Closing
<1>10. FormatInv'
  BY <1>1, <1>2, <1>6, KeepFormat DEF FormatInv, Formatting
<1>11. QED
  BY <1>7, <1>8, <1>9, <1>10 DEF MountInv

\* FSKit lets go of what is closed.
LEMMA DropSteps ==
  ASSUME MountInv, NEW t \in Tasks, deactivateDrop(t) \/ unloadDone(t)
  PROVE  MountInv'
<1> DEFINE hs == On(task[t].dev, {"leaving"})
<1>1. /\ ShapeInv /\ TypeOK /\ HandleInv /\ ApartInv /\ FormatInv /\ Shaped(task[t]) /\ fs \in FsType
  BY DEF MountInv, ShapeInv, TypeOK
<1>2. /\ task[t].pc \in {"drop", "unloaded"} /\ task' = Return(t) /\ Dropped(hs)
      /\ shells' \subseteq shells /\ UNCHANGED <<media, keys, slot, fs, exec, said>>
  BY DEF deactivateDrop, unloadDone, At
<1>3. Moved(t) /\ task'[t] = Idle
  BY <1>1, <1>2, Returning
<1>4. /\ task'[t].pc = "idle" /\ task'[t].then = "idle" /\ \A u \in Tasks \ {t} : task'[u] = task[u]
  BY <1>3 DEF Idle, Moved, Others
<1>5. fs.bridge = None
  BY <1>1, <1>2 DEF ApartInv, Closer, Shaped, Closing
<1>6. hs \subseteq Handles /\ \A g \in hs : vols[g] = "leaving"
  BY DEF On
<1> HIDE DEF hs
<1>7. /\ vols' \in [Handles -> {"none", "loaded", "active", "leaving"}]
      /\ \A g \in Handles : vols'[g] = IF g \in hs THEN "none" ELSE vols[g]
      /\ handle' \in [Handles -> HandleType]
      /\ \A g \in Handles : handle'[g] = IF g \in hs /\ ~handle[g].open THEN NoHandle ELSE handle[g]
  BY <1>1, <1>2, NoHandleIs DEF Dropped, TypeOK
<1>8. ShapeInv'
  <2>1. StateOK'
    BY <1>1, <1>2, <1>7 DEF StateOK, TypeOK
  <2>2. QED
    BY <1>1, <1>3, <2>1, KeepShape
<1>9. HandleInv'
  <2>1. task'[t].pc \notin Owning /\ task[t].pc \notin Mounting
    BY <1>2, <1>4 DEF Owning, Mounting, Formatting
  <2>2. \A g \in Handles : ~ handle[g].open => ~ handle[g].mounted
    BY <1>1 DEF HandleInv
  <2>3. QED
    BY <1>1, <1>2, <1>3, <1>6, <1>7, <2>1, <2>2, NoHandleIs, Forget
<1>10. ApartInv'
  <2>1. \A g \in Handles : vols'[g] # "none" => vols'[g] = vols[g]
    BY <1>7
  <2>2. \A u \in Tasks : /\ task'[u].then \in {"open"} \cup Closing => task'[u] = task[u]
                         /\ ~ (task'[u].then = "open" /\ task'[u].pc = "take")
    BY <1>1, <1>4, <1>5 DEF ApartInv, Opener, Closing
  <2>3. \A u, v \in Tasks : u # v =>
            /\ task'[u].then = "open" /\ task'[v].then = "open" => task'[u].dev # task'[v].dev
            /\ task'[u].then = "fopen" => task'[v].then \notin Closing
    BY <1>1, <2>2 DEF ApartInv, Opener, Closer, Closing
  <2>4. (\E g \in Handles : vols'[g] = "leaving") \/ (\E u \in Tasks : task'[u].then \in Closing) =>
            \A u \in Tasks : task'[u].then # "open"
    BY <1>1, <2>1, <2>2 DEF ApartInv, Opener, Closer
  <2>5. \A g \in Handles : vols'[g] \in {"loaded", "active"} => fs'.bridge = g
    BY <1>1, <1>2, <2>1 DEF ApartInv
  <2>6. QED
    BY <1>2, <1>5, <2>2, <2>3, <2>4, <2>5 DEF ApartInv, Opener, Closer
<1>11. FormatInv'
  BY <1>1, <1>2, <1>3, <1>4, KeepFormat DEF FormatInv
<1>12. QED
  BY <1>8, <1>9, <1>10, <1>11 DEF MountInv

-----------------------------------------------------------------------------
(* The calls that load, close and format.                                  *)

\* The cases kept in that let loads and closes meet.
Meeting == {"second", "shell", "overlap"}

LEMMA LoadCall ==
  ASSUME MountInv, Windows \cap Meeting = {}, NEW t \in Tasks, NEW d \in Devices, loadResource(t, d)
  PROVE  MountInv'
<1> DEFINE p == IF existing = None THEN "open" ELSE IF existing = d THEN "take" ELSE "busy"
           c == [About(d, p) EXCEPT !.then = "open"]
           hs == On(d, {"loaded"})
<1>1. /\ ShapeInv /\ TypeOK /\ HandleInv /\ ApartInv /\ FormatInv /\ fs \in FsType
  BY DEF MountInv, ShapeInv, TypeOK
<1>2. /\ Call(t, c) /\ vols' = [h \in Handles |-> IF h \in hs THEN "none" ELSE vols[h]]
      /\ UNCHANGED <<media, keys, handle, slot, fs, shells, exec, said>>
  BY DEF loadResource
<1>3. /\ On(d, {"active", "leaving"}) = {} /\ ~ Misled
      /\ \A u \in Tasks : task[u].want = d => task[u].then # "open"
      /\ \A u \in Tasks : task[u].then \notin Closing
      /\ \A h \in Handles : vols[h] # "leaving"
  BY DEF loadResource, Meeting, Apart
<1>4. p \in {"open", "take", "busy"} /\ (p = "take" => fs.bridge # None /\ fs.lastSeen.dev = d)
  BY MountAssumption DEF existing
<1> HIDE DEF p
<1>5. c \in TaskType /\ c.pc = p /\ c.then = "open" /\ c.dev = d /\ c.want = d
  BY <1>4, AboutIs DEF TaskType, Ends, Points
<1>6. Shaped(c)
  BY <1>4, <1>5 DEF Shaped, Closing, Owning, Mounting, Formatting
<1> HIDE DEF c
<1>7. Moved(t) /\ task'[t] = c /\ task[t].pc = "idle" /\ task[t].then = "idle"
  BY <1>1, <1>2, <1>6, Calling
<1>8. \A u \in Tasks \ {t} : task'[u] = task[u]
  BY <1>7 DEF Moved, Others
<1>9. /\ vols' \in [Handles -> {"none", "loaded", "active", "leaving"}]
      /\ \A h \in Handles : vols'[h] = IF h \in hs THEN "none" ELSE vols[h]
  BY <1>1, <1>2 DEF TypeOK
<1>10. p = "take" => handle[fs.bridge].dev = d /\ vols'[fs.bridge] = "none"
  <2>1. SUFFICES ASSUME p = "take" PROVE handle[fs.bridge].dev = d /\ vols'[fs.bridge] = "none"
    OBVIOUS
  <2>2. fs.bridge \in Handles /\ handle[fs.bridge].dev = d
    BY <1>1, <1>3, <1>4, <2>1 DEF Misled, FsType
  <2>3. vols[fs.bridge] \in {"none", "loaded"}
    BY <1>1, <1>3, <2>2 DEF On, TypeOK
  <2>4. QED
    BY <1>9, <2>2, <2>3 DEF On
<1> HIDE DEF hs
<1>11. ShapeInv'
  <2>1. StateOK'
    BY <1>1, <1>2, <1>9 DEF StateOK, TypeOK
  <2>2. QED
    BY <1>1, <1>7, <2>1, KeepShape
<1>12. HandleInv'
  BY <1>1, <1>2, <1>4, <1>5, <1>7, <1>9, KeepHandles DEF Owning, Mounting, Formatting
<1>13. ApartInv'
  <2>1. \A h \in Handles : /\ vols'[h] # "leaving" /\ (vols'[h] # "none" => vols'[h] = vols[h])
                           /\ vols[h] = "none" => vols'[h] = "none"
    BY <1>3, <1>9
  <2>2. \A u \in Tasks : task'[u].then \notin Closing
    BY <1>3, <1>5, <1>7, <1>8 DEF Closing
  <2>3. ASSUME NEW u \in Tasks, task'[u].then = "open", task'[u].pc = "take"
        PROVE  fs'.bridge # None /\ vols'[fs'.bridge] = "none" /\ handle'[fs'.bridge].dev = task'[u].dev
    <3>1. CASE u = t
      BY <1>2, <1>4, <1>5, <1>7, <1>10, <2>3, <3>1
    <3>2. CASE u # t
      BY <1>1, <1>2, <1>8, <2>1, <2>3, <3>2 DEF ApartInv, Opener, FsType
    <3>3. QED
      BY <3>1, <3>2
  <2>4. ASSUME NEW u \in Tasks, NEW v \in Tasks, u # v, task'[u].then = "open", task'[v].then = "open"
        PROVE  task'[u].dev # task'[v].dev
    <3>1. \A w \in Tasks : task[w].then = "open" => task[w].dev # d
      BY <1>1, <1>3 DEF ShapeInv, Shaped
    <3>2. CASE u = t
      BY <1>5, <1>7, <1>8, <2>4, <3>1, <3>2
    <3>3. CASE v = t
      BY <1>5, <1>7, <1>8, <2>4, <3>1, <3>3
    <3>4. CASE u # t /\ v # t
      BY <1>1, <1>8, <2>4, <3>4 DEF ApartInv, Opener
    <3>5. QED
      BY <3>2, <3>3, <3>4
  <2>5. \A h \in Handles : vols'[h] \in {"loaded", "active"} => fs'.bridge = h
    BY <1>1, <1>2, <2>1 DEF ApartInv
  <2>6. QED
    BY <2>1, <2>2, <2>3, <2>4, <2>5 DEF ApartInv, Opener, Closer, Closing
<1>14. FormatInv'
  BY <1>1, <1>2, <1>5, <1>7, KeepFormat DEF FormatInv
<1>15. QED
  BY <1>11, <1>12, <1>13, <1>14 DEF MountInv

\* FSKit leaves a volume.
LEMMA CloseCall ==
  ASSUME MountInv, NEW t \in Tasks, NEW c, Shaped(c), Call(t, c), c.then \in Closing,
         c.pc \in {"take", "sync"}, UNCHANGED <<media, keys, handle, slot, fs, shells, exec, said>>,
         vols' \in [Handles -> {"none", "loaded", "active", "leaving"}],
         \A h \in Handles : vols'[h] \in {vols[h], "leaving"} /\ (vols[h] = "none" => vols'[h] = "none"),
         fs.bridge # None => vols'[fs.bridge] = "leaving",
         \A u \in Tasks : task[u].then \notin {"open", "fopen"},
         c.then = "fopen" => /\ \A u \in Tasks : task[u].then \notin Closing
                             /\ c.dev = c.want /\ \A e \in Devices : media[e].id < MaxFormats
  PROVE  MountInv'
<1>1. /\ ShapeInv /\ TypeOK /\ HandleInv /\ ApartInv /\ FormatInv
  BY DEF MountInv, ShapeInv, TypeOK
<1>2. Moved(t) /\ task'[t] = c /\ task[t].pc = "idle" /\ task[t].then = "idle"
  BY <1>1, Calling
<1>3. \A u \in Tasks \ {t} : task'[u] = task[u]
  BY <1>2 DEF Moved, Others
<1>4. ShapeInv'
  <2>1. StateOK'
    BY <1>1 DEF StateOK, TypeOK
  <2>2. QED
    BY <1>1, <1>2, <2>1, KeepShape
<1>5. HandleInv'
  BY <1>1, <1>2, KeepHandles DEF Owning, Mounting, Formatting
<1>6. ApartInv'
  <2>1. \A u \in Tasks : task'[u].then # "open"
    BY <1>2, <1>3 DEF Closing
  <2>2. \A u \in Tasks : task'[u].then \in Closing /\ task'[u].pc \notin {"take", "sync"} => fs'.bridge = None
    BY <1>1, <1>2, <1>3 DEF ApartInv, Closer
  <2>3. \A u, v \in Tasks : u # v /\ task'[u].then = "fopen" => task'[v].then \notin Closing
    BY <1>2, <1>3
  <2>4. \A h \in Handles : vols'[h] \in {"loaded", "active"} => fs'.bridge = h
    BY <1>1 DEF ApartInv
  <2>5. QED
    BY <2>1, <2>2, <2>3, <2>4 DEF ApartInv, Opener, Closer
<1>7. FormatInv'
  <2>1. \A u \in Tasks : task'[u].then = "fopen" => task'[u] = c
    BY <1>2, <1>3
  <2>2. QED
    BY <1>1, <2>1 DEF FormatInv
<1>8. QED
  BY <1>4, <1>5, <1>6, <1>7 DEF MountInv

LEMMA LeaveCalls ==
  ASSUME MountInv, Windows \cap Meeting = {}, NEW t \in Tasks, NEW h \in Handles,
         unmount(t, h) \/ deactivate(t, h)
  PROVE  MountInv'
<1>1. PICK p \in {"sync", "take"}, e \in {"left", "drop"} :
        /\ vols[h] # "none" /\ Call(t, [About(handle[h].dev, p) EXCEPT !.h = h, !.then = e])
        /\ p = "sync" => e = "left"
  BY DEF unmount, deactivate
<1>2. /\ vols' = [vols EXCEPT ![h] = "leaving"] /\ \A u \in Tasks : task[u].then \notin {"open", "fopen"}
      /\ UNCHANGED <<media, keys, handle, slot, fs, shells, exec, said>>
  BY DEF unmount, deactivate, Apart, Meeting
<1> DEFINE c == [About(handle[h].dev, p) EXCEPT !.h = h, !.then = e]
<1>3. handle[h].dev \in Devices
  BY <1>1 DEF MountInv, HandleInv
<1>4. c \in TaskType /\ c.pc = p /\ c.then = e /\ c.dev = handle[h].dev /\ c.h = h
  <2>1. About(handle[h].dev, p) \in TaskType /\ About(handle[h].dev, p).pc = p
        /\ About(handle[h].dev, p).dev = handle[h].dev
    BY <1>3, AboutIs DEF Points
  <2>2. QED
    BY <1>1, <2>1 DEF TaskType, Ends
<1> HIDE DEF c
<1>5. Shaped(c)
  BY <1>1, <1>3, <1>4 DEF Shaped, Closing, Owning, Mounting, Formatting
<1>6. Call(t, c)
  BY <1>1 DEF c
<1>7. vols \in [Handles -> {"none", "loaded", "active", "leaving"}] /\ fs \in FsType
  BY DEF MountInv, ShapeInv, TypeOK
<1>8. fs.bridge # None => vols'[fs.bridge] = "leaving"
  <2>1. CASE vols[h] \in {"loaded", "active"}
    BY <1>2, <1>7, <2>1 DEF MountInv, ApartInv
  <2>2. CASE vols[h] = "leaving"
    BY <1>2, <1>7, <2>2 DEF MountInv, ApartInv, FsType
  <2>3. QED
    BY <1>1, <1>7, <2>1, <2>2
<1>9. QED
  BY <1>1, <1>2, <1>4, <1>5, <1>6, <1>7, <1>8, CloseCall DEF Closing

LEMMA UnloadCall ==
  ASSUME MountInv, Windows \cap Meeting = {}, NEW t \in Tasks, NEW d \in Devices, unloadResource(t, d)
  PROVE  MountInv'
<1> DEFINE c == [About(d, "take") EXCEPT !.then = "unloaded"]
           hs == On(d, {"loaded"})
<1>1. /\ vols' = [h \in Handles |-> IF h \in hs THEN "leaving" ELSE vols[h]]
      /\ \A u \in Tasks : task[u].then \notin {"open", "unloaded", "fopen"} /\ Call(t, c)
      /\ UNCHANGED <<media, keys, handle, slot, fs, shells, exec, said>>
      /\ fs.bridge # None => On(d, {"loaded", "leaving"}) # {}
  BY DEF unloadResource, Apart, Meeting
<1>2. c \in TaskType /\ c.pc = "take" /\ c.then = "unloaded" /\ c.dev = d
  BY AboutIs DEF TaskType, Ends, Points
<1> HIDE DEF c
<1>3. Shaped(c)
  BY <1>2 DEF Shaped, Closing, Owning, Mounting, Formatting
<1>4. vols \in [Handles -> {"none", "loaded", "active", "leaving"}] /\ fs \in FsType
  BY DEF MountInv, ShapeInv, TypeOK
<1>5. \A h \in hs : h \in Handles /\ vols[h] = "loaded"
  BY DEF On
<1>6. fs.bridge # None => vols'[fs.bridge] = "leaving"
  <2>1. SUFFICES ASSUME fs.bridge # None PROVE vols'[fs.bridge] = "leaving"
    OBVIOUS
  <2>2. PICK h \in Handles : handle[h].dev = d /\ vols[h] \in {"loaded", "leaving"}
    BY <1>1, <2>1 DEF On
  <2>3. CASE vols[h] = "loaded"
    BY <1>1, <2>2, <2>3 DEF MountInv, ApartInv, On
  <2>4. CASE vols[h] = "leaving"
    BY <1>1, <1>4, <2>1, <2>2, <2>4 DEF MountInv, ApartInv, FsType
  <2>5. QED
    BY <2>2, <2>3, <2>4
<1> HIDE DEF hs
<1>7. QED
  BY <1>1, <1>2, <1>3, <1>4, <1>5, <1>6, CloseCall DEF Closing

\* With one device presented and none live, the last one seen is the one that is meant.
LEMMA TargetIs ==
  ASSUME MountInv, NEW d \in Devices, Maintained(d), d \in shells => fs.bridge = None,
         maintenanceTarget \in Devices
  PROVE  maintenanceTarget = d
<1>1. fs \in FsType /\ shells \subseteq fs.probed /\ fs.lastSeen.dev \in fs.probed \cup {None}
  BY DEF MountInv, ShapeInv, TypeOK, FormatInv
<1>2. CASE fs.bridge # None
  BY <1>2, MountAssumption DEF maintenanceTarget, Maintained, On, MountInv, ApartInv
<1>3. CASE fs.bridge = None
  <2>1. \A h \in Handles : vols[h] # "loaded"
    BY <1>3, MountAssumption DEF MountInv, ApartInv
  <2>2. d \in fs.probed
    BY <1>1, <2>1 DEF Maintained, On
  <2>3. /\ ~ (Cardinality(fs.probed) > 1) /\ maintenanceTarget = fs.lastSeen.dev
        /\ fs.lastSeen.dev \in fs.probed
    BY <1>1, <1>3, MountAssumption DEF maintenanceTarget
  <2>4. IsFiniteSet(fs.probed) /\ Cardinality(fs.probed) \in Nat
    <3>1. fs.probed \subseteq Devices /\ IsFiniteSet(Devices)
      BY <1>1, MountAssumption DEF FsType
    <3>2. IsFiniteSet(fs.probed)
      BY <3>1, FS_Subset
    <3>3. QED
      BY <3>2, FS_CardinalityType
  <2>5. Cardinality(fs.probed \ {d}) = 0
    <3>1. /\ IsFiniteSet(fs.probed \ {d})
          /\ Cardinality(fs.probed \ {d}) = Cardinality(fs.probed) - 1
      BY <2>2, <2>4, FS_RemoveElement
    <3>2. Cardinality(fs.probed \ {d}) \in Nat
      BY <3>1, FS_CardinalityType
    <3>3. QED
      BY <2>3, <2>4, <3>1, <3>2
  <2>6. fs.probed \ {d} = {}
    BY <2>4, <2>5, FS_EmptySet, FS_RemoveElement
  <2>7. QED
    BY <2>3, <2>6
<1>4. QED
  BY <1>2, <1>3

LEMMA FormatCall ==
  ASSUME MountInv, Windows \cap Meeting = {}, NEW t \in Tasks, NEW d \in Devices, startFormat(t, d)
  PROVE  MountInv'
<1> DEFINE c == [About(d, "take") EXCEPT !.dev = maintenanceTarget, !.then = "fopen"]
           hs == On(d, {"loaded"})
<1>1. /\ Maintained(d) /\ \A e \in Devices : media[e].id < MaxFormats
      /\ d \in shells => fs.bridge = None
      /\ \A u \in Tasks : task[u].then \notin {"open"} \cup Closing
      /\ maintenanceTarget \in Devices /\ Call(t, c)
      /\ vols' = [h \in Handles |-> IF h \in hs THEN "leaving" ELSE vols[h]]
      /\ UNCHANGED <<media, keys, handle, slot, fs, shells, exec, said>>
  BY DEF startFormat, Apart, Meeting, Writable
<1>2. maintenanceTarget = d
  BY <1>1, TargetIs
<1>3. c \in TaskType /\ c.pc = "take" /\ c.then = "fopen" /\ c.dev = d /\ c.want = d
  <2>1. About(d, "take") \in TaskType /\ About(d, "take").pc = "take" /\ About(d, "take").want = d
    BY AboutIs DEF Points
  <2>2. QED
    BY <1>2, <2>1 DEF TaskType, Ends
<1> HIDE DEF c
<1>4. Shaped(c)
  BY <1>3 DEF Shaped, Closing, Owning, Mounting, Formatting
<1>5. vols \in [Handles -> {"none", "loaded", "active", "leaving"}] /\ fs \in FsType
  BY DEF MountInv, ShapeInv, TypeOK
<1>6. \A h \in hs : h \in Handles /\ vols[h] = "loaded"
  BY DEF On
<1>7. fs.bridge # None => vols'[fs.bridge] = "leaving"
  BY <1>1 DEF Maintained, MountInv, ApartInv, On
<1> HIDE DEF hs
<1>8. \A h \in Handles : vols'[h] = IF h \in hs THEN "leaving" ELSE vols[h]
  BY <1>1
<1>9. vols' \in [Handles -> {"none", "loaded", "active", "leaving"}]
  BY <1>1, <1>5
<1>10. QED
  BY <1>1, <1>3, <1>4, <1>6, <1>7, <1>8, <1>9, CloseCall DEF Closing

LEMMA ActivateStep ==
  ASSUME MountInv, NEW h \in Handles, activate(h)
  PROVE  MountInv'
<1>1. /\ ShapeInv /\ TypeOK /\ HandleInv /\ ApartInv /\ FormatInv
      /\ vols \in [Handles -> {"none", "loaded", "active", "leaving"}]
  BY DEF MountInv, ShapeInv, TypeOK
<1>2. /\ vols[h] = "loaded" /\ vols' = [vols EXCEPT ![h] = "active"]
      /\ UNCHANGED <<media, keys, handle, slot, fs, shells, task, exec, said>>
  BY DEF activate
<1>3. /\ vols' \in [Handles -> {"none", "loaded", "active", "leaving"}]
      /\ \A g \in Handles : vols'[g] = IF g = h THEN "active" ELSE vols[g]
  BY <1>1, <1>2
<1>4. fs.bridge = h
  BY <1>1, <1>2 DEF ApartInv
<1>5. ShapeInv'
  BY <1>1, <1>2, <1>3 DEF ShapeInv, TypeOK, Shaped
<1>6. HandleInv'
  <2>1. \A g \in Handles : vols'[g] # "none" => vols[g] # "none"
    BY <1>2, <1>3
  <2>2. QED
    BY <1>1, <1>2, <2>1 DEF HandleInv, Owner
<1>7. ApartInv'
  <2>1. \A g \in Handles : /\ vols'[g] = "leaving" => vols[g] = "leaving"
                           /\ vols'[g] \in {"loaded", "active"} => fs.bridge = g
    BY <1>1, <1>3, <1>4 DEF ApartInv
  <2>2. /\ \A g \in Handles : vols[g] # "leaving"
        /\ \A u \in Tasks : /\ task[u].then \notin Closing
                            /\ ~ (task[u].then = "open" /\ task[u].pc = "take")
    BY <1>1, <1>2, <1>4, MountAssumption DEF ApartInv, Opener, Closer
  <2>3. QED
    BY <1>1, <1>2, <2>1, <2>2 DEF ApartInv, Opener, Closer
<1>8. FormatInv'
  BY <1>1, <1>2 DEF FormatInv
<1>9. QED
  BY <1>5, <1>6, <1>7, <1>8 DEF MountInv

LEMMA ShapedIdle == Shaped(Idle)
  BY MountAssumption DEF Shaped, Idle, TaskType, Points, Ends, Closing, Owning, Mounting, Formatting

\* A turn that the process dies in is a turn on a device, and formats nothing.
LEMMA TurnLeaves ==
  ASSUME MountInv, NEW t \in Tasks, NEW r \in Turn(t)
  PROVE  LET hd == handle[task[t].h] m == media[hd.dev] IN
         /\ task[t].h \in Handles /\ hd.dev \in Devices /\ r.m \in Medium /\ r.m.id = m.id
         /\ Untouched(m) /\ (hd.mounted => hd.id = m.id) => Untouched(r.m)
<1> DEFINE h == task[t].h
           hd == handle[h]
           m == media[hd.dev]
<1>1. /\ TypeOK /\ Shaped(task[t]) /\ task[t].ro \in BOOLEAN
      /\ task[t].pc \in {"mount", "unmount", "recover"}
  BY DEF MountInv, ShapeInv, TypeOK, TaskType, Turn, At
<1>2. /\ h \in Handles /\ hd.open /\ hd.dev \in Devices
      /\ hd.mounted <=> task[t].pc \in Mounting
  BY <1>1 DEF MountInv, HandleInv, Owner, Shaped, Owning, Mounting
<1>3. m \in Medium /\ hd \in HandleType
  BY <1>1, <1>2 DEF TypeOK
<1>4. CASE task[t].pc = "mount"
  <2>1. r \in ext4b_mount(h, task[t].ro)
    BY <1>4 DEF Turn, At
  <2>2. MountOutcome(h, r)
    BY <1>1, <1>2, <2>1, MountResult
  <2>3. QED
    BY <1>2, <2>2 DEF MountOutcome
<1>5. CASE task[t].pc = "unmount"
  <2>1. r \in ext4b_unmount(h) /\ hd.mounted
    BY <1>2, <1>5 DEF Turn, At, Mounting
  <2>2. UnmountOutcome(hd, m, r)
    BY <1>3, <2>1, UnmountResult DEF ext4b_unmount
  <2>3. QED
    BY <1>2, <2>1, <2>2 DEF UnmountOutcome
<1>6. CASE task[t].pc = "recover"
  <2>1. r \in ext4b_journal_recover(h) /\ ~ hd.mounted
    BY <1>2, <1>6 DEF Turn, At, Mounting
  <2>2. QED
    BY <1>1, <1>2, <2>1, RecoverResult
<1>7. QED
  BY <1>1, <1>4, <1>5, <1>6

LEMMA CrashMedia ==
  ASSUME MountInv, Crash
  PROVE  /\ media' \in [Devices -> Medium]
         /\ \A d \in Devices : media'[d].id = media[d].id
         /\ (\A d \in Devices : Untouched(media[d])) /\
            (\A h \in Handles : handle[h].mounted => handle[h].id = media[handle[h].dev].id) =>
               \A d \in Devices : Untouched(media'[d])
<1>1. media \in [Devices -> Medium]
  BY DEF MountInv, ShapeInv, TypeOK
<1>2. CASE media' = media
  BY <1>1, <1>2
<1>3. CASE media' # media
  <2>0. PICK t \in Tasks : \E r \in Turn(t) : media' = [media EXCEPT ![handle[task[t].h].dev] = r.m]
    BY <1>3 DEF Crash
  <2>1. PICK r \in Turn(t) : media' = [media EXCEPT ![handle[task[t].h].dev] = r.m]
    BY <2>0
  <2> DEFINE d == handle[task[t].h].dev
  <2>2. /\ task[t].h \in Handles /\ d \in Devices /\ r.m \in Medium /\ r.m.id = media[d].id
        /\ Untouched(media[d])
           /\ (handle[task[t].h].mounted => handle[task[t].h].id = media[d].id) => Untouched(r.m)
    BY TurnLeaves
  <2>3. media'[d] = r.m /\ \A e \in Devices \ {d} : media'[e] = media[e]
    BY <1>1, <2>1, <2>2
  <2>4. media' \in [Devices -> Medium]
    BY <1>1, <2>1, <2>2
  <2>5. QED
    BY <2>2, <2>3, <2>4
<1>4. QED
  BY <1>2, <1>3

LEMMA CrashStep ==
  ASSUME MountInv, Crash
  PROVE  MountInv'
<1>1. /\ media' \in [Devices -> Medium] /\ keys \in [Devices -> KeyStates]
  BY CrashMedia DEF MountInv, ShapeInv, TypeOK
<1>2. /\ handle' = [h \in Handles |-> NoHandle] /\ slot' = None /\ exec' = None
      /\ fs' = [bridge |-> None, lastSeen |-> NothingSeen, probed |-> {}]
      /\ vols' = [h \in Handles |-> "none"] /\ shells' = {} /\ task' = [u \in Tasks |-> Idle]
      /\ said' = [d \in Devices |-> "nothing"] /\ UNCHANGED keys
  BY DEF Crash
<1>3. /\ fs' \in FsType /\ fs'.bridge = None /\ fs'.lastSeen.dev = None
  BY <1>2 DEF FsType, NothingSeen
<1>4. /\ Shaped(Idle) /\ Idle \in TaskType /\ Idle.pc = "idle" /\ Idle.then = "idle"
  BY ShapedIdle DEF Idle, Shaped
<1>5. \A u \in Tasks : task'[u] = Idle
  BY <1>2
<1>6. \A h \in Handles : ~ handle'[h].open /\ ~ handle'[h].mounted /\ vols'[h] = "none"
  BY <1>2, NoHandleIs
<1>7. ShapeInv'
  <2>1. task' \in [Tasks -> TaskType] /\ handle' \in [Handles -> HandleType]
    BY <1>2, <1>4, NoHandleIs
  <2>2. TypeOK'
    BY <1>1, <1>2, <1>3, <2>1 DEF TypeOK
  <2>3. QED
    BY <1>4, <1>5, <2>2 DEF ShapeInv, Shaped
<1>8. HandleInv'
  BY <1>2, <1>3, <1>4, <1>5, <1>6 DEF HandleInv, Owner, Owning, Mounting, Formatting
<1>9. ApartInv'
  BY <1>3, <1>4, <1>5, <1>6 DEF ApartInv, Opener, Closer, Closing
<1>10. FormatInv'
  BY <1>2, <1>3, <1>4, <1>5 DEF FormatInv
<1>11. QED
  BY <1>7, <1>8, <1>9, <1>10 DEF MountInv

LEMMA MountInit ==
  ASSUME Init
  PROVE  MountInv
<1>1. /\ handle = [h \in Handles |-> NoHandle] /\ slot = None /\ exec = None
      /\ fs = [bridge |-> None, lastSeen |-> NothingSeen, probed |-> {}]
      /\ vols = [h \in Handles |-> "none"] /\ shells = {} /\ task = [u \in Tasks |-> Idle]
      /\ said = [d \in Devices |-> "nothing"]
  BY DEF Init
<1>2. /\ media \in [Devices -> Medium] /\ keys \in [Devices -> KeyStates]
  BY MountAssumption DEF Init
<1>3. /\ fs \in FsType /\ fs.bridge = None /\ fs.lastSeen.dev = None
  BY <1>1 DEF FsType, NothingSeen
<1>4. /\ Shaped(Idle) /\ Idle \in TaskType /\ Idle.pc = "idle" /\ Idle.then = "idle"
  BY ShapedIdle DEF Idle, Shaped
<1>5. \A u \in Tasks : task[u] = Idle
  BY <1>1
<1>6. \A h \in Handles : ~ handle[h].open /\ ~ handle[h].mounted /\ vols[h] = "none"
  BY <1>1, NoHandleIs
<1>7. ShapeInv
  <2>1. task \in [Tasks -> TaskType] /\ handle \in [Handles -> HandleType]
    BY <1>1, <1>4, NoHandleIs
  <2>2. TypeOK
    BY <1>1, <1>2, <1>3, <2>1 DEF TypeOK
  <2>3. QED
    BY <1>4, <1>5, <2>2 DEF ShapeInv
<1>8. HandleInv
  BY <1>1, <1>3, <1>4, <1>5, <1>6 DEF HandleInv, Owner, Owning, Mounting, Formatting
<1>9. ApartInv
  BY <1>3, <1>4, <1>5, <1>6 DEF ApartInv, Opener, Closer, Closing
<1>10. FormatInv
  BY <1>1, <1>3, <1>4, <1>5 DEF FormatInv
<1>11. QED
  BY <1>7, <1>8, <1>9, <1>10 DEF MountInv

LEMMA MountNext ==
  ASSUME MountInv, Windows \cap Meeting = {}, [Next]_vars
  PROVE  MountInv'
<1>1. ASSUME NEW t \in Tasks, Step(t) PROVE MountInv'
  BY <1>1, QuietSteps, OpenSteps, OwnedSteps, MediumSteps, WipeStep, InstallStep, TakeStep,
     DestroyStep, DropSteps DEF Step
<1>2. ASSUME NEW t \in Tasks, Calls(t) PROVE MountInv'
  BY <1>2, QuietCalls, LoadCall, UnloadCall, FormatCall, LeaveCalls DEF Calls
<1>3. CASE UNCHANGED vars
  BY <1>3 DEF vars, MountInv, ShapeInv, TypeOK, Shaped, HandleInv, Owner, ApartInv, Opener, Closer, FormatInv
<1>4. QED
  BY <1>1, <1>2, <1>3, ActivateStep, CrashStep DEF Next

\* Whatever calls come in, in whatever order they are served and whatever fails, a mounted device
\* has the slot and somebody who will close it, and a volume in use is the one that is mounted:
\* loadResource and closeVolume lose no mount and close none that FSKit still uses.
THEOREM MountsAlwaysHeld ==
  ASSUME Windows \cap Meeting = {}
  PROVE  Spec => []MountsHeld
<1>1. Init => MountInv
  BY MountInit
<1>2. MountInv /\ [Next]_vars => MountInv'
  BY MountNext
<1>3. MountInv => MountsHeld
  <2> SUFFICES ASSUME MountInv PROVE MountsHeld
    OBVIOUS
  <2>1. TypeOK
    BY DEF MountInv, ShapeInv
  <2>2. MountsOwned
    BY DEF MountInv, HandleInv, MountsOwned, Mounting
  <2>3. ActiveIsMounted
    BY MountAssumption DEF MountInv, ApartInv, HandleInv, ActiveIsMounted
  <2>4. QED
    BY <2>1, <2>2, <2>3 DEF MountsHeld
<1>4. QED
  BY <1>1, <1>2, <1>3, PTL DEF Spec

-----------------------------------------------------------------------------
(* The executor, and the pointers that are read on it.                     *)

\* The points at which the executor is held or a pointer is kept.
Touchy == {"use", "super", "build", "flush", "op", "stat", "mount", "recover"}

LEMMA KeepExec ==
  ASSUME MountInv, MountInv', ExecInv, NEW t \in Tasks, Others(t), exec' = exec \/ exec \in {None, t},
         \A g \in Handles : handle[g].mounted => handle'[g].mounted \/ exec = None,
         \A g \in Handles : handle[g].open =>
            handle'[g].open \/ \A u \in Tasks : task[u].pc = "stat" => task[u].h # g,
         \A g \in Handles : handle'[g].open =>
            \/ handle[g].open /\ handle'[g].dev = handle[g].dev
            \/ \A u \in Tasks : task[u].h # g,
         ExecOK(t)'
  PROVE  ExecInv'
<1>1. SUFFICES ASSUME NEW u \in Tasks, u # t PROVE ExecOK(u)'
  BY DEF ExecInv
<1>2. task'[u] = task[u] /\ ExecOK(u) /\ u # None
  BY <1>1, MountAssumption DEF Others, ExecInv
<1>3. task[u].pc \in Owning \cup {"op", "use", "stat"} => task[u].h \in Handles
  BY DEF MountInv, ShapeInv, Shaped
<1>4. task[u].pc \in {"use", "super", "build", "flush"} => exec' = u
  BY <1>1, <1>2 DEF ExecOK
<1>5. task[u].pc = "use" => handle'[task[u].h].mounted
  BY <1>2, <1>3 DEF ExecOK
<1>6. task[u].pc = "stat" => handle'[task[u].h].open
  BY <1>2, <1>3 DEF ExecOK
<1>7. task[u].pc \in {"op", "use"} /\ task[u].then = "idle" /\ handle'[task[u].h].open =>
        handle'[task[u].h].dev = task[u].dev
  BY <1>2, <1>3 DEF ExecOK
<1>8. task[u].pc \in {"mount", "recover"} => handle'[task[u].h].dev = task[u].dev
  <2>1. SUFFICES ASSUME task[u].pc \in {"mount", "recover"} PROVE handle'[task[u].h].dev = task[u].dev
    OBVIOUS
  <2>2. task[u].pc \in Owning /\ task[u].h \in Handles
    BY <1>3, <2>1 DEF Owning
  <2>3. handle'[task[u].h].open
    BY <1>2, <2>2 DEF MountInv, HandleInv, Owner
  <2>4. QED
    BY <1>2, <2>1, <2>2, <2>3 DEF ExecOK
<1>9. QED
  BY <1>2, <1>4, <1>5, <1>6, <1>7, <1>8 DEF ExecOK

\* A step that leaves handles and executor alone, to a point where the call needs neither.
LEMMA PlainExec ==
  ASSUME MountInv, MountInv', ExecInv, NEW t \in Tasks, Others(t), UNCHANGED <<handle, exec>>,
         task'[t].pc \notin Touchy
  PROVE  ExecInv'
<1>1. ExecOK(t)'
  BY DEF ExecOK, Touchy
<1>2. QED
  BY <1>1, KeepExec DEF MountInv, HandleInv

LEMMA IdleIs ==
  ASSUME MountInv, NEW t \in Tasks, task' = Return(t)
  PROVE  Others(t) /\ task'[t].pc = "idle"
<1>1. Moved(t) /\ task'[t] = Idle
  BY Returning DEF MountInv
<1>2. QED
  BY <1>1 DEF Moved, Idle

LEMMA CallIs ==
  ASSUME MountInv, NEW t \in Tasks, NEW c, Call(t, c)
  PROVE  Others(t) /\ task'[t] = c
  BY DEF Call, Others, MountInv, ShapeInv, TypeOK

LEMMA ExecPlain ==
  ASSUME MountInv, MountInv', ExecInv, NEW t \in Tasks,
         \/ examine(t) \/ loadRefused(t) \/ loadInstall(t) \/ closeTake(t) \/ unmountSync(t)
         \/ unmountLeft(t) \/ statisticsRead(t) \/ check(t)
  PROVE  ExecInv'
<1>1. UNCHANGED <<handle, exec>> /\ task \in [Tasks -> TaskType]
  BY DEF examine, loadRefused, loadInstall, closeTake, unmountSync, unmountLeft, statisticsRead,
         check, MountInv, ShapeInv, TypeOK
<1>2. CASE task' = Return(t)
  BY <1>1, <1>2, IdleIs, PlainExec DEF Touchy
<1>3. CASE unmountSync(t)
  BY <1>1, <1>3, PlainExec DEF unmountSync, Goto, Others, Touchy, TaskType
<1>4. CASE closeTake(t)
  <2>1. task[t].pc = "take" /\ ShapeInv /\ task[t].h \in Handles \cup {None} /\ fs.bridge \in Handles \cup {None}
    BY <1>4 DEF closeTake, At, MountInv, ShapeInv, TypeOK, TaskType, FsType
  <2>2. CASE fs.bridge = None
    <3>1. task' = After(t, task[t].h)
      BY <1>4, <2>2 DEF closeTake
    <3>2. Others(t) /\ task'[t].pc \notin Touchy
      BY <2>1, <3>1, AfterIs DEF Moved, Touchy
    <3>3. QED
      BY <1>1, <3>2, PlainExec
  <2>3. CASE fs.bridge # None
    <3>1. task' = [task EXCEPT ![t].pc = "unmount", ![t].h = fs.bridge]
      BY <1>4, <2>3 DEF closeTake
    <3>2. Others(t) /\ task'[t].pc = "unmount"
      BY <1>1, <3>1 DEF Others, TaskType
    <3>3. QED
      BY <1>1, <3>2, PlainExec DEF Touchy
  <2>4. QED
    BY <2>2, <2>3
<1>5. CASE check(t)
  <2>1. /\ Others(t) /\ task'[t].pc \in {"op", "copen"} /\ task'[t].then = "check"
    BY <1>1, <1>5 DEF check, At, Others, TaskType, MountInv, ShapeInv, Shaped
  <2>2. ExecOK(t)'
    BY <2>1 DEF ExecOK
  <2>3. QED
    BY <1>1, <2>1, <2>2, KeepExec
<1>6. QED
  BY <1>2, <1>3, <1>4, <1>5
     DEF examine, loadRefused, loadInstall, unmountLeft, statisticsRead

LEMMA ExecCalls ==
  ASSUME MountInv, MountInv', ExecInv, NEW t \in Tasks, Calls(t)
  PROVE  ExecInv'
<1>1. UNCHANGED <<handle, exec>>
  BY DEF Calls, probeResource, loadResource, unloadResource, startFormat, startCheck, unmount,
         deactivate, operation, volumeStatistics
<1>2. ASSUME NEW c, Call(t, c), c.pc \notin Touchy PROVE ExecInv'
  BY <1>1, <1>2, CallIs, PlainExec
<1>3. \A d, p : About(d, p).pc = p /\ About(d, p).dev = d /\ About(d, p).then = "idle"
  BY DEF About, Idle
<1>4. ASSUME NEW d \in Devices, probeResource(t, d) PROVE ExecInv'
  BY <1>2, <1>3, <1>4 DEF probeResource, Touchy
<1>5. ASSUME NEW d \in Devices, loadResource(t, d) PROVE ExecInv'
  <2> DEFINE p == IF existing = None THEN "open" ELSE IF existing = d THEN "take" ELSE "busy"
             c == [About(d, p) EXCEPT !.then = "open"]
  <2>1. Call(t, c) /\ p \in {"open", "take", "busy"}
    BY <1>5 DEF loadResource
  <2> HIDE DEF p
  <2>2. c.pc = p
    BY DEF About, Idle
  <2>3. QED
    BY <1>2, <2>1, <2>2 DEF Touchy
<1>6. ASSUME NEW d \in Devices, unloadResource(t, d) PROVE ExecInv'
  <2>1. [About(d, "take") EXCEPT !.then = "unloaded"].pc = "take"
    BY DEF About, Idle
  <2>2. QED
    BY <1>2, <1>6, <2>1 DEF unloadResource, Touchy
<1>7. ASSUME NEW d \in Devices, startFormat(t, d) PROVE ExecInv'
  <2>1. [About(d, "take") EXCEPT !.dev = maintenanceTarget, !.then = "fopen"].pc = "take"
    BY DEF About, Idle
  <2>2. QED
    BY <1>2, <1>7, <2>1 DEF startFormat, Touchy
<1>8. ASSUME NEW d \in Devices, NEW readOnly \in BOOLEAN, startCheck(t, d, readOnly) PROVE ExecInv'
  <2> DEFINE c == [About(d, "check") EXCEPT !.dev = maintenanceTarget, !.then = "check",
                                       !.ro = readOnly \/ maintenanceTarget \notin Writable]
  <2>1. c.pc = "check" /\ Call(t, c)
    BY <1>8 DEF About, Idle, startCheck
  <2>2. QED
    BY <1>2, <2>1 DEF Touchy
<1>9. ASSUME NEW h \in Handles, unmount(t, h) \/ deactivate(t, h) PROVE ExecInv'
  <2>1. PICK p \in {"sync", "take"}, e \in {"left", "drop"} :
          Call(t, [About(handle[h].dev, p) EXCEPT !.h = h, !.then = e])
    BY <1>9 DEF unmount, deactivate
  <2>2. [About(handle[h].dev, p) EXCEPT !.h = h, !.then = e].pc = p
    BY DEF About, Idle
  <2>3. QED
    BY <1>2, <2>1, <2>2 DEF Touchy
<1>10. ASSUME NEW h \in Handles, operation(t, h) \/ volumeStatistics(t, h) PROVE ExecInv'
  <2>1. PICK p \in {"op", "stat"} : /\ Call(t, [About(handle[h].dev, p) EXCEPT !.h = h])
                                    /\ p = "stat" => handle[h].open
    BY <1>10 DEF operation, volumeStatistics
  <2> DEFINE c == [About(handle[h].dev, p) EXCEPT !.h = h]
  <2>2. c.pc = p /\ c.h = h /\ c.dev = handle[h].dev
    BY DEF About, Idle
  <2> HIDE DEF c
  <2>3. Others(t) /\ task'[t] = c
    BY <2>1, CallIs DEF c
  <2>4. ExecOK(t)'
    BY <1>1, <2>1, <2>2, <2>3 DEF ExecOK
  <2>5. QED
    BY <1>1, <2>3, <2>4, KeepExec
<1>11. QED
  BY <1>4, <1>5, <1>6, <1>7, <1>8, <1>9, <1>10 DEF Calls

\* A call opens a device of its own, or ends.
Opened(t) ==
  \E g \in Fresh : /\ handle'[g].open /\ ~ handle'[g].mounted /\ handle'[g].dev = task[t].dev
                   /\ \A f \in Handles \ {g} : handle'[f] = handle[f]
                   /\ task'[t].pc \in {"mount", "wipe", "recover"} /\ task'[t].h = g
                   /\ task'[t].dev = task[t].dev

LEMMA OpenIs ==
  ASSUME MountInv, NEW t \in Tasks, loadOpen(t) \/ formatOpen(t) \/ checkOpen(t)
  PROVE  /\ Others(t) /\ UNCHANGED <<media, vols, exec, said>>
         /\ (handle' = handle /\ task'[t].pc = "idle") \/ Opened(t)
         /\ task'[t].pc # "idle" => task'[t].then = task[t].then
<1> DEFINE d == task[t].dev
           enc == openEncryptedIfNeeded(d).rc = "opened"
<1>1. /\ ShapeInv /\ task \in [Tasks -> TaskType] /\ handle \in [Handles -> HandleType]
      /\ task[t] \in TaskType /\ Fresh \subseteq Handles /\ Shaped(task[t])
  BY DEF MountInv, ShapeInv, TypeOK, Fresh
<1>2. UNCHANGED <<media, vols, exec, said>> /\ task[t].pc \in {"open", "fopen", "copen"} /\ Fresh # {}
  BY DEF loadOpen, formatOpen, checkOpen, At
<1>3. d \in Devices /\ NewHandle \in Fresh /\ task[t].ro \in BOOLEAN /\ enc \in BOOLEAN
  BY <1>1, <1>2 DEF NewHandle, Shaped, TaskType
<1> HIDE DEF enc
<1>4. CASE task' = Return(t) /\ handle' = handle
  BY <1>2, <1>4, IdleIs
<1>5. ASSUME NEW b, b.open, ~ b.mounted, b.dev = d, handle' = [handle EXCEPT ![NewHandle] = b],
             NEW c, task' = [task EXCEPT ![t] = c], c.pc \in {"mount", "wipe", "recover"},
             c.h = NewHandle, c.dev = d, c.then = task[t].then
      PROVE  Others(t) /\ Opened(t) /\ task'[t].then = task[t].then
  <2>1. Others(t) /\ task'[t] = c
    BY <1>1, <1>5 DEF Others
  <2>2. handle'[NewHandle] = b /\ \A f \in Handles \ {NewHandle} : handle'[f] = handle[f]
    BY <1>1, <1>3, <1>5
  <2>3. QED
    BY <1>3, <1>5, <2>1, <2>2 DEF Opened
<1>6. CASE loadOpen(t) /\ task' # Return(t)
  <2> DEFINE ro == d \notin Writable \/ ext4b_probe(d, enc) = "limited"
             b == [Bridge(d, FALSE) EXCEPT !.enc = enc]
             c == [task[t] EXCEPT !.pc = "mount", !.h = NewHandle, !.ro = ro]
  <2>1. handle' = [handle EXCEPT ![NewHandle] = b] /\ task' = [task EXCEPT ![t] = c]
    BY <1>1, <1>6 DEF loadOpen, enc
  <2>2. b.open /\ ~ b.mounted /\ b.dev = d
    BY <1>3, BridgeIs
  <2> HIDE DEF ro, b
  <2>3. c.pc = "mount" /\ c.h = NewHandle /\ c.dev = d /\ c.then = task[t].then
    BY <1>1 DEF TaskType
  <2> HIDE DEF c
  <2>4. QED
    BY <1>2, <1>5, <2>1, <2>2, <2>3
<1>7. CASE formatOpen(t)
  <2> DEFINE b == Bridge(d, FALSE)
             c == [task[t] EXCEPT !.pc = "wipe", !.h = NewHandle]
  <2>1. handle' = [handle EXCEPT ![NewHandle] = b] /\ task' = [task EXCEPT ![t] = c]
    BY <1>1, <1>7 DEF formatOpen
  <2>2. b.open /\ ~ b.mounted /\ b.dev = d
    BY <1>3, BridgeIs
  <2> HIDE DEF b
  <2>3. c.pc = "wipe" /\ c.h = NewHandle /\ c.dev = d /\ c.then = task[t].then
    BY <1>1 DEF TaskType
  <2> HIDE DEF c
  <2>4. QED
    BY <1>2, <1>5, <2>1, <2>2, <2>3
<1>8. CASE checkOpen(t) /\ task' # Return(t)
  <2> DEFINE b == [Bridge(d, task[t].ro) EXCEPT !.enc = enc]
             c == [task[t] EXCEPT !.pc = "recover", !.h = NewHandle]
  <2>1. handle' = [handle EXCEPT ![NewHandle] = b] /\ task' = [task EXCEPT ![t] = c]
    BY <1>1, <1>8 DEF checkOpen, enc
  <2>2. b.open /\ ~ b.mounted /\ b.dev = d
    BY <1>3, BridgeIs
  <2> HIDE DEF b
  <2>3. c.pc = "recover" /\ c.h = NewHandle /\ c.dev = d /\ c.then = task[t].then
    BY <1>1 DEF TaskType
  <2> HIDE DEF c
  <2>4. QED
    BY <1>2, <1>5, <2>1, <2>2, <2>3
<1>9. (loadOpen(t) \/ checkOpen(t)) /\ task' = Return(t) => handle' = handle
  <2>1. SUFFICES ASSUME loadOpen(t) \/ checkOpen(t), task' = Return(t) PROVE handle' = handle
    OBVIOUS
  <2>2. task'[t].pc = "idle"
    BY <2>1, IdleIs
  <2>3. task' # [task EXCEPT ![t].pc = "recover", ![t].h = NewHandle]
    BY <1>1, <2>2 DEF TaskType
  <2>4. \A ro : task' # [task EXCEPT ![t].pc = "mount", ![t].h = NewHandle, ![t].ro = ro]
    BY <1>1, <2>2 DEF TaskType
  <2>5. QED
    BY <2>1, <2>3, <2>4 DEF loadOpen, checkOpen
<1>10. QED
  BY <1>2, <1>4, <1>6, <1>7, <1>8, <1>9

LEMMA ExecOpen ==
  ASSUME MountInv, MountInv', ExecInv, NEW t \in Tasks, loadOpen(t) \/ formatOpen(t) \/ checkOpen(t)
  PROVE  ExecInv'
<1>1. /\ Others(t) /\ exec' = exec
      /\ (handle' = handle /\ task'[t].pc = "idle") \/ Opened(t)
  BY OpenIs
<1>2. CASE handle' = handle /\ task'[t].pc = "idle"
  BY <1>1, <1>2, PlainExec DEF Touchy
<1>3. CASE Opened(t)
  <2>1. PICK g \in Fresh :
          /\ handle'[g].open /\ ~ handle'[g].mounted /\ handle'[g].dev = task[t].dev
          /\ \A f \in Handles \ {g} : handle'[f] = handle[f]
          /\ task'[t].pc \in {"mount", "wipe", "recover"} /\ task'[t].h = g /\ task'[t].dev = task[t].dev
    BY <1>3 DEF Opened
  <2>2. g \in Handles /\ ~ handle[g].open /\ ~ handle[g].mounted /\ \A u \in Tasks : task[u].h # g
    BY DEF Fresh, MountInv, HandleInv
  <2>3. ExecOK(t)'
    BY <2>1 DEF ExecOK
  <2>4. QED
    BY <1>1, <2>1, <2>2, <2>3, KeepExec
<1>4. QED
  BY <1>1, <1>2, <1>3

\* A turn of the executor on the handle of the call.
Turned(t, r) ==
  LET h == task[t].h d == handle[h].dev IN
  /\ Others(t) /\ exec = None /\ exec' = None /\ UNCHANGED <<fs, vols>>
  /\ h \in Handles /\ d \in Devices /\ handle[h].open /\ task[t].dev \in Devices
  /\ handle'[h] = r.h /\ \A g \in Handles \ {h} : handle'[g] = handle[g]
  /\ media'[d] = r.m /\ \A e \in Devices \ {d} : media'[e] = media[e]
  /\ r.h.open /\ r.h.dev = d /\ slot' = r.slot
  /\ task'[t].pc \in {"install", "destroy"} /\ task'[t].then \in {task[t].then, "idle"}
  /\ task'[t].dev = task[t].dev /\ said \in [Devices -> {"nothing", "closed", "failed"}]

LEMMA TurnIs ==
  ASSUME MountInv, NEW t \in Tasks, task[t].pc \in Owning, exec = None, exec' = exec,
         UNCHANGED <<fs, vols>>, NEW r, Take(task[t].h, r), r.m \in Medium, r.h \in HandleType,
         r.h.open = handle[task[t].h].open, r.h.dev = handle[task[t].h].dev,
         task' = Goto(t, "install") \/ task' = Goto(t, "destroy")
           \/ task' = [task EXCEPT ![t].pc = "destroy", ![t].then = "idle"]
  PROVE  Turned(t, r)
<1>1. /\ TypeOK /\ Shaped(task[t]) /\ task \in [Tasks -> TaskType]
      /\ said \in [Devices -> {"nothing", "closed", "failed"}]
  BY DEF MountInv, ShapeInv, TypeOK
<1>2. /\ task[t].h \in Handles /\ handle[task[t].h].open /\ handle[task[t].h].dev \in Devices
      /\ task[t].dev \in Devices
  BY <1>1 DEF MountInv, HandleInv, Owner, Shaped, Owning, Mounting, Formatting
<1>3. /\ Others(t) /\ task'[t].pc \in {"install", "destroy"} /\ task'[t].then \in {task[t].then, "idle"}
      /\ task'[t].dev = task[t].dev
  BY <1>1 DEF Goto, Others, TaskType
<1>4. /\ handle'[task[t].h] = r.h /\ \A g \in Handles \ {task[t].h} : handle'[g] = handle[g]
      /\ media'[handle[task[t].h].dev] = r.m
      /\ \A d \in Devices \ {handle[task[t].h].dev} : media'[d] = media[d]
      /\ slot' = r.slot
  BY <1>1, <1>2, TakeIs
<1>5. QED
  BY <1>1, <1>2, <1>3, <1>4 DEF Turned

LEMMA LoadTurn ==
  ASSUME MountInv, NEW t \in Tasks, loadMount(t)
  PROVE  \E r : /\ Turned(t, r) /\ MountOutcome(task[t].h, r) /\ ~ handle[task[t].h].mounted
                /\ task[t].pc = "mount" /\ task[t].then = "open"
                /\ said' = [said EXCEPT ![task[t].dev] = "nothing"]
<1>1. PICK r \in ext4b_mount(task[t].h, task[t].ro) :
        /\ Take(task[t].h, r)
        /\ task' = IF r.rc = "ok" THEN Goto(t, "install")
                   ELSE [task EXCEPT ![t].pc = "destroy", ![t].then = "idle"]
        /\ said' = [said EXCEPT ![task[t].dev] = "nothing"]
  BY DEF loadMount
<1>2. task[t].pc = "mount" /\ exec = None /\ UNCHANGED <<fs, vols, exec>>
  BY DEF loadMount, At
<1>3. /\ TypeOK /\ task[t].h \in Handles /\ handle[task[t].h].dev \in Devices /\ task[t].ro \in BOOLEAN
      /\ ~ handle[task[t].h].mounted /\ task[t].pc \in Owning /\ task[t].then = "open"
  BY <1>2 DEF MountInv, HandleInv, ShapeInv, TypeOK, TaskType, Shaped, Owner, Owning, Mounting
<1>4. MountOutcome(task[t].h, r)
  BY <1>3, MountResult
<1>5. /\ r.m \in Medium /\ r.h \in HandleType /\ r.h.open = handle[task[t].h].open
      /\ r.h.dev = handle[task[t].h].dev
  BY <1>4 DEF MountOutcome
<1>6. Turned(t, r)
  BY <1>1, <1>2, <1>3, <1>5, TurnIs
<1>7. QED
  BY <1>1, <1>2, <1>3, <1>4, <1>6

LEMMA CloseTurn ==
  ASSUME MountInv, NEW t \in Tasks, closeUnmount(t)
  PROVE  \E r : LET hd == handle[task[t].h] IN
           /\ Turned(t, r) /\ UnmountOutcome(hd, media[hd.dev], r) /\ hd.mounted /\ task[t].pc = "unmount"
           /\ said' = [said EXCEPT ![hd.dev] =
                        IF hd.ro THEN "nothing" ELSE IF r.rc = "ok" THEN "closed" ELSE "failed"]
<1> DEFINE hd == handle[task[t].h]
<1>1. PICK r \in ext4b_unmount(task[t].h) :
        /\ Take(task[t].h, r)
        /\ said' = [said EXCEPT ![hd.dev] =
                     IF hd.ro THEN "nothing" ELSE IF r.rc = "ok" THEN "closed" ELSE "failed"]
  BY DEF closeUnmount
<1>2. task[t].pc = "unmount" /\ exec = None /\ UNCHANGED <<fs, vols, exec>> /\ task' = Goto(t, "destroy")
  BY DEF closeUnmount, At
<1>3. /\ task[t].h \in Handles /\ hd.dev \in Devices /\ hd.mounted /\ task[t].pc \in Owning
      /\ hd \in HandleType /\ media[hd.dev] \in Medium
  BY <1>2 DEF MountInv, HandleInv, ShapeInv, TypeOK, Shaped, Owner, Owning, Mounting
<1>4. UnmountOutcome(hd, media[hd.dev], r)
  BY <1>1, <1>3, UnmountResult DEF ext4b_unmount
<1>5. /\ r.m \in Medium /\ r.h \in HandleType /\ r.h.open = hd.open /\ r.h.dev = hd.dev
  BY <1>4 DEF UnmountOutcome
<1>6. Turned(t, r)
  BY <1>1, <1>2, <1>3, <1>5, TurnIs
<1>7. QED
  BY <1>1, <1>2, <1>3, <1>4, <1>6

\* What recovery leaves: nothing is mounted by it, and it touches nothing while something is.
RecoverOutcome(h, r) ==
  LET m == media[handle[h].dev] IN
  /\ r.slot = slot /\ ~ r.h.mounted
  /\ r.m.id = m.id /\ r.m.whole = m.whole /\ (Untouched(m) => Untouched(r.m))
  /\ r.m.kind \in {"ext", "limited"} => m.kind \in {"ext", "limited"}
  /\ r.m # m => slot = None

LEMMA RecoverTurn ==
  ASSUME MountInv, NEW t \in Tasks, checkRecover(t)
  PROVE  \E r : /\ Turned(t, r) /\ RecoverOutcome(task[t].h, r) /\ ~ handle[task[t].h].mounted
                /\ task[t].pc = "recover" /\ said' = [said EXCEPT ![task[t].dev] = "nothing"]
<1>1. PICK r \in ext4b_journal_recover(task[t].h) : Take(task[t].h, r)
  BY DEF checkRecover
<1>2. /\ task[t].pc = "recover" /\ exec = None /\ UNCHANGED <<fs, vols, exec>>
      /\ task' = [task EXCEPT ![t].pc = "destroy", ![t].then = "idle"]
      /\ said' = [said EXCEPT ![task[t].dev] = "nothing"]
  BY DEF checkRecover, At
<1>3. /\ TypeOK /\ task[t].h \in Handles /\ handle[task[t].h].dev \in Devices
      /\ ~ handle[task[t].h].mounted /\ task[t].pc \in Owning
  BY <1>2 DEF MountInv, HandleInv, ShapeInv, Shaped, Owner, Owning, Mounting
<1>4. /\ r.m \in Medium /\ r.h \in HandleType /\ RecoverOutcome(task[t].h, r)
      /\ r.h.dev = handle[task[t].h].dev /\ r.h.open = handle[task[t].h].open
  BY <1>3, RecoverResult DEF RecoverOutcome
<1>5. Turned(t, r)
  BY <1>1, <1>2, <1>3, <1>4, TurnIs
<1>6. QED
  BY <1>2, <1>3, <1>4, <1>5

LEMMA ExecTurns ==
  ASSUME MountInv, MountInv', ExecInv, NEW t \in Tasks, loadMount(t) \/ closeUnmount(t) \/ checkRecover(t)
  PROVE  ExecInv'
<1>1. PICK r : Turned(t, r)
  BY LoadTurn, CloseTurn, RecoverTurn
<1>2. /\ Others(t) /\ exec = None /\ exec' = exec /\ task'[t].pc \in {"install", "destroy"}
      /\ \A g \in Handles : /\ handle[g].open => handle'[g].open
                            /\ handle'[g].open => handle[g].open /\ handle'[g].dev = handle[g].dev
  BY <1>1 DEF Turned
<1>3. ExecOK(t)'
  BY <1>2 DEF ExecOK
<1>4. QED
  BY <1>2, <1>3, KeepExec

\* Nobody uses what is forgotten.
LEMMA ForgetIs ==
  ASSUME MountInv, NEW t \in Tasks, closeDestroy(t) \/ deactivateDrop(t) \/ unloadDone(t)
  PROVE  /\ Others(t) /\ UNCHANGED <<media, exec, said>>
         /\ task'[t].pc \in {"idle", "open", "drop", "unloaded", "left", "fopen"}
         /\ task'[t].then # "idle" => task'[t].then = task[t].then /\ task'[t].dev = task[t].dev
         /\ \A g \in Handles : /\ ~ handle[g].mounted \/ handle'[g] = handle[g]
                               /\ handle'[g].open => handle'[g] = handle[g]
                               /\ "statfs" \notin Windows /\ handle[g].open =>
                                    \/ handle'[g] = handle[g]
                                    \/ \A u \in Tasks : task[u].pc = "stat" => task[u].h # g
<1>1. /\ ShapeInv /\ HandleInv /\ handle \in [Handles -> HandleType] /\ Shaped(task[t])
  BY DEF MountInv, ShapeInv, TypeOK
<1>2. CASE closeDestroy(t)
  <2> DEFINE h == task[t].h
             n == [NoHandle EXCEPT !.dev = IF vols[h] = "none" THEN None ELSE handle[h].dev]
  <2>1. /\ task[t].pc = "destroy" /\ task' = After(t, None) /\ handle' = [handle EXCEPT ![h] = n]
        /\ UNCHANGED <<media, exec, said>>
        /\ "statfs" \notin Windows => \A u \in Tasks : task[u].pc = "stat" => task[u].h # h
    BY <1>2 DEF closeDestroy, At, Closed
  <2>2. h \in Handles /\ ~ handle[h].mounted
    BY <1>1, <2>1 DEF HandleInv, Shaped, Owner, Owning, Mounting
  <2>3. ~ n.open
    BY DEF NoHandle
  <2> HIDE DEF n
  <2>4. \A g \in Handles : handle'[g] = IF g = h THEN n ELSE handle[g]
    BY <1>1, <2>1
  <2>5. /\ Others(t) /\ task'[t].pc \in {"idle", "open", "drop", "unloaded", "left", "fopen"}
        /\ task'[t].then # "idle" => task'[t].then = task[t].then /\ task'[t].dev = task[t].dev
    BY <1>1, <2>1, AfterIs DEF Moved
  <2>6. QED
    BY <2>1, <2>2, <2>3, <2>4, <2>5
<1>3. CASE deactivateDrop(t) \/ unloadDone(t)
  <2> DEFINE hs == On(task[t].dev, {"leaving"})
  <2>1. task' = Return(t) /\ Dropped(hs) /\ UNCHANGED <<media, exec, said>>
    BY <1>3 DEF deactivateDrop, unloadDone
  <2> HIDE DEF hs
  <2>2. \A g \in Handles : handle'[g] = IF g \in hs /\ ~handle[g].open THEN NoHandle ELSE handle[g]
    BY <2>1 DEF Dropped
  <2>3. Others(t) /\ task'[t].pc = "idle" /\ task'[t].then = "idle"
    <3>1. Moved(t) /\ task'[t] = Idle
      BY <1>1, <2>1, Returning
    <3>2. QED
      BY <3>1 DEF Moved, Idle
  <2>4. \A g \in Handles : handle[g].mounted => handle[g].open
    BY <1>1 DEF HandleInv
  <2>5. QED
    BY <2>1, <2>2, <2>3, <2>4, NoHandleIs
<1>4. QED
  BY <1>2, <1>3

LEMMA ExecForget ==
  ASSUME MountInv, MountInv', ExecInv, "statfs" \notin Windows, NEW t \in Tasks,
         closeDestroy(t) \/ deactivateDrop(t) \/ unloadDone(t)
  PROVE  ExecInv'
<1>1. /\ Others(t) /\ exec' = exec /\ task'[t].pc \in {"idle", "open", "drop", "unloaded", "left", "fopen"}
      /\ \A g \in Handles : /\ ~ handle[g].mounted \/ handle'[g] = handle[g]
                            /\ handle'[g].open => handle'[g] = handle[g]
                            /\ handle[g].open =>
                                 \/ handle'[g] = handle[g]
                                 \/ \A u \in Tasks : task[u].pc = "stat" => task[u].h # g
  BY ForgetIs
<1>2. ExecOK(t)'
  BY <1>1 DEF ExecOK
<1>3. \A g \in Handles : handle'[g].open => handle[g].open /\ handle'[g].dev = handle[g].dev
  BY <1>1
<1>4. QED
  BY <1>1, <1>2, <1>3, KeepExec

LEMMA ExecFormat ==
  ASSUME MountInv, MountInv', ExecInv, NEW t \in Tasks,
         formatWipe(t) \/ formatSuper(t) \/ formatBuild(t) \/ formatFlush(t)
  PROVE  ExecInv'
<1>1. task \in [Tasks -> TaskType] /\ handle' = handle
  BY DEF MountInv, ShapeInv, TypeOK, formatWipe, formatSuper, formatBuild, formatFlush
<1>2. CASE formatWipe(t)
  <2>1. Others(t) /\ exec = None /\ exec' = t /\ task'[t].pc = "super"
    BY <1>1, <1>2 DEF formatWipe, Goto, Others, TaskType
  <2>2. ExecOK(t)'
    BY <2>1 DEF ExecOK
  <2>3. QED
    BY <1>1, <2>1, <2>2, KeepExec
<1>3. CASE formatSuper(t) \/ formatBuild(t) \/ formatFlush(t)
  <2>1. exec = t
    BY <1>3 DEF ExecInv, ExecOK, formatSuper, formatBuild, formatFlush, At
  <2>2. \/ exec' = exec /\ task' \in {Goto(t, "build"), Goto(t, "flush")}
        \/ exec' = None /\ task' = [task EXCEPT ![t].pc = "destroy", ![t].then = "idle"]
    BY <1>3 DEF formatSuper, formatBuild, formatFlush
  <2>3. Others(t) /\ task'[t].pc \in {"build", "flush", "destroy"} /\ (task'[t].pc # "destroy" => exec' = t)
    BY <1>1, <2>1, <2>2 DEF Goto, Others, TaskType
  <2>4. ExecOK(t)'
    BY <2>3 DEF ExecOK
  <2>5. \A g \in Handles : handle[g].mounted => handle'[g].mounted
    BY <1>1
  <2>6. QED
    BY <1>1, <2>1, <2>3, <2>4, <2>5, KeepExec
<1>4. QED
  BY <1>2, <1>3

LEMMA ExecOperation ==
  ASSUME MountInv, MountInv', ExecInv, "late" \notin Windows, NEW t \in Tasks,
         operationEnter(t) \/ operationUse(t)
  PROVE  ExecInv'
<1>1. task \in [Tasks -> TaskType] /\ handle' = handle
  BY DEF MountInv, ShapeInv, TypeOK, operationEnter, operationUse
<1>2. CASE operationEnter(t) /\ handle[task[t].h].open
  <2>1. /\ task[t].pc = "op" /\ exec = None /\ exec' = t /\ task' = Goto(t, "use")
        /\ handle[task[t].h].mounted
    BY <1>2 DEF operationEnter, At
  <2>2. /\ Others(t) /\ task'[t].pc = "use" /\ task'[t].h = task[t].h /\ task'[t].dev = task[t].dev
        /\ task'[t].then = task[t].then
    BY <1>1, <2>1 DEF Goto, Others, TaskType
  <2>3. ExecOK(t)'
    BY <1>1, <2>1, <2>2 DEF ExecOK, ExecInv
  <2>4. QED
    BY <1>1, <2>1, <2>2, <2>3, KeepExec
<1>3. CASE operationEnter(t) /\ ~ handle[task[t].h].open
  <2>1. exec' = exec /\ task' = Return(t)
    BY <1>3 DEF operationEnter
  <2>2. QED
    BY <1>1, <2>1, IdleIs, PlainExec DEF Touchy
<1>4. CASE operationUse(t)
  <2>1. exec = t /\ exec' = None /\ task' = Return(t)
    BY <1>4 DEF ExecInv, ExecOK, operationUse, At
  <2>2. Others(t) /\ task'[t].pc = "idle"
    BY <2>1, IdleIs
  <2>3. ExecOK(t)'
    BY <2>2 DEF ExecOK
  <2>4. QED
    BY <1>1, <2>1, <2>2, <2>3, KeepExec
<1>5. QED
  BY <1>2, <1>3, <1>4

\* Nothing is used late.
Late == {"late", "statfs"}

LEMMA ExecNext ==
  ASSUME MountInv, MountInv', ExecInv, Windows \cap Late = {}, [Next]_vars
  PROVE  ExecInv'
<1>1. "late" \notin Windows /\ "statfs" \notin Windows
  BY DEF Late
<1>2. ASSUME NEW t \in Tasks, Step(t) PROVE ExecInv'
  BY <1>1, <1>2, ExecPlain, ExecOpen, ExecTurns, ExecForget, ExecFormat, ExecOperation DEF Step
<1>3. ASSUME NEW h \in Handles, activate(h) PROVE ExecInv'
  BY <1>3 DEF activate, ExecInv, ExecOK
<1>4. CASE Crash
  <2>1. \A u \in Tasks : task'[u].pc = "idle"
    BY <1>4 DEF Crash, Idle
  <2>2. QED
    BY <2>1 DEF ExecInv, ExecOK
<1>5. CASE UNCHANGED vars
  BY <1>5 DEF vars, ExecInv, ExecOK
<1>6. QED
  BY <1>2, <1>3, <1>4, <1>5, ExecCalls DEF Next

LEMMA ExecInit ==
  ASSUME Init
  PROVE  ExecInv
<1>1. \A u \in Tasks : task[u].pc = "idle"
  BY DEF Init, Idle
<1>2. QED
  BY <1>1 DEF ExecInv, ExecOK

\* No call uses a device that another call has destroyed, and a format wipes the device FSKit
\* named, although startFormat is not told which it is and maintenanceTarget has to guess.
THEOREM DevicesAlwaysRight ==
  ASSUME Windows \cap (Meeting \cup Late) = {}
  PROVE  Spec => []DevicesRight
<1>1. Init => MountInv /\ ExecInv
  BY MountInit, ExecInit
<1>2. MountInv /\ ExecInv /\ [Next]_vars => MountInv' /\ ExecInv'
  BY MountNext, ExecNext
<1>3. MountInv /\ ExecInv => DevicesRight
  <2> SUFFICES ASSUME MountInv, ExecInv PROVE DevicesRight
    OBVIOUS
  <2>1. PointersLive
    BY DEF MountInv, ShapeInv, Shaped, HandleInv, ExecInv, ExecOK, PointersLive
  <2>2. FormatsWhatWasAsked
    BY DEF MountInv, ShapeInv, Shaped, FormatInv, FormatsWhatWasAsked, Formatting
  <2>3. QED
    BY <2>1, <2>2 DEF DevicesRight
<1>4. QED
  BY <1>1, <1>2, <1>3, PTL DEF Spec

-----------------------------------------------------------------------------
(* What is on the medium.                                                  *)

DataInv == MediaInv /\ WholeInv /\ HonestClose

\* A step that touches no medium, and no handle that is mounted.
LEMMA KeepData ==
  ASSUME MountInv, MountInv', DataInv, NEW t \in Tasks, Others(t), UNCHANGED <<media, said>>,
         \A g \in Handles : handle'[g].mounted => handle'[g] = handle[g],
         task'[t].then = "open" => task[t].then = "open" /\ task'[t].dev = task[t].dev
  PROVE  DataInv'
<1>1. \A g \in Handles : handle'[g].mounted => Settled(g)' /\ media'[handle'[g].dev].whole
  BY DEF DataInv, MediaInv, WholeInv, Settled
<1>2. \A u \in Tasks : task'[u].then = "open" => task[u].then = "open" /\ task'[u].dev = task[u].dev
  BY DEF Others
<1>3. WholeInv'
  BY <1>1, <1>2 DEF DataInv, WholeInv, Opener
<1>4. QED
  BY <1>1, <1>3 DEF DataInv, MediaInv, HonestClose, Untouched

LEMMA DataPlain ==
  ASSUME MountInv, MountInv', DataInv, NEW t \in Tasks,
         \/ examine(t) \/ loadRefused(t) \/ loadInstall(t) \/ closeTake(t) \/ unmountSync(t)
         \/ unmountLeft(t) \/ check(t) \/ operationEnter(t) \/ statisticsRead(t)
  PROVE  DataInv'
<1>1. UNCHANGED <<media, handle, said>> /\ task \in [Tasks -> TaskType]
  BY DEF examine, loadRefused, loadInstall, closeTake, unmountSync, unmountLeft, check,
         operationEnter, statisticsRead, MountInv, ShapeInv, TypeOK
<1>2. Others(t) /\ (task'[t].then = "open" => task[t].then = "open" /\ task'[t].dev = task[t].dev)
  <2>1. CASE task' = Return(t)
    BY <1>1, <2>1 DEF Return, Others, Idle
  <2>2. CASE \E p, h : task' = [task EXCEPT ![t].pc = p, ![t].h = h]
    BY <1>1, <2>2 DEF Others, TaskType
  <2>3. CASE \E p : task' = Goto(t, p)
    BY <1>1, <2>3 DEF Goto, Others, TaskType
  <2>4. QED
    BY <2>1, <2>2, <2>3 DEF examine, loadRefused, loadInstall, closeTake, After, unmountSync,
       unmountLeft, check, operationEnter, statisticsRead
<1>3. QED
  BY <1>1, <1>2, KeepData

LEMMA DataHandles ==
  ASSUME MountInv, MountInv', DataInv, NEW t \in Tasks,
         \/ loadOpen(t) \/ formatOpen(t) \/ checkOpen(t)
         \/ closeDestroy(t) \/ deactivateDrop(t) \/ unloadDone(t)
  PROVE  DataInv'
<1>1. CASE loadOpen(t) \/ formatOpen(t) \/ checkOpen(t)
  <2>1. /\ Others(t) /\ UNCHANGED <<media, said>>
        /\ (handle' = handle /\ task'[t].pc = "idle") \/ Opened(t)
        /\ task'[t].pc # "idle" => task'[t].then = task[t].then
    BY <1>1, OpenIs
  <2>2. CASE handle' = handle /\ task'[t].pc = "idle"
    <3>1. task'[t].then = "idle"
      BY <2>2 DEF MountInv, ShapeInv, Shaped
    <3>2. QED
      BY <2>1, <2>2, <3>1, KeepData
  <2>3. CASE Opened(t)
    <3>1. /\ \A g \in Handles : handle'[g].mounted => handle'[g] = handle[g]
          /\ task'[t].dev = task[t].dev /\ task'[t].pc # "idle"
      BY <2>3 DEF Opened
    <3>2. QED
      BY <2>1, <3>1, KeepData
  <2>4. QED
    BY <2>1, <2>2, <2>3
<1>2. CASE closeDestroy(t) \/ deactivateDrop(t) \/ unloadDone(t)
  <2>1. /\ Others(t) /\ UNCHANGED <<media, said>>
        /\ task'[t].then # "idle" => task'[t].then = task[t].then /\ task'[t].dev = task[t].dev
        /\ \A g \in Handles : handle'[g].open => handle'[g] = handle[g]
    BY <1>2, ForgetIs
  <2>2. \A g \in Handles : handle'[g].mounted => handle'[g] = handle[g]
    BY <2>1 DEF MountInv, HandleInv
  <2>3. QED
    BY <2>1, <2>2, KeepData
<1>3. QED
  BY <1>1, <1>2

\* Only a load can meet a medium that is not whole, and it is refused there.
LEMMA DataCalls ==
  ASSUME MountInv, MountInv', DataInv, "torn" \notin Windows, NEW t \in Tasks, Calls(t)
  PROVE  DataInv'
<1>1. UNCHANGED <<media, handle, said>>
  BY DEF Calls, probeResource, loadResource, unloadResource, startFormat, startCheck, unmount,
         deactivate, operation, volumeStatistics
<1>2. ASSUME NEW c, Call(t, c), c.then # "open" PROVE DataInv'
  BY <1>1, <1>2, CallIs, KeepData
<1>3. ASSUME NEW d \in Devices, probeResource(t, d) PROVE DataInv'
  <2>1. About(d, "examine").then = "idle"
    BY DEF About, Idle
  <2>2. QED
    BY <1>2, <1>3, <2>1 DEF probeResource
<1>4. ASSUME NEW d \in Devices, loadResource(t, d) PROVE DataInv'
  <2> DEFINE p == IF existing = None THEN "open" ELSE IF existing = d THEN "take" ELSE "busy"
             c == [About(d, p) EXCEPT !.then = "open"]
  <2>1. Call(t, c) /\ (media[d].kind = "ext" => media[d].whole)
    BY <1>4 DEF loadResource
  <2> HIDE DEF p
  <2>2. c.then = "open" /\ c.dev = d
    BY DEF About, Idle
  <2> HIDE DEF c
  <2>3. Others(t) /\ task'[t] = c
    BY <2>1, CallIs
  <2>4. media[d].kind \in {"ext", "limited"} => media[d].whole
    BY <2>1 DEF DataInv, MediaInv, Untouched
  <2>5. \A u \in Tasks : task'[u].then = "open" /\ media'[task'[u].dev].kind \in {"ext", "limited"} =>
          media'[task'[u].dev].whole
    BY <1>1, <2>2, <2>3, <2>4 DEF DataInv, WholeInv, Opener, Others
  <2>6. QED
    BY <1>1, <2>5 DEF DataInv, MediaInv, WholeInv, Opener, Settled, HonestClose, Untouched
<1>5. ASSUME NEW d \in Devices, unloadResource(t, d) PROVE DataInv'
  <2>1. [About(d, "take") EXCEPT !.then = "unloaded"].then = "unloaded"
    BY DEF About, Idle
  <2>2. QED
    BY <1>2, <1>5, <2>1 DEF unloadResource
<1>6. ASSUME NEW d \in Devices, startFormat(t, d) PROVE DataInv'
  <2>1. [About(d, "take") EXCEPT !.dev = maintenanceTarget, !.then = "fopen"].then = "fopen"
    BY DEF About, Idle
  <2>2. QED
    BY <1>2, <1>6, <2>1 DEF startFormat
<1>7. ASSUME NEW d \in Devices, NEW readOnly \in BOOLEAN, startCheck(t, d, readOnly) PROVE DataInv'
  <2> DEFINE c == [About(d, "check") EXCEPT !.dev = maintenanceTarget, !.then = "check",
                                       !.ro = readOnly \/ maintenanceTarget \notin Writable]
  <2>1. c.then = "check" /\ Call(t, c)
    BY <1>7 DEF About, Idle, startCheck
  <2>2. QED
    BY <1>2, <2>1
<1>8. ASSUME NEW h \in Handles, unmount(t, h) \/ deactivate(t, h) PROVE DataInv'
  <2>1. PICK p \in {"sync", "take"}, e \in {"left", "drop"} :
          Call(t, [About(handle[h].dev, p) EXCEPT !.h = h, !.then = e])
    BY <1>8 DEF unmount, deactivate
  <2>2. [About(handle[h].dev, p) EXCEPT !.h = h, !.then = e].then = e
    BY DEF About, Idle
  <2>3. QED
    BY <1>2, <2>1, <2>2
<1>9. ASSUME NEW h \in Handles, operation(t, h) \/ volumeStatistics(t, h) PROVE DataInv'
  <2>1. PICK p \in {"op", "stat"} : Call(t, [About(handle[h].dev, p) EXCEPT !.h = h])
    BY <1>9 DEF operation, volumeStatistics
  <2>2. [About(handle[h].dev, p) EXCEPT !.h = h].then = "idle"
    BY DEF About, Idle
  <2>3. QED
    BY <1>2, <2>1, <2>2
<1>10. QED
  BY <1>3, <1>4, <1>5, <1>6, <1>7, <1>8, <1>9 DEF Calls

\* A mount sees what is whole, and what it leaves behind it has replayed.
LEMMA DataLoad ==
  ASSUME MountInv, MountInv', ExecInv, DataInv, NEW t \in Tasks, loadMount(t)
  PROVE  DataInv'
<1> DEFINE h == task[t].h
           d == task[t].dev
           m == media[d]
<1>1. PICK r : /\ Turned(t, r) /\ MountOutcome(h, r) /\ ~ handle[h].mounted
               /\ task[t].pc = "mount" /\ task[t].then = "open"
               /\ said' = [said EXCEPT ![d] = "nothing"]
  BY LoadTurn
<1>2. handle[h].dev = d /\ h \in Handles /\ d \in Devices /\ Untouched(m)
  BY <1>1 DEF ExecInv, ExecOK, Turned, DataInv, MediaInv
<1>3. /\ media'[d] = r.m /\ \A e \in Devices \ {d} : media'[e] = media[e]
      /\ handle'[h] = r.h /\ r.h.dev = d /\ \A g \in Handles \ {h} : handle'[g] = handle[g]
  BY <1>1, <1>2 DEF Turned
<1>4. /\ r.m.id = m.id /\ r.m.whole = m.whole /\ Untouched(r.m)
      /\ r.m.kind \in {"ext", "limited"} => m.kind \in {"ext", "limited"}
      /\ r.m # m => slot = None
      /\ r.rc # "ok" => r.h = handle[h]
      /\ r.rc = "ok" => /\ r.h.id = m.id /\ m.kind \in {"ext", "limited"}
                        /\ ~ r.h.ro => /\ r.m.kind = "ext" /\ r.h.journal = r.m.recover
                                       /\ r.h.over \in AtHome
  BY <1>1, <1>2 DEF MountOutcome
<1>5. \A e \in Devices : Untouched(media'[e])
  BY <1>3, <1>4 DEF DataInv, MediaInv
<1>6. ASSUME NEW g \in Handles, handle'[g].mounted
      PROVE  Settled(g)' /\ media'[handle'[g].dev].whole
  <2>1. CASE g = h
    <3>1. r.rc = "ok"
      BY <1>1, <1>3, <1>4, <1>6, <2>1
    <3>2. m.whole
      BY <1>1, <1>4, <3>1 DEF DataInv, WholeInv, Opener
    <3>3. handle'[g] = r.h /\ media'[handle'[g].dev] = r.m
      BY <1>3, <2>1
    <3>4. r.m.whole
      BY <1>4, <3>2
    <3>5. r.h.id = r.m.id
      BY <1>4, <3>1
    <3>6. ~ r.h.ro => r.h.over \in AtHome /\ r.m.kind = "ext" /\ r.h.journal = r.m.recover
      BY <1>4, <3>1
    <3>7. QED
      BY <3>3, <3>4, <3>5, <3>6 DEF Settled
  <2>2. CASE g # h
    <3>1. handle'[g] = handle[g] /\ slot = g /\ handle[g].dev \in Devices
      BY <1>3, <1>6, <2>2 DEF MountInv, HandleInv
    <3>2. media'[handle[g].dev] = media[handle[g].dev]
      BY <1>3, <1>4, <3>1, MountAssumption
    <3>3. QED
      BY <1>6, <3>1, <3>2 DEF DataInv, MediaInv, WholeInv, Settled
  <2>3. QED
    BY <2>1, <2>2
<1>7. ASSUME NEW u \in Tasks, task'[u].then = "open", media'[task'[u].dev].kind \in {"ext", "limited"}
      PROVE  media'[task'[u].dev].whole
  <2>1. task[u].then = "open" /\ task'[u].dev = task[u].dev /\ task[u].dev \in Devices
    <3>1. CASE u = t
      BY <1>1, <1>2, <3>1 DEF Turned
    <3>2. CASE u # t
      BY <1>1, <1>7, <3>2 DEF Turned, Others, MountInv, ShapeInv, Shaped
    <3>3. QED
      BY <3>1, <3>2
  <2>2. QED
    BY <1>3, <1>4, <1>7, <2>1 DEF DataInv, WholeInv, Opener
<1>8. HonestClose'
  <2>1. said \in [Devices -> {"nothing", "closed", "failed"}]
    BY <1>1 DEF Turned
  <2>2. QED
    BY <1>1, <1>2, <1>3, <2>1 DEF DataInv, HonestClose
<1>9. QED
  BY <1>5, <1>6, <1>7, <1>8 DEF DataInv, MediaInv, WholeInv, Opener

LEMMA DataClose ==
  ASSUME MountInv, MountInv', DataInv, NEW t \in Tasks, closeUnmount(t)
  PROVE  DataInv'
<1> DEFINE h == task[t].h
           hd == handle[h]
           d == hd.dev
           m == media[d]
<1>1. PICK r : /\ Turned(t, r) /\ UnmountOutcome(hd, m, r) /\ hd.mounted /\ task[t].pc = "unmount"
               /\ said' = [said EXCEPT ![d] =
                            IF hd.ro THEN "nothing" ELSE IF r.rc = "ok" THEN "closed" ELSE "failed"]
  BY CloseTurn
<1>2. h \in Handles /\ d \in Devices /\ Untouched(m) /\ Settled(h) /\ slot = h
  BY <1>1 DEF Turned, DataInv, MediaInv, MountInv, HandleInv
<1>3. /\ media'[d] = r.m /\ \A e \in Devices \ {d} : media'[e] = media[e]
      /\ handle'[h] = r.h /\ \A g \in Handles \ {h} : handle'[g] = handle[g]
  BY <1>1 DEF Turned
<1>4. /\ ~ r.h.mounted /\ r.m.whole = m.whole /\ Untouched(r.m) /\ r.m.kind = m.kind
      /\ ~ hd.ro /\ r.rc = "ok" => ~ r.m.recover /\ r.m.valid /\ r.m.log \in AtHome
  BY <1>1, <1>2 DEF UnmountOutcome, Settled
<1>5. \A e \in Devices : Untouched(media'[e])
  BY <1>3, <1>4 DEF DataInv, MediaInv
<1>6. \A g \in Handles : ~ handle'[g].mounted
  BY <1>2, <1>3, <1>4 DEF MountInv, HandleInv
<1>7. ASSUME NEW u \in Tasks, task'[u].then = "open", media'[task'[u].dev].kind \in {"ext", "limited"}
      PROVE  media'[task'[u].dev].whole
  <2>1. task[u].then = "open" /\ task'[u].dev = task[u].dev /\ task[u].dev \in Devices
    <3>1. CASE u = t
      BY <1>1, <1>7, <3>1 DEF Turned
    <3>2. CASE u # t
      BY <1>1, <1>7, <3>2 DEF Turned, Others, MountInv, ShapeInv, Shaped
    <3>3. QED
      BY <3>1, <3>2
  <2>2. QED
    BY <1>3, <1>4, <1>7, <2>1 DEF DataInv, WholeInv, Opener
<1>8. HonestClose'
  <2>1. said \in [Devices -> {"nothing", "closed", "failed"}]
    BY <1>1 DEF Turned
  <2>2. said'[d] = "closed" => ~ media'[d].recover /\ media'[d].valid /\ media'[d].log \in AtHome
    BY <1>1, <1>2, <1>3, <1>4, <2>1
  <2>3. \A e \in Devices \ {d} : said'[e] = said[e]
    BY <1>1, <2>1
  <2>4. QED
    BY <1>3, <2>2, <2>3 DEF DataInv, HonestClose
<1>9. QED
  BY <1>5, <1>6, <1>7, <1>8 DEF DataInv, MediaInv, WholeInv, Opener

LEMMA DataRecover ==
  ASSUME MountInv, MountInv', ExecInv, DataInv, NEW t \in Tasks, checkRecover(t)
  PROVE  DataInv'
<1> DEFINE h == task[t].h
           d == task[t].dev
           m == media[d]
<1>1. PICK r : /\ Turned(t, r) /\ RecoverOutcome(h, r) /\ ~ handle[h].mounted
               /\ task[t].pc = "recover" /\ said' = [said EXCEPT ![d] = "nothing"]
  BY RecoverTurn
<1>2. handle[h].dev = d /\ h \in Handles /\ d \in Devices /\ Untouched(m)
  BY <1>1 DEF ExecInv, ExecOK, Turned, DataInv, MediaInv
<1>3. /\ media'[d] = r.m /\ \A e \in Devices \ {d} : media'[e] = media[e]
      /\ handle'[h] = r.h /\ \A g \in Handles \ {h} : handle'[g] = handle[g]
  BY <1>1, <1>2 DEF Turned
<1>4. /\ ~ r.h.mounted /\ r.m.whole = m.whole /\ Untouched(r.m) /\ (r.m # m => slot = None)
      /\ r.m.kind \in {"ext", "limited"} => m.kind \in {"ext", "limited"}
  BY <1>1, <1>2 DEF RecoverOutcome
<1>5. \A e \in Devices : Untouched(media'[e])
  BY <1>3, <1>4 DEF DataInv, MediaInv
<1>6. ASSUME NEW g \in Handles, handle'[g].mounted
      PROVE  Settled(g)' /\ media'[handle'[g].dev].whole
  <2>1. handle'[g] = handle[g] /\ slot = g /\ handle[g].dev \in Devices
    BY <1>3, <1>4, <1>6 DEF MountInv, HandleInv
  <2>2. media'[handle[g].dev] = media[handle[g].dev]
    BY <1>3, <1>4, <2>1, MountAssumption
  <2>3. QED
    BY <1>6, <2>1, <2>2 DEF DataInv, MediaInv, WholeInv, Settled
<1>7. ASSUME NEW u \in Tasks, task'[u].then = "open", media'[task'[u].dev].kind \in {"ext", "limited"}
      PROVE  media'[task'[u].dev].whole
  <2>1. task[u].then = "open" /\ task'[u].dev = task[u].dev /\ task[u].dev \in Devices
    <3>1. CASE u = t
      BY <1>1, <1>7, <3>1 DEF Turned
    <3>2. CASE u # t
      BY <1>1, <1>7, <3>2 DEF Turned, Others, MountInv, ShapeInv, Shaped
    <3>3. QED
      BY <3>1, <3>2
  <2>2. QED
    BY <1>3, <1>4, <1>7, <2>1 DEF DataInv, WholeInv, Opener
<1>8. HonestClose'
  <2>1. said \in [Devices -> {"nothing", "closed", "failed"}]
    BY <1>1 DEF Turned
  <2>2. said'[d] = "nothing" /\ \A e \in Devices \ {d} : said'[e] = said[e]
    BY <1>1, <1>2, <2>1
  <2>3. QED
    BY <1>3, <2>2 DEF DataInv, HonestClose
<1>9. QED
  BY <1>5, <1>6, <1>7, <1>8 DEF DataInv, MediaInv, WholeInv, Opener

-----------------------------------------------------------------------------
(* Formats and operations.                                                 *)

\* While a device is formatted nothing is mounted and nothing is loaded.
LEMMA FormatsAlone ==
  ASSUME MountInv, NEW t \in Tasks, task[t].pc \in Formatting
  PROVE  /\ \A h \in Handles : ~ handle[h].mounted
         /\ \A u \in Tasks : task[u].then # "open"
         /\ task[t].dev \in Devices
<1>1. task[t].then = "fopen" /\ task[t].dev \in Devices
  BY DEF MountInv, ShapeInv, Shaped, Formatting
<1>2. \A u \in Tasks : task[u].then # "open"
  BY <1>1 DEF MountInv, ApartInv, Opener, Closer, Closing
<1>3. fs.bridge = None
  BY <1>1 DEF MountInv, ApartInv, Closer, Closing, Formatting
<1>4. \A u \in Tasks : task[u].pc \notin Mounting
  <2>1. SUFFICES ASSUME NEW u \in Tasks, task[u].pc \in Mounting PROVE FALSE
    OBVIOUS
  <2>2. task[u].then \in Closing /\ u # t
    BY <1>2, <2>1 DEF MountInv, ShapeInv, Shaped, Mounting, Formatting
  <2>3. QED
    BY <1>1, <2>2 DEF MountInv, ApartInv, Closer
<1>5. QED
  BY <1>1, <1>2, <1>3, <1>4, MountAssumption DEF MountInv, HandleInv

LEMMA DataFormat ==
  ASSUME MountInv, MountInv', DataInv, NEW t \in Tasks,
         formatWipe(t) \/ formatSuper(t) \/ formatBuild(t) \/ formatFlush(t)
  PROVE  DataInv'
<1> DEFINE d == task[t].dev
<1>1. /\ task \in [Tasks -> TaskType] /\ handle' = handle /\ task[t].pc \in Formatting
      /\ media \in [Devices -> Medium] /\ said \in [Devices -> {"nothing", "closed", "failed"}]
  BY DEF MountInv, ShapeInv, TypeOK, formatWipe, formatSuper, formatBuild, formatFlush, At, Formatting
<1>2. /\ \A h \in Handles : ~ handle[h].mounted
      /\ d \in Devices /\ \A u \in Tasks : task[u].then # "open"
  BY <1>1, FormatsAlone
<1>3. \A u \in Tasks : task'[u].then # "open"
  BY <1>1, <1>2 DEF formatWipe, formatSuper, formatBuild, formatFlush, Goto, TaskType
<1>4. /\ \A e \in Devices \ {d} : media'[e] = media[e] /\ said'[e] = said[e]
      /\ Untouched(media'[d])
      /\ said'[d] = "closed" => ~ media'[d].recover /\ media'[d].valid /\ media'[d].log \in AtHome
  <2>1. CASE formatWipe(t)
    BY <1>1, <1>2, <2>1 DEF formatWipe, Untouched, AtHome
  <2>2. CASE formatSuper(t) \/ formatBuild(t) \/ formatFlush(t)
    <3>1. /\ said' = said /\ task[t].pc # "use" /\ \A e \in Devices \ {d} : media'[e] = media[e]
          /\ LET m == media[d] n == media'[d] IN
             /\ n.recover = m.recover /\ (m.valid => n.valid) /\ n.log = m.log /\ (m.whole => n.whole)
             /\ n.kind \in {m.kind, "ext"}
      BY <1>1, <2>2, MediumSteps DEF Formatting
    <3>2. QED
      BY <1>2, <3>1 DEF DataInv, MediaInv, HonestClose, Untouched
  <2>3. QED
    BY <2>1, <2>2
<1>5. QED
  BY <1>1, <1>2, <1>3, <1>4 DEF DataInv, MediaInv, WholeInv, HonestClose, Opener

LEMMA DataUse ==
  ASSUME MountInv, MountInv', ExecInv, DataInv, NEW t \in Tasks, operationUse(t)
  PROVE  DataInv'
<1> DEFINE d == task[t].dev
           m == media[d]
           n == media'[d]
<1>1. /\ task[t].pc = "use" /\ UNCHANGED <<handle, said>> /\ Others(t)
      /\ \A e \in Devices \ {d} : media'[e] = media[e]
      /\ n.id = m.id /\ n.recover = m.recover /\ (m.valid => n.valid) /\ n.whole = m.whole
      /\ n.kind = m.kind
      /\ n.log # m.log => /\ n.log = "live" /\ handle[task[t].h].mounted
                          /\ handle[task[t].h].journal /\ ~ handle[task[t].h].ro
                          /\ task[t].then = "idle"
  BY MediumSteps DEF operationUse, At, Moved
<1>2. d \in Devices /\ task[t].h \in Handles
  BY <1>1 DEF MountInv, ShapeInv, Shaped
<1>3. n.log # m.log => m.recover /\ m.whole
  <2>1. SUFFICES ASSUME n.log # m.log PROVE m.recover /\ m.whole
    OBVIOUS
  <2>2. handle[task[t].h].mounted /\ handle[task[t].h].open
    BY <1>1, <1>2, <2>1 DEF MountInv, HandleInv
  <2>3. handle[task[t].h].dev = d
    BY <1>1, <2>1, <2>2 DEF ExecInv, ExecOK
  <2>4. QED
    BY <1>1, <1>2, <2>1, <2>2, <2>3 DEF DataInv, MediaInv, WholeInv, Settled
<1>4. Untouched(n)
  BY <1>1, <1>2, <1>3 DEF DataInv, MediaInv, Untouched
<1>5. \A e \in Devices : /\ Untouched(media'[e]) /\ media'[e].id = media[e].id
                         /\ media'[e].kind = media[e].kind /\ media'[e].recover = media[e].recover
                         /\ media'[e].whole = media[e].whole /\ (media[e].valid => media'[e].valid)
  BY <1>1, <1>4 DEF DataInv, MediaInv
<1>6. \A h \in Handles : handle'[h].mounted => Settled(h)' /\ media'[handle'[h].dev].whole
  BY <1>1, <1>5 DEF DataInv, MediaInv, WholeInv, Settled, MountInv, HandleInv
<1>7. \A u \in Tasks : task'[u].then = "open" => task'[u] = task[u] /\ task[u].dev \in Devices
  <2>1. task'[t].then # "open"
    <3>1. task' = Return(t)
      BY DEF operationUse
    <3>2. QED
      BY <3>1 DEF Return, Idle, MountInv, ShapeInv, TypeOK
  <2>2. QED
    BY <1>1, <2>1 DEF Others, MountInv, ShapeInv, Shaped
<1>8. WholeInv'
  BY <1>5, <1>6, <1>7 DEF DataInv, WholeInv, Opener
<1>9. HonestClose'
  BY <1>1, <1>3, <1>4, <1>5 DEF DataInv, HonestClose, Untouched
<1>10. QED
  BY <1>5, <1>6, <1>8, <1>9 DEF DataInv, MediaInv

LEMMA DataInit ==
  ASSUME Init
  PROVE  DataInv
<1>1. /\ \A h \in Handles : handle[h] = NoHandle
      /\ \A t \in Tasks : task[t].then = "idle"
      /\ \A d \in Devices : said[d] = "nothing" /\ media[d] \in Media[d]
  BY DEF Init, Idle
<1>2. \A d \in Devices : Untouched(media[d])
  BY <1>1, MountAssumption
<1>3. QED
  BY <1>1, <1>2, NoHandleIs DEF DataInv, MediaInv, WholeInv, HonestClose, Opener

LEMMA DataNext ==
  ASSUME MountInv, MountInv', ExecInv, DataInv, "torn" \notin Windows, [Next]_vars
  PROVE  DataInv'
<1>1. ASSUME NEW t \in Tasks, Step(t) PROVE DataInv'
  BY <1>1, DataPlain, DataHandles, DataLoad, DataClose, DataRecover, DataFormat, DataUse DEF Step
<1>2. ASSUME NEW h \in Handles, activate(h) PROVE DataInv'
  BY <1>2 DEF activate, DataInv, MediaInv, WholeInv, HonestClose, Opener, Settled, Untouched
<1>3. CASE Crash
  <2>1. /\ \A h \in Handles : handle'[h] = NoHandle
        /\ \A t \in Tasks : task'[t].then = "idle"
        /\ \A d \in Devices : said'[d] = "nothing"
    BY <1>3 DEF Crash, Idle
  <2>2. \A d \in Devices : Untouched(media'[d])
    BY <1>3, CrashMedia DEF DataInv, MediaInv, Settled
  <2>3. QED
    BY <2>1, <2>2, NoHandleIs DEF DataInv, MediaInv, WholeInv, HonestClose, Opener
<1>4. CASE UNCHANGED vars
  BY <1>4 DEF vars, DataInv, MediaInv, WholeInv, HonestClose, Opener, Settled, Untouched
<1>5. QED
  BY <1>1, <1>2, <1>3, <1>4, DataCalls DEF Next

LEMMA DataAlways ==
  ASSUME Windows = {}
  PROVE  Spec => [](DataInv /\ MountInv)
<1>1. /\ Windows \cap Meeting = {} /\ Windows \cap Late = {} /\ "torn" \notin Windows
  OBVIOUS
<1>2. Init => MountInv /\ ExecInv /\ DataInv
  BY MountInit, ExecInit, DataInit
<1>3. MountInv /\ ExecInv /\ DataInv /\ [Next]_vars => MountInv' /\ ExecInv' /\ DataInv'
  BY <1>1, MountNext, ExecNext, DataNext
<1>4. QED
  BY <1>2, <1>3, PTL DEF Spec

\* What is mounted was formatted to its end, no format has replaced it beneath the mount, and a
\* mount for writing has passed over nothing in the log that was not at home: ext4b_mount,
\* ext4b_unmount and startFormat over any run of calls, writes that fail between any two
\* superblocks, and deaths of the process in the middle of them.
THEOREM MountsAlwaysChecked ==
  ASSUME Windows = {}
  PROVE  Spec => []MountsChecked
<1>1. DataInv /\ MountInv => MountsChecked
  BY DEF DataInv, MountInv, MediaInv, WholeInv, HandleInv, Settled, MountsChecked, MountsSound, ReplayedFirst
<1>2. QED
  BY <1>1, DataAlways, PTL

\* When closing a volume was reported as done, the medium needs no recovery, is marked clean and
\* has nothing in its log that is not at home, and stays so until the next mount, whatever
\* closeVolume met on the way.
THEOREM ClosesAlwaysHonest ==
  ASSUME Windows = {}
  PROVE  Spec => []HonestClose
<1>1. DataInv /\ MountInv => HonestClose
  BY DEF DataInv
<1>2. QED
  BY <1>1, DataAlways, PTL
=============================================================================
