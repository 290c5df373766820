------------------------------- MODULE Mount -------------------------------
(***************************************************************************)
(* The life of a volume: probing, loading, closing, formatting and         *)
(* checking (Ext4FileSystem.swift, Ext4FileSystem+Maintenance.swift), the  *)
(* device bridges they open (BlockDeviceBridge.swift, ext4b_device), and   *)
(* ext4b_mount, ext4b_unmount and ext4b_format below them.                 *)
(*                                                                         *)
(* FSKit calls concurrently.  A call is a task that moves from one await,  *)
(* lock or executor turn to the next; everything that runs on the executor *)
(* is one step, or holds the executor until it is done.                    *)
(*                                                                         *)
(* A medium is abstracted to what its superblock says (kind, journal,      *)
(* recover, valid), what the log does when it is replayed, whether         *)
(* deletions were interrupted, which mkfs made it (id) and whether         *)
(* everything behind that superblock has been written (whole).  A locked   *)
(* medium cannot be written.                                               *)
(*                                                                         *)
(* A log is empty, live, or spent: its superblock still says where it      *)
(* starts, but everything in it is at home.  That is what is left when a   *)
(* replay or the stop of the journal writes the superblock of the volume   *)
(* and not that of the journal.                                            *)
(***************************************************************************)
EXTENDS Integers, FiniteSets

CONSTANTS
  Devices, Handles, Tasks, None,
  Media,      \* Media[d]: what may be on a device at first
  Keys,       \* Keys[d]: what may be stored at first to open it with
  MaxCalls,   \* bound on the calls of FSKit
  MaxFaults,  \* bound on the writes that fail and the deaths of the process
  MaxFormats, \* bound on formats
  Windows     \* cases in which the code is known to go wrong, kept in

(***************************************************************************)
(*   "second"  a load while the live volume's device is not the last one   *)
(*             presented, which is what "one volume per process" asks      *)
(*   "shell"   maintenance of a device without a mount of its own, beside  *)
(*             a live mount, which maintenanceTarget takes for the target  *)
(*   "overlap" loads, closes and maintenance that meet                     *)
(*   "late"    an operation that starts between the unmount and the        *)
(*             destruction of its device                                   *)
(*   "statfs"  volumeStatistics, which reads the pointer off the executor, *)
(*             while the device is destroyed                               *)
(*   "torn"    a load of what an interrupted format has left half-written  *)
(***************************************************************************)
Kinds == {"blank", "ext", "limited", "refused"}   \* the verdicts of ext4b_probe
Logs == {"empty", "spent", "live", "fails", "blank", "limited"}
AtHome == {"empty", "spent"}
Medium == [kind : Kinds, journal : BOOLEAN, recover : BOOLEAN, valid : BOOLEAN, log : Logs,
           orphans : BOOLEAN, whole : BOOLEAN, id : 0..MaxFormats, luks : BOOLEAN,
           locked : BOOLEAN]
KeyStates == {"none", "passphrase", "wrong", "master"}

\* What no mount of this process has touched: a log that no flag asks to replay has nothing to
\* replay, and what is half written has neither a log nor a verdict of its own.
Untouched(m) ==
  /\ ~m.recover => m.log \in AtHome
  /\ ~m.whole => m.kind # "limited" /\ m.log \in AtHome

ASSUME MountAssumption ==
  /\ \A d \in Devices : Media[d] \subseteq Medium /\ Keys[d] \subseteq KeyStates
  /\ \A d \in Devices : \A m \in Media[d] : Untouched(m)
  /\ IsFiniteSet(Devices) /\ None \notin Devices \cup Handles \cup Tasks
  /\ {MaxCalls, MaxFaults, MaxFormats} \subseteq Nat
  /\ Windows \subseteq {"second", "shell", "overlap", "late", "statfs", "torn"}

VARIABLES
  media, keys,
  handle,   \* handle[h]: a BlockDeviceBridge and its ext4b_device
  slot,     \* the handle registered under lwext4's one device name and mount point
  fs,       \* MountState: the bridge of the live volume, lastSeen, probedBSDNames
  vols,     \* vols[h]: how far FSKit is with the volume on h
  shells,   \* the devices FSKit holds an Ext4UnformattedVolume of
  task,     \* task[t]: where a call of FSKit is, and its locals
  exec,     \* the task that holds the executor
  said,     \* said[d]: what the last close of a volume on d reported
  calls, faults

vars == <<media, keys, handle, slot, fs, vols, shells, task, exec, said, calls, faults>>

NoHandle == [dev |-> None, open |-> FALSE, ro |-> TRUE, mounted |-> FALSE, journal |-> FALSE,
             id |-> 0, over |-> "empty", enc |-> FALSE]
Idle == [pc |-> "idle", dev |-> None, h |-> None, then |-> "idle", ro |-> FALSE, want |-> None]
NothingSeen == [dev |-> None, by |-> None]

HandleType == [dev : Devices \cup {None}, open : BOOLEAN, ro : BOOLEAN, mounted : BOOLEAN,
               journal : BOOLEAN, id : 0..MaxFormats, over : Logs, enc : BOOLEAN]
Points == {"idle", "examine", "open", "mount", "install", "busy", "take", "unmount", "destroy",
           "sync", "left", "drop", "unloaded", "fopen", "wipe", "super", "build", "flush",
           "check", "copen", "recover", "op", "use", "stat"}
Ends == {"idle", "open", "drop", "unloaded", "left", "fopen", "check"}
TaskType == [pc : Points, dev : Devices \cup {None}, h : Handles \cup {None}, then : Ends,
             ro : BOOLEAN, want : Devices \cup {None}]
FsType == [bridge : Handles \cup {None}, probed : SUBSET Devices,
           lastSeen : [dev : Devices \cup {None}, by : Tasks \cup {None}]]

TypeOK ==
  /\ media \in [Devices -> Medium] /\ keys \in [Devices -> KeyStates]
  /\ handle \in [Handles -> HandleType]
  /\ slot \in Handles \cup {None} /\ exec \in Tasks \cup {None}
  /\ fs \in FsType
  /\ vols \in [Handles -> {"none", "loaded", "active", "leaving"}] /\ shells \subseteq Devices
  /\ task \in [Tasks -> TaskType]
  /\ said \in [Devices -> {"nothing", "closed", "failed"}]

Init ==
  /\ media \in [Devices -> UNION {Media[d] : d \in Devices}] /\ \A d \in Devices : media[d] \in Media[d]
  /\ keys \in [Devices -> KeyStates]
  /\ \A d \in Devices : keys[d] \in IF media[d].luks THEN Keys[d] ELSE {"none"}
  /\ handle = [h \in Handles |-> NoHandle] /\ slot = None
  /\ fs = [bridge |-> None, lastSeen |-> NothingSeen, probed |-> {}]
  /\ vols = [h \in Handles |-> "none"] /\ shells = {}
  /\ task = [t \in Tasks |-> Idle] /\ exec = None
  /\ said = [d \in Devices |-> "nothing"]
  /\ calls = 0 /\ faults = 0

Writable == {d \in Devices : ~media[d].locked}
At(t, pc) == task[t].pc = pc
Goto(t, pc) == [task EXCEPT ![t].pc = pc]
Return(t) == [task EXCEPT ![t] = Idle]
Fresh == {h \in Handles : /\ ~handle[h].open /\ vols[h] = "none" /\ fs.bridge # h
                          /\ \A t \in Tasks : task[t].h # h}
NewHandle == CHOOSE h \in Fresh : TRUE
MayFail == faults < MaxFaults
Fault == MayFail /\ faults' = faults + 1

-----------------------------------------------------------------------------
(* Devices and containers.                                                 *)

\* init of a BlockDeviceBridge
Bridge(d, ro) == [NoHandle EXCEPT !.dev = d, !.open = TRUE, !.ro = ro \/ d \notin Writable]

\* close, ext4b_device_destroy; the device is remembered as long as FSKit has its volume
Closed(h) ==
  [handle EXCEPT ![h] = [NoHandle EXCEPT !.dev = IF vols[h] = "none" THEN None ELSE handle[h].dev]]
\* The volumes FSKit lets go of, and their bridges.
Dropped(hs) == /\ vols' = [h \in Handles |-> IF h \in hs THEN "none" ELSE vols[h]]
               /\ handle' = [h \in Handles |-> IF h \in hs /\ ~handle[h].open THEN NoHandle ELSE handle[h]]
On(d, state) == {h \in Handles : handle[h].dev = d /\ vols[h] \in state}

\* What the device of a handle shows: ciphertext unless it was opened through LUKS.
ext4b_probe(d, enc) == IF media[d].luks /\ ~enc THEN "blank" ELSE media[d].kind

\* What is stored for a container opens it or not; a passphrase that does is replaced by the
\* key derived with it.
masterKey(d) ==
  CASE keys[d] = "none" -> [rc |-> "ENEEDAUTH", key |-> "none"]
    [] keys[d] = "wrong" -> [rc |-> "EAUTH", key |-> "wrong"]
    [] OTHER -> [rc |-> "opened", key |-> "master"]

openEncryptedIfNeeded(d) ==
  IF media[d].luks THEN masterKey(d) ELSE [rc |-> "plain", key |-> keys[d]]

-----------------------------------------------------------------------------
(* ext4b_mount, ext4b_unmount and ext4b_journal_recover, each one turn of  *)
(* the executor.  They answer with the set of results they may have.       *)

Result(rc, m, h, s, f) == [rc |-> rc, m |-> m, h |-> h, slot |-> s, failed |-> f]

\* Mutant: lwext4's one slot is not looked at.
MountGate_NoSlot(h, ro) ==
  LET hd == handle[h] verdict == ext4b_probe(hd.dev, hd.enc) IN
  IF hd.mounted THEN "EBUSY"
  ELSE IF verdict \in {"blank", "refused"} THEN "ENOTSUP"
  ELSE IF verdict = "limited" /\ ~ro THEN "EROFS"
  ELSE IF ~ro /\ hd.ro THEN "EROFS"
  ELSE "go"

\* The answers ext4b_mount gives before it touches anything.
MountGate(h, ro) ==
  LET hd == handle[h] verdict == ext4b_probe(hd.dev, hd.enc) IN
  IF hd.mounted THEN "EBUSY"
  ELSE IF verdict \in {"blank", "refused"} THEN "ENOTSUP"
  ELSE IF verdict = "limited" /\ ~ro THEN "EROFS"
  ELSE IF ~ro /\ hd.ro THEN "EROFS"
  ELSE IF slot # None THEN "EBUSY"
  ELSE "go"

\* The superblock as ext4_fs_fini leaves it.
Finished(m) == [m EXCEPT !.valid = TRUE]

\* Mutant: the flag is cleared and the log left.
Replayed_NotDone(m) ==
  [m EXCEPT !.recover = FALSE, !.log = m.log,
            !.kind = IF m.log \in {"blank", "limited"} THEN m.log ELSE m.kind]

\* Mutant: the verdict is taken from the log, whatever it holds.
Replayed_Kind(m) ==
  [m EXCEPT !.recover = FALSE, !.log = "empty",
            !.kind = m.log]

\* What the replay of the log leaves, ext4_recover.
Replayed(m) ==
  [m EXCEPT !.recover = FALSE, !.log = "empty",
            !.kind = IF m.log \in {"blank", "limited"} THEN m.log ELSE m.kind]

\* The superblock is written once more when a mount or the journal has been given up, or that
\* write fails as well.
Left(m) == {m, Finished(m)}

\* What a failing write makes of a read-write mount: before anything is written; in the replay,
\* with the flag on or with only the journal's superblock missing; in jbd_journal_start, before
\* the flag is set again and after.
BrokenMount(m0, m1, m2) ==
  {m0}
  \cup (IF m1.recover THEN Left(m1) \cup Left([m2 EXCEPT !.log = "spent"]) ELSE {})
  \cup (IF m2.journal /\ m2.kind = "ext"
            THEN Left(m2) \cup Left([m2 EXCEPT !.recover = TRUE]) ELSE {})

\* A read-write mount from the registration on: every failure unmounts and unregisters.  The
\* journal's superblock is written without a look at the result when a replay ends, and anew
\* when the journal starts.
WriteMount(h) ==
  LET hd == handle[h]
      m0 == media[hd.dev]
      m1 == [m0 EXCEPT !.valid = FALSE]
      m2 == IF m1.recover THEN Replayed(m1) ELSE m1
      m3 == IF m2.journal THEN [m2 EXCEPT !.recover = TRUE, !.log = "empty"] ELSE m2
      swept == [m3 EXCEPT !.orphans = FALSE]
      up == [hd EXCEPT !.mounted = TRUE, !.journal = m2.journal, !.id = m0.id, !.over = m2.log]
  IN (IF MayFail THEN {Result("EIO", m, hd, None, TRUE) : m \in BrokenMount(m0, m1, m2)} ELSE {})
     \cup
     CASE m1.recover /\ ~m1.journal -> {Result("ENOTSUP", Finished(m1), hd, None, FALSE)}
       [] m1.recover /\ m1.journal /\ m1.log = "fails" ->
            {Result("EIO", Finished(m1), hd, None, FALSE)}
       [] m1.recover /\ m1.journal /\ m1.log = "blank" ->
            {Result("EIO", Finished(m2), hd, None, FALSE)}
       [] m1.recover /\ m1.journal /\ m1.log = "limited" ->
            {Result("EROFS", Finished(m2), hd, None, FALSE)}
       [] OTHER ->
            {Result("ok", swept, up, h, FALSE)}
            \cup (IF MayFail /\ m2.orphans THEN {Result("ok", m3, up, h, TRUE)} ELSE {})
            \cup (IF MayFail /\ m1.recover
                    THEN {Result("ok", swept, [up EXCEPT !.over = "spent"], h, TRUE)} ELSE {})

ext4b_mount(h, ro) ==
  LET hd == handle[h] m == media[hd.dev] IN
  IF MountGate(h, ro) # "go" THEN {Result(MountGate(h, ro), m, hd, slot, FALSE)}
  ELSE IF ro THEN {Result("ok", m, [hd EXCEPT !.mounted = TRUE, !.ro = TRUE, !.id = m.id,
                                              !.over = m.log], h, FALSE)}
  ELSE WriteMount(h)

\* The medium when the volume has been let go of, and when the journal has been stopped but
\* its own superblock is not written: the log is at home by then.
Stopped(hd, m) ==
  [m EXCEPT !.recover = IF hd.journal THEN FALSE ELSE @, !.log = IF hd.journal THEN "empty" ELSE @]
HalfStopped(hd, m) ==
  [m EXCEPT !.recover = IF hd.journal THEN FALSE ELSE @, !.log = IF hd.journal THEN "spent" ELSE @]

\* What a failing write makes of an unmount: the log is not brought home and stays as it is, the
\* journal is stopped by one of its two superblocks, or everything is done but a drain before it
\* or the flush behind it.
BrokenUnmount(hd, m) == Left(m) \cup Left(HalfStopped(hd, m)) \cup Left(Stopped(hd, m))

\* Mutant: a failure of the teardown is dropped.
UnmountOf_Quiet(hd, m) ==
  LET down == [hd EXCEPT !.mounted = FALSE, !.journal = FALSE]
      same == hd.id = m.id
      done == IF same THEN Finished(Stopped(hd, m)) ELSE [m EXCEPT !.whole = FALSE]
      broken == IF same THEN BrokenUnmount(hd, m) ELSE {m, done}
  IN IF hd.ro THEN {Result("ok", m, down, None, FALSE)}
     ELSE {Result("ok", done, down, None, FALSE)}
          \cup (IF MayFail THEN {Result("ok", n, down, None, TRUE) : n \in broken} ELSE {})

\* Teardown runs to the end, and the first failure is the one reported.  Over a medium that
\* has been formatted meanwhile it leaves a mixture.
UnmountOf(hd, m) ==
  LET down == [hd EXCEPT !.mounted = FALSE, !.journal = FALSE]
      same == hd.id = m.id
      done == IF same THEN Finished(Stopped(hd, m)) ELSE [m EXCEPT !.whole = FALSE]
      broken == IF same THEN BrokenUnmount(hd, m) ELSE {m, done}
  IN IF hd.ro THEN {Result("ok", m, down, None, FALSE)}
     ELSE {Result("ok", done, down, None, FALSE)}
          \cup (IF MayFail THEN {Result("EIO", n, down, None, TRUE) : n \in broken} ELSE {})

ext4b_unmount(h) ==
  IF handle[h].mounted THEN UnmountOf(handle[h], media[handle[h].dev])
  ELSE {Result("EINVAL", media[handle[h].dev], handle[h], slot, FALSE)}

\* The check's handle is never mounted: recovery is a mount and an unmount.
ext4b_journal_recover(h) ==
  IF handle[h].ro THEN {Result("EROFS", media[handle[h].dev], handle[h], slot, FALSE)}
  ELSE UNION {IF r.rc # "ok" THEN {r} ELSE UnmountOf(r.h, r.m) : r \in ext4b_mount(h, FALSE)}

\* A turn of the executor that ends with result r on handle h.
Take(h, r) ==
  /\ media' = [media EXCEPT ![handle[h].dev] = r.m]
  /\ handle' = [handle EXCEPT ![h] = r.h]
  /\ slot' = r.slot
  /\ faults' = IF r.failed THEN faults + 1 ELSE faults

\* closeVolume closes the live volume, whoever's it is.  Unless the case is kept in, FSKit
\* does not load anything while a volume is being let go of.
Closing == {"drop", "unloaded", "left", "fopen"}
Apart(ends) == \A t \in Tasks : task[t].then \notin ends

-----------------------------------------------------------------------------
(* probeResource.                                                          *)

\* A call about device d that goes on at pc.
About(d, pc) == [Idle EXCEPT !.pc = pc, !.dev = d, !.want = d]
Call(t, locals) ==
  /\ At(t, "idle") /\ calls < MaxCalls /\ calls' = calls + 1
  /\ task' = [task EXCEPT ![t] = locals]

See(t, d) == [fs EXCEPT !.lastSeen = [dev |-> d, by |-> t], !.probed = @ \cup {d}]

probeResource(t, d) ==
  /\ Call(t, About(d, "examine"))
  /\ fs' = See(t, d)
  /\ UNCHANGED <<media, keys, handle, slot, vols, shells, exec, said, faults>>

\* Whether examine and probeLUKS recognise what is on d; a locked container is recognised.
Recognised(d) ==
  IF ~media[d].luks THEN media[d].kind \in {"ext", "limited"}
  ELSE openEncryptedIfNeeded(d).rc = "opened" => media[d].kind \in {"ext", "limited"}

examine(t) ==
  /\ At(t, "examine")
  /\ LET d == task[t].dev IN
     /\ keys' = [keys EXCEPT ![d] = openEncryptedIfNeeded(d).key]
     /\ fs' = IF ~Recognised(d) /\ fs.lastSeen.by = t
                THEN [fs EXCEPT !.lastSeen = NothingSeen] ELSE fs
  /\ task' = Return(t)
  /\ UNCHANGED <<media, handle, slot, vols, shells, exec, said, calls, faults>>

-----------------------------------------------------------------------------
(* loadResource.                                                           *)

\* The volume that "one volume per process" compares with: not the live one's, but the last
\* device presented.
existing == IF fs.bridge # None THEN fs.lastSeen.dev ELSE None
Misled == fs.bridge # None /\ fs.lastSeen.dev # handle[fs.bridge].dev

\* FSKit loads a device it does not use and is not loading already; a volume of it that it
\* loaded before it lets go of.
loadResource(t, d) ==
  /\ On(d, {"active", "leaving"}) = {} /\ d \notin shells
  /\ \A u \in Tasks : task[u].want = d => task[u].then # "open"
  /\ Misled => "second" \in Windows
  /\ media[d].kind = "ext" /\ ~media[d].whole => "torn" \in Windows
  /\ "overlap" \in Windows \/ (Apart(Closing) /\ \A h \in Handles : vols[h] # "leaving")
  /\ Call(t, [About(d, IF existing = None THEN "open" ELSE IF existing = d THEN "take" ELSE "busy")
               EXCEPT !.then = "open"])
  /\ vols' = [h \in Handles |-> IF h \in On(d, {"loaded"}) THEN "none" ELSE vols[h]]
  /\ UNCHANGED <<media, keys, handle, slot, fs, shells, exec, said, faults>>

loadRefused(t) ==
  /\ At(t, "busy") /\ task' = Return(t)
  /\ UNCHANGED <<media, keys, handle, slot, fs, vols, shells, exec, said, calls, faults>>

\* A device that cannot be unlocked ends the call; one that holds nothing to mount is
\* answered with a volume for maintenance only.
loadOpen(t) ==
  /\ At(t, "open") /\ Fresh # {}
  /\ LET d == task[t].dev
         unlock == openEncryptedIfNeeded(d)
         verdict == ext4b_probe(d, unlock.rc = "opened")
         h == NewHandle
     IN /\ fs' = See(t, d)
        /\ keys' = [keys EXCEPT ![d] = unlock.key]
        /\ \/ /\ unlock.rc \in {"ENEEDAUTH", "EAUTH"}
              /\ task' = Return(t) /\ UNCHANGED <<handle, shells>>
           \/ /\ unlock.rc \in {"plain", "opened"} /\ verdict \in {"blank", "refused"}
              /\ shells' = shells \cup {d}
              /\ task' = Return(t) /\ UNCHANGED handle
           \/ /\ unlock.rc \in {"plain", "opened"} /\ verdict \in {"ext", "limited"}
              /\ handle' = [handle EXCEPT ![h] = [Bridge(d, FALSE) EXCEPT !.enc = unlock.rc = "opened"]]
              /\ task' = [task EXCEPT ![t].pc = "mount", ![t].h = h,
                                      ![t].ro = d \notin Writable \/ verdict = "limited"]
              /\ UNCHANGED shells
  /\ UNCHANGED <<media, slot, vols, exec, said, calls, faults>>

loadMount(t) ==
  /\ At(t, "mount") /\ exec = None
  /\ \E r \in ext4b_mount(task[t].h, task[t].ro) :
       /\ Take(task[t].h, r)
       /\ task' = IF r.rc = "ok" THEN Goto(t, "install")
                  ELSE [task EXCEPT ![t].pc = "destroy", ![t].then = "idle"]
  /\ said' = [said EXCEPT ![task[t].dev] = "nothing"]
  /\ UNCHANGED <<keys, fs, vols, shells, exec, calls>>

loadInstall(t) ==
  /\ At(t, "install")
  /\ fs' = [fs EXCEPT !.bridge = task[t].h]
  /\ vols' = [vols EXCEPT ![task[t].h] = "loaded"]
  /\ task' = Return(t)
  /\ UNCHANGED <<media, keys, handle, slot, shells, exec, said, calls, faults>>

-----------------------------------------------------------------------------
(* closeVolume, which four calls end in: the bridge is taken out of the    *)
(* state under the lock, unmounted on the executor and destroyed outside   *)
(* of it.                                                                  *)

\* Where a call goes on; at "idle" it has returned.
After(t, h) == IF task[t].then = "idle" THEN Return(t)
               ELSE [task EXCEPT ![t].pc = task[t].then, ![t].h = h]

closeTake(t) ==
  /\ At(t, "take")
  /\ fs' = [fs EXCEPT !.bridge = None]
  /\ task' = IF fs.bridge = None THEN After(t, task[t].h)
             ELSE [task EXCEPT ![t].pc = "unmount", ![t].h = fs.bridge]
  /\ UNCHANGED <<media, keys, handle, slot, vols, shells, exec, said, calls, faults>>

closeUnmount(t) ==
  /\ At(t, "unmount") /\ exec = None
  /\ \E r \in ext4b_unmount(task[t].h) :
       /\ Take(task[t].h, r)
       /\ said' = [said EXCEPT ![handle[task[t].h].dev] =
                    IF handle[task[t].h].ro THEN "nothing" ELSE IF r.rc = "ok" THEN "closed" ELSE "failed"]
  /\ task' = Goto(t, "destroy")
  /\ UNCHANGED <<keys, fs, vols, shells, exec, calls>>

closeDestroy(t) ==
  /\ At(t, "destroy")
  /\ "statfs" \in Windows \/ \A u \in Tasks : At(u, "stat") => task[u].h # task[t].h
  /\ handle' = Closed(task[t].h)
  /\ task' = After(t, None)
  /\ UNCHANGED <<media, keys, slot, fs, vols, shells, exec, said, calls, faults>>

-----------------------------------------------------------------------------
(* The volume's own calls.                                                 *)

activate(h) ==
  /\ vols[h] = "loaded" /\ calls < MaxCalls
  /\ vols' = [vols EXCEPT ![h] = "active"] /\ calls' = calls + 1
  /\ UNCHANGED <<media, keys, handle, slot, fs, shells, task, exec, said, faults>>

unmount(t, h) ==
  /\ vols[h] = "active"
  /\ "overlap" \in Windows \/ Apart({"open", "fopen"})
  /\ Call(t, [About(handle[h].dev, "sync") EXCEPT !.h = h, !.then = "left"])
  /\ vols' = [vols EXCEPT ![h] = "leaving"]
  /\ UNCHANGED <<media, keys, handle, slot, fs, shells, exec, said, faults>>

\* Mutant: the volume is not closed by unmount.
unmountSync_Leave(t) ==
  /\ At(t, "sync") /\ exec = None
  /\ task' = Goto(t, "left")
  /\ UNCHANGED <<media, keys, handle, slot, fs, vols, shells, exec, said, calls, faults>>

\* The releases and trims unmount owes, and its final sync, come before the close.
unmountSync(t) ==
  /\ At(t, "sync") /\ exec = None
  /\ task' = Goto(t, "take")
  /\ UNCHANGED <<media, keys, handle, slot, fs, vols, shells, exec, said, calls, faults>>

unmountLeft(t) ==
  /\ At(t, "left") /\ task' = Return(t)
  /\ UNCHANGED <<media, keys, handle, slot, fs, vols, shells, exec, said, calls, faults>>

deactivate(t, h) ==
  /\ vols[h] # "none"
  /\ \A u \in Tasks : task[u].then = "drop" => task[u].dev # handle[h].dev
  /\ "overlap" \in Windows \/ Apart({"open", "fopen"})
  /\ Call(t, [About(handle[h].dev, "take") EXCEPT !.h = h, !.then = "drop"])
  /\ vols' = [vols EXCEPT ![h] = "leaving"]
  /\ UNCHANGED <<media, keys, handle, slot, fs, shells, exec, said, faults>>

\* FSKit lets go of a volume it has deactivated.
deactivateDrop(t) ==
  /\ At(t, "drop")
  /\ Dropped(On(task[t].dev, {"leaving"}))
  /\ task' = Return(t)
  /\ UNCHANGED <<media, keys, slot, fs, shells, exec, said, calls, faults>>

unloadResource(t, d) ==
  /\ d \in shells \/ On(d, {"loaded", "leaving"}) # {}
  /\ d \in shells /\ "shell" \notin Windows => fs.bridge = None
  /\ "overlap" \in Windows \/ Apart({"open", "unloaded", "fopen"})
  /\ Call(t, [About(d, "take") EXCEPT !.then = "unloaded"])
  /\ vols' = [h \in Handles |-> IF h \in On(d, {"loaded"}) THEN "leaving" ELSE vols[h]]
  /\ UNCHANGED <<media, keys, handle, slot, fs, shells, exec, said, faults>>

unloadDone(t) ==
  /\ At(t, "unloaded")
  /\ shells' = shells \ {task[t].dev}
  /\ Dropped(On(task[t].dev, {"leaving"}))
  /\ task' = Return(t)
  /\ UNCHANGED <<media, keys, slot, fs, exec, said, calls, faults>>

-----------------------------------------------------------------------------
(* startFormat and startCheck.                                             *)

\* Mutant: several probed devices are no reason to refuse.
maintenanceTarget_Guess ==
  IF fs.bridge # None THEN handle[fs.bridge].dev
  ELSE fs.lastSeen.dev

maintenanceTarget ==
  IF fs.bridge # None THEN handle[fs.bridge].dev
  ELSE IF Cardinality(fs.probed) > 1 THEN None ELSE fs.lastSeen.dev

\* FSKit formats and checks a device it has loaded and not activated; d is the one it means.
Maintained(d) == d \in shells \/ On(d, {"loaded"}) # {}

\* Mutant: the live mount is not closed first.
startFormat_Live(t, d) ==
  /\ Maintained(d) /\ \A e \in Devices : media[e].id < MaxFormats
  /\ d \in shells /\ "shell" \notin Windows => fs.bridge = None
  /\ "overlap" \in Windows \/ Apart({"open"} \cup Closing)
  /\ maintenanceTarget \in Writable
  /\ Call(t, [About(d, "fopen") EXCEPT !.dev = maintenanceTarget, !.then = "fopen"])
  /\ vols' = [h \in Handles |-> IF h \in On(d, {"loaded"}) THEN "leaving" ELSE vols[h]]
  /\ UNCHANGED <<media, keys, handle, slot, fs, shells, exec, said, faults>>

startFormat(t, d) ==
  /\ Maintained(d) /\ \A e \in Devices : media[e].id < MaxFormats
  /\ d \in shells /\ "shell" \notin Windows => fs.bridge = None
  /\ "overlap" \in Windows \/ Apart({"open"} \cup Closing)
  /\ maintenanceTarget \in Writable
  /\ Call(t, [About(d, "take") EXCEPT !.dev = maintenanceTarget, !.then = "fopen"])
  /\ vols' = [h \in Handles |-> IF h \in On(d, {"loaded"}) THEN "leaving" ELSE vols[h]]
  /\ UNCHANGED <<media, keys, handle, slot, fs, shells, exec, said, faults>>

formatOpen(t) ==
  /\ At(t, "fopen") /\ Fresh # {}
  /\ handle' = [handle EXCEPT ![NewHandle] = Bridge(task[t].dev, FALSE)]
  /\ task' = [task EXCEPT ![t].pc = "wipe", ![t].h = NewHandle]
  /\ UNCHANGED <<media, keys, slot, fs, vols, shells, exec, said, calls, faults>>

\* ext4b_format holds the executor from the wiping of foreign signatures on.
formatWipe(t) ==
  /\ At(t, "wipe") /\ exec = None
  /\ media' = [media EXCEPT ![task[t].dev] =
                  [kind |-> "blank", journal |-> FALSE, recover |-> FALSE, valid |-> FALSE,
                   log |-> "empty", orphans |-> FALSE, whole |-> FALSE, luks |-> FALSE, locked |-> FALSE,
                   id |-> media[task[t].dev].id + 1]]
  /\ exec' = t /\ task' = Goto(t, "super")
  /\ said' = [said EXCEPT ![task[t].dev] = "nothing"]
  /\ UNCHANGED <<keys, handle, slot, fs, vols, shells, calls, faults>>

\* Groups and superblocks go out first (mkfs_init), then ext4_fs_init marks them in use.
formatSuper(t) ==
  /\ At(t, "super")
  /\ \/ /\ \E j \in BOOLEAN : media' = [media EXCEPT ![task[t].dev].kind = "ext",
                                                     ![task[t].dev].journal = j]
        /\ task' = Goto(t, "build") /\ UNCHANGED <<exec, faults>>
     \/ /\ Fault
        /\ exec' = None /\ task' = [task EXCEPT ![t].pc = "destroy", ![t].then = "idle"]
        /\ UNCHANGED media
  /\ UNCHANGED <<keys, handle, slot, fs, vols, shells, said, calls>>

\* Directories and journal are built in the cache; ext4_fs_fini then writes the superblock.
formatBuild(t) ==
  /\ At(t, "build")
  /\ media' = [media EXCEPT ![task[t].dev] = Finished(@)]
  /\ \/ task' = Goto(t, "flush") /\ UNCHANGED <<exec, faults>>
     \/ /\ Fault
        /\ exec' = None /\ task' = [task EXCEPT ![t].pc = "destroy", ![t].then = "idle"]
  /\ UNCHANGED <<keys, handle, slot, fs, vols, shells, said, calls>>

\* Mutant: the executor is not given back.
formatFlush_Stuck(t) ==
  /\ At(t, "flush")
  /\ \/ media' = [media EXCEPT ![task[t].dev].whole = TRUE] /\ UNCHANGED faults
     \/ Fault /\ UNCHANGED media
  /\ exec' = exec /\ task' = [task EXCEPT ![t].pc = "destroy", ![t].then = "idle"]
  /\ UNCHANGED <<keys, handle, slot, fs, vols, shells, said, calls>>

formatFlush(t) ==
  /\ At(t, "flush")
  /\ \/ media' = [media EXCEPT ![task[t].dev].whole = TRUE] /\ UNCHANGED faults
     \/ Fault /\ UNCHANGED media
  /\ exec' = None /\ task' = [task EXCEPT ![t].pc = "destroy", ![t].then = "idle"]
  /\ UNCHANGED <<keys, handle, slot, fs, vols, shells, said, calls>>

startCheck(t, d, readOnly) ==
  /\ Maintained(d) /\ maintenanceTarget # None
  /\ Call(t, [About(d, "check") EXCEPT !.dev = maintenanceTarget, !.then = "check",
                                       !.ro = readOnly \/ maintenanceTarget \notin Writable])
  /\ UNCHANGED <<media, keys, handle, slot, fs, vols, shells, exec, said, faults>>

\* Mutant: a live volume is closed to be checked.
check_Close(t) ==
  /\ At(t, "check")
  /\ task' = [task EXCEPT ![t].pc = IF fs.bridge # None THEN "take" ELSE "copen", ![t].h = fs.bridge]
  /\ UNCHANGED <<media, keys, handle, slot, fs, vols, shells, exec, said, calls, faults>>

\* A live volume is walked through its own handle; otherwise the device is opened again.
check(t) ==
  /\ At(t, "check")
  /\ task' = [task EXCEPT ![t].pc = IF fs.bridge # None THEN "op" ELSE "copen", ![t].h = fs.bridge]
  /\ UNCHANGED <<media, keys, handle, slot, fs, vols, shells, exec, said, calls, faults>>

checkOpen(t) ==
  /\ At(t, "copen") /\ Fresh # {}
  /\ LET d == task[t].dev
         unlock == openEncryptedIfNeeded(d)
         verdict == ext4b_probe(d, unlock.rc = "opened")
     IN /\ keys' = [keys EXCEPT ![d] = unlock.key]
        /\ IF /\ unlock.rc \in {"plain", "opened"} /\ verdict \in {"ext", "limited"}
              /\ media[d].recover /\ ~task[t].ro
             THEN /\ handle' = [handle EXCEPT ![NewHandle] =
                                   [Bridge(d, task[t].ro) EXCEPT !.enc = unlock.rc = "opened"]]
                  /\ task' = [task EXCEPT ![t].pc = "recover", ![t].h = NewHandle]
             ELSE task' = Return(t) /\ UNCHANGED handle
  /\ UNCHANGED <<media, slot, fs, vols, shells, exec, said, calls, faults>>

checkRecover(t) ==
  /\ At(t, "recover") /\ exec = None
  /\ \E r \in ext4b_journal_recover(task[t].h) : Take(task[t].h, r)
  /\ task' = [task EXCEPT ![t].pc = "destroy", ![t].then = "idle"]
  /\ said' = [said EXCEPT ![task[t].dev] = "nothing"]
  /\ UNCHANGED <<keys, fs, vols, shells, exec, calls>>

-----------------------------------------------------------------------------
(* Operations on a volume, which still arrive after it has been closed.    *)

operation(t, h) ==
  /\ vols[h] \in {"active", "leaving"}
  /\ Call(t, [About(handle[h].dev, "op") EXCEPT !.h = h])
  /\ UNCHANGED <<media, keys, handle, slot, fs, vols, shells, exec, said, faults>>

\* Mutant: the pointer is not looked at.
operationEnter_Blind(t) ==
  /\ At(t, "op") /\ exec = None
  /\ LET hd == handle[task[t].h] IN
     /\ hd.open /\ ~hd.mounted => "late" \in Windows
     /\ IF TRUE THEN exec' = t /\ task' = Goto(t, "use")
                   ELSE exec' = exec /\ task' = Return(t)
  /\ UNCHANGED <<media, keys, handle, slot, fs, vols, shells, said, calls, faults>>

\* On the executor the pointer is read, and then used.
operationEnter(t) ==
  /\ At(t, "op") /\ exec = None
  /\ LET hd == handle[task[t].h] IN
     /\ hd.open /\ ~hd.mounted => "late" \in Windows
     /\ IF hd.open THEN exec' = t /\ task' = Goto(t, "use")
                   ELSE exec' = exec /\ task' = Return(t)
  /\ UNCHANGED <<media, keys, handle, slot, fs, vols, shells, said, calls, faults>>

\* A change commits to the log; a deletion may be left to a later transaction.
operationUse(t) ==
  /\ At(t, "use")
  /\ LET hd == handle[task[t].h] d == task[t].dev IN
     IF hd.mounted /\ ~hd.ro /\ task[t].then = "idle"
       THEN \E o \in {media[d].orphans, TRUE} :
              media' = [media EXCEPT ![d].orphans = o,
                                     ![d].log = IF hd.journal THEN "live" ELSE @]
       ELSE UNCHANGED media
  /\ exec' = None /\ task' = Return(t)
  /\ UNCHANGED <<keys, handle, slot, fs, vols, shells, said, calls, faults>>

\* volumeStatistics reads the pointer and the core's memory outside of the executor.
volumeStatistics(t, h) ==
  /\ vols[h] \in {"active", "leaving"} /\ handle[h].open
  /\ Call(t, [About(handle[h].dev, "stat") EXCEPT !.h = h])
  /\ UNCHANGED <<media, keys, handle, slot, fs, vols, shells, exec, said, faults>>

statisticsRead(t) ==
  /\ At(t, "stat") /\ task' = Return(t)
  /\ UNCHANGED <<media, keys, handle, slot, fs, vols, shells, exec, said, calls, faults>>

\* What the turn of the executor that task t waits for may end in.
Turn(t) ==
  CASE At(t, "mount")   -> ext4b_mount(task[t].h, task[t].ro)
    [] At(t, "unmount") -> ext4b_unmount(task[t].h)
    [] At(t, "recover") -> ext4b_journal_recover(task[t].h)
    [] OTHER            -> {}

\* The process dies, or the medium is pulled: what it held in memory is gone.  In the middle of
\* a mount or an unmount it leaves what a failing write there leaves.
Crash ==
  /\ Fault
  /\ \/ UNCHANGED media
     \/ exec = None /\ \E t \in Tasks : \E r \in Turn(t) :
          media' = [media EXCEPT ![handle[task[t].h].dev] = r.m]
  /\ handle' = [h \in Handles |-> NoHandle] /\ slot' = None /\ exec' = None
  /\ fs' = [bridge |-> None, lastSeen |-> NothingSeen, probed |-> {}]
  /\ vols' = [h \in Handles |-> "none"] /\ shells' = {}
  /\ task' = [t \in Tasks |-> Idle]
  /\ said' = [d \in Devices |-> "nothing"]
  /\ UNCHANGED <<keys, calls>>

Step(t) ==
  \/ examine(t) \/ loadRefused(t) \/ loadOpen(t) \/ loadMount(t) \/ loadInstall(t)
  \/ closeTake(t) \/ closeUnmount(t) \/ closeDestroy(t)
  \/ unmountSync(t) \/ unmountLeft(t) \/ deactivateDrop(t) \/ unloadDone(t)
  \/ formatOpen(t) \/ formatWipe(t) \/ formatSuper(t) \/ formatBuild(t)
  \/ formatFlush(t) \/ check(t) \/ checkOpen(t)
  \/ checkRecover(t) \/ operationEnter(t) \/ operationUse(t) \/ statisticsRead(t)

Calls(t) ==
  \/ \E d \in Devices : \/ probeResource(t, d) \/ loadResource(t, d) \/ unloadResource(t, d)
                        \/ startFormat(t, d) \/ \E readOnly \in BOOLEAN : startCheck(t, d, readOnly)
  \/ \E h \in Handles : \/ unmount(t, h) \/ deactivate(t, h) \/ operation(t, h)
                        \/ volumeStatistics(t, h)

Next == (\E t \in Tasks : Step(t) \/ Calls(t)) \/ (\E h \in Handles : activate(h)) \/ Crash

Spec == Init /\ [][Next]_vars
FairSpec == Spec /\ \A t \in Tasks : WF_vars(Step(t))

-----------------------------------------------------------------------------
(* Properties.                                                             *)

\* A mounted device holds lwext4's one slot, and is either the live volume or in the hands of
\* a call that will install or unmount it: no failure of loading, checking or closing leaves
\* the slot taken or a mount nobody can reach.
MountsOwned ==
  /\ \A h \in Handles : handle[h].mounted =>
       /\ slot = h /\ handle[h].open
       /\ fs.bridge = h \/ \E t \in Tasks : task[t].h = h /\ task[t].pc \in {"install", "unmount"}
  /\ slot # None => handle[slot].mounted

\* What is mounted is what is on the medium: a filesystem formatted to its end, and not one
\* that a format has replaced beneath the mount.
MountsSound ==
  \A h \in Handles : handle[h].mounted =>
     media[handle[h].dev].whole /\ handle[h].id = media[handle[h].dev].id

\* A volume mounted for writing has passed over nothing: whatever failed or died before it in a
\* mount, a replay or a close, its log held nothing that was not at home when its journal was
\* started anew, and the replay did not take the superblock with it.
ReplayedFirst ==
  \A h \in Handles : handle[h].mounted /\ ~handle[h].ro =>
     handle[h].over \in AtHome /\ media[handle[h].dev].kind = "ext"

\* A volume in use stays mounted until FSKit itself lets go of it: no probe, load, check or
\* format of anything closes it.
ActiveIsMounted ==
  \A h \in Handles : vols[h] = "active" => handle[h].mounted /\ fs.bridge = h

\* No call works through the pointer of a device that has been destroyed.
PointersLive ==
  \A t \in Tasks : task[t].pc \in {"use", "stat"} => handle[task[t].h].open

\* A format reaches the device it was asked for, although it is not told which.
FormatsWhatWasAsked ==
  \A t \in Tasks : task[t].pc \in {"wipe", "super", "build", "flush"} => task[t].dev = task[t].want

\* "Volume closed" is only said of a medium that needs no recovery, is marked clean and has
\* nothing in its log that is not at home, and until the next mount it stays so.
HonestClose ==
  \A d \in Devices : said[d] = "closed" =>
     ~media[d].recover /\ media[d].valid /\ media[d].log \in AtHome

\* Every call returns, and a volume FSKit has let go of is unmounted: nothing waits for the
\* executor for ever.
EveryCallReturns == \A t \in Tasks : []<>At(t, "idle")
LeavingCloses == \A h \in Handles : []<>(vols[h] = "leaving" => ~handle[h].mounted)

\* Whoever fails, dies or races, a mount has an owner, and a volume in use is
\* the one that is mounted (loadResource, closeVolume).
MountsHeld == TypeOK /\ MountsOwned /\ ActiveIsMounted

\* What is mounted was written to its end, is still there and was replayed
\* first (ext4b_format, ext4b_mount).
MountsChecked == MountsSound /\ ReplayedFirst

\* A call works on the device it was meant for, and while that is open
\* (closeVolume, maintenanceTarget).
DevicesRight == PointersLive /\ FormatsWhatWasAsked

\* Every call comes to an end, and a volume FSKit has left is closed.
CallsEnd == EveryCallReturns /\ LeavingCloses
=============================================================================
