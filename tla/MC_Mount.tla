------------------------------ MODULE MC_Mount ------------------------------
(***************************************************************************)
(* Two devices and two concurrent calls.  The first device may hold any    *)
(* kind of volume: one never unmounted, whose log replays, fails or takes  *)
(* the superblock with it, encrypted, unsupported, read-only, or nothing.  *)
(* The second holds a clean volume without a journal.                      *)
(***************************************************************************)
EXTENDS Mount

CONSTANTS d1, d2

Clean == [kind |-> "ext", journal |-> TRUE, recover |-> FALSE, valid |-> TRUE, log |-> "empty",
          orphans |-> FALSE, whole |-> TRUE, id |-> 0, luks |-> FALSE, locked |-> FALSE]
Dirty(log) == [Clean EXCEPT !.recover = TRUE, !.valid = FALSE, !.log = log, !.orphans = TRUE]
Blank == [Clean EXCEPT !.kind = "blank", !.journal = FALSE, !.valid = FALSE, !.whole = FALSE]

MC_Devices == {d1, d2}
MC_Media == [d \in MC_Devices |->
  IF d = d2 THEN {[Clean EXCEPT !.journal = FALSE]}
  ELSE {Dirty("live"), Dirty("fails"), Dirty("blank"), Dirty("limited"), Blank,
        [Clean EXCEPT !.kind = "limited"], [Clean EXCEPT !.kind = "refused"],
        [Dirty("live") EXCEPT !.locked = TRUE], [Dirty("live") EXCEPT !.luks = TRUE]}]
MC_Keys == [d \in MC_Devices |-> IF d = d2 THEN {"none"} ELSE {"none", "passphrase", "wrong"}]
=============================================================================
