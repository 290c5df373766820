--------------------------- MODULE Journal_proofs ---------------------------
(***************************************************************************)
(* Theorems about Journal: the log is well formed at every step, for any   *)
(* number of blocks, transactions, mounts and failures, any length of the  *)
(* log and every set of windows.                                           *)
(*                                                                         *)
(* The argument is the geometry of the ring: seen from the tail, the live  *)
(* transactions lie one behind the other and each begins where the one     *)
(* before it ends; what the committing one has been handed comes behind    *)
(* the last of them.                                                       *)
(***************************************************************************)
EXTENDS Journal, Integers, FiniteSetTheorems, WellFoundedInduction, TLAPS

-----------------------------------------------------------------------------
(* The inductive invariant.                                                *)

CellT(S) == [now : S, dur : S, fly : SUBSET S]
Tags == UNION {[1 .. n -> Blocks] : n \in 0 .. Cardinality(Blocks)}
Records ==
  [t : {"none"}] \cup [t : {"descriptor"}, id : Nat, tags : Tags] \cup [t : {"data"}, v : Nat]
    \cup [t : {"revoke"}, id : Nat, blocks : SUBSET Blocks] \cup [t : {"commit"}, id : Nat]

\* The medium, the running transaction and the scalars.
MediumInv ==
  /\ home \in [Blocks -> CellT(Contents)] /\ log \in [Ring -> CellT(Records)]
  /\ jsb \in CellT([start : 0 .. MaxLen - 1, seq : Nat]) /\ flag \in CellT(BOOLEAN)
ScalarInv ==
  /\ tail \in Position /\ published \in 0 .. MaxLen - 1 /\ last \in 0 .. MaxLen - 1
  /\ nextId \in Nat /\ ver \in Nat /\ gaveUp \in BOOLEAN
  /\ dirty \subseteq Blocks /\ revoked \subseteq Blocks /\ leaked \subseteq Blocks /\ dirty \cap revoked = {}

\* How far behind the tail p a log block x is.
Off(p, x) == IF x >= p THEN x - p ELSE x + (MaxLen - 1) - p

\* Transactions q from the tail p on, each beginning where the one before it
\* ends, and none past s.
InRow(p, q, s) ==
  /\ p \in Ring /\ s \in Ring /\ q \in Seq(Transaction)
  /\ q # <<>> => q[1].first = p
  /\ \A k \in DOMAIN q : k + 1 \in DOMAIN q => q[k + 1].first = EndOf(q[k])
  /\ \A j, k \in DOMAIN q : j < k => Off(p, q[j].first) + q[j].len <= Off(p, q[k].first)
  /\ \A k \in DOMAIN q : Off(p, q[k].first) + q[k].len <= Off(p, s)

\* Nothing lies between the last of them and s.
Meets(p, q, s) == s = IF q = <<>> THEN p ELSE EndOf(q[Len(q)])

\* What is known of the contents of a queue.
Numbered(q) == \A k \in DOMAIN q : q[k].id < nextId /\ q[k].ver <= ver

\* The first log block that is not a live transaction's, if the committing one
\* has sl and l is handed out next.
StartOf(sl, l) == IF sl = <<>> THEN l ELSE sl[1]
Start == StartOf(slots, last)

\* The live transactions from the tail p, behind them the log blocks sl of the
\* committing one, behind these the one to hand out next.
RingAt(p, q, sl, l) ==
  /\ InRow(p, q, StartOf(sl, l))
  /\ l \in Ring /\ sl \in Seq(Ring)
  /\ \A i \in DOMAIN sl : Off(p, sl[i]) = Off(p, StartOf(sl, l)) + i - 1
  /\ Off(p, l) = Off(p, StartOf(sl, l)) + Len(sl)

\* The log is full, and a failed write keeps its oldest transaction there.
Stuck == slots = <<>> /\ Advanced = tail.start /\ queue # <<>> /\ queue[1].bad

\* The log blocks the committing transaction has when its commit block is due.
BodyLen == (IF dirty = {} THEN 0 ELSE 1 + Cardinality(dirty)) + (IF revoked = {} THEN 0 ELSE 1)

Session == {"run", "descriptor", "revoke", "body", "commit", "finish"}
Pcs == Session \cup {"down", "stop", "stopBarrier", "unmount", "off", "crashed", "recover", "replayed", "attach"}

\* The committing transaction has what its stage has asked for.
StageInv ==
  /\ pc \in Pcs /\ alloc \in {"none", "tail", "tailNow", "seal"}
  /\ alloc # "none" => Allocating /\ Len(slots) < Wanted
  /\ pc = "descriptor" => dirty # {} /\ Len(slots) <= Wanted
  /\ pc = "revoke" => revoked # {} /\ Len(slots) <= Wanted
  /\ pc = "body" => Len(slots) = BodyLen
  /\ pc = "commit" => Len(slots) <= Wanted
  /\ pc = "finish" => Len(slots) = 1 + BodyLen
  /\ pc \notin Session \ {"run"} => slots = <<>>
  /\ pc \notin Session => queue = <<>>
  /\ pc = "replayed" => jsb.now.start # 0

\* The ring, while there is a session.
RingInv ==
  pc \in Session =>
    /\ RingAt(tail.start, queue, slots, last)
    /\ Meets(tail.start, queue, Start) \/ Stuck
    /\ alloc # "none" => Advanced # tail.start

LogInv == MediumInv /\ ScalarInv /\ Numbered(queue) /\ StageInv /\ RingInv

-----------------------------------------------------------------------------
(* The ring.                                                               *)

\* The log is longer than any transaction.
LEMMA RoomInLog == MaxLen \in Nat /\ Cardinality(Blocks) \in Nat /\ MaxLen > Cardinality(Blocks) + 4
BY JournalAssumption, FS_CardinalityType

\* A log block is less than once round the ring behind the tail.
LEMMA OffIs ==
  ASSUME NEW p \in Ring, NEW x \in Ring
  PROVE  Off(p, x) \in 0 .. MaxLen - 2 /\ Off(p, p) = 0
BY RoomInLog DEF Off, Ring, First

\* n blocks further on, short of the tail.
LEMMA OffStep ==
  ASSUME NEW p \in Ring, NEW x \in Ring, NEW n \in Nat, Off(p, x) + n <= MaxLen - 2
  PROVE  Wrap(x + n) \in Ring /\ Off(p, Wrap(x + n)) = Off(p, x) + n
BY RoomInLog DEF Off, Ring, First, Wrap

\* One block further on is the next, or the tail.
LEMMA OffNext ==
  ASSUME NEW p \in Ring, NEW x \in Ring
  PROVE  /\ Wrap(x + 1) \in Ring
         /\ Wrap(x + 1) # p => Off(p, Wrap(x + 1)) = Off(p, x) + 1
         /\ Wrap(x + 1) = p <=> Off(p, x) = MaxLen - 2
BY RoomInLog DEF Off, Ring, First, Wrap

\* Different log blocks are not equally far from the tail.
LEMMA OffOne ==
  ASSUME NEW p \in Ring, NEW x \in Ring, NEW y \in Ring, Off(p, x) = Off(p, y)
  PROVE  x = y
BY RoomInLog DEF Off, Ring, First

\* Seen from a tail that has moved.
LEMMA OffShift ==
  ASSUME NEW p \in Ring, NEW r \in Ring, NEW x \in Ring, Off(p, r) <= Off(p, x)
  PROVE  Off(r, x) = Off(p, x) - Off(p, r)
BY RoomInLog DEF Off, Ring, First

-----------------------------------------------------------------------------
(* The checkpoint queue.                                                   *)

\* A completion changes which blocks are pending, and nothing else.
LEMMA CompletedIs ==
  ASSUME NEW q \in Seq(Transaction), NEW B
  PROVE  /\ Completed(q, B) \in Seq(Transaction) /\ Len(Completed(q, B)) = Len(q)
         /\ DOMAIN Completed(q, B) = DOMAIN q /\ (Completed(q, B) = <<>> <=> q = <<>>)
         /\ \A k \in DOMAIN q :
              /\ Completed(q, B)[k].id = q[k].id /\ Completed(q, B)[k].first = q[k].first
              /\ Completed(q, B)[k].len = q[k].len /\ Completed(q, B)[k].ver = q[k].ver
              /\ Completed(q, B)[k].bad = q[k].bad
              /\ EndOf(Completed(q, B)[k]) = EndOf(q[k])
<1>. DEFINE c == Completed(q, B)
<1>1. c = [k \in 1 .. Len(q) |-> [q[k] EXCEPT !.pending = @ \ B]] BY DEF Completed
<1>2. \A k \in 1 .. Len(q) : q[k] \in Transaction OBVIOUS
<1>3. \A k \in 1 .. Len(q) : [q[k] EXCEPT !.pending = @ \ B] \in Transaction
  BY <1>2 DEF Transaction
<1>4. c \in Seq(Transaction) /\ Len(c) = Len(q) BY <1>1, <1>3
<1>5. \A k \in 1 .. Len(q) : c[k].id = q[k].id /\ c[k].first = q[k].first /\ c[k].len = q[k].len
                             /\ c[k].ver = q[k].ver /\ c[k].bad = q[k].bad
  BY <1>1, <1>2 DEF Transaction
<1>. QED BY <1>4, <1>5 DEF EndOf

\* It leaves the transactions where they are in the log.
LEMMA CompletedRow ==
  ASSUME NEW p, NEW q, NEW s, InRow(p, q, s), NEW B
  PROVE  /\ InRow(p, Completed(q, B), s)
         /\ Meets(p, q, s) => Meets(p, Completed(q, B), s)
         /\ Numbered(q) => Numbered(Completed(q, B))
<1>. DEFINE c == Completed(q, B)
<1>1. q \in Seq(Transaction) BY DEF InRow
<1>2. /\ c \in Seq(Transaction) /\ Len(c) = Len(q)
      /\ DOMAIN c = DOMAIN q /\ (c = <<>> <=> q = <<>>)
      /\ \A k \in DOMAIN q :
           /\ c[k].id = q[k].id /\ c[k].first = q[k].first
           /\ c[k].len = q[k].len /\ c[k].ver = q[k].ver
           /\ EndOf(c[k]) = EndOf(q[k])
  BY <1>1, CompletedIs
<1>. HIDE DEF c
<1>3. InRow(p, c, s) BY <1>1, <1>2 DEF InRow
<1>4. Meets(p, q, s) => Meets(p, c, s) BY <1>1, <1>2 DEF Meets
<1>5. Numbered(q) => Numbered(c) BY <1>2 DEF Numbered
<1>. QED BY <1>3, <1>4, <1>5 DEF c

\* A non-empty set of numbers up to n has a greatest member.
LEMMA MaxIs ==
  ASSUME NEW n \in Nat, NEW S, S \subseteq 0 .. n, S # {}
  PROVE  Max(S) \in S /\ \A x \in S : x <= Max(S)
<1>. DEFINE L == {k \in 0 .. n : n - k \in S}
<1>1. L # {} /\ L \subseteq Nat
  <2>1. PICK x \in S : TRUE OBVIOUS
  <2>2. n - x \in L BY <2>1
  <2>3. L \subseteq Nat OBVIOUS
  <2>. HIDE DEF L
  <2>. QED BY <2>2, <2>3
<1>2. PICK k \in L : \A j \in L : ~ (<<j, k>> \in OpToRel(<, Nat))
  BY <1>1, NatLessThanWellFounded, WFMin
<1>3. \A x \in S : x <= n - k
  <2>. TAKE x \in S
  <2>1. n - x \in L OBVIOUS
  <2>2. n - x \in Nat /\ k \in Nat BY <1>1, <2>1
  <2>3. ~ (<<n - x, k>> \in OpToRel(<, Nat)) BY <1>2, <2>1
  <2>4. ~ (n - x < k) BY <2>2, <2>3 DEF OpToRel
  <2>. QED BY <2>2, <2>4
<1>4. \E y \in S : \A x \in S : x <= y BY <1>3
<1>. QED BY <1>4 DEF Max

\* Done transactions up to one that is not.
LEMMA DonePrefixIs ==
  ASSUME NEW q \in Seq(Transaction)
  PROVE  DonePrefix(q) \in 0 .. Len(q) /\ \A k \in 1 .. DonePrefix(q) : Done(q[k])
<1>. DEFINE S == {m \in 0 .. Len(q) : \A k \in 1 .. m : Done(q[k])}
<1>1. Len(q) \in Nat /\ S \subseteq 0 .. Len(q) /\ 0 \in S OBVIOUS
<1>2. Max(S) \in S /\ \A x \in S : x <= Max(S)
  <2>. HIDE DEF S
  <2>. QED BY <1>1, MaxIs
<1>3. Max(S) < Len(q) => ~Done(q[Max(S) + 1])
  <2>. SUFFICES ASSUME Max(S) < Len(q), Done(q[Max(S) + 1]) PROVE FALSE OBVIOUS
  <2>1. Max(S) + 1 \in S BY <1>1, <1>2
  <2>. QED BY <1>1, <1>2, <2>1
<1>. DEFINE P(n) == /\ \A k \in 1 .. n : Done(q[k])
                    /\ n < Len(q) => ~Done(q[n + 1])
<1>4. \E n \in 0 .. Len(q) : P(n) BY <1>2, <1>3
<1>5. DonePrefix(q) = CHOOSE n \in 0 .. Len(q) : P(n) BY DEF DonePrefix
<1>. HIDE DEF P
<1>6. DonePrefix(q) \in 0 .. Len(q) /\ P(DonePrefix(q)) BY <1>4, <1>5
<1>. QED BY <1>6 DEF P

\* What a completion retires did not fail.
LEMMA RetireCountIs ==
  ASSUME NEW q \in Seq(Transaction), NEW B
  PROVE  RetireCount(q, B) \in 0 .. Len(q) /\ (RetireCount(q, B) > 0 => q # <<>> /\ ~q[1].bad)
<1>. DEFINE c == Completed(q, B)
<1>1. c \in Seq(Transaction) /\ Len(c) = Len(q) /\ Len(q) \in Nat
      /\ \A k \in DOMAIN q : c[k].bad = q[k].bad
  BY CompletedIs
<1>. HIDE DEF c
<1>2. DonePrefix(c) \in 0 .. Len(q) /\ \A k \in 1 .. DonePrefix(c) : Done(c[k])
  BY <1>1, DonePrefixIs
<1>3. DonePrefix(c) > 0 => q # <<>> /\ ~q[1].bad BY <1>1, <1>2 DEF Done
<1>. QED BY <1>1, <1>2, <1>3 DEF RetireCount, c

\* Where a live transaction ends is in the ring, and not the tail again.
LEMMA EndIs ==
  ASSUME NEW p, NEW q, NEW s, InRow(p, q, s), NEW n \in DOMAIN q
  PROVE  /\ q[n] \in Transaction /\ EndOf(q[n]) \in Ring
         /\ Off(p, EndOf(q[n])) = Off(p, q[n].first) + q[n].len
         /\ 0 < Off(p, EndOf(q[n])) /\ Off(p, EndOf(q[n])) <= Off(p, s)
<1>1. p \in Ring /\ s \in Ring /\ q[n] \in Transaction /\ Off(p, q[n].first) + q[n].len <= Off(p, s)
  BY DEF InRow
<1>2. q[n].first \in Ring /\ q[n].len \in Nat \ {0} BY <1>1, RoomInLog DEF Transaction
<1>3. Off(p, s) <= MaxLen - 2 /\ Off(p, q[n].first) \in Nat BY <1>1, <1>2, OffIs
<1>4. Off(p, q[n].first) + q[n].len <= MaxLen - 2 BY <1>1, <1>2, <1>3, OffIs, RoomInLog
<1>5. EndOf(q[n]) \in Ring /\ Off(p, EndOf(q[n])) = Off(p, q[n].first) + q[n].len
  BY <1>1, <1>2, <1>4, OffStep DEF EndOf
<1>. QED BY <1>1, <1>2, <1>3, <1>5

\* The tail moves past n transactions, and the others are as they were.
LEMMA RetiredRow ==
  ASSUME NEW p, NEW q, NEW s, InRow(p, q, s), NEW n \in DOMAIN q
  PROVE  /\ InRow(EndOf(q[n]), Retired(q, n), s)
         /\ Meets(p, q, s) => Meets(EndOf(q[n]), Retired(q, n), s)
         /\ Numbered(q) => Numbered(Retired(q, n))
         /\ n + 1 \in DOMAIN q => q[n + 1].first = EndOf(q[n])
<1>. DEFINE r == EndOf(q[n])
            w == Retired(q, n)
<1>1. /\ p \in Ring /\ s \in Ring /\ q \in Seq(Transaction)
      /\ q # <<>> => q[1].first = p
      /\ \A k \in DOMAIN q : k + 1 \in DOMAIN q => q[k + 1].first = EndOf(q[k])
      /\ \A j, k \in DOMAIN q : j < k => Off(p, q[j].first) + q[j].len <= Off(p, q[k].first)
      /\ \A k \in DOMAIN q : Off(p, q[k].first) + q[k].len <= Off(p, s)
  BY DEF InRow
<1>2. Len(q) \in Nat /\ DOMAIN q = 1 .. Len(q) BY <1>1
<1>3. /\ w \in Seq(Transaction) /\ Len(w) = Len(q) - n /\ DOMAIN w = 1 .. Len(q) - n
      /\ \A k \in DOMAIN w : k + n \in DOMAIN q /\ w[k] = q[k + n]
  BY <1>1, <1>2 DEF Retired
<1>4. \A k \in DOMAIN q : q[k] \in Transaction /\ q[k].first \in Ring /\ q[k].len \in Nat
  <2>. TAKE k \in DOMAIN q
  <2>1. q[k] \in Transaction BY <1>1, <1>2
  <2>. QED BY <2>1, RoomInLog DEF Transaction
<1>5. r \in Ring /\ Off(p, r) = Off(p, q[n].first) + q[n].len /\ Off(p, r) <= Off(p, s) BY EndIs
<1>. HIDE DEF r, w
<1>6. \A x \in Ring : Off(p, r) <= Off(p, x) => Off(r, x) = Off(p, x) - Off(p, r)
  BY <1>1, <1>5, OffShift
<1>7. \A k \in DOMAIN w : Off(p, r) <= Off(p, w[k].first) /\ w[k].first \in Ring /\ w[k].len \in Nat
  <2>. TAKE k \in DOMAIN w
  <2>1. k + n \in DOMAIN q /\ w[k] = q[k + n] /\ n < k + n BY <1>2, <1>3
  <2>. QED BY <1>1, <1>4, <1>5, <2>1
<1>8. \A x \in Ring : Off(p, x) \in Nat BY <1>1, OffIs
<1>9. InRow(r, w, s)
  <2>1. r \in Ring /\ s \in Ring /\ w \in Seq(Transaction) BY <1>1, <1>3, <1>5
  <2>2. w # <<>> => w[1].first = r
    <3>. SUFFICES ASSUME w # <<>> PROVE w[1].first = r OBVIOUS
    <3>1. 1 \in DOMAIN w BY <1>2, <1>3
    <3>2. w[1] = q[n + 1] /\ n + 1 \in DOMAIN q BY <1>2, <1>3, <3>1
    <3>. QED BY <1>1, <3>2 DEF r
  <2>3. \A k \in DOMAIN w : k + 1 \in DOMAIN w => w[k + 1].first = EndOf(w[k])
    <3>. SUFFICES ASSUME NEW k \in DOMAIN w, k + 1 \in DOMAIN w PROVE w[k + 1].first = EndOf(w[k])
      OBVIOUS
    <3>1. w[k] = q[k + n] /\ k + n \in DOMAIN q /\ w[k + 1] = q[k + 1 + n] /\ k + 1 + n \in DOMAIN q
      BY <1>3
    <3>2. k + 1 + n = (k + n) + 1 BY <1>2, <1>3
    <3>. QED BY <1>1, <3>1, <3>2
  <2>4. \A j, k \in DOMAIN w : j < k => Off(r, w[j].first) + w[j].len <= Off(r, w[k].first)
    <3>. SUFFICES ASSUME NEW j \in DOMAIN w, NEW k \in DOMAIN w, j < k
                  PROVE  Off(r, w[j].first) + w[j].len <= Off(r, w[k].first)
      OBVIOUS
    <3>1. j + n < k + n /\ j + n \in DOMAIN q /\ k + n \in DOMAIN q /\ w[j] = q[j + n] /\ w[k] = q[k + n]
      BY <1>2, <1>3
    <3>2. Off(p, w[j].first) + w[j].len <= Off(p, w[k].first) BY <1>1, <3>1
    <3>. QED BY <1>5, <1>6, <1>7, <1>8, <3>2
  <2>5. \A k \in DOMAIN w : Off(r, w[k].first) + w[k].len <= Off(r, s)
    <3>. TAKE k \in DOMAIN w
    <3>1. Off(p, w[k].first) + w[k].len <= Off(p, s) BY <1>1, <1>3
    <3>. QED BY <1>1, <1>5, <1>6, <1>7, <1>8, <3>1
  <2>. QED BY <2>1, <2>2, <2>3, <2>4, <2>5 DEF InRow
<1>10. Meets(p, q, s) => Meets(r, w, s)
  <2>. SUFFICES ASSUME Meets(p, q, s) PROVE Meets(r, w, s) OBVIOUS
  <2>1. s = EndOf(q[Len(q)]) BY <1>1, <1>2 DEF Meets
  <2>2. CASE w = <<>>
    <3>1. n = Len(q) BY <1>2, <1>3, <2>2
    <3>. QED BY <2>1, <2>2, <3>1 DEF Meets, r
  <2>3. CASE w # <<>>
    <3>1. Len(w) \in DOMAIN w BY <1>2, <1>3, <2>3
    <3>2. w[Len(w)] = q[Len(q)] BY <1>2, <1>3, <3>1
    <3>. QED BY <2>1, <2>3, <3>2 DEF Meets
  <2>. QED BY <2>2, <2>3
<1>11. Numbered(q) => Numbered(w) BY <1>3 DEF Numbered
<1>. QED BY <1>1, <1>9, <1>10, <1>11 DEF r, w

\* A transaction joins the queue where the last one ends.
LEMMA AppendRow ==
  ASSUME NEW p, NEW q, NEW s, InRow(p, q, s), Meets(p, q, s),
         NEW t \in Transaction, t.first = s, NEW l \in Ring, Off(p, l) = Off(p, s) + t.len
  PROVE  InRow(p, Append(q, t), l) /\ Meets(p, Append(q, t), l)
<1>. DEFINE w == Append(q, t)
<1>1. /\ p \in Ring /\ s \in Ring /\ q \in Seq(Transaction)
      /\ q # <<>> => q[1].first = p
      /\ \A k \in DOMAIN q : k + 1 \in DOMAIN q => q[k + 1].first = EndOf(q[k])
      /\ \A j, k \in DOMAIN q : j < k => Off(p, q[j].first) + q[j].len <= Off(p, q[k].first)
      /\ \A k \in DOMAIN q : Off(p, q[k].first) + q[k].len <= Off(p, s)
  BY DEF InRow
<1>2. Len(q) \in Nat /\ DOMAIN q = 1 .. Len(q) /\ (q = <<>> <=> Len(q) = 0) BY <1>1
<1>3. /\ w \in Seq(Transaction) /\ Len(w) = Len(q) + 1 /\ DOMAIN w = 1 .. Len(q) + 1 /\ w # <<>>
      /\ \A k \in DOMAIN q : w[k] = q[k]
      /\ w[Len(q) + 1] = t
  <2>1. w \in Seq(Transaction) /\ Len(w) = Len(q) + 1 BY <1>1
  <2>2. \A k \in 1 .. Len(q) : w[k] = q[k] BY <1>1
  <2>3. w[Len(q) + 1] = t BY <1>1
  <2>. HIDE DEF w
  <2>. QED BY <1>2, <2>1, <2>2, <2>3
<1>4. \A k \in DOMAIN q : q[k] \in Transaction /\ q[k].first \in Ring /\ q[k].len \in Nat
  <2>. TAKE k \in DOMAIN q
  <2>1. q[k] \in Transaction BY <1>1, <1>2
  <2>. QED BY <2>1, RoomInLog DEF Transaction
<1>5. t.len \in Nat BY RoomInLog DEF Transaction
<1>6. \A x \in Ring : Off(p, x) \in Nat /\ Off(p, x) <= MaxLen - 2 BY <1>1, OffIs
<1>. HIDE DEF w
<1>7. l = EndOf(t)
  <2>1. Wrap(s + t.len) \in Ring /\ Off(p, Wrap(s + t.len)) = Off(p, s) + t.len
    BY <1>1, <1>5, <1>6, OffStep
  <2>. QED BY <1>1, <2>1, OffOne DEF EndOf
<1>8. \A k \in DOMAIN w : k \in DOMAIN q \/ k = Len(q) + 1 BY <1>2, <1>3
<1>9. InRow(p, w, l)
  <2>1. w[1].first = p
    <3>1. CASE q = <<>> BY <1>2, <1>3, <3>1 DEF Meets
    <3>2. CASE q # <<>>
      <4>1. 1 \in DOMAIN q BY <1>2, <3>2
      <4>. QED BY <1>1, <1>3, <3>2, <4>1
    <3>. QED BY <3>1, <3>2
  <2>2. \A k \in DOMAIN w : k + 1 \in DOMAIN w => w[k + 1].first = EndOf(w[k])
    <3>. SUFFICES ASSUME NEW k \in DOMAIN w, k + 1 \in DOMAIN w PROVE w[k + 1].first = EndOf(w[k])
      OBVIOUS
    <3>1. k \in DOMAIN q BY <1>2, <1>3
    <3>2. CASE k + 1 \in DOMAIN q BY <1>1, <1>3, <3>1, <3>2
    <3>3. CASE k = Len(q) BY <1>2, <1>3, <3>1, <3>3 DEF Meets
    <3>. QED BY <1>2, <3>1, <3>2, <3>3
  <2>3. \A k \in DOMAIN q : Off(p, w[k].first) + w[k].len <= Off(p, s) BY <1>1, <1>3
  <2>4. \A j, k \in DOMAIN w : j < k => Off(p, w[j].first) + w[j].len <= Off(p, w[k].first)
    <3>. SUFFICES ASSUME NEW j \in DOMAIN w, NEW k \in DOMAIN w, j < k
                  PROVE  Off(p, w[j].first) + w[j].len <= Off(p, w[k].first)
      OBVIOUS
    <3>1. j \in DOMAIN q BY <1>2, <1>3
    <3>2. CASE k \in DOMAIN q BY <1>1, <1>3, <3>1, <3>2
    <3>3. CASE k = Len(q) + 1 BY <1>3, <2>3, <3>1, <3>3
    <3>. QED BY <1>8, <3>2, <3>3
  <2>5. \A k \in DOMAIN w : Off(p, w[k].first) + w[k].len <= Off(p, l)
    <3>. TAKE k \in DOMAIN w
    <3>1. CASE k \in DOMAIN q BY <1>1, <1>3, <1>4, <1>5, <1>6, <2>3, <3>1
    <3>2. CASE k = Len(q) + 1 BY <1>1, <1>3, <1>5, <1>6, <3>2
    <3>. QED BY <1>8, <3>1, <3>2
  <2>. QED BY <1>1, <1>3, <2>1, <2>2, <2>4, <2>5 DEF InRow
<1>10. Meets(p, w, l) BY <1>3, <1>7 DEF Meets
<1>. QED BY <1>9, <1>10 DEF w

\* The tail goes to where the last transaction retired ends.
LEMMA TailIs ==
  ASSUME NEW p, NEW q, NEW s, InRow(p, q, s), NEW n \in 0 .. Len(q), tail \in Position
  PROVE  /\ TailPast(q, n) \in Position /\ TailStops(q, n) \in Position
         /\ n = 0 => TailPast(q, n) = tail /\ TailStops(q, n) = tail
         /\ n # 0 => TailPast(q, n).start = EndOf(q[n]) /\ TailStops(q, n).start = EndOf(q[n])
<1>1. q \in Seq(Transaction) /\ Len(q) \in Nat /\ DOMAIN q = 1 .. Len(q) BY DEF InRow
<1>2. CASE n = 0
  <2>1. TailPast(q, n) = tail /\ TailStops(q, n) = tail BY <1>2 DEF TailPast, TailStops
  <2>. QED BY <1>2, <2>1
<1>3. CASE n # 0
  <2>1. n \in DOMAIN q BY <1>1, <1>3
  <2>2. q[n] \in Transaction /\ EndOf(q[n]) \in Ring BY <2>1, EndIs
  <2>3. EndOf(q[n]) \in 0 .. MaxLen - 1 /\ q[n].id + 1 \in Nat
    BY <2>2, RoomInLog DEF Transaction, Ring, First
  <2>4. TailPast(q, n) = [start |-> EndOf(q[n]), id |-> q[n].id + 1] BY <1>3 DEF TailPast
  <2>5. TailPast(q, n) \in Position /\ TailPast(q, n).start = EndOf(q[n])
    BY <2>3, <2>4 DEF Position
  <2>6. CASE n < Len(q) /\ ~Written(q[n + 1])
    <3>1. n + 1 \in DOMAIN q BY <1>1, <2>6
    <3>2. q[n + 1] \in Transaction BY <1>1, <3>1
    <3>3. q[n + 1].first = EndOf(q[n]) BY <2>1, <3>1, RetiredRow
    <3>4. TailStops(q, n) = [start |-> q[n + 1].first, id |-> q[n + 1].id]
      BY <1>3, <2>6, <1>1 DEF TailStops
    <3>5. TailStops(q, n) \in Position /\ TailStops(q, n).start = EndOf(q[n])
      BY <2>3, <3>2, <3>3, <3>4 DEF Position, Transaction
    <3>. QED BY <1>3, <2>5, <3>5
  <2>7. CASE ~(n < Len(q) /\ ~Written(q[n + 1]))
    <3>1. TailStops(q, n) = TailPast(q, n) BY <2>7 DEF TailStops
    <3>. QED BY <1>3, <2>5, <3>1
  <2>. QED BY <2>6, <2>7
<1>. QED BY <1>2, <1>3

\* The ring after n transactions have retired.
LEMMA RingMoves ==
  ASSUME NEW p, NEW q, NEW sl, NEW l, RingAt(p, q, sl, l), NEW n \in DOMAIN q
  PROVE  /\ RingAt(EndOf(q[n]), Retired(q, n), sl, l)
         /\ Wrap(l + 1) # EndOf(q[n])
<1>. DEFINE s == StartOf(sl, l)
            r == EndOf(q[n])
<1>1. /\ InRow(p, q, s) /\ l \in Ring /\ sl \in Seq(Ring)
      /\ \A i \in DOMAIN sl : Off(p, sl[i]) = Off(p, s) + i - 1
      /\ Off(p, l) = Off(p, s) + Len(sl)
  BY DEF RingAt
<1>2. p \in Ring /\ s \in Ring BY <1>1 DEF InRow
<1>. HIDE DEF s
<1>3. r \in Ring /\ 0 < Off(p, r) /\ Off(p, r) <= Off(p, s) BY <1>1, EndIs
<1>4. InRow(r, Retired(q, n), s) BY <1>1, RetiredRow
<1>. HIDE DEF r
<1>5. \A x \in Ring : Off(p, x) \in 0 .. MaxLen - 2 BY <1>2, OffIs
<1>6. \A x \in Ring : Off(p, r) <= Off(p, x) => Off(r, x) = Off(p, x) - Off(p, r)
  BY <1>2, <1>3, OffShift
<1>7. Len(sl) \in Nat /\ DOMAIN sl = 1 .. Len(sl) /\ \A i \in DOMAIN sl : sl[i] \in Ring BY <1>1
<1>8. Off(r, s) = Off(p, s) - Off(p, r) BY <1>2, <1>3, <1>6
<1>9. Off(r, l) = Off(p, l) - Off(p, r) BY <1>1, <1>2, <1>3, <1>5, <1>6, <1>7
<1>10. \A i \in DOMAIN sl : Off(r, sl[i]) = Off(r, s) + i - 1
  <2>. TAKE i \in DOMAIN sl
  <2>1. Off(p, sl[i]) = Off(p, s) + i - 1 /\ i >= 1 /\ i \in Int BY <1>1, <1>7
  <2>2. Off(p, r) <= Off(p, sl[i]) BY <1>2, <1>3, <1>5, <2>1
  <2>. QED BY <1>2, <1>3, <1>5, <1>6, <1>7, <1>8, <2>1, <2>2
<1>11. Off(r, l) = Off(r, s) + Len(sl) BY <1>1, <1>2, <1>3, <1>5, <1>7, <1>8, <1>9
<1>12. RingAt(r, Retired(q, n), sl, l) BY <1>1, <1>4, <1>10, <1>11 DEF RingAt, s
<1>13. Wrap(l + 1) # r
  <2>1. Off(r, l) # MaxLen - 2 BY <1>1, <1>3, <1>5, <1>9, RoomInLog
  <2>. QED BY <1>1, <1>3, <2>1, OffNext
<1>. QED BY <1>12, <1>13 DEF r

\* What a completion does to the ring, seen from a tail p.
LEMMA CompletionMoves ==
  ASSUME tail \in Position, NEW p, NEW q, NEW sl, NEW l, RingAt(p, q, sl, l), NEW B,
         NEW c, c = Completed(q, B), NEW n, n = RetireCount(q, B),
         NEW r, r = IF n = 0 THEN p ELSE TailStops(c, n).start
  PROVE  /\ TailStops(c, n) \in Position /\ (n = 0 => TailStops(c, n) = tail)
         /\ RingAt(r, Retired(c, n), sl, l)
         /\ Numbered(q) => Numbered(Retired(c, n))
         /\ Meets(p, q, StartOf(sl, l)) => Meets(r, Retired(c, n), StartOf(sl, l))
         /\ q # <<>> /\ q[1].bad => n = 0 /\ Retired(c, n) # <<>> /\ Retired(c, n)[1].bad
<1>. DEFINE s == StartOf(sl, l)
<1>1. InRow(p, q, s) /\ q \in Seq(Transaction) BY DEF RingAt, InRow
<1>2. /\ c \in Seq(Transaction) /\ Len(c) = Len(q) /\ DOMAIN c = DOMAIN q
      /\ \A k \in DOMAIN q : c[k].bad = q[k].bad
      /\ (c = <<>> <=> q = <<>>)
  BY <1>1, CompletedIs
<1>3. n \in 0 .. Len(c) /\ (n > 0 => q # <<>> /\ ~q[1].bad) BY <1>1, <1>2, RetireCountIs
<1>4. /\ InRow(p, c, s) /\ (Numbered(q) => Numbered(c))
      /\ Meets(p, q, s) => Meets(p, c, s)
  BY <1>1, CompletedRow
<1>5. RingAt(p, c, sl, l) BY <1>4 DEF RingAt
<1>. HIDE DEF s
<1>6. CASE n = 0
  <2>1. Retired(c, n) = c BY <1>2, <1>6 DEF Retired
  <2>2. TailStops(c, n) = tail BY <1>3, <1>4, <1>6, TailIs
  <2>3. q # <<>> => 1 \in DOMAIN q BY <1>1
  <2>. QED BY <1>2, <1>4, <1>5, <1>6, <2>1, <2>2, <2>3 DEF s
<1>7. CASE n # 0
  <2>1. n \in DOMAIN c /\ n > 0 BY <1>2, <1>3, <1>7
  <2>2. TailStops(c, n) \in Position /\ TailStops(c, n).start = EndOf(c[n])
    BY <1>3, <1>4, <1>7, TailIs
  <2>3. RingAt(EndOf(c[n]), Retired(c, n), sl, l) BY <1>5, <2>1, RingMoves
  <2>4. /\ Numbered(c) => Numbered(Retired(c, n))
        /\ Meets(p, c, s) => Meets(EndOf(c[n]), Retired(c, n), s)
    BY <1>4, <2>1, RetiredRow
  <2>. QED BY <1>3, <1>4, <1>7, <2>1, <2>2, <2>3, <2>4 DEF s
<1>. QED BY <1>6, <1>7

-----------------------------------------------------------------------------
(* What a crash leaves.                                                    *)

\* A set with 0 in it and the successor of whatever is in it has all numbers.
LEMMA NatInd ==
  ASSUME NEW S, 0 \in S, \A n \in Nat : n \in S => n + 1 \in S
  PROVE  Nat \subseteq S
<1>. SUFFICES ASSUME NEW x \in Nat, x \notin S PROVE FALSE OBVIOUS
<1>. DEFINE L == Nat \ S
<1>1. L # {} /\ L \subseteq Nat OBVIOUS
<1>2. PICK k \in L : \A j \in L : ~ (<<j, k>> \in OpToRel(<, Nat))
  BY <1>1, NatLessThanWellFounded, WFMin
<1>3. k \in Nat /\ k # 0 /\ k \notin S BY <1>2
<1>4. k - 1 \in Nat /\ (k - 1) + 1 = k BY <1>3
<1>5. k - 1 \in S
  <2>. SUFFICES ASSUME k - 1 \notin S PROVE FALSE OBVIOUS
  <2>1. k - 1 \in L BY <1>4
  <2>2. ~ (<<k - 1, k>> \in OpToRel(<, Nat)) BY <1>2, <2>1
  <2>3. ~ (k - 1 < k) BY <1>3, <1>4, <2>2 DEF OpToRel
  <2>. QED BY <1>3, <2>3
<1>6. (k - 1) + 1 \in S BY <1>4, <1>5
<1>. QED BY <1>3, <1>4, <1>6

\* One cell decided, in every way.
CrashOne(f, a, T) == UNION {{[g EXCEPT ![a] = Cell(v)] : v \in Outcomes(f[a])} : g \in T}
Pick(s) == CHOOSE x \in s : TRUE
\* What is known when the cells of s are decided, if i knows it of one cell less.
CrashStep(f, i, s) == IF s = {} THEN {Settled(f)} ELSE CrashOne(f, Pick(s), i[s \ {Pick(s)}])

\* Survivors is computed by a function on sets of cells.
LEMMA SurvivorsFold ==
  ASSUME NEW f
  PROVE  LET D == {a \in DOMAIN f : f[a].fly # {}}
             iter == CHOOSE i : i = [s \in SUBSET D |-> CrashStep(f, i, s)]
         IN Survivors(f) = iter[D]
BY DEF Survivors, FoldSet, MapThenFoldSet, CrashOne, Pick, CrashStep

\* There is such a function.
LEMMA FoldExists ==
  ASSUME NEW f, NEW D, IsFiniteSet(D)
  PROVE  \E i : i = [s \in SUBSET D |-> CrashStep(f, i, s)]
<1>. DEFINE Upto(n, i) == /\ i = [s \in SUBSET D |-> i[s]]
                         /\ \A s \in SUBSET D : Cardinality(s) <= n => i[s] = CrashStep(f, i, s)
            S == {n \in Nat : \E i : Upto(n, i)}
<1>1. \A s \in SUBSET D : IsFiniteSet(s) /\ Cardinality(s) \in Nat /\ Cardinality(s) <= Cardinality(D)
                          /\ (Cardinality(s) = 0 <=> s = {})
                          /\ (s # {} => Pick(s) \in s /\ Cardinality(s \ {Pick(s)}) = Cardinality(s) - 1)
  <2>. TAKE s \in SUBSET D
  <2>1. IsFiniteSet(s) /\ Cardinality(s) <= Cardinality(D) BY FS_Subset
  <2>2. Cardinality(s) \in Nat /\ (Cardinality(s) = 0 <=> s = {}) BY <2>1, FS_CardinalityType, FS_EmptySet
  <2>3. s # {} => Pick(s) \in s BY DEF Pick
  <2>4. s # {} => Cardinality(s \ {Pick(s)}) = Cardinality(s) - 1 BY <2>1, <2>3, FS_RemoveElement
  <2>. QED BY <2>1, <2>2, <2>3, <2>4
<1>2. 0 \in S
  <2>. DEFINE i == [s \in SUBSET D |-> {Settled(f)}]
  <2>1. i = [s \in SUBSET D |-> i[s]] OBVIOUS
  <2>2. ASSUME NEW s \in SUBSET D, Cardinality(s) <= 0 PROVE i[s] = CrashStep(f, i, s)
    <3>0. Cardinality(s) \in Nat /\ (Cardinality(s) = 0 <=> s = {}) BY <1>1
    <3>1. s = {} BY ONLY <2>2, <3>0
    <3>2. i[s] = {Settled(f)} OBVIOUS
    <3>. HIDE DEF i
    <3>. QED BY <3>1, <3>2 DEF CrashStep
  <2>3. Upto(0, i) BY <2>1, <2>2
  <2>. QED BY <2>3
<1>3. ASSUME NEW n \in Nat, n \in S PROVE n + 1 \in S
  <2>1. PICK i : Upto(n, i) BY <1>3
  <2>. DEFINE j == [s \in SUBSET D |-> CrashStep(f, i, s)]
  <2>2. j = [s \in SUBSET D |-> j[s]] OBVIOUS
  <2>3. ASSUME NEW s \in SUBSET D, Cardinality(s) <= n + 1 PROVE j[s] = CrashStep(f, j, s)
    <3>1. CASE s = {} BY <3>1 DEF CrashStep
    <3>2. CASE s # {}
      <4>. DEFINE w == s \ {Pick(s)}
      <4>1. w \in SUBSET D /\ Cardinality(w) <= n BY <1>1, <2>3, <3>2
      <4>2. j[w] = i[w] BY <2>1, <4>1
      <4>3. j[s] = CrashOne(f, Pick(s), i[w]) BY <3>2 DEF CrashStep
      <4>. HIDE DEF j
      <4>4. CrashStep(f, j, s) = CrashOne(f, Pick(s), j[w]) BY <3>2 DEF CrashStep
      <4>. QED BY <4>2, <4>3, <4>4
    <3>. QED BY <3>1, <3>2
  <2>. HIDE DEF j
  <2>4. Upto(n + 1, j) BY <2>2, <2>3
  <2>. HIDE DEF Upto
  <2>. QED BY <2>4
<1>. HIDE DEF S
<1>4. Nat \subseteq S BY <1>2, <1>3, NatInd
<1>5. Cardinality(D) \in S BY <1>4, FS_CardinalityType
<1>6. PICK i : Upto(Cardinality(D), i) BY <1>5 DEF S
<1>7. \A s \in SUBSET D : i[s] = CrashStep(f, i, s) BY <1>1, <1>6
<1>8. i = [s \in SUBSET D |-> CrashStep(f, i, s)] BY <1>6, <1>7
<1>. QED BY <1>8

\* A crash leaves cells with the contents they had or might have had.
LEMMA SurvivorsAre ==
  ASSUME NEW A, IsFiniteSet(A), NEW V, NEW f \in [A -> CellT(V)], NEW h \in Survivors(f)
  PROVE  h \in [A -> CellT(V)]
<1>. DEFINE D == {a \in DOMAIN f : f[a].fly # {}}
            iter == CHOOSE i : i = [s \in SUBSET D |-> CrashStep(f, i, s)]
            S == {n \in Nat : \A s \in SUBSET D : Cardinality(s) = n => iter[s] \subseteq [A -> CellT(V)]}
<1>1. D \subseteq A /\ IsFiniteSet(D)
  <2>1. D \subseteq A OBVIOUS
  <2>. HIDE DEF D
  <2>. QED BY <2>1, FS_Subset
<1>2. Survivors(f) = iter[D] BY SurvivorsFold
<1>. HIDE DEF D
<1>3. iter = [s \in SUBSET D |-> CrashStep(f, iter, s)]
  <2>1. \E i : i = [s \in SUBSET D |-> CrashStep(f, i, s)] BY <1>1, FoldExists
  <2>. QED BY <2>1
<1>. HIDE DEF iter
<1>4. \A v \in V : Cell(v) \in CellT(V) BY DEF Cell, CellT
<1>5. \A a \in A : f[a].now \in V /\ Outcomes(f[a]) \subseteq V
  <2>. TAKE a \in A
  <2>1. f[a] \in CellT(V) OBVIOUS
  <2>. QED BY <2>1 DEF CellT, Outcomes
<1>6. Settled(f) \in [A -> CellT(V)] BY <1>4, <1>5 DEF Settled, Settle
<1>7. \A s \in SUBSET D : IsFiniteSet(s) /\ (Cardinality(s) = 0 => s = {})
                          /\ (s # {} => Pick(s) \in s /\ Cardinality(s \ {Pick(s)}) = Cardinality(s) - 1)
  <2>. TAKE s \in SUBSET D
  <2>1. IsFiniteSet(s) BY <1>1, FS_Subset
  <2>2. Cardinality(s) = 0 => s = {} BY <2>1, FS_EmptySet
  <2>3. s # {} => Pick(s) \in s BY DEF Pick
  <2>4. s # {} => Cardinality(s \ {Pick(s)}) = Cardinality(s) - 1 BY <2>1, <2>3, FS_RemoveElement
  <2>. QED BY <2>1, <2>2, <2>3, <2>4
<1>8. 0 \in S
  <2>1. iter[{}] = {Settled(f)} BY <1>3 DEF CrashStep
  <2>. QED BY <1>6, <1>7, <2>1
<1>9. ASSUME NEW n \in Nat, n \in S PROVE n + 1 \in S
  <2>. SUFFICES ASSUME NEW s \in SUBSET D, Cardinality(s) = n + 1
                PROVE  iter[s] \subseteq [A -> CellT(V)]
    OBVIOUS
  <2>1. s # {} BY <1>9, FS_EmptySet
  <2>. DEFINE w == s \ {Pick(s)}
  <2>2. w \in SUBSET D /\ Cardinality(w) = n /\ Pick(s) \in A BY <1>1, <1>7, <2>1
  <2>3. iter[w] \subseteq [A -> CellT(V)] BY <1>9, <2>2
  <2>4. iter[s] = CrashOne(f, Pick(s), iter[w]) BY <1>3, <2>1 DEF CrashStep
  <2>5. ASSUME NEW g \in [A -> CellT(V)], NEW v \in Outcomes(f[Pick(s)])
        PROVE  [g EXCEPT ![Pick(s)] = Cell(v)] \in [A -> CellT(V)]
    BY <1>4, <1>5, <2>2
  <2>. HIDE DEF w
  <2>. QED BY <2>3, <2>4, <2>5 DEF CrashOne
<1>. HIDE DEF S
<1>10. Nat \subseteq S BY <1>8, <1>9, NatInd
<1>11. Cardinality(D) \in S BY <1>1, <1>10, FS_CardinalityType
<1>12. iter[D] \subseteq [A -> CellT(V)] BY <1>11 DEF S
<1>. QED BY <1>2, <1>12

-----------------------------------------------------------------------------
(* Contents.                                                               *)

\* Writing and settling keep a cell's type.
LEMMA CellIs ==
  ASSUME NEW V, NEW c \in CellT(V)
  PROVE  /\ Settle(c) \in CellT(V) /\ c.now \in V /\ Outcomes(c) \subseteq V
         /\ \A v \in V : Put(c, v) \in CellT(V)
BY DEF CellT, Settle, Cell, Outcomes, Put

\* A barrier keeps the medium's type.
LEMMA SettledIs ==
  ASSUME MediumInv
  PROVE  /\ Settled(home) \in [Blocks -> CellT(Contents)] /\ Settled(log) \in [Ring -> CellT(Records)]
         /\ Settle(jsb) \in CellT([start : 0 .. MaxLen - 1, seq : Nat])
         /\ Settle(flag) \in CellT(BOOLEAN)
<1>1. Settled(home) \in [Blocks -> CellT(Contents)] BY CellIs DEF MediumInv, Settled
<1>2. Settled(log) \in [Ring -> CellT(Records)] BY CellIs DEF MediumInv, Settled
<1>3. Settle(jsb) \in CellT([start : 0 .. MaxLen - 1, seq : Nat]) BY CellIs DEF MediumInv
<1>4. Settle(flag) \in CellT(BOOLEAN) BY CellIs DEF MediumInv
<1>. QED BY <1>1, <1>2, <1>3, <1>4

\* The tags of a descriptor are the blocks it is for.
LEMMA TagSeqIs ==
  ASSUME NEW B \in SUBSET Blocks
  PROVE  TagSeq(B) \in Tags /\ TagSeq(B) \in [1 .. Cardinality(B) -> B]
<1>. DEFINE P(s) == \A b \in B : \E k \in DOMAIN s : s[k] = b
<1>1. IsFiniteSet(B) /\ Cardinality(B) \in 0 .. Cardinality(Blocks)
  BY JournalAssumption, FS_Subset, FS_CardinalityType
<1>2. PICK s \in Bijection(1 .. Cardinality(B), B) : TRUE BY <1>1, FS_CardinalityType DEF ExistsBijection
<1>3. s \in [1 .. Cardinality(B) -> B] /\ P(s) BY <1>2 DEF Bijection, Surjection, Injection
<1>4. TagSeq(B) = CHOOSE t \in [1 .. Cardinality(B) -> B] : P(t) BY DEF TagSeq
<1>. HIDE DEF P
<1>5. TagSeq(B) \in [1 .. Cardinality(B) -> B] BY <1>3, <1>4
<1>6. TagSeq(B) \in [1 .. Cardinality(B) -> Blocks] BY <1>5
<1>. QED BY <1>1, <1>5, <1>6 DEF Tags

\* A block whose home write is owed has an owner.
LEMMA OwnerIs ==
  ASSUME NEW q \in Seq(Transaction), NEW b, \E k \in DOMAIN q : b \in q[k].pending
  PROVE  Owner(q, b) \in DOMAIN q /\ q[Owner(q, b)].ver \in Nat
<1>. DEFINE S == {k \in DOMAIN q : b \in q[k].pending}
            P(k) == /\ b \in q[k].pending
                    /\ \A m \in DOMAIN q : b \in q[m].pending => m <= k
<1>1. S \subseteq 0 .. Len(q) /\ S # {} /\ Len(q) \in Nat OBVIOUS
<1>2. Max(S) \in S /\ \A x \in S : x <= Max(S)
  <2>. HIDE DEF S
  <2>. QED BY <1>1, MaxIs
<1>3. \E k \in DOMAIN q : P(k) BY <1>2
<1>4. Owner(q, b) = CHOOSE k \in DOMAIN q : P(k) BY DEF Owner
<1>. HIDE DEF P
<1>5. Owner(q, b) \in DOMAIN q BY <1>3, <1>4
<1>6. q[Owner(q, b)] \in Transaction BY <1>5
<1>. QED BY <1>5, <1>6 DEF Transaction

-----------------------------------------------------------------------------
(* What replay reads.                                                      *)

SeenT == [rec : Records, pos : Ring]
WalkT == [pos : Ring, id : Nat, end : BOOLEAN, seen : Seq(SeenT)]

WalkStart == [pos |-> jsb.now.start, id |-> jsb.now.seq, end |-> FALSE, seen |-> <<>>]
WalkStep(p) ==
  LET r == log[p.pos].now
      next == Wrap(p.pos + 1 + (IF r.t = "descriptor" THEN Len(r.tags) ELSE 0))
  IN  IF p.end THEN p
      ELSE IF r.t \in {"none", "data"} THEN [p EXCEPT !.end = TRUE]
      ELSE IF r.id # p.id THEN [p EXCEPT !.end = TRUE]
      ELSE [pos |-> next, id |-> IF r.t = "commit" THEN p.id + 1 ELSE p.id,
            end |-> next = jsb.now.start, seen |-> Append(p.seen, [rec |-> r, pos |-> p.pos])]
WalkFcn(w, n) == w = [m \in 0 .. n |-> IF m = 0 THEN WalkStart ELSE WalkStep(w[m - 1])]

\* A record is for the log block it is found in.
LEMMA RecordIs ==
  ASSUME NEW r \in Records
  PROVE  /\ r.t \in {"none", "descriptor", "data", "revoke", "commit"}
         /\ r.t = "none" => r = NoRecord
         /\ r.t = "descriptor" => /\ r.id \in Nat /\ DOMAIN r.tags = 1 .. Len(r.tags)
                                  /\ Len(r.tags) \in 0 .. Cardinality(Blocks)
                                  /\ \A k \in DOMAIN r.tags : r.tags[k] \in Blocks
         /\ r.t = "data" => r.v \in Nat
         /\ r.t = "revoke" => r.id \in Nat /\ r.blocks \subseteq Blocks
         /\ r.t = "commit" => r.id \in Nat
<1>1. CASE r \in [t : {"descriptor"}, id : Nat, tags : Tags]
  <2>1. r.t = "descriptor" /\ r.id \in Nat /\ r.tags \in Tags BY <1>1
  <2>2. PICK n \in 0 .. Cardinality(Blocks) : r.tags \in [1 .. n -> Blocks] BY <2>1 DEF Tags
  <2>3. n \in Nat BY RoomInLog
  <2>4. r.tags \in Seq(Blocks) /\ Len(r.tags) = n BY <2>2, <2>3
  <2>. QED BY <2>1, <2>2, <2>4
<1>2. CASE r \in [t : {"none"}] BY <1>2 DEF NoRecord
<1>3. CASE r \in [t : {"data"}, v : Nat] BY <1>3
<1>4. CASE r \in [t : {"revoke"}, id : Nat, blocks : SUBSET Blocks] BY <1>4
<1>5. CASE r \in [t : {"commit"}, id : Nat] BY <1>5
<1>. QED BY <1>1, <1>2, <1>3, <1>4, <1>5 DEF Records

\* The walk is a function.
LEMMA WalkExists ==
  ASSUME NEW n \in Nat
  PROVE  \E w : WalkFcn(w, n)
<1>. DEFINE S == {i \in Nat : \E w : WalkFcn(w, i)}
<1>1. 0 \in S
  <2>. DEFINE w == [m \in 0 .. 0 |-> WalkStart]
  <2>1. WalkFcn(w, 0) BY DEF WalkFcn
  <2>. QED BY <2>1
<1>2. ASSUME NEW i \in Nat, i \in S PROVE i + 1 \in S
  <2>1. PICK w : WalkFcn(w, i) BY <1>2
  <2>. DEFINE g == [m \in 0 .. i + 1 |-> IF m = i + 1 THEN WalkStep(w[i]) ELSE w[m]]
  <2>2. ASSUME NEW m \in 0 .. i + 1 PROVE g[m] = IF m = 0 THEN WalkStart ELSE WalkStep(g[m - 1])
    <3>1. CASE m = i + 1
      <4>1. m # 0 /\ m - 1 = i /\ i \in 0 .. i + 1 /\ i # i + 1 BY <3>1
      <4>2. g[m] = WalkStep(w[i]) BY <3>1
      <4>3. g[m - 1] = w[i] BY <4>1
      <4>. QED BY <4>1, <4>2, <4>3
    <3>2. CASE m # i + 1
      <4>1. m \in 0 .. i BY <3>2
      <4>2. w[m] = IF m = 0 THEN WalkStart ELSE WalkStep(w[m - 1]) BY <2>1, <4>1 DEF WalkFcn
      <4>3. g[m] = w[m] /\ (m # 0 => g[m - 1] = w[m - 1]) BY <4>1
      <4>. QED BY <4>2, <4>3
    <3>. QED BY <3>1, <3>2
  <2>3. g = [m \in 0 .. i + 1 |-> g[m]] OBVIOUS
  <2>. HIDE DEF g
  <2>4. WalkFcn(g, i + 1) BY <2>2, <2>3 DEF WalkFcn
  <2>. QED BY <2>4
<1>. HIDE DEF S
<1>3. Nat \subseteq S BY <1>1, <1>2, NatInd
<1>. QED BY <1>3 DEF S

\* One step of it stays in the ring.
LEMMA WalkStepIs ==
  ASSUME MediumInv, NEW p \in WalkT
  PROVE  WalkStep(p) \in WalkT
<1>. DEFINE r == log[p.pos].now
            step == 1 + (IF r.t = "descriptor" THEN Len(r.tags) ELSE 0)
            next == Wrap(p.pos + step)
<1>1. p.pos \in Ring /\ p.id \in Nat /\ p.end \in BOOLEAN /\ p.seen \in Seq(SeenT) BY DEF WalkT
<1>2. r \in Records BY <1>1, CellIs DEF MediumInv
<1>. HIDE DEF r
<1>3. step \in 1 .. 1 + Cardinality(Blocks) BY <1>2, RecordIs, RoomInLog
<1>. HIDE DEF step
<1>4. next \in Ring BY <1>1, <1>3, RoomInLog DEF Ring, First, Wrap
<1>. HIDE DEF next
<1>5. [rec |-> r, pos |-> p.pos] \in SeenT BY <1>1, <1>2 DEF SeenT
<1>6. Append(p.seen, [rec |-> r, pos |-> p.pos]) \in Seq(SeenT) BY <1>1, <1>5
<1>7. [p EXCEPT !.end = TRUE] \in WalkT BY DEF WalkT
<1>8. [pos |-> next, id |-> IF r.t = "commit" THEN p.id + 1 ELSE p.id,
       end |-> next = jsb.now.start, seen |-> Append(p.seen, [rec |-> r, pos |-> p.pos])] \in WalkT
  BY <1>1, <1>4, <1>6 DEF WalkT
<1>9. next = Wrap(p.pos + 1 + (IF r.t = "descriptor" THEN Len(r.tags) ELSE 0))
  <2>1. r.t = "descriptor" => Len(r.tags) \in Nat BY <1>2, RecordIs, RoomInLog
  <2>2. p.pos \in Nat BY <1>1 DEF Ring, First
  <2>3. p.pos + step = p.pos + 1 + (IF r.t = "descriptor" THEN Len(r.tags) ELSE 0)
    BY <2>1, <2>2 DEF step
  <2>. QED BY <2>3 DEF next
<1>10. WalkStep(p) \in {p, [p EXCEPT !.end = TRUE],
      [pos |-> next, id |-> IF r.t = "commit" THEN p.id + 1 ELSE p.id,
       end |-> next = jsb.now.start, seen |-> Append(p.seen, [rec |-> r, pos |-> p.pos])]}
  BY <1>9 DEF WalkStep, r
<1>. QED BY <1>7, <1>8, <1>10

\* A walk that starts in the ring stays there.
LEMMA WalkIs ==
  ASSUME MediumInv, jsb.now.start # 0
  PROVE  Walk \in WalkT
<1>. DEFINE N == 2 * MaxLen
            w == CHOOSE f : WalkFcn(f, N)
<1>1. N \in Nat BY RoomInLog
<1>2. Walk = w[N] BY DEF Walk, WalkFcn, WalkStart, WalkStep
<1>. HIDE DEF N
<1>3. WalkFcn(w, N) BY <1>1, WalkExists
<1>. HIDE DEF w
<1>4. WalkStart \in WalkT
  <2>1. jsb.now \in [start : 0 .. MaxLen - 1, seq : Nat] BY CellIs DEF MediumInv
  <2>2. jsb.now.start \in Ring /\ jsb.now.seq \in Nat BY <2>1, RoomInLog DEF Ring, First
  <2>. QED BY <2>2 DEF WalkT, WalkStart
<1>. DEFINE S == {n \in Nat : n \in 0 .. N => w[n] \in WalkT}
<1>5. 0 \in S BY <1>1, <1>3, <1>4 DEF WalkFcn
<1>6. ASSUME NEW n \in Nat, n \in S PROVE n + 1 \in S
  <2>. SUFFICES ASSUME n + 1 \in 0 .. N PROVE w[n + 1] \in WalkT OBVIOUS
  <2>1. w[n] \in WalkT BY <1>1, <1>6
  <2>2. w[n + 1] = WalkStep(w[n])
    <3>1. w[n + 1] = IF n + 1 = 0 THEN WalkStart ELSE WalkStep(w[(n + 1) - 1]) BY <1>3 DEF WalkFcn
    <3>2. n + 1 # 0 /\ (n + 1) - 1 = n OBVIOUS
    <3>. QED BY <3>1, <3>2
  <2>. QED BY <2>1, <2>2, WalkStepIs
<1>. HIDE DEF S
<1>7. Nat \subseteq S BY <1>5, <1>6, NatInd
<1>8. w[N] \in WalkT BY <1>1, <1>7 DEF S
<1>. QED BY <1>2, <1>8

\* A copy that replay finds is metadata, or what a block without any reads as.
LEMMA CopyIs ==
  ASSUME MediumInv, NEW e \in SeenT, e.rec.t = "descriptor", NEW b, \E j \in DOMAIN e.rec.tags : e.rec.tags[j] = b
  PROVE  CopyAt(e, b) \in Contents
<1>. DEFINE j == CHOOSE m \in DOMAIN e.rec.tags : e.rec.tags[m] = b
            r == log[Wrap(e.pos + j)].now
<1>1. j \in DOMAIN e.rec.tags OBVIOUS
<1>2. e.rec \in Records /\ e.pos \in Ring BY DEF SeenT
<1>3. CopyAt(e, b) = IF r.t = "data" THEN r.v ELSE Garbage BY DEF CopyAt
<1>. HIDE DEF j
<1>4. j \in 1 .. Cardinality(Blocks) BY <1>1, <1>2, RecordIs, RoomInLog
<1>5. Wrap(e.pos + j) \in Ring BY <1>2, <1>4, RoomInLog DEF Ring, First, Wrap
<1>6. r \in Records BY <1>5, CellIs DEF MediumInv
<1>. HIDE DEF r
<1>7. r.t = "data" => r.v \in Nat BY <1>6, RecordIs
<1>. QED BY <1>3, <1>7 DEF Contents

\* Replay leaves contents at home.
LEMMA ReplayIs ==
  ASSUME MediumInv, jsb.now.start # 0
  PROVE  jbd_replay_wb_flush(Walk) \in [Blocks -> CellT(Contents)]
<1>1. Walk \in WalkT BY WalkIs
<1>. DEFINE W == Walk
<1>. SUFFICES ASSUME NEW b \in Blocks
              PROVE  (IF Copies(W, b) = {} THEN home[b]
                      ELSE Put(home[b], CopyAt(W.seen[Max(Copies(W, b))], b))) \in CellT(Contents)
  BY DEF jbd_replay_wb_flush
<1>. HIDE DEF W
<1>2. W.seen \in Seq(SeenT) BY <1>1 DEF W, WalkT
<1>3. home[b] \in CellT(Contents) BY DEF MediumInv
<1>4. CASE Copies(W, b) # {}
  <2>1. Copies(W, b) \subseteq 0 .. Len(W.seen) /\ Len(W.seen) \in Nat BY <1>2 DEF Copies
  <2>2. Max(Copies(W, b)) \in Copies(W, b) BY <1>4, <2>1, MaxIs
  <2>. DEFINE k == Max(Copies(W, b))
  <2>3. k \in DOMAIN W.seen /\ W.seen[k].rec.t = "descriptor"
        /\ \E j \in DOMAIN W.seen[k].rec.tags : W.seen[k].rec.tags[j] = b
    BY <2>2 DEF Copies
  <2>. HIDE DEF k
  <2>4. W.seen[k] \in SeenT BY <1>2, <2>3
  <2>5. CopyAt(W.seen[k], b) \in Contents BY <2>3, <2>4, CopyIs
  <2>6. Put(home[b], CopyAt(W.seen[k], b)) \in CellT(Contents) BY <1>3, <2>5, CellIs
  <2>. QED BY <1>4, <2>6 DEF k
<1>. QED BY <1>3, <1>4

\* Replay says a transaction id that is a number.
LEMMA LastIdIs ==
  ASSUME MediumInv, jsb.now.start # 0
  PROVE  LastId \in Nat
<1>1. Walk.id \in Nat BY WalkIs DEF WalkT
<1>2. jsb.now.seq \in Nat
  <2>1. jsb.now \in [start : 0 .. MaxLen - 1, seq : Nat] BY CellIs DEF MediumInv
  <2>. QED BY <2>1
<1>. QED BY <1>1, <1>2 DEF LastId

-----------------------------------------------------------------------------
(* The committing transaction.                                             *)

\* What it asks for leaves room in an empty log.
LEMMA WantedIs ==
  ASSUME ScalarInv
  PROVE  /\ Cardinality(dirty) \in Nat /\ BodyLen \in Nat /\ Wanted \in Nat
         /\ BodyLen <= Cardinality(Blocks) + 1 /\ Wanted <= Cardinality(Blocks) + 2
         /\ (dirty # {} => Cardinality(dirty) >= 1)
<1>1. IsFiniteSet(Blocks) /\ Cardinality(Blocks) \in Nat /\ dirty \subseteq Blocks
      /\ revoked \subseteq Blocks /\ dirty \cap revoked = {}
  BY JournalAssumption, RoomInLog DEF ScalarInv
<1>2. IsFiniteSet(dirty) /\ Cardinality(dirty) \in Nat /\ Cardinality(dirty) <= Cardinality(Blocks)
      /\ (dirty # {} => Cardinality(dirty) >= 1)
  BY <1>1, FS_Subset, FS_CardinalityType, FS_EmptySet
<1>3. revoked # {} => Cardinality(dirty) < Cardinality(Blocks)
  <2>1. revoked # {} => dirty # Blocks BY <1>1
  <2>2. Cardinality(dirty) = Cardinality(Blocks) => dirty = Blocks BY <1>1, FS_Subset
  <2>. QED BY ONLY <1>1, <1>2, <2>1, <2>2
<1>. QED BY <1>1, <1>2, <1>3 DEF BodyLen, Wanted

\* It is handed the next log block.
LEMMA TakeMoves ==
  ASSUME NEW p, NEW q, NEW sl, NEW l, RingAt(p, q, sl, l), Wrap(l + 1) # p
  PROVE  /\ RingAt(p, q, Append(sl, l), Wrap(l + 1))
         /\ StartOf(Append(sl, l), Wrap(l + 1)) = StartOf(sl, l)
         /\ Len(Append(sl, l)) = Len(sl) + 1 /\ Len(sl) \in Nat /\ Append(sl, l) # <<>>
<1>. DEFINE s == StartOf(sl, l)
            m == Append(sl, l)
            n == Wrap(l + 1)
<1>1. /\ InRow(p, q, s) /\ l \in Ring /\ sl \in Seq(Ring)
      /\ \A i \in DOMAIN sl : Off(p, sl[i]) = Off(p, s) + i - 1
      /\ Off(p, l) = Off(p, s) + Len(sl)
  BY DEF RingAt
<1>2. p \in Ring /\ s \in Ring BY <1>1 DEF InRow
<1>3. /\ m \in Seq(Ring) /\ Len(m) = Len(sl) + 1 /\ m # <<>> /\ Len(sl) \in Nat
      /\ DOMAIN m = 1 .. Len(sl) + 1 /\ DOMAIN sl = 1 .. Len(sl)
      /\ \A i \in DOMAIN sl : m[i] = sl[i]
      /\ m[Len(sl) + 1] = l
  BY <1>1
<1>4. n \in Ring /\ Off(p, n) = Off(p, l) + 1 BY <1>1, <1>2, OffNext
<1>5. Off(p, s) \in Nat BY <1>2, OffIs
<1>6. StartOf(m, n) = s
  <2>1. CASE sl = <<>> BY <1>3, <2>1 DEF StartOf
  <2>2. CASE sl # <<>>
    <3>1. 1 \in DOMAIN sl BY <1>1, <2>2
    <3>. QED BY <1>3, <2>2, <3>1 DEF StartOf
  <2>. QED BY <2>1, <2>2
<1>. HIDE DEF s, m, n
<1>7. \A i \in DOMAIN m : Off(p, m[i]) = Off(p, s) + i - 1
  <2>. TAKE i \in DOMAIN m
  <2>1. CASE i \in DOMAIN sl BY <1>1, <1>3, <2>1
  <2>2. CASE i = Len(sl) + 1 BY <1>1, <1>3, <1>5, <2>2
  <2>. QED BY <1>3, <2>1, <2>2
<1>8. Off(p, n) = Off(p, s) + Len(m) BY <1>1, <1>3, <1>4, <1>5
<1>9. RingAt(p, q, m, n) BY <1>1, <1>3, <1>4, <1>6, <1>7, <1>8 DEF RingAt
<1>. QED BY <1>3, <1>6, <1>9 DEF s, m, n

\* The head of the log meets the tail only if there is a transaction to retire.
LEMMA NeverStuck ==
  ASSUME LogInv
  PROVE  LogNeverStuck
<1>. SUFFICES ASSUME Allocating, alloc = "none", Advanced = tail.start, queue = <<>>
              PROVE  FALSE
  BY DEF LogNeverStuck
<1>1. pc \in Session BY DEF Allocating, Session
<1>2. RingAt(tail.start, queue, slots, last) /\ Meets(tail.start, queue, Start)
  BY <1>1 DEF LogInv, RingInv, Stuck
<1>3. Start = tail.start BY <1>2 DEF Meets
<1>4. Len(slots) <= Wanted BY DEF LogInv, StageInv, Allocating
<1>5. /\ tail.start \in Ring /\ last \in Ring
      /\ slots \in Seq(Ring) /\ Len(slots) \in Nat
      /\ Off(tail.start, last) = Off(tail.start, Start) + Len(slots)
  BY <1>2 DEF RingAt, InRow, Start
<1>6. Off(tail.start, last) = Len(slots) BY <1>3, <1>5, OffIs
<1>7. Off(tail.start, last) = MaxLen - 2 BY <1>5, OffNext DEF Advanced
<1>8. Wanted \in Nat /\ Wanted <= Cardinality(Blocks) + 2 BY WantedIs DEF LogInv
<1>. QED BY <1>4, <1>5, <1>6, <1>7, <1>8, RoomInLog

-----------------------------------------------------------------------------
(* The steps.                                                              *)

\* The invariant holds of a volume nobody has mounted.
LEMMA InitInv == Init => LogInv
<1>. SUFFICES ASSUME Init PROVE LogInv OBVIOUS
<1>. USE DEF Init
<1>1. MediumInv
  <2>1. 0 \in Contents /\ NoRecord \in Records BY DEF Contents, Records, NoRecord
  <2>2. home \in [Blocks -> CellT(Contents)] BY <2>1 DEF Cell, CellT
  <2>3. log \in [Ring -> CellT(Records)] BY <2>1 DEF Cell, CellT
  <2>4. jsb \in CellT([start : 0 .. MaxLen - 1, seq : Nat]) BY RoomInLog DEF Cell, CellT
  <2>5. flag \in CellT(BOOLEAN) BY DEF Cell, CellT
  <2>. QED BY <2>2, <2>3, <2>4, <2>5 DEF MediumInv
<1>2. ScalarInv
  <2>1. 0 \in 0 .. MaxLen - 1 BY RoomInLog
  <2>2. tail \in Position BY <2>1 DEF Position
  <2>. QED BY <2>1, <2>2 DEF ScalarInv
<1>3. Numbered(queue) BY DEF Numbered
<1>4. StageInv BY DEF StageInv, Pcs, Session
<1>5. RingInv BY DEF RingInv, Session
<1>. QED BY <1>1, <1>2, <1>3, <1>4, <1>5 DEF LogInv

\* A step that leaves the ring alone.
LEMMA RingSame ==
  ASSUME RingInv, pc \in Session, tail' = tail, queue' = queue, slots' = slots, last' = last,
         alloc' # "none" => alloc # "none" \/ Advanced # tail.start
  PROVE  RingInv'
BY DEF RingInv, Stuck, Advanced, Start

\* Blocks join and leave the running transaction.
LEMMA DirtyStep ==
  ASSUME LogInv, NEW b \in Blocks, jbd_trans_set_block_dirty(b) \/ jbd_trans_revoke_block(b)
  PROVE  LogInv'
<1>1. /\ pc = "run" /\ pc' = pc /\ alloc' = alloc /\ slots' = slots /\ tail' = tail
      /\ queue' = queue /\ last' = last /\ published' = published /\ nextId' = nextId
      /\ leaked' = leaked /\ ver' = ver /\ gaveUp' = gaveUp
      /\ home' = home /\ log' = log /\ jsb' = jsb /\ flag' = flag
      /\ dirty' \subseteq Blocks /\ revoked' \subseteq Blocks /\ dirty' \cap revoked' = {}
  BY DEF jbd_trans_set_block_dirty, jbd_trans_revoke_block, medium, history, LogInv, ScalarInv
<1>2. pc \in Session /\ alloc = "none" /\ slots = <<>>
  BY <1>1 DEF Session, LogInv, StageInv, Allocating
<1>3. MediumInv' BY <1>1 DEF LogInv, MediumInv
<1>4. ScalarInv' BY <1>1 DEF LogInv, ScalarInv
<1>5. Numbered(queue)' BY <1>1 DEF LogInv, Numbered
<1>6. StageInv' BY <1>1, <1>2 DEF LogInv, StageInv, Session, Pcs
<1>7. RingInv' BY <1>1, <1>2, RingSame DEF LogInv
<1>. QED BY <1>3, <1>4, <1>5, <1>6, <1>7 DEF LogInv

\* A file's data goes home.
LEMMA FileDataStep ==
  ASSUME LogInv, NEW b \in Blocks, WriteFileData(b)
  PROVE  LogInv'
<1>1. /\ pc = "run" /\ UNCHANGED <<log, jsb, flag, session, history, bounds>>
      /\ home' = [home EXCEPT ![b] = Put(@, Data)]
  BY DEF WriteFileData
<1>2. pc \in Session BY <1>1 DEF Session
<1>3. MediumInv'
  <2>1. home \in [Blocks -> CellT(Contents)] BY DEF LogInv, MediumInv
  <2>2. Put(home[b], Data) \in CellT(Contents) BY <2>1, CellIs DEF Contents
  <2>3. home' \in [Blocks -> CellT(Contents)] BY <1>1, <2>1, <2>2
  <2>. QED BY <1>1, <2>3 DEF LogInv, MediumInv
<1>4. ScalarInv' BY <1>1 DEF LogInv, ScalarInv, session, running, history
<1>5. Numbered(queue)' BY <1>1 DEF LogInv, Numbered, session, history
<1>6. StageInv' BY <1>1 DEF LogInv, StageInv, session, running, BodyLen, Wanted, Allocating
<1>7. RingInv' BY <1>1, <1>2, RingSame DEF LogInv, session
<1>. QED BY <1>3, <1>4, <1>5, <1>6, <1>7 DEF LogInv

\* What the older transactions of the queue hold is written home.
LEMMA OwnedHome ==
  ASSUME LogInv, queue \in Seq(Transaction), NEW B, \A b \in B : Pending(b)
  PROVE  WriteHome(home, B, LAMBDA b : queue[Owner(queue, b)].ver) \in [Blocks -> CellT(Contents)]
<1>1. home \in [Blocks -> CellT(Contents)] BY DEF LogInv, MediumInv
<1>2. ASSUME NEW b \in Blocks, b \in B PROVE Put(home[b], queue[Owner(queue, b)].ver) \in CellT(Contents)
  <2>1. \E k \in DOMAIN queue : b \in queue[k].pending BY <1>2 DEF Pending
  <2>2. queue[Owner(queue, b)].ver \in Contents BY <2>1, OwnerIs DEF Contents
  <2>. QED BY <1>1, <2>2, CellIs
<1>. QED BY <1>1, <1>2 DEF WriteHome

\* The oldest transaction's blocks are written home.
LEMMA FlushedHome ==
  ASSUME MediumInv, queue[1].ver \in Contents, NEW B
  PROVE  FlushHead(home, B) \in [Blocks -> CellT(Contents)]
<1>1. home \in [Blocks -> CellT(Contents)] BY DEF MediumInv
<1>2. ASSUME NEW b \in Blocks PROVE Put(home[b], queue[1].ver) \in CellT(Contents)
  BY <1>1, CellIs
<1>. QED BY <1>1, <1>2 DEF FlushHead, WriteHome

\* Some of its home writes complete while nothing is being committed.
LEMMA CompletionStep ==
  ASSUME LogInv, pc = "run", NEW B, NEW n, n = RetireCount(queue, B),
         queue' = Retired(Completed(queue, B), n), tail' = TailStops(Completed(queue, B), n),
         home' \in [Blocks -> CellT(Contents)], dirty' \subseteq dirty, revoked' \subseteq revoked,
         UNCHANGED <<log, jsb, flag, pc, published, last, nextId, slots, alloc, leaked, ver, gaveUp>>
  PROVE  LogInv'
<1>. DEFINE c == Completed(queue, B)
<1>1. pc \in Session /\ alloc = "none" /\ slots = <<>>
  BY DEF Session, LogInv, StageInv, Allocating
<1>2. /\ RingAt(tail.start, queue, slots, last) /\ tail \in Position /\ Numbered(queue)
      /\ Meets(tail.start, queue, Start) \/ Stuck
  BY <1>1 DEF LogInv, RingInv, ScalarInv
<1>3. /\ tail' \in Position
      /\ RingAt(tail'.start, queue', slots, last)
      /\ Numbered(queue')
      /\ Meets(tail.start, queue, StartOf(slots, last)) => Meets(tail'.start, queue', StartOf(slots, last))
      /\ queue # <<>> /\ queue[1].bad => tail' = tail /\ queue' # <<>> /\ queue'[1].bad
  <2>. HIDE DEF c
  <2>. DEFINE r == IF n = 0 THEN tail.start ELSE TailStops(c, n).start
  <2>1. /\ TailStops(c, n) \in Position /\ (n = 0 => TailStops(c, n) = tail)
        /\ RingAt(r, Retired(c, n), slots, last) /\ Numbered(Retired(c, n))
        /\ Meets(tail.start, queue, StartOf(slots, last)) => Meets(r, Retired(c, n), StartOf(slots, last))
        /\ queue # <<>> /\ queue[1].bad => n = 0 /\ Retired(c, n) # <<>> /\ Retired(c, n)[1].bad
    <3>. HIDE DEF r
    <3>. QED BY <1>2, CompletionMoves DEF c, r
  <2>2. r = TailStops(c, n).start BY <2>1
  <2>. QED BY <2>1, <2>2 DEF c
<1>4. MediumInv' BY DEF LogInv, MediumInv
<1>5. ScalarInv' BY <1>3 DEF LogInv, ScalarInv
<1>6. Numbered(queue)' BY <1>3 DEF Numbered
<1>7. StageInv' BY <1>1 DEF LogInv, StageInv, Session, Pcs
<1>8. RingInv'
  <2>1. RingAt(tail.start, queue, slots, last)' BY <1>3
  <2>2. CASE Meets(tail.start, queue, Start)
    <3>1. Meets(tail.start, queue, Start)' BY <1>3, <2>2 DEF Start
    <3>. QED BY <1>1, <2>1, <3>1 DEF RingInv
  <2>3. CASE Stuck
    <3>1. Stuck' BY <1>3, <2>3 DEF Stuck, Advanced
    <3>. QED BY <1>1, <2>1, <3>1 DEF RingInv
  <2>. QED BY <1>2, <2>2, <2>3
<1>. QED BY <1>4, <1>5, <1>6, <1>7, <1>8 DEF LogInv

\* The queue is one of transactions.
LEMMA QueueIs ==
  ASSUME LogInv, pc \in Session
  PROVE  queue \in Seq(Transaction) /\ slots \in Seq(Ring) /\ tail.start \in Ring /\ last \in Ring
BY DEF LogInv, RingInv, RingAt, InRow

\* A buffer is flushed, a transaction aborted.
LEMMA FlushStep ==
  ASSUME LogInv, NEW b \in Blocks, FlushBuffer(b)
  PROVE  LogInv'
<1>1. pc = "run" /\ Pending(b) BY DEF FlushBuffer
<1>2. home \in [Blocks -> CellT(Contents)] /\ queue \in Seq(Transaction)
  BY <1>1, QueueIs DEF Session, LogInv, MediumInv
<1>3. queue[Owner(queue, b)].ver \in Contents BY <1>1, <1>2, OwnerIs DEF Pending, Contents
<1>4. Put(home[b], queue[Owner(queue, b)].ver) \in CellT(Contents) BY <1>2, <1>3, CellIs
<1>5. home' = [home EXCEPT ![b] = Put(@, queue[Owner(queue, b)].ver)] BY DEF FlushBuffer
<1>6. home' \in [Blocks -> CellT(Contents)] BY <1>2, <1>4, <1>5
<1>. DEFINE n == RetireCount(queue, {b})
<1>7. /\ queue' = Retired(Completed(queue, {b}), n) /\ tail' = TailStops(Completed(queue, {b}), n)
      /\ UNCHANGED <<log, jsb, flag, pc, published, last, nextId, dirty, revoked, slots, alloc, leaked, ver, gaveUp>>
  BY DEF FlushBuffer, running, history
<1>. HIDE DEF n
<1>. QED BY <1>1, <1>6, <1>7, CompletionStep DEF n

LEMMA AbortStep ==
  ASSUME LogInv, txn_abort
  PROVE  LogInv'
<1>. DEFINE B == {b \in dirty : Pending(b)}
            n == RetireCount(queue, B)
<1>1. /\ pc = "run" /\ home' = RollBack(B) /\ dirty' = {} /\ revoked' = {}
      /\ queue' = Retired(Completed(queue, B), n) /\ tail' = TailStops(Completed(queue, B), n)
      /\ UNCHANGED <<log, jsb, flag, pc, published, last, nextId, slots, alloc, leaked, ver, gaveUp>>
  BY DEF txn_abort, history
<1>2. \A b \in B : Pending(b) OBVIOUS
<1>. HIDE DEF B, n
<1>3. queue \in Seq(Transaction) BY <1>1, QueueIs DEF Session
<1>4. home' \in [Blocks -> CellT(Contents)] BY <1>1, <1>2, <1>3, OwnedHome DEF RollBack
<1>. QED BY <1>1, <1>4, CompletionStep DEF n

-----------------------------------------------------------------------------
(* The steps of a commit.                                                  *)

\* What every step of a commit starts from.
LEMMA CommitState ==
  ASSUME LogInv, pc \in Session \ {"run"}
  PROVE  /\ RingAt(tail.start, queue, slots, last) /\ tail \in Position /\ Numbered(queue)
         /\ tail.start \in Ring /\ last \in Ring /\ slots \in Seq(Ring) /\ Len(slots) \in Nat
         /\ queue \in Seq(Transaction)
         /\ Advanced # tail.start \/ slots # <<>> => Meets(tail.start, queue, Start)
         /\ Cardinality(dirty) \in Nat /\ BodyLen \in Nat /\ Wanted \in Nat
BY QueueIs, WantedIs DEF LogInv, RingInv, ScalarInv, Stuck, Session

LEMMA BeginStep ==
  ASSUME LogInv, CommitBegin
  PROVE  LogInv'
<1>1. /\ pc = "run" /\ pc' = IF dirty # {} THEN "descriptor" ELSE "revoke"
      /\ dirty \cup revoked # {} /\ ver' = ver + 1
      /\ UNCHANGED <<home, log, jsb, flag, tail, published, last, nextId, queue, dirty, revoked, slots, alloc,
                     leaked, gaveUp>>
  BY DEF CommitBegin, medium, running
<1>2. pc \in Session /\ alloc = "none" /\ slots = <<>>
  BY <1>1 DEF Session, LogInv, StageInv, Allocating
<1>3. MediumInv' BY <1>1 DEF LogInv, MediumInv
<1>4. ScalarInv' BY <1>1 DEF LogInv, ScalarInv
<1>5. Numbered(queue)'
  <2>1. ver \in Nat BY DEF LogInv, ScalarInv
  <2>2. \A k \in DOMAIN queue : queue[k].id < nextId /\ queue[k].ver <= ver BY DEF LogInv, Numbered
  <2>3. \A k \in DOMAIN queue : queue[k].ver \in Nat
    <3>. TAKE k \in DOMAIN queue
    <3>1. queue[k] \in Transaction BY <1>2, QueueIs
    <3>. QED BY <3>1 DEF Transaction
  <2>4. \A k \in DOMAIN queue : queue[k].ver <= ver + 1 BY <2>1, <2>2, <2>3
  <2>. QED BY <1>1, <2>2, <2>4 DEF Numbered
<1>6. StageInv'
  <2>1. Cardinality(dirty) \in Nat BY WantedIs DEF LogInv
  <2>2. Wanted' \in Nat BY <1>1, <2>1 DEF Wanted
  <2>. QED BY <1>1, <1>2, <2>2 DEF LogInv, StageInv, Session, Pcs
<1>7. RingInv' BY <1>1, <1>2, RingSame DEF LogInv, Session
<1>. QED BY <1>3, <1>4, <1>5, <1>6, <1>7 DEF LogInv

\* The committing transaction is handed a log block.
LEMMA AllocStep ==
  ASSUME LogInv, Allocating, Len(slots) < Wanted, Take, alloc' = "none", Advanced # tail.start,
         published' \in 0 .. MaxLen - 1, MediumInv',
         UNCHANGED <<pc, tail, nextId, queue, running, leaked, history>>
  PROVE  LogInv'
<1>1. pc \in Session \ {"run"} BY DEF Allocating, Session
<1>2. /\ RingAt(tail.start, queue, slots, last) /\ Meets(tail.start, queue, Start)
      /\ Wanted \in Nat /\ Len(slots) \in Nat
  BY <1>1, CommitState
<1>3. slots' = Append(slots, last) /\ last' = Wrap(last + 1) BY DEF Take, Advanced
<1>4. /\ RingAt(tail.start, queue, slots', last')
      /\ StartOf(slots', last') = StartOf(slots, last)
      /\ Len(slots') = Len(slots) + 1 /\ slots' # <<>>
  BY <1>2, <1>3, TakeMoves DEF Advanced
<1>5. ScalarInv'
  <2>1. last' \in 0 .. MaxLen - 1
    <3>1. last' \in Ring BY <1>4 DEF RingAt
    <3>. QED BY <3>1, RoomInLog DEF Ring, First
  <2>. QED BY <2>1 DEF LogInv, ScalarInv, running, history
<1>6. Numbered(queue)' BY DEF LogInv, Numbered, history
<1>7. StageInv'
  <2>1. Len(slots') <= Wanted BY <1>2, <1>4
  <2>2. Wanted' = Wanted BY DEF Wanted, running
  <2>. QED BY <1>1, <2>1, <2>2 DEF LogInv, StageInv, running, Allocating, Session, Pcs
<1>8. RingInv'
  <2>1. Meets(tail.start, queue, Start)' BY <1>2, <1>4 DEF Start
  <2>2. RingAt(tail.start, queue, slots, last)' BY <1>4
  <2>. QED BY <2>1, <2>2 DEF RingInv
<1>. QED BY <1>5, <1>6, <1>7, <1>8 DEF LogInv

LEMMA AllocBlockStep ==
  ASSUME LogInv, AllocBlock
  PROVE  LogInv'
<1>1. MediumInv' /\ published' \in 0 .. MaxLen - 1
  BY DEF AllocBlock, LogInv, MediumInv, ScalarInv, medium
<1>. QED BY <1>1, AllocStep DEF AllocBlock

LEMMA AllocSealStep ==
  ASSUME LogInv, AllocSeal
  PROVE  LogInv'
<1>1. MediumInv'
  <2>1. home' = Settled(home) /\ log' = Settled(log) /\ jsb' = Settle(jsb) /\ flag' = Settle(flag)
    BY DEF AllocSeal, Barrier
  <2>. QED BY <2>1, SettledIs DEF LogInv, MediumInv
<1>2. alloc # "none" /\ Allocating BY DEF AllocSeal
<1>3. Len(slots) < Wanted /\ Advanced # tail.start /\ tail.start \in 0 .. MaxLen - 1
  BY <1>2 DEF LogInv, StageInv, RingInv, ScalarInv, Position, Allocating, Session
<1>. QED BY <1>1, <1>2, <1>3, AllocStep DEF AllocSeal

\* The tail is published, or the write that is to publish it fails.
LEMMA CheckpointedIs ==
  ASSUME LogInv, TailDue, Checkpointed
  PROVE  /\ home' \in [Blocks -> CellT(Contents)]
         /\ log' \in {log, Settled(log)} /\ flag' \in CellT(BOOLEAN)
         /\ Behind(jsb) \in CellT([start : 0 .. MaxLen - 1, seq : Nat])
         /\ pc \in Session \ {"run"} /\ Advanced # tail.start /\ Len(slots) < Wanted /\ Allocating
<1>1. /\ home' \in {home, Settled(home)} /\ log' \in {log, Settled(log)}
      /\ flag' \in {flag, Settle(flag)} /\ Behind(jsb) \in {jsb, Settle(jsb)}
  BY DEF Checkpointed, Behind
<1>2. /\ home' \in [Blocks -> CellT(Contents)] /\ flag' \in CellT(BOOLEAN)
      /\ Behind(jsb) \in CellT([start : 0 .. MaxLen - 1, seq : Nat])
  BY <1>1, SettledIs DEF LogInv, MediumInv
<1>3. pc \in Session \ {"run"} /\ Len(slots) < Wanted /\ Allocating BY DEF TailDue, Allocating, Session
<1>4. Advanced # tail.start BY <1>3 DEF TailDue, LogInv, RingInv
<1>. QED BY <1>1, <1>2, <1>3, <1>4

\* Where the tail is to be published nothing of the log is handed out or taken
\* back.
LEMMA TailSame ==
  ASSUME LogInv, TailDue, Checkpointed, MediumInv',
         UNCHANGED <<pc, tail, published, last, nextId, queue, running, slots, leaked, history>>,
         alloc' \in {"none", "seal"}
  PROVE  LogInv'
<1>1. pc \in Session \ {"run"} /\ Advanced # tail.start /\ Len(slots) < Wanted /\ Allocating
  BY CheckpointedIs
<1>2. ScalarInv' BY DEF LogInv, ScalarInv, running, history
<1>3. Numbered(queue)' BY DEF LogInv, Numbered, history
<1>4. StageInv'
  <2>1. Wanted' = Wanted BY DEF Wanted, running
  <2>. QED BY <1>1, <2>1 DEF LogInv, StageInv, running, Allocating, Session, Pcs
<1>5. RingInv' BY <1>1, RingSame DEF LogInv
<1>. QED BY <1>2, <1>3, <1>4, <1>5 DEF LogInv

LEMMA AllocTailStep ==
  ASSUME LogInv, AllocTail
  PROVE  LogInv'
<1>1. /\ TailDue /\ Checkpointed /\ alloc' = "seal"
      /\ jsb' = Put(Behind(jsb), [start |-> tail.start, seq |-> tail.id])
      /\ UNCHANGED <<pc, tail, published, last, nextId, queue, running, slots, leaked, history>>
  BY DEF AllocTail
<1>2. MediumInv'
  <2>1. [start |-> tail.start, seq |-> tail.id] \in [start : 0 .. MaxLen - 1, seq : Nat]
    BY DEF LogInv, ScalarInv, Position
  <2>2. jsb' \in CellT([start : 0 .. MaxLen - 1, seq : Nat]) BY <1>1, <2>1, CheckpointedIs, CellIs
  <2>. QED BY <1>1, <2>2, CheckpointedIs, SettledIs DEF LogInv, MediumInv
<1>. QED BY <1>1, <1>2, TailSame

LEMMA AllocTailFailsStep ==
  ASSUME LogInv, AllocTailFails
  PROVE  LogInv'
<1>1. /\ TailDue /\ Checkpointed /\ jsb' = Behind(jsb) /\ alloc' = "none"
      /\ UNCHANGED <<slots, last>> \/ Take
      /\ UNCHANGED <<pc, tail, published, nextId, queue, running, leaked, history>>
  BY DEF AllocTailFails
<1>2. MediumInv' BY <1>1, CheckpointedIs, SettledIs DEF LogInv, MediumInv
<1>3. CASE UNCHANGED <<slots, last>> BY <1>1, <1>2, <1>3, TailSame
<1>4. CASE Take
  <2>1. published' \in 0 .. MaxLen - 1 BY <1>1 DEF LogInv, ScalarInv
  <2>. QED BY <1>1, <1>2, <1>4, <2>1, CheckpointedIs, AllocStep
<1>. QED BY <1>1, <1>3, <1>4

\* The oldest transaction goes home and retires.
LEMMA AllocPurgeStep ==
  ASSUME LogInv, AllocPurge
  PROVE  LogInv'
<1>1. /\ Allocating /\ Len(slots) < Wanted /\ alloc' \in {"tailNow", "tail"}
      /\ queue # <<>> /\ ~queue[1].bad
      /\ home' = FlushHead(home, queue[1].pending)
      /\ queue' = Retired(queue, 1) /\ tail' = TailPast(queue, 1)
      /\ UNCHANGED <<log, jsb, flag, pc, published, last, nextId, running, slots, leaked, history>>
  BY DEF AllocPurge
<1>2. pc \in Session \ {"run"} BY <1>1 DEF Allocating, Session
<1>3. /\ RingAt(tail.start, queue, slots, last) /\ tail \in Position /\ Numbered(queue)
      /\ queue \in Seq(Transaction)
      /\ Meets(tail.start, queue, Start)
  BY <1>1, <1>2, CommitState DEF LogInv, RingInv, Stuck
<1>4. 1 \in DOMAIN queue /\ 1 \in 0 .. Len(queue) /\ queue[1] \in Transaction BY <1>1, <1>3
<1>5. InRow(tail.start, queue, Start) BY <1>3 DEF RingAt, Start
<1>6. tail' \in Position /\ tail'.start = EndOf(queue[1]) BY <1>1, <1>3, <1>4, <1>5, TailIs
<1>7. RingAt(tail'.start, queue', slots, last) /\ Wrap(last + 1) # tail'.start
  BY <1>1, <1>3, <1>4, <1>6, RingMoves
<1>8. Numbered(queue') /\ Meets(tail'.start, queue', Start)
  BY <1>1, <1>3, <1>4, <1>5, <1>6, RetiredRow
<1>9. MediumInv'
  <2>1. queue[1].ver \in Contents BY <1>4 DEF Transaction, Contents
  <2>2. home' \in [Blocks -> CellT(Contents)] BY <1>1, <2>1, FlushedHome DEF LogInv
  <2>. QED BY <1>1, <2>2 DEF LogInv, MediumInv
<1>10. ScalarInv' BY <1>1, <1>6 DEF LogInv, ScalarInv, running, history
<1>11. Numbered(queue)' BY <1>1, <1>8 DEF Numbered, history
<1>12. StageInv'
  <2>1. Wanted' = Wanted BY <1>1 DEF Wanted, running
  <2>. QED BY <1>1, <1>2, <2>1 DEF LogInv, StageInv, running, Allocating, Session, Pcs
<1>13. RingInv'
  <2>1. RingAt(tail.start, queue, slots, last)' BY <1>1, <1>7
  <2>2. Meets(tail.start, queue, Start)' BY <1>1, <1>8 DEF Start
  <2>3. (Advanced # tail.start)' BY <1>1, <1>7 DEF Advanced
  <2>. QED BY <2>1, <2>2, <2>3 DEF RingInv
<1>. QED BY <1>9, <1>10, <1>11, <1>12, <1>13 DEF LogInv

\* There is no room: the commit is given up.
LEMMA AllocFailsStep ==
  ASSUME LogInv, NEW Landed \in SUBSET Blocks, AllocFails(Landed)
  PROVE  LogInv'
<1>. DEFINE flush == queue # <<>> /\ ~Written(queue[1])
<1>1. /\ Allocating /\ alloc = "none" /\ Advanced = tail.start
      /\ (queue = <<>> \/ queue[1].bad) \/ flush
      /\ home' = IF flush THEN FlushHead(home, Landed) ELSE home
      /\ queue' = IF flush THEN [queue EXCEPT ![1].pending = {}, ![1].bad = TRUE] ELSE queue
      /\ pc' = "run" /\ slots' = <<>> /\ leaked' = leaked \cup dirty /\ dirty' = {} /\ revoked' = {}
      /\ gaveUp' = TRUE
      /\ UNCHANGED <<log, jsb, flag, tail, published, last, nextId, alloc, ver>>
  BY DEF AllocFails
<1>. HIDE DEF flush
<1>2. pc \in Session \ {"run"} BY <1>1 DEF Allocating, Session
<1>3. /\ RingAt(tail.start, queue, slots, last) /\ Numbered(queue) /\ queue \in Seq(Transaction)
  BY <1>2, CommitState
<1>4. queue # <<>> BY <1>1, NeverStuck DEF LogNeverStuck
<1>5. 1 \in DOMAIN queue /\ queue[1] \in Transaction BY <1>3, <1>4
<1>6. /\ queue' \in Seq(Transaction) /\ DOMAIN queue' = DOMAIN queue /\ Len(queue') = Len(queue)
      /\ queue' # <<>> /\ queue'[1].bad
      /\ \A k \in DOMAIN queue : /\ queue'[k].id = queue[k].id /\ queue'[k].ver = queue[k].ver
                                 /\ queue'[k].first = queue[k].first /\ queue'[k].len = queue[k].len
  <2>1. CASE flush
    <3>. DEFINE t == [queue[1] EXCEPT !.pending = {}, !.bad = TRUE]
    <3>1. t \in Transaction /\ t.bad /\ t.id = queue[1].id /\ t.ver = queue[1].ver
          /\ t.first = queue[1].first /\ t.len = queue[1].len
      BY <1>5 DEF Transaction
    <3>2. queue' = [queue EXCEPT ![1] = t] BY <1>1, <1>5, <2>1 DEF Transaction
    <3>. HIDE DEF t
    <3>3. /\ queue' \in Seq(Transaction) /\ DOMAIN queue' = DOMAIN queue /\ Len(queue') = Len(queue)
          /\ queue'[1] = t /\ \A k \in DOMAIN queue : k # 1 => queue'[k] = queue[k]
      BY <1>3, <1>5, <3>1, <3>2
    <3>. QED BY <1>4, <1>5, <3>1, <3>3
  <2>2. CASE ~flush BY <1>1, <1>3, <1>4, <2>2
  <2>. QED BY <2>1, <2>2
<1>7. InRow(tail.start, queue', last)
  <2>. DEFINE p == tail.start
              s == StartOf(slots, last)
  <2>1. InRow(p, queue, s) /\ last \in Ring /\ Off(p, last) = Off(p, s) + Len(slots) /\ Len(slots) \in Nat
    BY <1>3 DEF RingAt
  <2>2. \A k \in DOMAIN queue : Off(p, queue[k].first) + queue[k].len <= Off(p, last)
    <3>. TAKE k \in DOMAIN queue
    <3>1. queue[k] \in Transaction BY <1>3
    <3>2. queue[k].first \in Ring /\ queue[k].len \in Nat BY <3>1, RoomInLog DEF Transaction
    <3>3. p \in Ring /\ s \in Ring /\ Off(p, queue[k].first) + queue[k].len <= Off(p, s) BY <2>1 DEF InRow
    <3>4. Off(p, queue[k].first) \in Nat /\ Off(p, s) \in Nat BY <3>2, <3>3, OffIs
    <3>. QED BY <2>1, <3>2, <3>3, <3>4
  <2>. HIDE DEF p, s
  <2>3. \A k \in DOMAIN queue : EndOf(queue'[k]) = EndOf(queue[k]) BY <1>6 DEF EndOf
  <2>4. InRow(p, queue', last) BY <1>4, <1>5, <1>6, <2>1, <2>2, <2>3 DEF InRow
  <2>. QED BY <2>4 DEF p
<1>8. MediumInv'
  <2>1. queue[1].ver \in Contents BY <1>5 DEF Transaction, Contents
  <2>2. home' \in [Blocks -> CellT(Contents)]
    <3>1. home \in [Blocks -> CellT(Contents)] BY DEF LogInv, MediumInv
    <3>2. FlushHead(home, Landed) \in [Blocks -> CellT(Contents)] BY <2>1, FlushedHome DEF LogInv
    <3>. QED BY <1>1, <3>1, <3>2
  <2>. QED BY <1>1, <2>2 DEF LogInv, MediumInv
<1>9. ScalarInv' BY <1>1 DEF LogInv, ScalarInv
<1>10. Numbered(queue)' BY <1>1, <1>3, <1>6 DEF Numbered
<1>11. StageInv' BY <1>1 DEF LogInv, StageInv, Session, Pcs
<1>12. RingInv'
  <2>1. RingAt(tail.start, queue, slots, last)'
    <3>1. last \in Ring /\ Off(tail.start, last) \in Nat BY <1>2, CommitState, OffIs
    <3>. QED BY <1>1, <1>7, <3>1 DEF RingAt, StartOf
  <2>2. Stuck' BY <1>1, <1>6 DEF Stuck, Advanced
  <2>. QED BY <1>1, <2>1, <2>2 DEF RingInv
<1>. QED BY <1>8, <1>9, <1>10, <1>11, <1>12 DEF LogInv

\* A step that changes log blocks, and where the commit is.
LEMMA StageStep ==
  ASSUME LogInv, pc \in Session \ {"run"}, alloc = "none", MediumInv', StageInv',
         UNCHANGED <<tail, published, last, nextId, queue, dirty, revoked, slots, alloc, leaked, ver, gaveUp>>
  PROVE  LogInv'
<1>1. ScalarInv' BY DEF LogInv, ScalarInv
<1>2. Numbered(queue)' BY DEF LogInv, Numbered
<1>3. RingInv' BY RingSame DEF LogInv
<1>. QED BY <1>1, <1>2, <1>3 DEF LogInv

\* The descriptor and the copies are written.
LEMMA PrepareStep ==
  ASSUME LogInv, jbd_journal_prepare
  PROVE  LogInv'
<1>. DEFINE tags == TagSeq(dirty)
            Body == {slots[k] : k \in 1 .. (1 + Len(tags))}
<1>1. /\ pc = "descriptor" /\ Len(slots) = Wanted /\ alloc = "none"
      /\ log' = [s \in Ring |->
                   IF s \notin Body THEN log[s]
                   ELSE Put(log[s], IF s = slots[1] THEN Descriptor(nextId, tags)
                                                    ELSE LogData(ver))]
      /\ pc' = IF revoked # {} THEN "revoke" ELSE "body"
      /\ UNCHANGED <<home, jsb, flag, tail, published, last, nextId, queue, dirty, revoked, slots, alloc, leaked,
                     ver, gaveUp>>
  BY DEF jbd_journal_prepare, Allocated, running, history
<1>2. pc \in Session \ {"run"} BY <1>1 DEF Session
<1>3. dirty # {} /\ Cardinality(dirty) \in Nat BY <1>1, WantedIs DEF LogInv, StageInv
<1>4. MediumInv'
  <2>1. Descriptor(nextId, tags) \in Records /\ LogData(ver) \in Records
    BY TagSeqIs DEF LogInv, ScalarInv, Records, Descriptor, LogData
  <2>2. log \in [Ring -> CellT(Records)] BY DEF LogInv, MediumInv
  <2>. HIDE DEF tags, Body
  <2>3. \A s \in Ring : \A r \in Records : Put(log[s], r) \in CellT(Records) BY <2>2, CellIs
  <2>4. log' \in [Ring -> CellT(Records)] BY <1>1, <2>1, <2>2, <2>3
  <2>. QED BY <1>1, <2>4 DEF LogInv, MediumInv
<1>. HIDE DEF tags, Body
<1>5. StageInv'
  <2>1. Len(slots) = 1 + Cardinality(dirty) BY <1>1 DEF Wanted
  <2>2. pc' = "revoke" => Len(slots) <= Wanted' BY <1>1, <1>3, <2>1 DEF Wanted
  <2>3. pc' = "body" => Len(slots) = BodyLen' BY <1>1, <1>3, <2>1 DEF BodyLen
  <2>. QED BY <1>1, <2>2, <2>3 DEF StageInv, Session, Pcs
<1>. QED BY <1>1, <1>2, <1>4, <1>5, StageStep

\* A record is written to the log block handed out last.
LEMMA LastSlotStep ==
  ASSUME LogInv, pc \in Session \ {"run"}, Len(slots) = Wanted, Wanted > 0, NEW r \in Records,
         log' = [log EXCEPT ![slots[Len(slots)]] = Put(@, r)], UNCHANGED <<home, jsb, flag>>
  PROVE  MediumInv'
<1>1. slots \in Seq(Ring) /\ Wanted \in Nat BY CommitState
<1>2. slots[Len(slots)] \in Ring BY <1>1
<1>3. log \in [Ring -> CellT(Records)] BY DEF LogInv, MediumInv
<1>4. Put(log[slots[Len(slots)]], r) \in CellT(Records) BY <1>2, <1>3, CellIs
<1>5. log' \in [Ring -> CellT(Records)] BY <1>2, <1>3, <1>4
<1>. QED BY <1>5 DEF LogInv, MediumInv

LEMMA PrepareRevokeStep ==
  ASSUME LogInv, jbd_journal_prepare_revoke
  PROVE  LogInv'
<1>1. /\ pc = "revoke" /\ Len(slots) = Wanted /\ alloc = "none" /\ pc' = "body"
      /\ log' = [log EXCEPT ![slots[Len(slots)]] = Put(@, Revoke(nextId, ToRevoke))]
      /\ UNCHANGED <<home, jsb, flag, tail, published, last, nextId, queue, dirty, revoked, slots, alloc, leaked,
                     ver, gaveUp>>
  BY DEF jbd_journal_prepare_revoke, Allocated, running, history
<1>2. pc \in Session \ {"run"} BY <1>1 DEF Session
<1>3. revoked # {} /\ Cardinality(dirty) \in Nat BY <1>1, WantedIs DEF LogInv, StageInv
<1>4. Wanted = BodyLen /\ Wanted > 0 BY <1>1, <1>3 DEF Wanted, BodyLen
<1>5. Revoke(nextId, ToRevoke) \in Records BY DEF LogInv, ScalarInv, Records, Revoke, ToRevoke
<1>6. MediumInv' BY <1>1, <1>2, <1>4, <1>5, LastSlotStep
<1>7. StageInv'
  <2>1. BodyLen' = BodyLen BY <1>1 DEF BodyLen
  <2>. QED BY <1>1, <1>4, <2>1 DEF StageInv, Session, Pcs
<1>. QED BY <1>1, <1>2, <1>6, <1>7, StageStep

LEMMA BodyBarrierStep ==
  ASSUME LogInv, BodyBarrier
  PROVE  LogInv'
<1>1. /\ pc = "body" /\ pc' = "commit"
      /\ home' = Settled(home) /\ log' = Settled(log) /\ jsb' = Settle(jsb) /\ flag' = Settle(flag)
      /\ UNCHANGED <<tail, published, last, nextId, queue, dirty, revoked, slots, alloc, leaked, ver, gaveUp>>
  BY DEF BodyBarrier, Barrier, running, history
<1>2. pc \in Session \ {"run"} /\ alloc = "none" /\ Len(slots) = BodyLen
  BY <1>1 DEF Session, LogInv, StageInv, Allocating
<1>3. MediumInv' BY <1>1, SettledIs DEF LogInv, MediumInv
<1>4. StageInv'
  <2>1. BodyLen \in Nat /\ Cardinality(dirty) \in Nat BY WantedIs DEF LogInv
  <2>2. Len(slots) <= Wanted' BY <1>1, <1>2, <2>1 DEF Wanted, BodyLen
  <2>. QED BY <1>1, <1>2, <2>2 DEF StageInv, Session, Pcs
<1>. QED BY <1>1, <1>2, <1>3, <1>4, StageStep

LEMMA CommitBlockStep ==
  ASSUME LogInv, jbd_trans_write_commit_block
  PROVE  LogInv'
<1>1. /\ pc = "commit" /\ Len(slots) = Wanted /\ alloc = "none" /\ pc' = "finish"
      /\ log' = [log EXCEPT ![slots[Len(slots)]] = Put(@, Commit(nextId))]
      /\ UNCHANGED <<home, jsb, flag, tail, published, last, nextId, queue, dirty, revoked, slots, alloc, leaked,
                     ver, gaveUp>>
  BY DEF jbd_trans_write_commit_block, Allocated, running
<1>2. pc \in Session \ {"run"} BY <1>1 DEF Session
<1>3. Cardinality(dirty) \in Nat /\ BodyLen \in Nat BY WantedIs DEF LogInv
<1>4. Wanted = 1 + BodyLen /\ Wanted > 0 BY <1>1, <1>3 DEF Wanted, BodyLen
<1>5. Commit(nextId) \in Records BY DEF LogInv, ScalarInv, Records, Commit
<1>6. MediumInv' BY <1>1, <1>2, <1>4, <1>5, LastSlotStep
<1>7. StageInv'
  <2>1. BodyLen' = BodyLen BY <1>1 DEF BodyLen
  <2>. QED BY <1>1, <1>4, <2>1 DEF StageInv, Session, Pcs
<1>. QED BY <1>1, <1>2, <1>6, <1>7, StageStep

\* The transaction joins the queue, and the completions of its home writes retire
\* what they retire.
LEMMA FinishStep ==
  ASSUME LogInv, NEW Late \in SUBSET Blocks, NEW Failed \in SUBSET Blocks, Finish(Late, Failed)
  PROVE  LogInv'
<1>. DEFINE q1 == Completed(queue, revoked)
            n1 == RetireCount(queue, revoked)
            t  == [id |-> nextId, first |-> slots[1], len |-> Len(slots),
                   ver |-> ver, pending |-> dirty, bad |-> FALSE]
            t4 == [t EXCEPT !.bad = Failed # {}]
            q2 == Retired(q1, n1)
            q3 == Append(q2, t)
            Home == dirty \ Late
            q4 == [q3 EXCEPT ![Len(q3)].bad = Failed # {}]
            n4 == RetireCount(q4, Home)
            c4 == Completed(q4, Home)
            p1 == TailStops(q1, n1).start
<1>1. /\ pc = "finish" /\ nextId' = nextId + 1
      /\ home' = WriteHome(Settled(home), Home \ Failed, LAMBDA b : ver)
      /\ log' = Settled(log) /\ jsb' = Settle(jsb) /\ flag' = Settle(flag)
      /\ IF dirty = {} /\ q2 = <<>>
         THEN queue' = <<>> /\ tail' = TailPast(<<t>>, 1)
         ELSE /\ queue' = Retired(c4, n4)
              /\ tail' = IF n4 > 0 THEN TailStops(c4, n4)
                         ELSE IF q2 = <<>> THEN [start |-> t.first, id |-> t.id]
                         ELSE TailStops(q1, n1)
      /\ pc' = "run" /\ dirty' = {} /\ revoked' = {} /\ slots' = <<>>
      /\ UNCHANGED <<published, last, alloc, leaked, ver, gaveUp>>
  BY DEF Finish
<1>2. pc \in Session \ {"run"} /\ alloc = "none" /\ Len(slots) = 1 + BodyLen
  BY <1>1 DEF Session, LogInv, StageInv, Allocating
<1>3. /\ RingAt(tail.start, queue, slots, last) /\ tail \in Position /\ Numbered(queue)
      /\ slots \in Seq(Ring) /\ Len(slots) \in Nat /\ last \in Ring
      /\ BodyLen \in Nat
  BY <1>2, CommitState
<1>4. slots # <<>> /\ slots[1] \in Ring /\ StartOf(slots, last) = slots[1] BY <1>2, <1>3 DEF StartOf
<1>5. Meets(tail.start, queue, slots[1]) BY <1>2, <1>4, CommitState DEF Start
<1>6. /\ TailStops(q1, n1) \in Position /\ RingAt(p1, q2, slots, last)
      /\ Numbered(q2) /\ Meets(p1, q2, slots[1])
  <2>. DEFINE r == IF n1 = 0 THEN tail.start ELSE TailStops(q1, n1).start
  <2>. HIDE DEF q1, n1, q2
  <2>1. /\ TailStops(q1, n1) \in Position /\ (n1 = 0 => TailStops(q1, n1) = tail)
        /\ RingAt(r, Retired(q1, n1), slots, last) /\ Numbered(Retired(q1, n1))
        /\ Meets(tail.start, queue, StartOf(slots, last)) => Meets(r, Retired(q1, n1), StartOf(slots, last))
    <3>. HIDE DEF r
    <3>. QED BY <1>3, CompletionMoves DEF q1, n1, r
  <2>2. r = p1 BY <2>1
  <2>. QED BY <1>4, <1>5, <2>1, <2>2 DEF q2
<1>. HIDE DEF q1, n1, q2, p1
<1>7. /\ InRow(p1, q2, slots[1]) /\ Off(p1, last) = Off(p1, slots[1]) + Len(slots)
      /\ q2 \in Seq(Transaction) /\ p1 \in Ring
  BY <1>4, <1>6 DEF RingAt, InRow
<1>8. nextId \in Nat /\ ver \in Nat /\ dirty \subseteq Blocks BY DEF LogInv, ScalarInv
<1>9. t \in Transaction /\ t4 \in Transaction
  <2>1. Len(slots) \in 1 .. MaxLen - 1
    <3>1. BodyLen <= Cardinality(Blocks) + 1 BY WantedIs DEF LogInv
    <3>. QED BY <1>2, <1>3, <3>1, RoomInLog
  <2>. QED BY <1>4, <1>8, <2>1 DEF Transaction
<1>10. /\ t.id = nextId /\ t.first = slots[1] /\ t.len = Len(slots)
       /\ t4.id = nextId /\ t4.ver = ver /\ t4.first = slots[1] /\ t4.len = Len(slots)
  OBVIOUS
<1>11. q4 = Append(q2, t4)
  <2>1. q3 \in Seq(Transaction) /\ Len(q3) = Len(q2) + 1 /\ q3[Len(q3)] = t BY <1>7, <1>9
  <2>2. q4 = [q3 EXCEPT ![Len(q3)] = t4] BY <2>1
  <2>. HIDE DEF t, t4
  <2>3. q4 \in Seq(Transaction) /\ Len(q4) = Len(q2) + 1 BY <1>9, <2>1, <2>2
  <2>4. \A k \in 1 .. Len(q2) + 1 : q4[k] = Append(q2, t4)[k]
    <3>1. \A k \in 1 .. Len(q2) : q3[k] = q2[k] /\ Append(q2, t4)[k] = q2[k] BY <1>7
    <3>2. Append(q2, t4)[Len(q2) + 1] = t4 BY <1>7
    <3>3. DOMAIN q3 = 1 .. Len(q2) + 1 /\ Len(q2) \in Nat BY <1>7, <2>1
    <3>. HIDE DEF q3, q4
    <3>4. q4[Len(q2) + 1] = t4 BY <2>1, <2>2, <3>3
    <3>5. \A k \in 1 .. Len(q2) : q4[k] = q3[k] BY <2>1, <2>2, <3>3
    <3>. QED BY <3>1, <3>2, <3>3, <3>4, <3>5
  <2>5. Append(q2, t4) \in Seq(Transaction) /\ Len(Append(q2, t4)) = Len(q2) + 1 BY <1>7, <1>9
  <2>. HIDE DEF q3, q4
  <2>. QED BY <2>3, <2>4, <2>5
<1>. HIDE DEF t, t4, q3, q4, n4, c4
<1>12. InRow(p1, q4, last) /\ Meets(p1, q4, last) /\ q4 \in Seq(Transaction) /\ q4 # <<>>
  <2>1. InRow(p1, q4, last) /\ Meets(p1, q4, last)
    BY <1>3, <1>6, <1>7, <1>9, <1>10, <1>11, AppendRow
  <2>. QED BY <1>7, <1>9, <1>11, <2>1
<1>13. RingAt(p1, q4, <<>>, last) /\ Meets(p1, q4, StartOf(<<>>, last))
  <2>1. StartOf(<<>>, last) = last /\ Off(p1, last) \in Nat BY <1>3, <1>7, OffIs DEF StartOf
  <2>. QED BY <1>3, <1>12, <2>1 DEF RingAt
<1>14. /\ tail' \in Position
       /\ RingAt(tail'.start, queue', <<>>, last) /\ Meets(tail'.start, queue', last)
       /\ \A k \in DOMAIN queue' : queue'[k].id < nextId + 1 /\ queue'[k].ver <= ver
  <2>1. CASE dirty = {} /\ q2 = <<>>
    <3>1. EndOf(t) = last
      <4>1. InRow(p1, Append(q2, t), last) /\ Meets(p1, Append(q2, t), last)
        BY <1>3, <1>6, <1>7, <1>9, <1>10, AppendRow
      <4>2. Append(q2, t) = <<t>> BY <2>1
      <4>. QED BY <4>1, <4>2 DEF Meets
    <3>2. queue' = <<>> /\ tail' = [start |-> last, id |-> nextId + 1]
      BY <1>1, <1>10, <2>1, <3>1 DEF TailPast
    <3>3. tail' \in Position BY <1>3, <1>8, <3>2, RoomInLog DEF Position, Ring, First
    <3>4. RingAt(tail'.start, queue', <<>>, last) /\ Meets(tail'.start, queue', last)
      BY <1>3, <3>2, OffIs DEF RingAt, InRow, Meets, StartOf
    <3>5. \A k \in DOMAIN queue' : queue'[k].id < nextId + 1 /\ queue'[k].ver <= ver BY <3>2
    <3>. QED BY <3>3, <3>4, <3>5
  <2>2. CASE ~(dirty = {} /\ q2 = <<>>)
    <3>1. queue' = Retired(c4, n4)
          /\ tail' = IF n4 > 0 THEN TailStops(c4, n4)
                     ELSE IF q2 = <<>> THEN [start |-> t.first, id |-> t.id]
                     ELSE TailStops(q1, n1)
      BY <1>1, <2>2
    <3>. DEFINE r == IF n4 = 0 THEN p1 ELSE TailStops(c4, n4).start
    <3>2. /\ TailStops(c4, n4) \in Position
          /\ RingAt(r, Retired(c4, n4), <<>>, last)
          /\ Meets(r, Retired(c4, n4), StartOf(<<>>, last))
      <4>. HIDE DEF r
      <4>. QED BY <1>3, <1>13, CompletionMoves DEF r, n4, c4
    <3>3. n4 \in Nat BY <1>12, RetireCountIs DEF n4
    <3>4. tail' \in Position /\ tail'.start = r
      <4>1. [start |-> t.first, id |-> t.id] \in Position
        BY <1>4, <1>8, <1>10, RoomInLog DEF Position, Ring, First
      <4>2. q2 = <<>> => p1 = t.first BY <1>6, <1>10 DEF Meets
      <4>. QED BY <1>6, <3>1, <3>2, <3>3, <4>1, <4>2 DEF p1
    <3>5. \A k \in DOMAIN q4 : q4[k].id < nextId + 1 /\ q4[k].ver <= ver
      <4>. TAKE k \in DOMAIN q4
      <4>1. CASE k \in DOMAIN q2
        <5>1. q4[k] = q2[k] /\ q2[k] \in Transaction BY <1>7, <1>11, <4>1
        <5>2. q2[k].id < nextId /\ q2[k].ver <= ver BY <1>6, <4>1 DEF Numbered
        <5>3. q2[k].id \in Nat BY <5>1 DEF Transaction
        <5>. QED BY <1>8, <5>1, <5>2, <5>3
      <4>2. CASE k = Len(q2) + 1
        <5>1. q4[k] = t4 BY <1>7, <1>11, <4>2
        <5>. QED BY <1>8, <1>10, <5>1
      <4>. QED BY <1>7, <1>11, <4>1, <4>2
    <3>6. \A k \in DOMAIN queue' : queue'[k].id < nextId + 1 /\ queue'[k].ver <= ver
      <4>1. /\ c4 \in Seq(Transaction) /\ Len(c4) = Len(q4) /\ DOMAIN c4 = DOMAIN q4
            /\ \A k \in DOMAIN q4 : c4[k].id = q4[k].id /\ c4[k].ver = q4[k].ver
        BY <1>12, CompletedIs DEF c4
      <4>2. n4 \in 0 .. Len(c4) BY <1>12, <4>1, RetireCountIs DEF n4
      <4>3. \A k \in DOMAIN queue' : k + n4 \in DOMAIN c4 /\ queue'[k] = c4[k + n4]
        BY <3>1, <4>1, <4>2 DEF Retired
      <4>. QED BY <3>5, <4>1, <4>3
    <3>7. RingAt(tail'.start, queue', <<>>, last) /\ Meets(tail'.start, queue', last)
      BY <3>1, <3>2, <3>4 DEF StartOf
    <3>. QED BY <3>4, <3>6, <3>7
  <2>. QED BY <2>1, <2>2
<1>15. MediumInv'
  <2>1. Settled(home) \in [Blocks -> CellT(Contents)] BY SettledIs DEF LogInv
  <2>2. ver \in Contents BY <1>8 DEF Contents
  <2>3. ASSUME NEW b \in Blocks PROVE Put(Settled(home)[b], ver) \in CellT(Contents)
    BY <2>1, <2>2, CellIs
  <2>4. home' \in [Blocks -> CellT(Contents)]
    <3>. HIDE DEF Home
    <3>. QED BY <1>1, <2>1, <2>3 DEF WriteHome
  <2>. QED BY <1>1, <2>4, SettledIs DEF LogInv, MediumInv
<1>16. ScalarInv' BY <1>1, <1>14 DEF LogInv, ScalarInv
<1>17. Numbered(queue)' BY <1>1, <1>14 DEF Numbered
<1>18. StageInv' BY <1>1, <1>2 DEF LogInv, StageInv, Session, Pcs
<1>19. RingInv'
  <2>1. RingAt(tail.start, queue, slots, last)' BY <1>1, <1>14
  <2>2. Meets(tail.start, queue, Start)' BY <1>1, <1>14 DEF Start, StartOf
  <2>. QED BY <1>1, <1>2, <2>1, <2>2 DEF RingInv
<1>. QED BY <1>15, <1>16, <1>17, <1>18, <1>19 DEF LogInv

\* The commit fails, and the log blocks it was handed are given back.
LEMMA CommitFailsStep ==
  ASSUME LogInv, CommitFails
  PROVE  LogInv'
<1>. DEFINE B == {b \in dirty : Pending(b)}
            n == RetireCount(queue, B)
            c == Completed(queue, B)
            r == TailStops(c, n).start
<1>1. /\ pc \in Session \ {"run"} /\ slots # <<>> /\ alloc = "none"
      /\ last' = slots[1] /\ slots' = <<>> /\ home' = RollBack(B)
      /\ queue' = Retired(c, n) /\ tail' = TailStops(c, n)
      /\ pc' = "run" /\ dirty' = {} /\ revoked' = {}
      /\ UNCHANGED <<log, jsb, flag, published, nextId, alloc, leaked, ver, gaveUp>>
  BY DEF CommitFails, Session, history
<1>2. \A b \in B : Pending(b) OBVIOUS
<1>. HIDE DEF B
<1>3. /\ RingAt(tail.start, queue, slots, last) /\ tail \in Position /\ Numbered(queue)
      /\ slots \in Seq(Ring) /\ queue \in Seq(Transaction)
      /\ Meets(tail.start, queue, StartOf(slots, last))
  BY <1>1, CommitState DEF Start
<1>4. slots[1] \in Ring /\ StartOf(slots, last) = slots[1] BY <1>1, <1>3 DEF StartOf
<1>5. /\ TailStops(c, n) \in Position /\ RingAt(r, queue', slots, last)
      /\ Numbered(queue') /\ Meets(r, queue', slots[1])
  <2>. DEFINE r0 == IF n = 0 THEN tail.start ELSE TailStops(c, n).start
  <2>. HIDE DEF c, n
  <2>1. /\ TailStops(c, n) \in Position /\ (n = 0 => TailStops(c, n) = tail)
        /\ RingAt(r0, Retired(c, n), slots, last) /\ Numbered(Retired(c, n))
        /\ Meets(tail.start, queue, StartOf(slots, last)) => Meets(r0, Retired(c, n), StartOf(slots, last))
    <3>. HIDE DEF r0
    <3>. QED BY <1>3, CompletionMoves DEF c, n, r0
  <2>2. r0 = r BY <2>1
  <2>. QED BY <1>1, <1>3, <1>4, <2>1, <2>2
<1>. HIDE DEF c, n, r
<1>6. MediumInv'
  <2>1. home' \in [Blocks -> CellT(Contents)] BY <1>1, <1>2, <1>3, OwnedHome DEF RollBack
  <2>. QED BY <1>1, <2>1 DEF LogInv, MediumInv
<1>7. ScalarInv'
  <2>1. last' \in 0 .. MaxLen - 1 BY <1>1, <1>4, RoomInLog DEF Ring, First
  <2>. QED BY <1>1, <1>5, <2>1 DEF LogInv, ScalarInv
<1>8. Numbered(queue)' BY <1>1, <1>5 DEF Numbered
<1>9. StageInv' BY <1>1 DEF LogInv, StageInv, Session, Pcs
<1>10. RingInv'
  <2>1. RingAt(r, queue', <<>>, slots[1])
    <3>1. InRow(r, queue', slots[1]) /\ r \in Ring BY <1>4, <1>5 DEF RingAt, InRow
    <3>2. Off(r, slots[1]) \in Nat BY <1>4, <3>1, OffIs
    <3>. QED BY <1>4, <3>1, <3>2 DEF RingAt, StartOf
  <2>2. RingAt(tail.start, queue, slots, last)' BY <1>1, <2>1 DEF r
  <2>3. Meets(tail.start, queue, Start)' BY <1>1, <1>5 DEF Start, StartOf, r
  <2>. QED BY <1>1, <2>2, <2>3 DEF RingInv
<1>. QED BY <1>6, <1>7, <1>8, <1>9, <1>10 DEF LogInv

\* A barrier and nothing else.
LEMMA SyncStep ==
  ASSUME LogInv, ext4b_sync
  PROVE  LogInv'
<1>1. /\ pc = "run" /\ UNCHANGED <<session, history, bounds>>
      /\ home' = Settled(home) /\ log' = Settled(log) /\ jsb' = Settle(jsb) /\ flag' = Settle(flag)
  BY DEF ext4b_sync, Barrier
<1>2. MediumInv' BY <1>1, SettledIs DEF LogInv, MediumInv
<1>3. ScalarInv' BY <1>1 DEF LogInv, ScalarInv, session, running, history
<1>4. Numbered(queue)' BY <1>1 DEF LogInv, Numbered, session, history
<1>5. StageInv' BY <1>1 DEF LogInv, StageInv, session, running, BodyLen, Wanted, Allocating
<1>6. RingInv' BY <1>1, RingSame DEF LogInv, session, Session
<1>. QED BY <1>2, <1>3, <1>4, <1>5, <1>6 DEF LogInv

-----------------------------------------------------------------------------
(* Between the sessions.                                                   *)

\* A step that ends with no session, and so with no ring.
LEMMA DownStep ==
  ASSUME MediumInv', ScalarInv', pc' \in Pcs \ Session, alloc' = "none", queue' = <<>>, slots' = <<>>,
         pc' = "replayed" => jsb'.now.start # 0
  PROVE  LogInv'
<1>1. Numbered(queue)' BY DEF Numbered
<1>2. StageInv' BY DEF StageInv, Session, Pcs
<1>3. RingInv' BY DEF RingInv
<1>. QED BY <1>1, <1>2, <1>3 DEF LogInv

\* What such a step starts from.
LEMMA DownState ==
  ASSUME LogInv, pc \notin Session \ {"run"}
  PROVE  slots = <<>> /\ alloc = "none" /\ (pc # "run" => queue = <<>>)
BY DEF LogInv, StageInv, Allocating, Session

\* The superblocks say no replay is needed.
LEMMA StopClearStep ==
  ASSUME LogInv, StopClear
  PROVE  LogInv'
<1>1. /\ pc \in {"stop", "stopBarrier"} /\ pc' = "unmount"
      /\ home' \in {home, Settled(home)} /\ log' \in {log, Settled(log)}
      /\ \E c \in {flag, Settle(flag)} : flag' = Put(c, FALSE)
      /\ \E c \in {jsb, Settle(jsb)} : jsb' = Put(c, [start |-> 0, seq |-> tail.id])
      /\ UNCHANGED <<tail, published, last, nextId, queue, dirty, revoked, slots, alloc, leaked, ver, gaveUp>>
  BY DEF StopClear, running, history
<1>2. MediumInv'
  <2>1. PICK c \in {flag, Settle(flag)} : flag' = Put(c, FALSE) BY <1>1
  <2>2. c \in CellT(BOOLEAN) BY SettledIs DEF LogInv, MediumInv
  <2>3. flag' \in CellT(BOOLEAN) BY <2>1, <2>2, CellIs
  <2>4. PICK d \in {jsb, Settle(jsb)} : jsb' = Put(d, [start |-> 0, seq |-> tail.id]) BY <1>1
  <2>5. d \in CellT([start : 0 .. MaxLen - 1, seq : Nat]) BY SettledIs DEF LogInv, MediumInv
  <2>6. [start |-> 0, seq |-> tail.id] \in [start : 0 .. MaxLen - 1, seq : Nat]
    BY RoomInLog DEF LogInv, ScalarInv, Position
  <2>7. jsb' \in CellT([start : 0 .. MaxLen - 1, seq : Nat]) BY <2>4, <2>5, <2>6, CellIs
  <2>. QED BY <1>1, <2>3, <2>7, SettledIs DEF LogInv, MediumInv
<1>3. ScalarInv' BY <1>1 DEF LogInv, ScalarInv
<1>. QED BY <1>1, <1>2, <1>3, DownState, DownStep DEF Pcs, Session

\* The buffers a failed commit left dirty go home.
LEMMA UnmountStep ==
  ASSUME LogInv, Unmount
  PROVE  LogInv'
<1>1. /\ pc = "unmount" /\ pc' = "off" /\ leaked' = {}
      /\ home' = WriteHome(home, leaked, LAMBDA b : Garbage)
      /\ UNCHANGED <<log, jsb, flag, tail, published, last, nextId, queue, dirty, revoked, slots, alloc, ver, gaveUp>>
  BY DEF Unmount, running, history
<1>2. MediumInv'
  <2>1. home \in [Blocks -> CellT(Contents)] BY DEF LogInv, MediumInv
  <2>2. ASSUME NEW b \in Blocks PROVE Put(home[b], Garbage) \in CellT(Contents)
    BY <2>1, CellIs DEF Contents
  <2>3. home' \in [Blocks -> CellT(Contents)] BY <1>1, <2>1, <2>2 DEF WriteHome
  <2>. QED BY <1>1, <2>3 DEF LogInv, MediumInv
<1>3. ScalarInv' BY <1>1 DEF LogInv, ScalarInv
<1>. QED BY <1>1, <1>2, <1>3, DownState, DownStep DEF Pcs, Session

LEMMA UnmountBarrierStep ==
  ASSUME LogInv, UnmountBarrier
  PROVE  LogInv'
<1>1. /\ pc = "off" /\ pc' = "down"
      /\ home' = Settled(home) /\ log' = Settled(log) /\ jsb' = Settle(jsb) /\ flag' = Settle(flag)
      /\ UNCHANGED <<tail, published, last, nextId, queue, dirty, revoked, slots, alloc, leaked, ver, gaveUp>>
  BY DEF UnmountBarrier, Barrier, running
<1>2. MediumInv' BY <1>1, SettledIs DEF LogInv, MediumInv
<1>3. ScalarInv' BY <1>1 DEF LogInv, ScalarInv
<1>. QED BY <1>1, <1>2, <1>3, DownState, DownStep DEF Pcs, Session

\* The power fails.
LEMMA CrashStepIs ==
  ASSUME LogInv, Crash
  PROVE  LogInv'
<1>1. /\ home' \in Survivors(home) /\ log' \in Survivors(log)
      /\ \E j \in Outcomes(jsb), f \in Outcomes(flag) : jsb' = Cell(j) /\ flag' = Cell(f)
      /\ pc' = "crashed"
      /\ tail' = [start |-> 0, id |-> 0] /\ published' = 0 /\ last' = 0 /\ nextId' = 0
      /\ queue' = <<>> /\ dirty' = {} /\ revoked' = {} /\ slots' = <<>>
      /\ alloc' = "none" /\ leaked' = {} /\ ver' = ver /\ gaveUp' = gaveUp
  BY DEF Crash
<1>2. MediumInv'
  <2>1. home' \in [Blocks -> CellT(Contents)]
    BY <1>1, JournalAssumption, SurvivorsAre DEF LogInv, MediumInv
  <2>2. IsFiniteSet(Ring) BY RoomInLog, FS_Interval DEF Ring, First
  <2>3. log' \in [Ring -> CellT(Records)] BY <1>1, <2>2, SurvivorsAre DEF LogInv, MediumInv
  <2>4. PICK j \in Outcomes(jsb), f \in Outcomes(flag) : jsb' = Cell(j) /\ flag' = Cell(f) BY <1>1
  <2>5. jsb \in CellT([start : 0 .. MaxLen - 1, seq : Nat]) /\ flag \in CellT(BOOLEAN) BY DEF LogInv, MediumInv
  <2>6. j \in [start : 0 .. MaxLen - 1, seq : Nat] /\ f \in BOOLEAN BY <2>5, CellIs
  <2>7. jsb' \in CellT([start : 0 .. MaxLen - 1, seq : Nat]) /\ flag' \in CellT(BOOLEAN)
    BY <2>4, <2>6 DEF Cell, CellT
  <2>. QED BY <2>1, <2>3, <2>7 DEF MediumInv
<1>3. ScalarInv' BY <1>1, RoomInLog DEF LogInv, ScalarInv, Position
<1>. QED BY <1>1, <1>2, <1>3, DownStep DEF Pcs, Session

\* The journal stops: what the queue holds goes home, as far as it does.
LEMMA StopPurgeStep ==
  ASSUME LogInv, NEW n \in 0 .. Len(queue), NEW Landed \in SUBSET Blocks, StopPurge(n, Landed)
  PROVE  LogInv'
<1>. DEFINE clean == n = Len(queue)
            now == ~clean /\ ~queue[n + 1].bad
            Rest(b) == {k \in (n + 2) .. Len(queue) : b \in queue[k].pending}
            owed(b) == {queue[k].ver : k \in {m \in 1 .. n : b \in queue[m].pending}}
                         \cup (IF b \in Landed THEN {queue[n + 1].ver} ELSE {})
                         \cup (IF Rest(b) # {} THEN {queue[Max(Rest(b))].ver} ELSE {})
            B == {b \in Blocks : owed(b) # {}}
<1>1. /\ pc = "run" /\ (~now => Landed = {})
      /\ home' = [b \in Blocks |->
                    IF b \in B THEN [home[b] EXCEPT !.now = Max(owed(b)), !.fly = @ \cup owed(b)]
                               ELSE home[b]]
      /\ queue' = <<>> /\ tail' = TailPast(queue, n)
      /\ pc' \in {"unmount", "stop", "stopBarrier"}
      /\ UNCHANGED <<log, jsb, flag, published, last, nextId, dirty, revoked, slots, alloc, leaked, ver, gaveUp>>
  BY DEF StopPurge, running, history
<1>2. pc \in Session /\ ver \in Nat /\ tail \in Position /\ home \in [Blocks -> CellT(Contents)]
  BY <1>1 DEF Session, LogInv, ScalarInv, MediumInv
<1>3. /\ queue \in Seq(Transaction) /\ Len(queue) \in Nat /\ DOMAIN queue = 1 .. Len(queue)
      /\ InRow(tail.start, queue, Start)
  BY <1>2, QueueIs DEF LogInv, RingInv, RingAt, Start
<1>4. \A k \in DOMAIN queue : queue[k].ver \in 0 .. ver
  <2>. TAKE k \in DOMAIN queue
  <2>1. queue[k] \in Transaction BY <1>3
  <2>2. queue[k].ver \in Nat BY <2>1 DEF Transaction
  <2>. QED BY <1>2, <2>2 DEF LogInv, Numbered
<1>5. ASSUME NEW b \in Blocks PROVE owed(b) \subseteq 0 .. ver
  <2>1. \A k \in {m \in 1 .. n : b \in queue[m].pending} : queue[k].ver \in 0 .. ver BY <1>3, <1>4
  <2>2. b \in Landed => queue[n + 1].ver \in 0 .. ver
    <3>. SUFFICES ASSUME b \in Landed PROVE queue[n + 1].ver \in 0 .. ver OBVIOUS
    <3>1. n # Len(queue) BY <1>1
    <3>2. \A m \in Nat : \A i \in 0 .. m : i # m => i + 1 \in 1 .. m OBVIOUS
    <3>3. n + 1 \in 1 .. Len(queue) BY <1>3, <3>1, <3>2
    <3>. QED BY <1>3, <1>4, <3>3
  <2>3. Rest(b) # {} => queue[Max(Rest(b))].ver \in 0 .. ver
    <3>1. Rest(b) \subseteq DOMAIN queue /\ Rest(b) \subseteq 0 .. Len(queue) BY <1>3
    <3>. HIDE DEF Rest
    <3>2. Rest(b) # {} => Max(Rest(b)) \in Rest(b) BY <1>3, <3>1, MaxIs
    <3>. QED BY <1>4, <3>1, <3>2
  <2>. HIDE DEF Rest
  <2>. QED BY <2>1, <2>2, <2>3
<1>. HIDE DEF owed
<1>6. home' \in [Blocks -> CellT(Contents)]
  <2>1. ASSUME NEW b \in Blocks, b \in B
        PROVE  [home[b] EXCEPT !.now = Max(owed(b)), !.fly = @ \cup owed(b)] \in CellT(Contents)
    <3>1. owed(b) \subseteq 0 .. ver /\ owed(b) # {} BY <1>5, <2>1
    <3>2. Max(owed(b)) \in owed(b) BY <1>2, <3>1, MaxIs
    <3>3. owed(b) \subseteq Contents /\ Max(owed(b)) \in Contents BY <1>2, <3>1, <3>2 DEF Contents
    <3>4. home[b] \in CellT(Contents) BY <1>2
    <3>. QED BY <3>3, <3>4 DEF CellT
  <2>. HIDE DEF B
  <2>. QED BY <1>1, <1>2, <2>1
<1>7. MediumInv' BY <1>1, <1>6 DEF LogInv, MediumInv
<1>8. ScalarInv'
  <2>1. tail' \in Position BY <1>1, <1>2, <1>3, TailIs
  <2>. QED BY <1>1, <2>1 DEF LogInv, ScalarInv
<1>. QED BY <1>1, <1>7, <1>8, DownState, DownStep DEF Pcs, Session

-----------------------------------------------------------------------------
(* Recovery.                                                               *)

LEMMA MountStep ==
  ASSUME LogInv, Mount
  PROVE  LogInv'
<1>1. /\ pc \in {"down", "crashed"} /\ pc' \in {"recover", "attach"}
      /\ UNCHANGED <<home, log, jsb, flag, tail, published, last, nextId, queue, dirty, revoked, slots, alloc,
                     leaked, ver, gaveUp>>
  BY DEF Mount, medium, running, history
<1>2. MediumInv' BY <1>1 DEF LogInv, MediumInv
<1>3. ScalarInv' BY <1>1 DEF LogInv, ScalarInv
<1>. QED BY <1>1, <1>2, <1>3, DownState, DownStep DEF Pcs, Session

\* The log is replayed, if it starts anywhere.
LEMMA RecoverStep ==
  ASSUME LogInv, jbd_recover
  PROVE  LogInv'
<1>1. /\ pc = "recover" /\ pc' \in {"attach", "replayed"}
      /\ IF jsb.now.start = 0 THEN pc' = "attach" /\ home' = home
                              ELSE home' = jbd_replay_wb_flush(Walk)
      /\ UNCHANGED <<log, jsb, flag, tail, published, last, nextId, queue, dirty, revoked, slots, alloc,
                     leaked, ver, gaveUp>>
  BY DEF jbd_recover, running
<1>2. MediumInv'
  <2>1. home' \in [Blocks -> CellT(Contents)] BY <1>1, ReplayIs DEF LogInv, MediumInv
  <2>. QED BY <1>1, <2>1 DEF LogInv, MediumInv
<1>3. ScalarInv' BY <1>1 DEF LogInv, ScalarInv
<1>. QED BY <1>1, <1>2, <1>3, DownState, DownStep DEF Pcs, Session

LEMMA RecoverDoneStep ==
  ASSUME LogInv, RecoverDone
  PROVE  LogInv'
<1>1. /\ pc = "replayed" /\ pc' = "attach"
      /\ home' = Settled(home) /\ log' = Settled(log)
      /\ flag' = Put(Settle(flag), FALSE) /\ jsb' = Put(Settle(jsb), [start |-> 0, seq |-> LastId])
      /\ UNCHANGED <<tail, published, last, nextId, queue, dirty, revoked, slots, alloc, leaked, ver, gaveUp>>
  BY DEF RecoverDone, running, history
<1>2. MediumInv'
  <2>1. LastId \in Nat BY <1>1, LastIdIs DEF LogInv, StageInv
  <2>2. [start |-> 0, seq |-> LastId] \in [start : 0 .. MaxLen - 1, seq : Nat] BY <2>1, RoomInLog
  <2>3. jsb' \in CellT([start : 0 .. MaxLen - 1, seq : Nat]) BY <1>1, <2>2, SettledIs, CellIs DEF LogInv
  <2>4. flag' \in CellT(BOOLEAN) BY <1>1, SettledIs, CellIs DEF LogInv
  <2>. QED BY <1>1, <2>3, <2>4, SettledIs DEF LogInv, MediumInv
<1>3. ScalarInv' BY <1>1 DEF LogInv, ScalarInv
<1>. QED BY <1>1, <1>2, <1>3, DownState, DownStep DEF Pcs, Session

\* A session begins with an empty log.
LEMMA StartStep ==
  ASSUME LogInv, jbd_journal_start
  PROVE  LogInv'
<1>1. /\ pc = "attach" /\ pc' = "run" /\ flag' = Put(flag, TRUE)
      /\ tail' = [start |-> First, id |-> jsb.now.seq + 1]
      /\ last' = First /\ published' = First /\ nextId' = jsb.now.seq + 1
      /\ jsb' = Put(jsb, [start |-> First, seq |-> jsb.now.seq + 1])
      /\ queue' = <<>>
      /\ UNCHANGED <<home, log, dirty, revoked, slots, alloc, leaked, ver, gaveUp>>
  BY DEF jbd_journal_start, running
<1>2. slots = <<>> /\ alloc = "none" BY <1>1, DownState DEF Session
<1>3. First \in Ring /\ First \in 0 .. MaxLen - 1 BY RoomInLog DEF Ring, First
<1>4. jsb.now.seq + 1 \in Nat
  <2>1. jsb.now \in [start : 0 .. MaxLen - 1, seq : Nat] BY CellIs DEF LogInv, MediumInv
  <2>. QED BY <2>1
<1>5. MediumInv'
  <2>1. [start |-> First, seq |-> jsb.now.seq + 1] \in [start : 0 .. MaxLen - 1, seq : Nat] BY <1>3, <1>4
  <2>2. jsb' \in CellT([start : 0 .. MaxLen - 1, seq : Nat]) BY <1>1, <2>1, CellIs DEF LogInv, MediumInv
  <2>3. flag' \in CellT(BOOLEAN) BY <1>1, CellIs DEF LogInv, MediumInv
  <2>. QED BY <1>1, <2>2, <2>3 DEF LogInv, MediumInv
<1>6. ScalarInv' BY <1>1, <1>3, <1>4 DEF LogInv, ScalarInv, Position
<1>7. Numbered(queue)' BY <1>1 DEF Numbered
<1>8. StageInv' BY <1>1, <1>2 DEF StageInv, Session, Pcs
<1>9. RingInv'
  <2>1. RingAt(First, <<>>, <<>>, First) /\ Meets(First, <<>>, First)
    BY <1>3, OffIs DEF RingAt, InRow, Meets, StartOf
  <2>2. RingAt(tail.start, queue, slots, last)' BY <1>1, <1>2, <2>1
  <2>3. Meets(tail.start, queue, Start)' BY <1>1, <1>2, <2>1 DEF Start, StartOf
  <2>. QED BY <1>1, <1>2, <2>2, <2>3 DEF RingInv
<1>. QED BY <1>5, <1>6, <1>7, <1>8, <1>9 DEF LogInv

-----------------------------------------------------------------------------
(* The theorem.                                                            *)

LEMMA NextInv == LogInv /\ [Next]_vars => LogInv'
<1>. SUFFICES ASSUME LogInv, [Next]_vars PROVE LogInv' OBVIOUS
<1>1. ASSUME NEW b \in Blocks, jbd_trans_set_block_dirty(b) \/ jbd_trans_revoke_block(b) PROVE LogInv'
  BY <1>1, DirtyStep
<1>2. ASSUME NEW b \in Blocks, WriteFileData(b) PROVE LogInv' BY <1>2, FileDataStep
<1>3. ASSUME NEW b \in Blocks, FlushBuffer(b) PROVE LogInv' BY <1>3, FlushStep
<1>4. CASE CommitBegin BY <1>4, BeginStep
<1>5. CASE txn_abort BY <1>5, AbortStep
<1>6. CASE AllocBlock BY <1>6, AllocBlockStep
<1>7. CASE AllocPurge BY <1>7, AllocPurgeStep
<1>8. CASE AllocTail BY <1>8, AllocTailStep
<1>9. CASE AllocSeal BY <1>9, AllocSealStep
<1>10. CASE jbd_journal_prepare BY <1>10, PrepareStep
<1>11. CASE jbd_journal_prepare_revoke BY <1>11, PrepareRevokeStep
<1>12. CASE BodyBarrier BY <1>12, BodyBarrierStep
<1>13. CASE jbd_trans_write_commit_block BY <1>13, CommitBlockStep
<1>14. ASSUME NEW Late \in SUBSET Blocks, NEW Failed \in SUBSET Blocks, Finish(Late, Failed) PROVE LogInv'
  BY <1>14, FinishStep
<1>15. ASSUME NEW Landed \in SUBSET Blocks, AllocFails(Landed) PROVE LogInv' BY <1>15, AllocFailsStep
<1>16. CASE CommitFails BY <1>16, CommitFailsStep
<1>17. CASE ext4b_sync BY <1>17, SyncStep
<1>18. ASSUME NEW n \in 0 .. Len(queue), NEW Landed \in SUBSET Blocks, StopPurge(n, Landed) PROVE LogInv'
  BY <1>18, StopPurgeStep
<1>19. CASE StopClear BY <1>19, StopClearStep
<1>20. CASE Unmount BY <1>20, UnmountStep
<1>21. CASE UnmountBarrier BY <1>21, UnmountBarrierStep
<1>22. CASE Crash BY <1>22, CrashStepIs
<1>23. CASE Mount BY <1>23, MountStep
<1>24. CASE jbd_recover BY <1>24, RecoverStep
<1>25. CASE RecoverDone BY <1>25, RecoverDoneStep
<1>26. CASE jbd_journal_start BY <1>26, StartStep
<1>27. CASE AllocTailFails BY <1>27, AllocTailFailsStep
<1>28. CASE UNCHANGED vars
  BY <1>28 DEF LogInv, MediumInv, ScalarInv, Numbered, StageInv, RingInv, Stuck, Start, BodyLen, Wanted, Allocating,
               Advanced, vars, medium, session, running, history, bounds
<1>. QED
  BY <1>1, <1>2, <1>3, <1>4, <1>5, <1>6, <1>7, <1>8, <1>9, <1>10, <1>11, <1>12, <1>13, <1>14, <1>15, <1>16,
     <1>17, <1>18, <1>19, <1>20, <1>21, <1>22, <1>23, <1>24, <1>25, <1>26, <1>27,
     <1>28 DEF Next

\* The invariant says that the live log is a row of disjoint transactions.
LEMMA RowIsDisjoint ==
  ASSUME LogInv
  PROVE  LiveLogDisjoint
<1>. SUFFICES ASSUME queue # <<>> \/ slots # <<>> \/ pc = "run" PROVE LiveLogDisjoint
  <2>1. queue = <<>> /\ slots = <<>> => DOMAIN queue = {} /\ DOMAIN slots = {} OBVIOUS
  <2>. QED BY <2>1 DEF LiveLogDisjoint
<1>. DEFINE p == tail.start
            SlotsOf(t) == {Wrap(t.first + k) : k \in 0 .. (t.len - 1)}
<1>1. pc \in Session BY DEF LogInv, StageInv, Session
<1>2. /\ InRow(p, queue, Start) /\ p \in Ring /\ Start \in Ring /\ queue \in Seq(Transaction)
      /\ last \in Ring /\ slots \in Seq(Ring) /\ Len(slots) \in Nat
      /\ \A i \in DOMAIN slots : Off(p, slots[i]) = Off(p, Start) + i - 1
      /\ Off(p, last) = Off(p, Start) + Len(slots)
  BY <1>1 DEF LogInv, RingInv, RingAt, InRow, Start
<1>3. Off(p, Start) \in 0 .. MaxLen - 2 BY <1>2, OffIs
<1>4. ASSUME NEW j \in DOMAIN queue, NEW x \in SlotsOf(queue[j])
      PROVE  /\ Off(p, queue[j].first) <= Off(p, x) /\ Off(p, x) < Off(p, queue[j].first) + queue[j].len
             /\ Off(p, queue[j].first) + queue[j].len <= Off(p, Start)
             /\ Off(p, queue[j].first) \in Nat /\ queue[j].len \in Nat /\ Off(p, x) \in Nat
  <2>1. queue[j] \in Transaction BY <1>2
  <2>2. queue[j].first \in Ring /\ queue[j].len \in Nat BY <2>1, RoomInLog DEF Transaction
  <2>3. PICK k \in 0 .. queue[j].len - 1 : x = Wrap(queue[j].first + k) BY <1>4
  <2>4. Off(p, queue[j].first) + queue[j].len <= Off(p, Start) BY <1>2 DEF InRow
  <2>5. Off(p, queue[j].first) \in Nat
    <3>1. p \in Ring BY <1>2
    <3>2. Off(p, queue[j].first) \in 0 .. MaxLen - 2 BY <2>2, <3>1, OffIs
    <3>. QED BY <3>2
  <2>6. Off(p, x) = Off(p, queue[j].first) + k
    <3>1. k \in Nat /\ Off(p, queue[j].first) + k <= MaxLen - 2
      BY <1>3, <2>2, <2>3, <2>4, <2>5, RoomInLog
    <3>. QED BY <1>2, <2>2, <2>3, <3>1, OffStep
  <2>. QED BY <2>2, <2>3, <2>4, <2>5, <2>6
<1>5. ASSUME NEW j \in DOMAIN queue, NEW k \in DOMAIN queue, j < k
      PROVE  SlotsOf(queue[j]) \cap SlotsOf(queue[k]) = {}
  <2>. SUFFICES ASSUME NEW x \in SlotsOf(queue[j]), x \in SlotsOf(queue[k]) PROVE FALSE OBVIOUS
  <2>1. Off(p, queue[j].first) + queue[j].len <= Off(p, queue[k].first) BY <1>2, <1>5 DEF InRow
  <2>2. Off(p, x) < Off(p, queue[j].first) + queue[j].len /\ Off(p, x) \in Nat
        /\ Off(p, queue[j].first) \in Nat /\ queue[j].len \in Nat
    BY <1>4
  <2>3. Off(p, queue[k].first) <= Off(p, x) /\ Off(p, queue[k].first) \in Nat BY <1>4
  <2>. HIDE DEF SlotsOf
  <2>. QED BY ONLY <2>1, <2>2, <2>3
<1>6. ASSUME NEW x, \A k \in DOMAIN queue : x \in SlotsOf(queue[k]) => FALSE
      PROVE  x \notin UNION {SlotsOf(queue[k]) : k \in DOMAIN queue}
  BY <1>6
<1>7. ASSUME NEW x, Off(p, x) \in Int, Off(p, x) >= Off(p, Start), NEW k \in DOMAIN queue
      PROVE  x \notin SlotsOf(queue[k])
  <2>. SUFFICES ASSUME x \in SlotsOf(queue[k]) PROVE FALSE OBVIOUS
  <2>1. Off(p, x) < Off(p, queue[k].first) + queue[k].len /\ Off(p, queue[k].first) + queue[k].len <= Off(p, Start)
        /\ Off(p, queue[k].first) \in Nat /\ queue[k].len \in Nat
    BY <1>4
  <2>. QED BY <1>3, <1>7, <2>1
<1>8. \A i \in DOMAIN slots : Off(p, slots[i]) \in Int /\ Off(p, slots[i]) >= Off(p, Start)
  BY <1>2, <1>3
<1>9. Off(p, last) \in Int /\ Off(p, last) >= Off(p, Start) BY <1>2, <1>3
<1>10. \A j, k \in DOMAIN queue : j # k => SlotsOf(queue[j]) \cap SlotsOf(queue[k]) = {}
  <2>. TAKE j, k \in DOMAIN queue
  <2>1. j \in Nat /\ k \in Nat BY <1>2
  <2>2. j # k => j < k \/ k < j BY <2>1
  <2>3. SlotsOf(queue[j]) \cap SlotsOf(queue[k]) = SlotsOf(queue[k]) \cap SlotsOf(queue[j]) OBVIOUS
  <2>. HIDE DEF SlotsOf
  <2>. QED BY <1>5, <2>2, <2>3
<1>. HIDE DEF SlotsOf
<1>11. \A i \in DOMAIN slots : slots[i] \notin UNION {SlotsOf(queue[k]) : k \in DOMAIN queue}
  BY <1>7, <1>8
<1>12. last \notin UNION {SlotsOf(queue[k]) : k \in DOMAIN queue} BY <1>7, <1>9
<1>. QED BY <1>10, <1>11, <1>12 DEF LiveLogDisjoint, SlotsOf

\* It says what the types are.
LEMMA InvIsTyped ==
  ASSUME LogInv
  PROVE  TypeOK
<1>1. \A b \in Blocks : {home[b].now} \cup Outcomes(home[b]) \subseteq Contents
  BY CellIs DEF LogInv, MediumInv
<1>2. \A s \in Ring : \A r \in {log[s].now} \cup Outcomes(log[s]) : IsRecord(r)
  <2>. SUFFICES ASSUME NEW s \in Ring, NEW r \in {log[s].now} \cup Outcomes(log[s]) PROVE IsRecord(r)
    OBVIOUS
  <2>1. log[s] \in CellT(Records) BY DEF LogInv, MediumInv
  <2>2. r \in Records BY <2>1, CellIs
  <2>. QED BY <2>2, RecordIs DEF IsRecord
<1>3. tail \in Position /\ published \in 0..(MaxLen - 1) /\ last \in 0..(MaxLen - 1) BY DEF LogInv, ScalarInv
<1>4. \A j \in {jsb.now} \cup Outcomes(jsb) : j.start \in 0..(MaxLen - 1) /\ j.seq \in Nat
  <2>. TAKE j \in {jsb.now} \cup Outcomes(jsb)
  <2>1. jsb \in CellT([start : 0 .. MaxLen - 1, seq : Nat]) BY DEF LogInv, MediumInv
  <2>2. j \in [start : 0 .. MaxLen - 1, seq : Nat] BY <2>1, CellIs
  <2>. QED BY <2>2
<1>5. /\ \A k \in DOMAIN queue : queue[k] \in Transaction /\ queue[k].id < nextId
      /\ \A k \in DOMAIN slots : slots[k] \in Ring
  <2>1. CASE pc \in Session BY <2>1, QueueIs DEF LogInv, Numbered
  <2>2. CASE pc \notin Session
    <3>1. queue = <<>> /\ slots = <<>> BY <2>2 DEF LogInv, StageInv, Session
    <3>. QED BY <3>1
  <2>. QED BY <2>1, <2>2
<1>6. dirty \cap revoked = {} /\ dirty \cup revoked \cup leaked \subseteq Blocks /\ gaveUp \in BOOLEAN
  BY DEF LogInv, ScalarInv
<1>7. /\ pc \in {"down", "run", "descriptor", "revoke", "body", "commit", "finish", "stop",
                 "stopBarrier", "unmount", "off", "crashed", "recover", "replayed", "attach"}
      /\ alloc \in {"none", "tail", "tailNow", "seal"}
  BY DEF LogInv, StageInv, Pcs, Session
<1>. QED BY <1>1, <1>2, <1>3, <1>4, <1>5, <1>6, <1>7 DEF TypeOK

\* The log is well formed at every step, with every window open: the blocks of
\* live transactions never overlap, none of them is handed to a commit, and a
\* full log has a transaction to retire (jbd_journal_alloc_block,
\* jbd_journal_purge_cp_trans, jbd_trans_end_write).
THEOREM LogAlwaysOK == Spec => []LogOK
<1>1. LogInv => LogOK BY RowIsDisjoint, InvIsTyped, NeverStuck DEF LogOK
<1>. QED BY <1>1, InitInv, NextInv, PTL DEF Spec

=============================================================================
