------------------------- MODULE Namespace_proofs -------------------------
(***************************************************************************)
(* What Namespace promises of names, link counts, the orphan list and its  *)
(* steps, for all inodes and names, batches of any length and any number   *)
(* of failures.                                                            *)
(*                                                                         *)
(* NamesOK is the invariant of the directories: the entries, link counts   *)
(* and ".." of what is in memory and of what is on the medium are those of *)
(* a tree.  It holds of what every call may come to, success or failure,   *)
(* so it does not matter where a transaction ends.  ListOK is the one of   *)
(* the orphan list: it holds only as long as no part of a failed operation *)
(* has been committed, and says that the list is a chain in memory and on  *)
(* the medium, and that a rollback finds what the transaction began with.  *)
(***************************************************************************)
EXTENDS Namespace, Integers, FiniteSetTheorems, TLAPS

-----------------------------------------------------------------------------
(* Induction on the natural numbers, for what recursive functions are.     *)

\* A set with 0 in it and the successor of whatever is in it has all numbers:
\* the numbers below everything it lacks would be a finite set as large as
\* itself without 0.
LEMMA NatInd ==
  ASSUME NEW S, 0 \in S, \A n \in Nat : n \in S => n + 1 \in S
  PROVE  Nat \subseteq S
<1>. SUFFICES ASSUME NEW x \in Nat, x \notin S PROVE FALSE OBVIOUS
<1>. DEFINE L == {k \in 0 .. x : \A y \in Nat : y \notin S => k <= y}
            M == L \ {0}
            f == [k \in L |-> k + 1]
<1>1. IsFiniteSet(L)
  <2>1. L \in SUBSET (0 .. x) OBVIOUS
  <2>2. IsFiniteSet(0 .. x) BY FS_Interval
  <2>. HIDE DEF L
  <2>. QED BY <2>1, <2>2, FS_Subset
<1>2. 0 \in L OBVIOUS
<1>3. IsFiniteSet(M) /\ Cardinality(M) = Cardinality(L) - 1
  BY <1>1, <1>2, FS_RemoveElement
<1>4. \A k \in L : k + 1 \in M
  <2>. TAKE k \in L
  <2>1. k \in S OBVIOUS
  <2>. QED BY <2>1
<1>5. f \in Injection(L, M)
  <2>1. f \in [L -> M] BY <1>4
  <2>2. \A a, b \in L : f[a] = f[b] => a = b OBVIOUS
  <2>. QED BY <2>1, <2>2 DEF Injection, IsInjective
<1>6. Cardinality(L) <= Cardinality(M) BY <1>1, <1>3, <1>5, FS_Injection
<1>7. Cardinality(L) \in Nat BY <1>1, FS_CardinalityType
<1>. HIDE DEF L, M
<1>. QED BY <1>3, <1>6, <1>7

-----------------------------------------------------------------------------
(* Directories.                                                            *)

\* The directories that have a name.
Live(m) == {d \in m.inuse : IsDir(m, d) /\ m.links[d] # 0}

\* A name is in a directory once.
Slots(m) == \A d \in Inodes, n \in Names :
  m.ent[d][n] = <<>> \/ \E i \in Inodes : m.ent[d][n] = <<i>>

\* Only directories with a name have entries, and these lead to inodes in use,
\* never to the root.
Entries(m) == \A d \in Inodes, n \in Names :
  m.ent[d][n] # <<>> => d \in Live(m) /\ Find(m, d, n) \in m.inuse \ {Root}

\* Every link count is right.
Links(m) ==
  /\ \A d \in Live(m) : m.links[d] < LinkMax /\ m.links[d] \in {1, 2 + Cardinality(Subdirs(m, d))}
  /\ \A i \in m.inuse \ Live(m) : m.links[i] = Cardinality(NamesOf(m, i))

\* A directory has its one name where its ".." leads.
Homes(m) == \A d \in Live(m) \ {Root} :
  m.up[d] \in Live(m) /\ \E n \in Names : NamesOf(m, d) = {<<m.up[d], n>>}

\* No directories lead to each other without leading to the root.
Tree(m) == \A S \in SUBSET (Live(m) \ {Root}) : (\A d \in S : m.up[d] \in S) => S = {}

\* What directories need of the metadata.
NamesInv(m) ==
  /\ m \in Meta /\ Root \in Live(m)
  /\ Slots(m) /\ Entries(m) /\ Links(m) /\ Homes(m) /\ Tree(m)

\* What climbing from w comes past, if it does not meet c: a set that the ".."
\* of its directories leads out of only at the root.
Above(m, A) == A \subseteq Live(m) /\ \A a \in A \ {Root} : m.up[a] \in A

\* The climb of Meets, n steps of it.
Climb(m, w, n, f) ==
  f = [k \in 0 .. n |-> IF k = 0 THEN w
                        ELSE IF f[k - 1] \in {Root, None} THEN f[k - 1] ELSE m.up[f[k - 1]]]

\* The climb is a function.
LEMMA ClimbExists ==
  ASSUME NEW m, NEW w, NEW n \in Nat
  PROVE  \E f : Climb(m, w, n, f)
<1>. DEFINE Next1(x) == IF x \in {Root, None} THEN x ELSE m.up[x]
            S == {i \in Nat : \E f : f = [k \in 0 .. i |-> IF k = 0 THEN w ELSE Next1(f[k - 1])]}
<1>. HIDE DEF Next1
<1>1. 0 \in S
  <2>. DEFINE f == [k \in 0 .. 0 |-> w]
  <2>1. f = [k \in 0 .. 0 |-> IF k = 0 THEN w ELSE Next1(f[k - 1])] OBVIOUS
  <2>. QED BY <2>1
<1>2. ASSUME NEW i \in Nat, i \in S PROVE i + 1 \in S
  <2>1. PICK f : f = [k \in 0 .. i |-> IF k = 0 THEN w ELSE Next1(f[k - 1])] BY <1>2
  <2>. DEFINE g == [k \in 0 .. i + 1 |-> IF k = i + 1 THEN Next1(f[i]) ELSE f[k]]
  <2>2. g = [k \in 0 .. i + 1 |-> IF k = 0 THEN w ELSE Next1(g[k - 1])]
    <3>. SUFFICES ASSUME NEW k \in 0 .. i + 1
                  PROVE  g[k] = IF k = 0 THEN w ELSE Next1(g[k - 1])
      OBVIOUS
    <3>1. CASE k = i + 1 BY <3>1
    <3>2. CASE k # i + 1
      <4>1. f[k] = IF k = 0 THEN w ELSE Next1(f[k - 1]) BY <2>1, <3>2
      <4>2. k # 0 => g[k - 1] = f[k - 1] BY <3>2
      <4>. QED BY <3>2, <4>1, <4>2
    <3>. QED BY <3>1, <3>2
  <2>. HIDE DEF g
  <2>3. \E h : h = [k \in 0 .. i + 1 |-> IF k = 0 THEN w ELSE Next1(h[k - 1])] BY <2>2
  <2>. QED BY <2>3
<1>. HIDE DEF S
<1>3. Nat \subseteq S BY <1>1, <1>2, NatInd
<1>. QED BY <1>3 DEF S, Next1, Climb

\* A climb that does not meet c stays in directories with a name, and what it
\* comes past is closed under "..".
LEMMA ClimbAbove ==
  ASSUME NEW m, NamesInv(m), NEW w \in Live(m), NEW c \in Inodes, ~Meets(m, w, c)
  PROVE  \E A : w \in A /\ c \notin A /\ Above(m, A)
<1>. DEFINE N == Cardinality(Inodes)
<1>0. N \in Nat /\ IsFiniteSet(Inodes) BY NamespaceAssumption, FS_CardinalityType
<1>. DEFINE above == CHOOSE f : Climb(m, w, N, f)
<1>1. Climb(m, w, N, above)
  <2>. HIDE DEF N
  <2>. QED BY <1>0, ClimbExists
<1>2. \A k \in 0 .. N : above[k] # c
  BY <1>1 DEF Meets, Climb
<1>. HIDE DEF above, N
<1>3. above[0] = w BY <1>0, <1>1 DEF Climb
<1>4. \A k \in 0 .. N : k # 0 =>
        above[k] = IF above[k - 1] \in {Root, None} THEN above[k - 1] ELSE m.up[above[k - 1]]
  BY <1>1 DEF Climb
<1>5. Live(m) \subseteq Inodes /\ None \notin Live(m)
  BY NamespaceAssumption DEF NamesInv, Live, Meta
<1>6. \A k \in 0 .. N : above[k] \in Live(m)
  <2>. DEFINE S == {k \in Nat : k \in 0 .. N => above[k] \in Live(m)}
  <2>1. 0 \in S BY <1>3
  <2>2. ASSUME NEW k \in Nat, k \in S PROVE k + 1 \in S
    <3>. SUFFICES ASSUME k + 1 \in 0 .. N PROVE above[k + 1] \in Live(m) OBVIOUS
    <3>1. above[k] \in Live(m) BY <2>2, <1>0
    <3>2. above[k + 1] = IF above[k] \in {Root, None} THEN above[k] ELSE m.up[above[k]]
      BY <1>4, <1>0
    <3>3. \A d \in Live(m) \ {Root} : m.up[d] \in Live(m) BY DEF NamesInv, Homes
    <3>. QED BY <3>1, <3>2, <3>3, <1>5
  <2>. HIDE DEF S
  <2>3. Nat \subseteq S BY <2>1, <2>2, NatInd
  <2>. QED BY <2>3, <1>0 DEF S
<1>7. PICK i, j \in 0 .. N : i < j /\ above[i] = above[j]
  <2>1. above \in [0 .. N -> Inodes] BY <1>1, <1>5, <1>6 DEF Climb
  <2>2. IsFiniteSet(0 .. N) /\ Cardinality(0 .. N) = N + 1 BY <1>0, FS_Interval
  <2>3. \E x, y \in 0 .. N : x # y /\ above[x] = above[y]
    BY <1>0, <2>1, <2>2, FS_PigeonHole DEF N
  <2>. QED BY <2>3, <1>0
<1>. DEFINE A == {above[k] : k \in 0 .. j - 1}
<1>8. w \in A BY <1>3, <1>7, <1>0
<1>9. c \notin A BY <1>2, <1>7, <1>0
<1>10. A \subseteq Live(m) BY <1>6, <1>7, <1>0
<1>11. ASSUME NEW a \in A \ {Root} PROVE m.up[a] \in A
  <2>1. PICK k \in 0 .. j - 1 : a = above[k] OBVIOUS
  <2>2. above[k + 1] = m.up[a] BY <1>4, <1>5, <1>10, <1>7, <1>0, <2>1
  <2>3. CASE k = j - 1 BY <2>2, <2>3, <1>7, <1>0
  <2>4. CASE k # j - 1
    <3>1. k + 1 \in 0 .. j - 1 BY <2>4, <1>0, <1>7
    <3>. QED BY <3>1, <2>2
  <2>. QED BY <2>3, <2>4
<1>. QED BY <1>8, <1>9, <1>10, <1>11 DEF Above

\* Climbing from any directory reaches the root.
LEMMA ReachesRoot ==
  ASSUME NEW m, NamesInv(m), NEW d \in Live(m)
  PROVE  Meets(m, d, Root)
<1>. SUFFICES ASSUME ~Meets(m, d, Root) PROVE FALSE OBVIOUS
<1>1. PICK A : d \in A /\ Root \notin A /\ Above(m, A) BY ClimbAbove, NamespaceAssumption
<1>2. A = {} BY <1>1 DEF NamesInv, Tree, Above
<1>. QED BY <1>1, <1>2
-----------------------------------------------------------------------------
(* What the steps of a call do to the names.                               *)

\* i_links_count has room for a file that is under every name, since nothing in
\* ext4b_hardlink keeps a count from passing what the field holds; and directories
\* are indexed, since that of one which is not runs past LinkMax and wraps.
Room == Cardinality(Places) < Width /\ Linear = {}

\* The names of an inode, and how many there can be.
LEMMA NamesAre ==
  ASSUME NEW m, m \in Meta, Slots(m)
  PROVE  /\ \A d \in Inodes, n \in Names :
              /\ m.ent[d][n] = <<>> <=> Find(m, d, n) = None
              /\ \A i \in Inodes : m.ent[d][n] = <<i>> <=> Find(m, d, n) = i
              /\ Find(m, d, n) \in Inodes \cup {None}
         /\ \A i \in Inodes :
              /\ NamesOf(m, i) = {x \in Places : Find(m, x[1], x[2]) = i}
              /\ IsFiniteSet(NamesOf(m, i))
              /\ Cardinality(NamesOf(m, i)) \in Nat
         /\ \A d \in Inodes : IsFiniteSet(Subdirs(m, d)) /\ Cardinality(Subdirs(m, d)) \in Nat
<1>1. \A d \in Inodes, n \in Names :
        /\ m.ent[d][n] = <<>> <=> Find(m, d, n) = None
        /\ \A i \in Inodes : m.ent[d][n] = <<i>> <=> Find(m, d, n) = i
        /\ Find(m, d, n) \in Inodes \cup {None}
  <2>. TAKE d \in Inodes, n \in Names
  <2>1. CASE m.ent[d][n] = <<>>
    BY <2>1, NamespaceAssumption DEF Find
  <2>2. CASE \E i \in Inodes : m.ent[d][n] = <<i>>
    <3>1. PICK i \in Inodes : m.ent[d][n] = <<i>> BY <2>2
    <3>2. Find(m, d, n) = i BY <3>1 DEF Find
    <3>. QED BY <3>1, <3>2, NamespaceAssumption
  <2>. QED BY <2>1, <2>2 DEF Slots
<1>2. ASSUME NEW i \in Inodes
      PROVE  /\ NamesOf(m, i) = {x \in Places : Find(m, x[1], x[2]) = i}
             /\ IsFiniteSet(NamesOf(m, i))
             /\ Cardinality(NamesOf(m, i)) \in Nat
  <2>1. ASSUME NEW x \in Places
        PROVE  x \in NamesOf(m, i) <=> Find(m, x[1], x[2]) = i
    <3>1. x[1] \in Inodes /\ x[2] \in Names BY DEF Places
    <3>2. CASE m.ent[x[1]][x[2]] = <<>>
      BY <3>1, <3>2, NamespaceAssumption DEF Find, NamesOf
    <3>3. CASE \E j \in Inodes : m.ent[x[1]][x[2]] = <<j>>
      <4>1. PICK j \in Inodes : m.ent[x[1]][x[2]] = <<j>> BY <3>3
      <4>2. Find(m, x[1], x[2]) = j BY <4>1 DEF Find
      <4>3. {m.ent[x[1]][x[2]][k] : k \in DOMAIN m.ent[x[1]][x[2]]} = {j} BY <4>1
      <4>. QED BY <4>2, <4>3 DEF NamesOf
    <3>. QED BY <3>1, <3>2, <3>3 DEF Slots
  <2>2. NamesOf(m, i) \subseteq Places BY DEF NamesOf
  <2>3. IsFiniteSet(Places) BY NamespaceAssumption, FS_Product DEF Places
  <2>4. IsFiniteSet(NamesOf(m, i)) BY <2>2, <2>3, FS_Subset
  <2>. QED BY <2>1, <2>2, <2>4, FS_CardinalityType
<1>3. ASSUME NEW d \in Inodes
      PROVE  IsFiniteSet(Subdirs(m, d)) /\ Cardinality(Subdirs(m, d)) \in Nat
  <2>1. Subdirs(m, d) \subseteq Inodes BY DEF Subdirs, Meta
  <2>2. IsFiniteSet(Subdirs(m, d)) BY <2>1, NamespaceAssumption, FS_Subset
  <2>. QED BY <2>2, FS_CardinalityType
<1>. QED BY <1>1, <1>2, <1>3

\* Names depend on nothing but entries, kinds, counts, ".." and the bitmap.
LEMMA NamesFrame ==
  ASSUME NEW m, NEW w, NamesInv(m), w \in Meta,
         w.ent = m.ent, w.links = m.links, w.inuse = m.inuse,
         w.kind = m.kind, w.up = m.up
  PROVE  NamesInv(w)
<1>1. Live(w) = Live(m) BY DEF Live, IsDir
<1>2. \A i \in Inodes : NamesOf(w, i) = NamesOf(m, i) /\ Subdirs(w, i) = Subdirs(m, i)
  BY DEF NamesOf, Subdirs, IsDir
<1>3. \A d, n : Find(w, d, n) = Find(m, d, n) BY DEF Find
<1>4. w.inuse \subseteq Inodes /\ Live(w) \subseteq Inodes BY DEF Live, Meta
<1>5. Slots(w) BY DEF Slots, NamesInv
<1>6. Entries(w) BY <1>1, <1>3 DEF Entries, NamesInv
<1>7. Links(w) BY <1>1, <1>2, <1>4 DEF Links, NamesInv
<1>8. Homes(w) BY <1>1, <1>2, <1>4 DEF Homes, NamesInv
<1>9. Tree(w) BY <1>1 DEF Tree, NamesInv
<1>. QED BY <1>1, <1>5, <1>6, <1>7, <1>8, <1>9 DEF NamesInv

\* An inode without a name.
LEMMA Nameless ==
  ASSUME NEW m, NamesInv(m), NEW i \in Inodes, i \notin m.inuse \/ m.links[i] = 0
  PROVE  /\ i \notin Live(m) /\ NamesOf(m, i) = {}
         /\ \A n \in Names : m.ent[i][n] = <<>>
         /\ \A d \in Live(m) \ {Root} : m.up[d] # i
<1>1. i \notin Live(m) BY DEF Live
<1>2. NamesOf(m, i) = {}
  <2>1. CASE i \in m.inuse
    <3>1. m.links[i] = Cardinality(NamesOf(m, i)) BY <1>1, <2>1 DEF NamesInv, Links
    <3>2. IsFiniteSet(NamesOf(m, i)) BY NamesAre DEF NamesInv
    <3>. QED BY <2>1, <3>1, <3>2, FS_EmptySet
  <2>2. CASE i \notin m.inuse
    <3>1. \A d \in Inodes, n \in Names : Find(m, d, n) # i
      BY <2>2, NamesAre, NamespaceAssumption DEF NamesInv, Entries
    <3>. QED BY <3>1, NamesAre DEF NamesInv, Places
  <2>. QED BY <2>1, <2>2
<1>. QED BY <1>1, <1>2 DEF NamesInv, Entries, Homes

\* What is under a name after one entry has changed; v is None where it went.
LEMMA EntryChange ==
  ASSUME NEW m, m \in Meta, Slots(m), NEW w, w \in Meta,
         NEW p \in Inodes, NEW n \in Names, NEW v \in Inodes \cup {None},
         w.ent = [m.ent EXCEPT ![p][n] = IF v = None THEN <<>> ELSE <<v>>]
  PROVE  /\ Slots(w)
         /\ \A d \in Inodes, x \in Names :
              Find(w, d, x) = IF d = p /\ x = n THEN v ELSE Find(m, d, x)
         /\ \A i \in Inodes : NamesOf(w, i) = IF i = v THEN NamesOf(m, i) \cup {<<p, n>>}
                                              ELSE NamesOf(m, i) \ {<<p, n>>}
<1>1. m.ent \in [Inodes -> [Names -> Seq(Inodes)]] BY DEF Meta
<1>2. \A d \in Inodes, x \in Names :
        w.ent[d][x] = IF d = p /\ x = n THEN (IF v = None THEN <<>> ELSE <<v>>) ELSE m.ent[d][x]
  BY <1>1
<1>3. Slots(w) BY <1>2 DEF Slots
<1>4. ASSUME NEW d \in Inodes, NEW x \in Names
      PROVE  Find(w, d, x) = IF d = p /\ x = n THEN v ELSE Find(m, d, x)
  <2>1. CASE d = p /\ x = n
    <3>1. CASE v = None BY <1>2, <2>1, <3>1 DEF Find
    <3>2. CASE v # None BY <1>2, <2>1, <3>2 DEF Find
    <3>. QED BY <3>1, <3>2
  <2>2. CASE ~(d = p /\ x = n)
    <3>1. w.ent[d][x] = m.ent[d][x] BY <1>2, <2>2
    <3>. QED BY <2>2, <3>1 DEF Find
  <2>. QED BY <2>1, <2>2
<1>5. ASSUME NEW i \in Inodes
      PROVE  NamesOf(w, i) = IF i = v THEN NamesOf(m, i) \cup {<<p, n>>}
                             ELSE NamesOf(m, i) \ {<<p, n>>}
  <2>1. NamesOf(w, i) = {x \in Places : Find(w, x[1], x[2]) = i} BY <1>3, NamesAre
  <2>2. NamesOf(m, i) = {x \in Places : Find(m, x[1], x[2]) = i} BY NamesAre
  <2>3. \A x \in Places : x = <<p, n>> <=> x[1] = p /\ x[2] = n BY DEF Places
  <2>4. <<p, n>> \in Places BY DEF Places
  <2>5. \A x \in Places : Find(w, x[1], x[2]) = IF x = <<p, n>> THEN v ELSE Find(m, x[1], x[2])
    BY <1>4, <2>3 DEF Places
  <2>. QED BY <2>1, <2>2, <2>4, <2>5
<1>. QED BY <1>3, <1>4, <1>5

\* AddEntry where the name is free: the directory then has it once.
LEMMA AddsEntry ==
  ASSUME NEW m, m \in Meta, NEW p \in Inodes, NEW n \in Names, NEW c \in Inodes,
         Slots(m), Find(m, p, n) = None
  PROVE  /\ AddEntry(m, p, n, c) \in Meta
         /\ AddEntry(m, p, n, c) = [m EXCEPT !.ent = [m.ent EXCEPT ![p][n] = <<c>>]]
<1>1. m.ent[p][n] = <<>> BY NamesAre
<1>2. AddEntry(m, p, n, c) = [m EXCEPT !.ent = [m.ent EXCEPT ![p][n] = <<c>>]]
  BY <1>1 DEF AddEntry, Meta
<1>3. <<c>> \in Seq(Inodes) OBVIOUS
<1>4. [m.ent EXCEPT ![p][n] = <<c>>] \in [Inodes -> [Names -> Seq(Inodes)]]
  BY <1>3 DEF Meta
<1>. QED BY <1>2, <1>4 DEF Meta

\* DropEntry of a name that is there once: it is gone.
LEMMA DropsEntry ==
  ASSUME NEW m, m \in Meta, NEW p \in Inodes, NEW n \in Names,
         Slots(m), Find(m, p, n) # None
  PROVE  /\ DropEntry(m, p, n) \in Meta
         /\ DropEntry(m, p, n) = [m EXCEPT !.ent = [m.ent EXCEPT ![p][n] = <<>>]]
<1>1. PICK i \in Inodes : m.ent[p][n] = <<i>> BY NamesAre DEF Slots
<1>2. Tail(<<i>>) = <<>> OBVIOUS
<1>3. DropEntry(m, p, n) = [m EXCEPT !.ent = [m.ent EXCEPT ![p][n] = <<>>]]
  BY <1>1, <1>2 DEF DropEntry, Meta
<1>4. <<>> \in Seq(Inodes) OBVIOUS
<1>5. [m.ent EXCEPT ![p][n] = <<>>] \in [Inodes -> [Names -> Seq(Inodes)]]
  BY <1>4 DEF Meta
<1>. QED BY <1>3, <1>5 DEF Meta

\* A new inode, before it has a name.
Fresh(m, c, k) ==
  [m EXCEPT !.inuse = @ \cup {c}, !.kind[c] = k, !.links[c] = 0, !.next[c] = None,
            !.up[c] = None, !.ent[c] = Empty, !.flag[c] = "none"]

\* An inode is taken: no name leads to it yet.
LEMMA Allocated ==
  ASSUME NEW m, NamesInv(m), NEW c \in Inodes \ m.inuse, NEW k \in Kinds,
         NEW w, w = Fresh(m, c, k)
  PROVE  NamesInv(w) /\ Live(w) = Live(m) /\ w.ent = m.ent
<1>0. m \in Meta BY DEF NamesInv
<1>1. m.ent[c] = Empty
  <2>1. \A n \in Names : m.ent[c][n] = <<>> BY Nameless
  <2>. QED BY <1>0, <2>1 DEF Meta, Empty
<1>2. /\ w.ent = m.ent /\ w.inuse = m.inuse \cup {c}
      /\ w.kind = [m.kind EXCEPT ![c] = k] /\ w.links = [m.links EXCEPT ![c] = 0]
      /\ w.up = [m.up EXCEPT ![c] = None]
  BY <1>0, <1>1 DEF Meta, Fresh
<1>3. w \in Meta
  <2>1. Empty \in [Names -> Seq(Inodes)] BY DEF Empty
  <2>2. /\ [m.ent EXCEPT ![c] = Empty] \in [Inodes -> [Names -> Seq(Inodes)]]
        /\ [m.kind EXCEPT ![c] = k] \in [Inodes -> Kinds]
        /\ [m.links EXCEPT ![c] = 0] \in [Inodes -> Nat]
        /\ [m.up EXCEPT ![c] = None] \in [Inodes -> Inodes \cup {None}]
        /\ [m.next EXCEPT ![c] = None] \in [Inodes -> Inodes \cup {None, Dead}]
        /\ [m.flag EXCEPT ![c] = "none"] \in [Inodes -> Flags]
        /\ m.inuse \cup {c} \subseteq Inodes
    BY <1>0, <2>1 DEF Meta, Flags
  <2>3. w = [m EXCEPT !.inuse = m.inuse \cup {c}, !.kind = [m.kind EXCEPT ![c] = k],
                      !.links = [m.links EXCEPT ![c] = 0], !.next = [m.next EXCEPT ![c] = None],
                      !.up = [m.up EXCEPT ![c] = None], !.ent = [m.ent EXCEPT ![c] = Empty],
                      !.flag = [m.flag EXCEPT ![c] = "none"]]
    BY <1>0 DEF Meta, Fresh
  <2>. QED BY <1>0, <2>2, <2>3 DEF Meta
<1>4. Live(w) = Live(m) BY <1>0, <1>2 DEF Live, IsDir, Meta
<1>5. Live(m) \subseteq m.inuse /\ m.inuse \subseteq Inodes BY <1>0 DEF Live, Meta
<1>6. \A d \in Inodes, n \in Names : Find(w, d, n) = Find(m, d, n) BY <1>2 DEF Find
<1>7. \A i \in Inodes : NamesOf(w, i) = NamesOf(m, i) BY <1>2 DEF NamesOf
<1>8. Slots(w) BY <1>2 DEF Slots, NamesInv
<1>9. Entries(w) BY <1>2, <1>4, <1>6 DEF Entries, NamesInv
<1>10. \A d \in Inodes : Subdirs(w, d) = Subdirs(m, d)
  BY <1>0, <1>2 DEF Subdirs, IsDir, Meta
<1>11. Links(w)
  <2>1. \A d \in Live(m) : w.links[d] = m.links[d] BY <1>0, <1>2, <1>5 DEF Meta
  <2>2. ASSUME NEW i \in w.inuse \ Live(w) PROVE w.links[i] = Cardinality(NamesOf(w, i))
    <3>1. CASE i = c
      <4>1. NamesOf(w, c) = {} BY <1>7, Nameless
      <4>2. w.links[c] = 0 BY <1>0, <1>2 DEF Meta
      <4>. QED BY <3>1, <4>1, <4>2, FS_EmptySet
    <3>2. CASE i # c
      <4>1. i \in m.inuse \ Live(m) /\ i \in Inodes BY <1>2, <1>4, <1>5, <3>2
      <4>2. w.links[i] = m.links[i] BY <1>0, <1>2, <3>2, <4>1 DEF Meta
      <4>. QED BY <1>7, <4>1, <4>2 DEF NamesInv, Links
    <3>. QED BY <3>1, <3>2
  <2>. QED BY <1>4, <1>5, <1>10, <2>1, <2>2 DEF NamesInv, Links
<1>12. \A d \in Live(m) : w.up[d] = m.up[d] BY <1>0, <1>2, <1>5 DEF Meta
<1>13. Homes(w) BY <1>4, <1>5, <1>7, <1>12 DEF NamesInv, Homes
<1>14. Tree(w) BY <1>4, <1>12 DEF NamesInv, Tree
<1>15. NamesInv(w) BY <1>3, <1>4, <1>8, <1>9, <1>11, <1>13, <1>14 DEF NamesInv
<1>. QED BY <1>2, <1>4, <1>15

\* An inode without a name is given back, or one that is not in use is wiped.
LEMMA Freed ==
  ASSUME NEW m, NamesInv(m), NEW i \in Inodes, i \notin m.inuse \/ m.links[i] = 0,
         NEW x \in Inodes \cup {None, Dead}
  PROVE  LET w == FreeInode([m EXCEPT !.next[i] = x], i)
         IN  NamesInv(w) /\ Live(w) = Live(m) /\ w.ent = m.ent
<1>. DEFINE w == FreeInode([m EXCEPT !.next[i] = x], i)
<1>0. m \in Meta BY DEF NamesInv
<1>1. m.ent[i] = Empty
  <2>1. \A n \in Names : m.ent[i][n] = <<>> BY Nameless
  <2>. QED BY <1>0, <2>1 DEF Meta, Empty
<1>2. /\ w.ent = m.ent /\ w.inuse = m.inuse \ {i}
      /\ w.kind = [m.kind EXCEPT ![i] = "file"] /\ w.links = m.links
      /\ w.up = [m.up EXCEPT ![i] = None]
  BY <1>0, <1>1 DEF Meta, FreeInode
<1>3. w \in Meta
  <2>1. Empty \in [Names -> Seq(Inodes)] BY DEF Empty
  <2>. QED BY <1>0, <2>1 DEF Meta, Kinds, FreeInode
<1>. HIDE DEF w
<1>4. i \notin Live(m) /\ NamesOf(m, i) = {} /\ i # Root
  BY Nameless DEF NamesInv
<1>5. Live(w) = Live(m) BY <1>0, <1>2, <1>4 DEF Live, IsDir, Meta
<1>6. Live(m) \subseteq m.inuse /\ m.inuse \subseteq Inodes BY <1>0 DEF Live, Meta
<1>7. \A d \in Inodes, n \in Names : Find(w, d, n) = Find(m, d, n) BY <1>2 DEF Find
<1>8. \A j \in Inodes : NamesOf(w, j) = NamesOf(m, j) BY <1>2 DEF NamesOf
<1>9. Slots(w) BY <1>2 DEF Slots, NamesInv
<1>10. Entries(w)
  <2>1. \A d \in Inodes, n \in Names : Find(m, d, n) # i
    <3>. SUFFICES ASSUME NEW d \in Inodes, NEW n \in Names, Find(m, d, n) = i PROVE FALSE
      OBVIOUS
    <3>1. NamesOf(m, i) = {y \in Places : Find(m, y[1], y[2]) = i} BY NamesAre DEF NamesInv
    <3>2. <<d, n>> \in Places BY DEF Places
    <3>. QED BY <1>4, <3>1, <3>2
  <2>. QED BY <1>2, <1>5, <1>7, <2>1 DEF Entries, NamesInv
<1>11. \A d \in Inodes : Subdirs(w, d) = Subdirs(m, d)
  <2>1. \A d \in Inodes : \A y : y \in Subdirs(m, d) <=> y \in Live(m) \ {Root} /\ m.up[y] = d
    BY DEF Subdirs, Live
  <2>2. \A d \in Inodes : \A y : y \in Subdirs(w, d) <=> y \in Live(w) \ {Root} /\ w.up[y] = d
    BY DEF Subdirs, Live
  <2>3. \A y \in Live(m) : w.up[y] = m.up[y] BY <1>0, <1>2, <1>4, <1>6 DEF Meta
  <2>. QED BY <1>5, <2>1, <2>2, <2>3
<1>12. Links(w)
  BY <1>2, <1>5, <1>6, <1>8, <1>11 DEF NamesInv, Links
<1>13. \A d \in Live(m) : w.up[d] = m.up[d] BY <1>0, <1>2, <1>4, <1>6 DEF Meta
<1>14. Homes(w) BY <1>5, <1>6, <1>8, <1>13 DEF NamesInv, Homes
<1>15. Tree(w) BY <1>5, <1>13 DEF NamesInv, Tree
<1>16. NamesInv(w) BY <1>3, <1>5, <1>9, <1>10, <1>12, <1>14, <1>15 DEF NamesInv
<1>. QED BY <1>2, <1>5, <1>16 DEF w

\* A link count is written.
LEMMA LinksSet ==
  ASSUME NEW m, m \in Meta, NEW i \in Inodes, NEW l \in Nat
  PROVE  /\ [m EXCEPT !.links[i] = l] \in Meta
         /\ [m EXCEPT !.links[i] = l] = [m EXCEPT !.links = [m.links EXCEPT ![i] = l]]
<1>1. [m.links EXCEPT ![i] = l] \in [Inodes -> Nat] BY DEF Meta
<1>2. [m EXCEPT !.links[i] = l] = [m EXCEPT !.links = [m.links EXCEPT ![i] = l]] BY DEF Meta
<1>. QED BY <1>1, <1>2 DEF Meta

\* What a change of names leaves alone.
Rest(w, m) ==
  /\ w.inuse = m.inuse /\ w.kind = m.kind /\ w.next = m.next /\ w.flag = m.flag
  /\ w.head = m.head /\ w.sb = m.sb

\* A directory that stops counting its links is full.
Counted(w, m) == \A d \in Live(m) \cap Live(w) :
  w.links[d] = 1 /\ m.links[d] > 1 => 2 + Cardinality(Subdirs(w, d)) >= LinkMax

\* No directory stops counting its links.
Uncapped(w, m) == \A d \in Live(m) \cap Live(w) : w.links[d] = 1 => m.links[d] = 1

\* The subdirectories of a directory, among those that have a name.
LEMMA SubdirsAre ==
  ASSUME NEW m
  PROVE  \A d : Subdirs(m, d) = {y \in Live(m) \ {Root} : m.up[y] = d}
BY DEF Subdirs, Live

\* A file gets one more name.
LEMMA LinkedFile ==
  ASSUME Room, NEW m, NamesInv(m), NEW p \in Live(m), NEW n \in Names,
         NEW c \in m.inuse, ~IsDir(m, c), Find(m, p, n) = None,
         NEW a, a = AddEntry(m, p, n, c), NEW w, w = LinkInc(a, c)
  PROVE  /\ NamesInv(w) /\ Live(w) = Live(m) /\ Rest(w, m)
         /\ w.up = m.up /\ w.ent = [m.ent EXCEPT ![p][n] = <<c>>]
         /\ \A i \in Inodes \ {c} : w.links[i] = m.links[i]
         /\ w.links[c] # 0
<1>0. /\ m \in Meta /\ Slots(m)
      /\ Live(m) \subseteq m.inuse /\ m.inuse \subseteq Inodes
      /\ p \in Inodes /\ c \in Inodes /\ c \notin Live(m) /\ c # Root /\ c # None
  BY NamespaceAssumption DEF NamesInv, Live, Meta
<1>1. a \in Meta /\ a = [m EXCEPT !.ent = [m.ent EXCEPT ![p][n] = <<c>>]]
  BY <1>0, AddsEntry
<1>2. m.links[c] = Cardinality(NamesOf(m, c)) BY <1>0 DEF NamesInv, Links
<1>3. <<p, n>> \in Places /\ <<p, n>> \notin NamesOf(m, c)
  BY <1>0, NamesAre DEF NamesInv, Places
<1>4. /\ IsFiniteSet(NamesOf(m, c)) /\ NamesOf(m, c) \subseteq Places /\ IsFiniteSet(Places)
      /\ Cardinality(NamesOf(m, c)) \in Nat
  <2>1. IsFiniteSet(Places) BY NamespaceAssumption, FS_Product DEF Places
  <2>2. NamesOf(m, c) \subseteq Places BY DEF NamesOf
  <2>. QED BY <1>0, <2>1, <2>2, NamesAre
<1>5. Cardinality(NamesOf(m, c) \cup {<<p, n>>}) = m.links[c] + 1
  BY <1>2, <1>3, <1>4, FS_AddElement
<1>6. m.links[c] + 1 < Width
  <2>1. NamesOf(m, c) \cup {<<p, n>>} \subseteq Places BY <1>3, <1>4
  <2>2. Cardinality(NamesOf(m, c) \cup {<<p, n>>}) <= Cardinality(Places)
    BY <1>4, <2>1, FS_Subset
  <2>3. Cardinality(Places) \in Nat BY <1>4, FS_CardinalityType
  <2>. QED BY <1>2, <1>4, <1>5, <2>2, <2>3, NamespaceAssumption DEF Room
<1>7. (a.links[c] + 1) % Width = m.links[c] + 1 /\ ~IsDir(a, c)
  <2>1. a.links = m.links /\ a.kind = m.kind BY <1>0, <1>1 DEF Meta
  <2>2. m.links[c] \in Nat BY <1>2, <1>4
  <2>3. (m.links[c] + 1) % Width = m.links[c] + 1 BY <2>2, <1>6, NamespaceAssumption
  <2>. QED BY <2>1, <2>3 DEF IsDir
<1>8. w = [a EXCEPT !.links[c] = m.links[c] + 1]
  BY <1>7 DEF LinkInc, Indexed
<1>10. /\ w.ent = [m.ent EXCEPT ![p][n] = <<c>>] /\ Rest(w, m)
       /\ w.up = m.up /\ w.links = [m.links EXCEPT ![c] = m.links[c] + 1]
  <2>1. a.ent = [m.ent EXCEPT ![p][n] = <<c>>] /\ Rest(a, m) /\ a.up = m.up /\ a.links = m.links
    BY <1>0, <1>1 DEF Meta, Rest
  <2>2. w = [a EXCEPT !.links = [a.links EXCEPT ![c] = m.links[c] + 1]]
    BY <1>1, <1>8 DEF Meta
  <2>3. w.ent = a.ent /\ Rest(w, a) /\ w.up = a.up /\ w.links = [a.links EXCEPT ![c] = m.links[c] + 1]
    BY <1>1, <2>2 DEF Meta, Rest
  <2>. QED BY <2>1, <2>3 DEF Rest
<1>11. w \in Meta
  <2>1. m.links[c] + 1 \in Nat BY <1>2, <1>4
  <2>2. a \in Meta /\ c \in Inodes BY <1>0, <1>1
  <2>. QED BY <1>8, <2>1, <2>2, LinksSet
<1>21. w.inuse = m.inuse /\ w.kind = m.kind BY <1>10 DEF Rest
<1>12. Live(w) = Live(m)
  BY <1>0, <1>10, <1>21 DEF Live, IsDir, Meta
<1>13. /\ Slots(w)
       /\ \A d \in Inodes, x \in Names : Find(w, d, x) = IF d = p /\ x = n THEN c ELSE Find(m, d, x)
       /\ \A i \in Inodes : NamesOf(w, i) = IF i = c THEN NamesOf(m, i) \cup {<<p, n>>}
                                            ELSE NamesOf(m, i) \ {<<p, n>>}
  <2>1. w.ent = [m.ent EXCEPT ![p][n] = IF c = None THEN <<>> ELSE <<c>>] BY <1>0, <1>10
  <2>. QED BY <1>0, <1>11, <2>1, EntryChange
<1>14. \A i \in Inodes \ {c} : NamesOf(w, i) = NamesOf(m, i)
  <2>1. \A i \in Inodes : <<p, n>> \notin NamesOf(m, i)
    BY <1>0, NamesAre, NamespaceAssumption DEF Places
  <2>. QED BY <1>13, <2>1
<1>15. Entries(w) BY <1>0, <1>10, <1>21, <1>12, <1>13, NamesAre DEF NamesInv, Entries
<1>16. \A d \in Inodes : Subdirs(w, d) = Subdirs(m, d)
  BY <1>10, <1>12, SubdirsAre
<1>17. Links(w)
  <2>1. \A i \in Inodes \ {c} : w.links[i] = m.links[i] BY <1>0, <1>10 DEF Meta
  <2>2. w.links[c] = Cardinality(NamesOf(w, c)) BY <1>0, <1>5, <1>10, <1>13 DEF Meta
  <2>. QED BY <1>0, <1>10, <1>21, <1>12, <1>14, <1>16, <2>1, <2>2 DEF NamesInv, Links
<1>18. Homes(w) BY <1>0, <1>10, <1>12, <1>14 DEF NamesInv, Homes
<1>19. Tree(w) BY <1>10, <1>12 DEF NamesInv, Tree
<1>20. NamesInv(w) BY <1>11, <1>12, <1>13, <1>15, <1>17, <1>18, <1>19 DEF NamesInv
<1>22. /\ \A i \in Inodes \ {c} : w.links[i] = m.links[i]
       /\ w.links[c] # 0
  BY <1>0, <1>2, <1>4, <1>10 DEF Meta
<1>. QED BY <1>10, <1>12, <1>20, <1>22

\* What a new directory starts with.
WithDots(m, p, c) == [m EXCEPT !.links[c] = 2, !.up[c] = p]

\* A new directory gets its name, its ".." and its links.
LEMMA LinkedDir ==
  ASSUME Room, NEW m, NamesInv(m), NEW p \in Live(m), NEW n \in Names,
         NEW c \in m.inuse, IsDir(m, c), m.links[c] = 0, Find(m, p, n) = None,
         NEW a, a = AddEntry(m, p, n, c),
         NEW b, b = WithDots(a, p, c), NEW w, w = LinkInc(b, p)
  PROVE  /\ NamesInv(w) /\ Live(w) = Live(m) \cup {c} /\ Rest(w, m) /\ Counted(w, m)
         /\ w.ent = [m.ent EXCEPT ![p][n] = <<c>>]
         /\ \A i \in Inodes \ {c, p} : w.links[i] = m.links[i]
         /\ w.links[p] # 0 /\ w.links[c] = 2
<1>0. /\ m \in Meta /\ Slots(m)
      /\ Live(m) \subseteq m.inuse /\ m.inuse \subseteq Inodes
      /\ p \in Inodes /\ c \in Inodes /\ c \notin Live(m) /\ c # Root /\ c # None /\ c # p
      /\ IsDir(m, p)
  BY NamespaceAssumption DEF NamesInv, Live, Meta
<1>1. a \in Meta /\ a = [m EXCEPT !.ent = [m.ent EXCEPT ![p][n] = <<c>>]]
  BY <1>0, AddsEntry
<1>2. /\ NamesOf(m, c) = {} /\ \A d \in Live(m) \ {Root} : m.up[d] # c
  BY <1>0, Nameless
<1>3. /\ m.links[p] < LinkMax /\ m.links[p] \in {1, 2 + Cardinality(Subdirs(m, p))}
      /\ Cardinality(Subdirs(m, p)) \in Nat /\ IsFiniteSet(Subdirs(m, p))
  BY <1>0, NamesAre DEF NamesInv, Links
<1>4. PICK l \in Nat \ {0} :
        /\ l < LinkMax /\ l \in {1, m.links[p] + 1}
        /\ l = 1 => m.links[p] = 1 \/ m.links[p] + 1 >= LinkMax
        /\ m.links[p] = 1 => l = 1
        /\ l = IF (m.links[p] + 1) % Width = 2 \/ (m.links[p] + 1) % Width >= LinkMax
              THEN 1 ELSE (m.links[p] + 1) % Width
  <2>1. (m.links[p] + 1) % Width = m.links[p] + 1 BY <1>3, NamespaceAssumption
  <2>2. CASE m.links[p] + 1 = 2 \/ m.links[p] + 1 >= LinkMax
    BY <1>3, <2>1, <2>2, NamespaceAssumption
  <2>3. CASE ~(m.links[p] + 1 = 2 \/ m.links[p] + 1 >= LinkMax)
    BY <1>3, <2>1, <2>3, NamespaceAssumption
  <2>. QED BY <2>2, <2>3
<1>5. b \in Meta /\ b.links[p] = m.links[p] /\ IsDir(b, p)
  BY <1>0, <1>1 DEF Meta, IsDir, WithDots
<1>6. w = [b EXCEPT !.links[p] = l]
  BY <1>4, <1>5 DEF LinkInc, Indexed, Room
<1>7. w = [m EXCEPT !.ent = [m.ent EXCEPT ![p][n] = <<c>>],
                    !.links = [m.links EXCEPT ![c] = 2, ![p] = l], !.up[c] = p]
  BY <1>0, <1>1, <1>6 DEF Meta, WithDots
<1>8. /\ w.ent = [m.ent EXCEPT ![p][n] = <<c>>] /\ w.inuse = m.inuse /\ w.kind = m.kind
      /\ w.up = [m.up EXCEPT ![c] = p] /\ w.links = [m.links EXCEPT ![c] = 2, ![p] = l]
  BY <1>0, <1>7 DEF Meta
<1>9. w \in Meta
  <2>1. l \in Nat BY <1>4
  <2>2. b \in Meta /\ p \in Inodes BY <1>0, <1>5
  <2>. QED BY <1>6, <2>1, <2>2, LinksSet
<1>10. /\ w.links[c] = 2 /\ w.links[p] = l /\ \A i \in Inodes \ {c, p} : w.links[i] = m.links[i]
       /\ w.up[c] = p /\ \A i \in Inodes \ {c} : w.up[i] = m.up[i]
  BY <1>0, <1>8 DEF Meta
<1>11. Live(w) = Live(m) \cup {c}
  <2>1. \A y \in Inodes : IsDir(w, y) <=> IsDir(m, y) BY <1>8 DEF IsDir
  <2>. QED BY <1>0, <1>4, <1>8, <1>10, <2>1 DEF Live
<1>12. /\ Slots(w)
       /\ \A d \in Inodes, x \in Names : Find(w, d, x) = IF d = p /\ x = n THEN c ELSE Find(m, d, x)
       /\ \A i \in Inodes : NamesOf(w, i) = IF i = c THEN NamesOf(m, i) \cup {<<p, n>>}
                                            ELSE NamesOf(m, i) \ {<<p, n>>}
  <2>1. w.ent = [m.ent EXCEPT ![p][n] = IF c = None THEN <<>> ELSE <<c>>] BY <1>0, <1>8
  <2>. QED BY <1>0, <1>9, <2>1, EntryChange
<1>13. \A i \in Inodes \ {c} : NamesOf(w, i) = NamesOf(m, i)
  <2>1. \A i \in Inodes : <<p, n>> \notin NamesOf(m, i)
    BY <1>0, NamesAre, NamespaceAssumption DEF Places
  <2>. QED BY <1>12, <2>1
<1>14. Entries(w) BY <1>0, <1>8, <1>11, <1>12, NamesAre DEF NamesInv, Entries
<1>15. /\ Subdirs(w, p) = Subdirs(m, p) \cup {c}
       /\ Subdirs(w, c) = {}
       /\ \A d \in Inodes \ {c, p} : Subdirs(w, d) = Subdirs(m, d)
       /\ c \notin Subdirs(m, p)
  <2>1. \A d, y : y \in Subdirs(m, d) <=> y \in Live(m) \ {Root} /\ m.up[y] = d BY SubdirsAre
  <2>2. \A d, y : y \in Subdirs(w, d) <=> y \in Live(w) \ {Root} /\ w.up[y] = d BY SubdirsAre
  <2>3. \A y \in Live(m) : w.up[y] = m.up[y] BY <1>0, <1>10
  <2>4. \A d, y : y \in Subdirs(w, d) <=> y \in Subdirs(m, d) \/ (y = c /\ d = p)
    BY <2>1, <2>2, <2>3, <1>0, <1>10, <1>11
  <2>5. c \notin Subdirs(m, p) BY <2>1, <1>0
  <2>6. \A y : y \notin Subdirs(m, c) BY <2>1, <1>2
  <2>7. Subdirs(w, p) = Subdirs(m, p) \cup {c} BY <2>4
  <2>8. Subdirs(w, c) = {} BY <2>4, <2>6, <1>0
  <2>9. ASSUME NEW d \in Inodes \ {c, p} PROVE Subdirs(w, d) = Subdirs(m, d)
    <3>1. \A y : y \in Subdirs(w, d) <=> y \in Subdirs(m, d) BY <2>4
    <3>. QED BY <3>1
  <2>. QED BY <2>5, <2>7, <2>8, <2>9
<1>16. Cardinality(Subdirs(w, p)) = Cardinality(Subdirs(m, p)) + 1
  <2>1. c \notin Subdirs(m, p) /\ IsFiniteSet(Subdirs(m, p)) BY <1>3, <1>15
  <2>2. Cardinality(Subdirs(m, p) \cup {c}) = Cardinality(Subdirs(m, p)) + 1
    BY <2>1, FS_AddElement
  <2>. QED BY <1>15, <2>2
<1>17. Links(w)
  <2>1. ASSUME NEW d \in Live(w)
        PROVE  w.links[d] < LinkMax /\ w.links[d] \in {1, 2 + Cardinality(Subdirs(w, d))}
    <3>1. CASE d = c BY <3>1, <1>10, <1>15, FS_EmptySet, NamespaceAssumption
    <3>2. CASE d = p BY <3>2, <1>3, <1>4, <1>10, <1>16
    <3>3. CASE d \notin {c, p}
      BY <3>3, <1>0, <1>10, <1>11, <1>15 DEF NamesInv, Links
    <3>. QED BY <3>1, <3>2, <3>3
  <2>2. ASSUME NEW i \in w.inuse \ Live(w) PROVE w.links[i] = Cardinality(NamesOf(w, i))
    BY <1>0, <1>8, <1>10, <1>11, <1>13 DEF NamesInv, Links
  <2>. QED BY <2>1, <2>2 DEF Links
<1>18. Homes(w)
  <2>1. NamesOf(w, c) = {<<p, n>>} BY <1>0, <1>2, <1>12
  <2>. QED BY <1>0, <1>10, <1>11, <1>13, <2>1 DEF NamesInv, Homes
<1>19. Tree(w)
  <2>. SUFFICES ASSUME NEW S \in SUBSET (Live(w) \ {Root}), \A d \in S : w.up[d] \in S
                PROVE  S = {}
    BY DEF Tree
  <2>1. S \ {c} \in SUBSET (Live(m) \ {Root}) BY <1>11
  <2>2. \A d \in S \ {c} : m.up[d] \in S \ {c} BY <1>0, <1>2, <1>10, <1>11
  <2>3. S \ {c} = {} BY <2>1, <2>2 DEF NamesInv, Tree
  <2>. QED BY <2>3, <1>0, <1>10
<1>20. NamesInv(w) BY <1>9, <1>11, <1>12, <1>14, <1>17, <1>18, <1>19 DEF NamesInv
<1>21. Counted(w, m)
  <2>1. l = 1 => m.links[p] = 1 \/ 2 + Cardinality(Subdirs(w, p)) >= LinkMax
    BY <1>3, <1>4, <1>16
  <2>. QED BY <1>0, <1>10, <1>11, <2>1 DEF Counted
<1>22. Rest(w, m) BY <1>0, <1>7 DEF Meta, Rest
<1>. QED BY <1>8, <1>10, <1>11, <1>20, <1>21, <1>22

\* A file loses a name.
LEMMA UnlinkedFile ==
  ASSUME NEW m, NamesInv(m), NEW p \in Inodes, NEW n \in Names, NEW c \in Inodes,
         Find(m, p, n) = c, ~IsDir(m, c),
         NEW a, a = DropEntry(m, p, n), NEW w, w = LinkDec(a, c)
  PROVE  /\ NamesInv(w) /\ Live(w) = Live(m) /\ Rest(w, m)
         /\ w.up = m.up /\ w.ent = [m.ent EXCEPT ![p][n] = <<>>]
         /\ \A i \in Inodes \ {c} : w.links[i] = m.links[i]
         /\ m.links[c] # 0
<1>0. /\ m \in Meta /\ Slots(m)
      /\ Live(m) \subseteq m.inuse /\ m.inuse \subseteq Inodes
      /\ c \notin Live(m) /\ c # Root /\ c # None /\ c \in m.inuse
  <2>1. m \in Meta /\ Slots(m) /\ Entries(m) /\ Root \in Live(m) BY DEF NamesInv
  <2>2. c # None BY NamespaceAssumption
  <2>3. m.ent[p][n] # <<>> BY <2>1, <2>2, NamesAre
  <2>4. c \in m.inuse \ {Root} BY <2>1, <2>3 DEF Entries
  <2>. QED BY <2>1, <2>2, <2>4 DEF Live, Meta
<1>1. a \in Meta /\ a = [m EXCEPT !.ent = [m.ent EXCEPT ![p][n] = <<>>]]
  BY <1>0, DropsEntry
<1>2. m.links[c] = Cardinality(NamesOf(m, c)) BY <1>0 DEF NamesInv, Links
<1>3. <<p, n>> \in NamesOf(m, c)
  <2>1. NamesOf(m, c) = {x \in Places : Find(m, x[1], x[2]) = c} BY <1>0, NamesAre
  <2>. QED BY <2>1 DEF Places
<1>4. IsFiniteSet(NamesOf(m, c)) /\ Cardinality(NamesOf(m, c)) \in Nat
  BY <1>0, NamesAre
<1>5. Cardinality(NamesOf(m, c) \ {<<p, n>>}) = m.links[c] - 1
  BY <1>2, <1>3, <1>4, FS_RemoveElement
<1>6. Cardinality(NamesOf(m, c) \ {<<p, n>>}) \in Nat
  BY <1>4, FS_Subset, FS_CardinalityType
<1>7. m.links[c] > 0 /\ m.links[c] - 1 \in Nat BY <1>2, <1>4, <1>5, <1>6
<1>8. w = [a EXCEPT !.links[c] = m.links[c] - 1]
  <2>1. a.links = m.links /\ ~IsDir(a, c) BY <1>0, <1>1 DEF Meta, IsDir
  <2>. QED BY <1>7, <2>1 DEF LinkDec
<1>9. w \in Meta
  <2>1. a \in Meta /\ m.links[c] - 1 \in Nat BY <1>1, <1>7
  <2>. QED BY <1>8, <2>1, LinksSet
<1>10. /\ w.ent = [m.ent EXCEPT ![p][n] = <<>>] /\ Rest(w, m)
       /\ w.up = m.up /\ w.links = [m.links EXCEPT ![c] = m.links[c] - 1]
  <2>1. a.ent = [m.ent EXCEPT ![p][n] = <<>>] /\ Rest(a, m) /\ a.up = m.up /\ a.links = m.links
    BY <1>0, <1>1 DEF Meta, Rest
  <2>2. w = [a EXCEPT !.links = [a.links EXCEPT ![c] = m.links[c] - 1]]
    BY <1>1, <1>8 DEF Meta
  <2>3. w.ent = a.ent /\ Rest(w, a) /\ w.up = a.up /\ w.links = [a.links EXCEPT ![c] = m.links[c] - 1]
    BY <1>1, <2>2 DEF Meta, Rest
  <2>. QED BY <2>1, <2>3 DEF Rest
<1>11. w.inuse = m.inuse /\ w.kind = m.kind BY <1>10 DEF Rest
<1>12. Live(w) = Live(m)
  BY <1>0, <1>10, <1>11 DEF Live, IsDir, Meta
<1>13. /\ Slots(w)
       /\ \A d \in Inodes, x \in Names :
            Find(w, d, x) = IF d = p /\ x = n THEN None ELSE Find(m, d, x)
       /\ \A i \in Inodes : NamesOf(w, i) = NamesOf(m, i) \ {<<p, n>>}
  <2>1. w.ent = [m.ent EXCEPT ![p][n] = IF None = None THEN <<>> ELSE <<None>>] BY <1>10
  <2>2. \A i \in Inodes : i # None BY NamespaceAssumption
  <2>. QED BY <1>0, <1>9, <2>1, <2>2, EntryChange
<1>14. \A i \in Inodes \ {c} : NamesOf(w, i) = NamesOf(m, i)
  <2>1. \A i \in Inodes \ {c} : <<p, n>> \notin NamesOf(m, i) BY <1>0, NamesAre
  <2>. QED BY <1>13, <2>1
<1>15. Entries(w)
  <2>1. \A d \in Inodes, x \in Names : w.ent[d][x] # <<>> => m.ent[d][x] # <<>> /\ ~(d = p /\ x = n)
    BY <1>0, <1>10 DEF Meta
  <2>. QED BY <1>11, <1>12, <1>13, <2>1 DEF NamesInv, Entries
<1>16. \A d \in Inodes : Subdirs(w, d) = Subdirs(m, d)
  BY <1>10, <1>12, SubdirsAre
<1>17. /\ \A i \in Inodes \ {c} : w.links[i] = m.links[i]
       /\ w.links[c] = Cardinality(NamesOf(w, c))
  BY <1>0, <1>5, <1>10, <1>13 DEF Meta
<1>18. Links(w)
  BY <1>0, <1>11, <1>12, <1>14, <1>16, <1>17 DEF NamesInv, Links
<1>19. Homes(w) BY <1>0, <1>10, <1>12, <1>14 DEF NamesInv, Homes
<1>20. Tree(w) BY <1>10, <1>12 DEF NamesInv, Tree
<1>21. NamesInv(w) BY <1>9, <1>12, <1>13, <1>15, <1>18, <1>19, <1>20 DEF NamesInv
<1>. QED BY <1>7, <1>10, <1>12, <1>17, <1>21

\* What a directory without a name is left with.
Zeroed(m, c) == [m EXCEPT !.links[c] = 0]

\* A directory with nothing in it loses its name.
LEMMA UnlinkedDir ==
  ASSUME NEW m, NamesInv(m), NEW p \in Inodes, NEW n \in Names, NEW c \in Inodes,
         Find(m, p, n) = c, IsDir(m, c), ~HasChildren(m, c),
         NEW a, a = DropEntry(m, p, n), NEW b, b = LinkDec(a, p),
         NEW w, w = Zeroed(b, c)
  PROVE  /\ NamesInv(w) /\ Live(w) = Live(m) \ {c} /\ Rest(w, m) /\ Uncapped(w, m)
         /\ w.up = m.up /\ w.ent = [m.ent EXCEPT ![p][n] = <<>>]
         /\ \A i \in Inodes \ {c, p} : w.links[i] = m.links[i]
         /\ w.links[p] # 0 /\ w.links[c] = 0
         /\ c \in Live(m) \ {Root} /\ p \in Live(m) \ {c}
<1>0. /\ m \in Meta /\ Slots(m)
      /\ Live(m) \subseteq m.inuse /\ m.inuse \subseteq Inodes
      /\ c # Root /\ c # None /\ c \in m.inuse /\ p \in Live(m) /\ Root \in Live(m)
  <2>1. m \in Meta /\ Slots(m) /\ Entries(m) /\ Root \in Live(m) BY DEF NamesInv
  <2>2. c # None BY NamespaceAssumption
  <2>3. m.ent[p][n] # <<>> BY <2>1, <2>2, NamesAre
  <2>4. p \in Live(m) /\ c \in m.inuse \ {Root} BY <2>1, <2>3 DEF Entries
  <2>. QED BY <2>1, <2>2, <2>4 DEF Live, Meta
<1>1. a \in Meta /\ a = [m EXCEPT !.ent = [m.ent EXCEPT ![p][n] = <<>>]]
  BY <1>0, DropsEntry
<1>2. <<p, n>> \in NamesOf(m, c)
  <2>1. NamesOf(m, c) = {x \in Places : Find(m, x[1], x[2]) = c} BY <1>0, NamesAre
  <2>. QED BY <2>1 DEF Places
<1>3. c \in Live(m)
  <2>1. m.links[c] # 0 BY <1>2, Nameless
  <2>. QED BY <1>0, <2>1 DEF Live
<1>4. m.up[c] = p /\ NamesOf(m, c) = {<<p, n>>}
  <2>1. PICK x \in Names : NamesOf(m, c) = {<<m.up[c], x>>} BY <1>0, <1>3 DEF NamesInv, Homes
  <2>2. <<p, n>> = <<m.up[c], x>> BY <1>2, <2>1
  <2>. QED BY <2>1, <2>2
<1>5. c # p
  <2>. SUFFICES ASSUME c = p PROVE FALSE OBVIOUS
  <2>1. {c} \in SUBSET (Live(m) \ {Root}) /\ \A d \in {c} : m.up[d] \in {c} BY <1>0, <1>3, <1>4
  <2>. QED BY <2>1 DEF NamesInv, Tree
<1>6. \A d \in Live(m) \ {Root} : m.up[d] # c
  <2>. SUFFICES ASSUME NEW d \in Live(m) \ {Root}, m.up[d] = c PROVE FALSE OBVIOUS
  <2>1. PICK x \in Names : NamesOf(m, d) = {<<c, x>>} BY DEF NamesInv, Homes
  <2>2. NamesOf(m, d) = {y \in Places : Find(m, y[1], y[2]) = d} BY <1>0, NamesAre
  <2>3. <<c, x>> \in Places BY DEF Places
  <2>4. Find(m, c, x) = d BY <2>1, <2>2, <2>3
  <2>5. d \in Inodes /\ d # None BY <1>0, NamespaceAssumption
  <2>6. m.ent[c][x] # <<>> BY <1>0, <2>4, <2>5, NamesAre
  <2>. QED BY <2>6 DEF HasChildren
<1>7. /\ m.links[p] < LinkMax /\ m.links[p] \in {1, 2 + Cardinality(Subdirs(m, p))}
      /\ Cardinality(Subdirs(m, p)) \in Nat /\ IsFiniteSet(Subdirs(m, p))
  BY <1>0, NamesAre DEF NamesInv, Links
<1>8. c \in Subdirs(m, p) BY <1>0, <1>3, <1>4, SubdirsAre
<1>9. /\ Cardinality(Subdirs(m, p) \ {c}) = Cardinality(Subdirs(m, p)) - 1
      /\ Cardinality(Subdirs(m, p) \ {c}) \in Nat
  BY <1>7, <1>8, FS_RemoveElement, FS_CardinalityType
<1>10. PICK l \in Nat \ {0} :
         /\ l < LinkMax /\ l \in {1, m.links[p] - 1} /\ (m.links[p] = 1 <=> l = 1)
         /\ l = IF m.links[p] > 2 THEN m.links[p] - 1 ELSE m.links[p]
  BY <1>7, <1>9, NamespaceAssumption
<1>11. b = [a EXCEPT !.links[p] = l]
  <2>1. a.links = m.links /\ IsDir(a, p) BY <1>0, <1>1 DEF Meta, IsDir, Live
  <2>. QED BY <1>10, <2>1 DEF LinkDec
<1>12. b \in Meta
  <2>1. a \in Meta /\ p \in Inodes /\ l \in Nat BY <1>1
  <2>. QED BY <1>11, <2>1, LinksSet
<1>13. w \in Meta BY <1>12, LinksSet DEF Zeroed
<1>14. /\ w.ent = [m.ent EXCEPT ![p][n] = <<>>] /\ Rest(w, m) /\ w.up = m.up
       /\ w.links = [m.links EXCEPT ![p] = l, ![c] = 0]
  <2>1. a.ent = [m.ent EXCEPT ![p][n] = <<>>] /\ Rest(a, m) /\ a.up = m.up /\ a.links = m.links
    BY <1>0, <1>1 DEF Meta, Rest
  <2>2. b = [a EXCEPT !.links = [a.links EXCEPT ![p] = l]] BY <1>1, <1>11, LinksSet
  <2>3. b.ent = a.ent /\ Rest(b, a) /\ b.up = a.up /\ b.links = [a.links EXCEPT ![p] = l]
    BY <1>1, <2>2 DEF Meta, Rest
  <2>4. w = [b EXCEPT !.links = [b.links EXCEPT ![c] = 0]] BY <1>12, LinksSet DEF Zeroed
  <2>5. w.ent = b.ent /\ Rest(w, b) /\ w.up = b.up /\ w.links = [b.links EXCEPT ![c] = 0]
    BY <1>12, <2>4 DEF Meta, Rest
  <2>. QED BY <2>1, <2>3, <2>5 DEF Rest
<1>15. w.inuse = m.inuse /\ w.kind = m.kind BY <1>14 DEF Rest
<1>16. w.links[c] = 0 /\ w.links[p] = l /\ \A i \in Inodes \ {c, p} : w.links[i] = m.links[i]
  BY <1>0, <1>5, <1>14 DEF Meta
<1>17. Live(w) = Live(m) \ {c}
  <2>1. \A y \in Inodes : IsDir(w, y) <=> IsDir(m, y) BY <1>15 DEF IsDir
  <2>. QED BY <1>0, <1>15, <1>16, <2>1 DEF Live
<1>18. /\ Slots(w)
       /\ \A d \in Inodes, x \in Names :
            Find(w, d, x) = IF d = p /\ x = n THEN None ELSE Find(m, d, x)
       /\ \A i \in Inodes : NamesOf(w, i) = NamesOf(m, i) \ {<<p, n>>}
  <2>1. w.ent = [m.ent EXCEPT ![p][n] = IF None = None THEN <<>> ELSE <<None>>] BY <1>14
  <2>2. \A i \in Inodes : i # None BY NamespaceAssumption
  <2>. QED BY <1>0, <1>13, <2>1, <2>2, EntryChange
<1>19. \A i \in Inodes \ {c} : NamesOf(w, i) = NamesOf(m, i)
  <2>1. \A i \in Inodes \ {c} : <<p, n>> \notin NamesOf(m, i) BY <1>0, NamesAre
  <2>. QED BY <1>18, <2>1
<1>20. Entries(w)
  <2>1. \A d \in Inodes, x \in Names : w.ent[d][x] # <<>> => m.ent[d][x] # <<>> /\ ~(d = p /\ x = n)
    BY <1>0, <1>14 DEF Meta
  <2>2. \A x \in Names : m.ent[c][x] = <<>> BY DEF HasChildren
  <2>. QED BY <1>15, <1>17, <1>18, <2>1, <2>2 DEF NamesInv, Entries
<1>21. /\ Subdirs(w, p) = Subdirs(m, p) \ {c}
       /\ \A d \in Inodes \ {c, p} : Subdirs(w, d) = Subdirs(m, d)
  <2>1. \A d, y : y \in Subdirs(m, d) <=> y \in Live(m) \ {Root} /\ m.up[y] = d BY SubdirsAre
  <2>2. \A d, y : y \in Subdirs(w, d) <=> y \in Live(w) \ {Root} /\ m.up[y] = d
    BY <1>14, SubdirsAre
  <2>3. Subdirs(w, p) = Subdirs(m, p) \ {c} BY <2>1, <2>2, <1>17
  <2>4. ASSUME NEW d \in Inodes \ {c, p} PROVE Subdirs(w, d) = Subdirs(m, d)
    <3>1. \A y : y \in Subdirs(w, d) <=> y \in Subdirs(m, d) BY <2>1, <2>2, <1>4, <1>17
    <3>. QED BY <3>1
  <2>. QED BY <2>3, <2>4
<1>22. Links(w)
  <2>1. ASSUME NEW d \in Live(w)
        PROVE  w.links[d] < LinkMax /\ w.links[d] \in {1, 2 + Cardinality(Subdirs(w, d))}
    <3>1. CASE d = p
      <4>1. Cardinality(Subdirs(w, p)) = Cardinality(Subdirs(m, p)) - 1 BY <1>9, <1>21
      <4>2. w.links[p] = l BY <1>16
      <4>. QED BY <3>1, <4>1, <4>2, <1>7, <1>10
    <3>2. CASE d # p
      BY <3>2, <1>0, <1>16, <1>17, <1>21 DEF NamesInv, Links
    <3>. QED BY <3>1, <3>2
  <2>2. ASSUME NEW i \in w.inuse \ Live(w) PROVE w.links[i] = Cardinality(NamesOf(w, i))
    <3>1. CASE i = c
      <4>1. NamesOf(w, c) = {} BY <1>4, <1>18
      <4>. QED BY <3>1, <4>1, <1>16, FS_EmptySet
    <3>2. CASE i # c
      <4>1. i \in m.inuse \ Live(m) /\ i \in Inodes \ {c, p} BY <3>2, <1>0, <1>15, <1>17
      <4>. QED BY <4>1, <1>16, <1>19 DEF NamesInv, Links
    <3>. QED BY <3>1, <3>2
  <2>. QED BY <2>1, <2>2 DEF Links
<1>23. Homes(w) BY <1>0, <1>6, <1>14, <1>17, <1>19 DEF NamesInv, Homes
<1>24. Tree(w) BY <1>14, <1>17 DEF NamesInv, Tree
<1>25. NamesInv(w)
  <2>1. Root \in Live(w) BY <1>0, <1>17
  <2>. QED BY <2>1, <1>13, <1>18, <1>20, <1>22, <1>23, <1>24 DEF NamesInv
<1>26. Uncapped(w, m)
  <2>1. w.links[p] = 1 => m.links[p] = 1 BY <1>10, <1>16
  <2>2. \A d \in Live(m) \ {c, p} : w.links[d] = m.links[d] BY <1>0, <1>16
  <2>. QED BY <2>1, <2>2, <1>17 DEF Uncapped
<1>. QED BY <1>0, <1>3, <1>5, <1>10, <1>14, <1>16, <1>17, <1>25, <1>26

\* A file is moved to another name.
LEMMA MovedFile ==
  ASSUME NEW m, NamesInv(m), NEW sp \in Inodes, NEW sn \in Names,
         NEW dp \in Live(m), NEW dn \in Names, NEW c \in Inodes,
         Find(m, sp, sn) = c, Find(m, dp, dn) = None, ~IsDir(m, c),
         NEW a, a = AddEntry(m, dp, dn, c), NEW w, w = DropEntry(a, sp, sn)
  PROVE  /\ NamesInv(w) /\ Live(w) = Live(m) /\ Rest(w, m)
         /\ w.up = m.up /\ w.ent = [m.ent EXCEPT ![dp][dn] = <<c>>, ![sp][sn] = <<>>]
         /\ w.links = m.links
<1>0. /\ m \in Meta /\ Slots(m) /\ Live(m) \subseteq m.inuse /\ m.inuse \subseteq Inodes
      /\ dp \in Inodes /\ c # None /\ ~(sp = dp /\ sn = dn)
  BY NamespaceAssumption DEF NamesInv, Live, Meta
<1>1. m.ent[sp][sn] # <<>> BY <1>0, NamesAre
<1>2. c \in m.inuse \ {Root} /\ c \notin Live(m) /\ sp \in Live(m)
  BY <1>1 DEF NamesInv, Entries, Live
<1>3. a \in Meta /\ a = [m EXCEPT !.ent = [m.ent EXCEPT ![dp][dn] = <<c>>]]
  BY <1>0, AddsEntry
<1>4. /\ Slots(a)
      /\ \A d \in Inodes, x \in Names : Find(a, d, x) = IF d = dp /\ x = dn THEN c ELSE Find(m, d, x)
      /\ \A i \in Inodes : NamesOf(a, i) = IF i = c THEN NamesOf(m, i) \cup {<<dp, dn>>}
                                           ELSE NamesOf(m, i) \ {<<dp, dn>>}
  <2>1. a.ent = [m.ent EXCEPT ![dp][dn] = IF c = None THEN <<>> ELSE <<c>>]
    BY <1>0, <1>3 DEF Meta
  <2>2. a \in Meta BY <1>3
  <2>. QED BY <1>0, <2>1, <2>2, EntryChange
<1>5. Find(a, sp, sn) = c BY <1>0, <1>4
<1>6. w \in Meta /\ w = [a EXCEPT !.ent = [a.ent EXCEPT ![sp][sn] = <<>>]]
  <2>1. a \in Meta BY <1>3
  <2>. QED BY <1>0, <1>4, <1>5, <2>1, DropsEntry
<1>7. /\ Slots(w)
      /\ \A d \in Inodes, x \in Names : Find(w, d, x) = IF d = sp /\ x = sn THEN None ELSE Find(a, d, x)
      /\ \A i \in Inodes : NamesOf(w, i) = NamesOf(a, i) \ {<<sp, sn>>}
  <2>1. w.ent = [a.ent EXCEPT ![sp][sn] = IF None = None THEN <<>> ELSE <<None>>]
    BY <1>3, <1>6 DEF Meta
  <2>2. a \in Meta /\ w \in Meta BY <1>3, <1>6
  <2>3. \A i \in Inodes : i # None BY NamespaceAssumption
  <2>. QED BY <1>4, <2>1, <2>2, <2>3, EntryChange
<1>8. /\ Rest(w, m) /\ w.up = m.up /\ w.links = m.links
      /\ w.ent = [m.ent EXCEPT ![dp][dn] = <<c>>, ![sp][sn] = <<>>]
  <2>1. a.ent = [m.ent EXCEPT ![dp][dn] = <<c>>] /\ Rest(a, m) /\ a.up = m.up /\ a.links = m.links
    BY <1>0, <1>3 DEF Meta, Rest
  <2>2. w.ent = [a.ent EXCEPT ![sp][sn] = <<>>] /\ Rest(w, a) /\ w.up = a.up /\ w.links = a.links
    BY <1>3, <1>6 DEF Meta, Rest
  <2>. QED BY <2>1, <2>2 DEF Rest
<1>9. w.inuse = m.inuse /\ w.kind = m.kind BY <1>8 DEF Rest
<1>10. Live(w) = Live(m) BY <1>8, <1>9 DEF Live, IsDir
<1>11. /\ NamesOf(w, c) = (NamesOf(m, c) \cup {<<dp, dn>>}) \ {<<sp, sn>>}
       /\ \A i \in Inodes \ {c} : NamesOf(w, i) = NamesOf(m, i)
  <2>1. \A i \in Inodes : NamesOf(m, i) = {x \in Places : Find(m, x[1], x[2]) = i}
    BY <1>0, NamesAre
  <2>2. \A i \in Inodes \ {c} : <<dp, dn>> \notin NamesOf(m, i) /\ <<sp, sn>> \notin NamesOf(m, i)
    BY <2>1, NamespaceAssumption
  <2>3. \A i \in Inodes \ {c} : NamesOf(w, i) = NamesOf(m, i) BY <1>4, <1>7, <2>2
  <2>4. NamesOf(w, c) = (NamesOf(m, c) \cup {<<dp, dn>>}) \ {<<sp, sn>>} BY <1>4, <1>7
  <2>. QED BY <2>3, <2>4
<1>12. Cardinality(NamesOf(w, c)) = Cardinality(NamesOf(m, c))
  <2>1. NamesOf(m, c) = {x \in Places : Find(m, x[1], x[2]) = c} BY <1>0, NamesAre
  <2>2. <<sp, sn>> \in NamesOf(m, c) /\ <<dp, dn>> \notin NamesOf(m, c)
    BY <2>1, <1>0 DEF Places
  <2>3. IsFiniteSet(NamesOf(m, c)) /\ Cardinality(NamesOf(m, c)) \in Nat BY <1>0, NamesAre
  <2>. DEFINE N == NamesOf(m, c)
              M == N \cup {<<dp, dn>>}
  <2>. HIDE DEF N
  <2>4. IsFiniteSet(M) /\ Cardinality(M) = Cardinality(N) + 1
    BY <2>2, <2>3, FS_AddElement DEF N
  <2>5. <<sp, sn>> \in M BY <2>2 DEF N
  <2>6. Cardinality(M \ {<<sp, sn>>}) = Cardinality(M) - 1 BY <2>4, <2>5, FS_RemoveElement
  <2>. QED BY <2>3, <2>4, <2>6, <1>11 DEF N
<1>13. Entries(w)
  <2>. SUFFICES ASSUME NEW d \in Inodes, NEW x \in Names, w.ent[d][x] # <<>>
                PROVE  d \in Live(w) /\ Find(w, d, x) \in w.inuse \ {Root}
    BY DEF Entries
  <2>1. Find(w, d, x) # None
    <3>1. w \in Meta /\ Slots(w) BY <1>6, <1>7
    <3>. QED BY <3>1, NamesAre
  <2>2. CASE d = dp /\ x = dn BY <2>2, <1>0, <1>2, <1>4, <1>7, <1>9, <1>10
  <2>3. CASE ~(d = dp /\ x = dn)
    <3>1. Find(w, d, x) = Find(m, d, x) BY <2>1, <2>3, <1>4, <1>7
    <3>2. m.ent[d][x] # <<>> BY <2>1, <3>1, <1>0, NamesAre
    <3>. QED BY <3>1, <3>2, <1>9, <1>10 DEF NamesInv, Entries
  <2>. QED BY <2>2, <2>3
<1>14. \A d : Subdirs(w, d) = Subdirs(m, d) BY <1>8, <1>10, SubdirsAre
<1>15. Links(w)
  <2>1. \A i \in m.inuse \ Live(m) : Cardinality(NamesOf(w, i)) = Cardinality(NamesOf(m, i))
    BY <1>0, <1>11, <1>12
  <2>. QED BY <1>8, <1>9, <1>10, <1>14, <2>1 DEF NamesInv, Links
<1>16. Homes(w)
  <2>1. \A d \in Live(m) : NamesOf(w, d) = NamesOf(m, d) BY <1>0, <1>2, <1>11
  <2>. QED BY <1>8, <1>10, <2>1 DEF NamesInv, Homes
<1>17. Tree(w) BY <1>8, <1>10 DEF NamesInv, Tree
<1>18. NamesInv(w)
  <2>1. Root \in Live(w) BY <1>10 DEF NamesInv
  <2>. QED BY <2>1, <1>6, <1>7, <1>13, <1>15, <1>16, <1>17 DEF NamesInv
<1>. QED BY <1>8, <1>10, <1>18

\* A directory's ".." is changed.
WithUp(m, c, p) == [m EXCEPT !.up[c] = p]

\* What moving a directory does.
MovedTo(w, y, m, sp, sn, dp, dn, c) ==
  /\ NamesInv(w) /\ Live(w) = Live(m) /\ Rest(w, m) /\ Counted(w, m)
  /\ w.ent = [m.ent EXCEPT ![dp][dn] = <<c>>, ![sp][sn] = <<>>]
  /\ \A i \in Inodes \ {sp, dp} : w.links[i] = m.links[i]
  /\ w.links[sp] # 0 /\ w.links[dp] # 0 /\ sp \in Live(m) /\ y.kind = m.kind

\* A directory is moved below another that is not below it.
LEMMA MovedDir ==
  ASSUME Room, NEW m, NamesInv(m), NEW sp \in Inodes, NEW sn \in Names,
         NEW dp, dp \in Live(m), dp # sp, NEW dn \in Names, NEW c \in Inodes,
         Find(m, sp, sn) = c, Find(m, dp, dn) = None, IsDir(m, c),
         NEW A, Above(m, A), dp \in A, c \notin A,
         NEW a, a = AddEntry(m, dp, dn, c), NEW b, b = WithUp(a, c, dp),
         NEW e, e = LinkInc(b, dp), NEW y, y = DropEntry(e, sp, sn), NEW w, w = LinkDec(y, sp)
  PROVE  MovedTo(w, y, m, sp, sn, dp, dn, c)
<1>0. /\ m \in Meta /\ Slots(m) /\ Live(m) \subseteq m.inuse /\ m.inuse \subseteq Inodes
      /\ dp \in Inodes /\ c # None /\ Root \in Live(m)
  BY NamespaceAssumption DEF NamesInv, Live, Meta
<1>1. m.ent[sp][sn] # <<>> BY <1>0, NamesAre
<1>2. c \in m.inuse \ {Root} /\ sp \in Live(m)
  BY <1>1 DEF NamesInv, Entries
<1>3. <<sp, sn>> \in NamesOf(m, c)
  <2>1. NamesOf(m, c) = {x \in Places : Find(m, x[1], x[2]) = c} BY <1>0, NamesAre
  <2>. QED BY <2>1 DEF Places
<1>4. c \in Live(m)
  <2>1. m.links[c] # 0 BY <1>3, Nameless
  <2>. QED BY <1>2, <2>1 DEF Live
<1>5. m.up[c] = sp /\ NamesOf(m, c) = {<<sp, sn>>}
  <2>1. PICK x \in Names : NamesOf(m, c) = {<<m.up[c], x>>} BY <1>2, <1>4 DEF NamesInv, Homes
  <2>2. <<sp, sn>> = <<m.up[c], x>> BY <1>3, <2>1
  <2>. QED BY <2>1, <2>2
<1>6. c # sp /\ c # dp
  <2>1. c # dp OBVIOUS
  <2>2. ASSUME c = sp PROVE FALSE
    <3>1. {c} \in SUBSET (Live(m) \ {Root}) /\ \A d \in {c} : m.up[d] \in {c}
      BY <1>2, <1>4, <1>5, <2>2
    <3>. QED BY <3>1 DEF NamesInv, Tree
  <2>. QED BY <2>1, <2>2
<1>7. /\ m.links[sp] < LinkMax /\ m.links[sp] \in {1, 2 + Cardinality(Subdirs(m, sp))}
      /\ m.links[dp] < LinkMax /\ m.links[dp] \in {1, 2 + Cardinality(Subdirs(m, dp))}
      /\ Cardinality(Subdirs(m, sp)) \in Nat /\ IsFiniteSet(Subdirs(m, sp))
      /\ Cardinality(Subdirs(m, dp)) \in Nat /\ IsFiniteSet(Subdirs(m, dp))
  BY <1>0, <1>2, NamesAre DEF NamesInv, Links
<1>8. c \in Subdirs(m, sp) /\ c \notin Subdirs(m, dp) BY <1>2, <1>4, <1>5, SubdirsAre
<1>9. PICK l \in Nat \ {0} :
        /\ l < LinkMax /\ l \in {1, m.links[dp] + 1}
        /\ l = 1 => m.links[dp] = 1 \/ m.links[dp] + 1 >= LinkMax
        /\ m.links[dp] = 1 => l = 1
        /\ l = IF (m.links[dp] + 1) % Width = 2 \/ (m.links[dp] + 1) % Width >= LinkMax
              THEN 1 ELSE (m.links[dp] + 1) % Width
  <2>1. (m.links[dp] + 1) % Width = m.links[dp] + 1 BY <1>7, NamespaceAssumption
  <2>2. CASE m.links[dp] + 1 = 2 \/ m.links[dp] + 1 >= LinkMax
    BY <1>7, <2>1, <2>2, NamespaceAssumption
  <2>3. CASE ~(m.links[dp] + 1 = 2 \/ m.links[dp] + 1 >= LinkMax)
    BY <1>7, <2>1, <2>3, NamespaceAssumption
  <2>. QED BY <2>2, <2>3
<1>10. /\ Cardinality(Subdirs(m, sp) \ {c}) = Cardinality(Subdirs(m, sp)) - 1
       /\ Cardinality(Subdirs(m, sp) \ {c}) \in Nat
       /\ Cardinality(Subdirs(m, dp) \cup {c}) = Cardinality(Subdirs(m, dp)) + 1
  BY <1>7, <1>8, FS_RemoveElement, FS_AddElement, FS_CardinalityType
<1>11. PICK k \in Nat \ {0} :
         /\ k < LinkMax /\ k \in {1, m.links[sp] - 1} /\ (m.links[sp] = 1 <=> k = 1)
         /\ k = IF m.links[sp] > 2 THEN m.links[sp] - 1 ELSE m.links[sp]
  BY <1>7, <1>10, NamespaceAssumption
<1>12. a \in Meta /\ a = [m EXCEPT !.ent = [m.ent EXCEPT ![dp][dn] = <<c>>]]
  BY <1>0, AddsEntry
<1>13. /\ a.ent = [m.ent EXCEPT ![dp][dn] = <<c>>] /\ Rest(a, m)
       /\ a.up = m.up /\ a.links = m.links
  BY <1>0, <1>12 DEF Meta, Rest
<1>14. b \in Meta /\ b.ent = a.ent /\ Rest(b, a) /\ b.up = [a.up EXCEPT ![c] = dp] /\ b.links = a.links
  <2>1. b = [a EXCEPT !.up = [a.up EXCEPT ![c] = dp]] BY <1>12 DEF Meta, WithUp
  <2>2. [a.up EXCEPT ![c] = dp] \in [Inodes -> Inodes \cup {None}] BY <1>0, <1>12 DEF Meta
  <2>. QED BY <1>12, <2>1, <2>2 DEF Meta, Rest
<1>15. e = [b EXCEPT !.links[dp] = l]
  <2>1. b.links = m.links /\ IsDir(b, dp) BY <1>13, <1>14 DEF IsDir, Live, Rest
  <2>. QED BY <1>9, <2>1 DEF LinkInc, Indexed, Room
<1>16. e \in Meta /\ e.ent = b.ent /\ Rest(e, b) /\ e.up = b.up /\ e.links = [b.links EXCEPT ![dp] = l]
  <2>1. b \in Meta /\ dp \in Inodes /\ l \in Nat BY <1>0, <1>14
  <2>2. e \in Meta /\ e = [b EXCEPT !.links = [b.links EXCEPT ![dp] = l]]
    BY <1>15, <2>1, LinksSet
  <2>. QED BY <2>1, <2>2 DEF Meta, Rest
<1>17. /\ Slots(e)
       /\ \A d \in Inodes, x \in Names : Find(e, d, x) = IF d = dp /\ x = dn THEN c ELSE Find(m, d, x)
       /\ \A i \in Inodes : NamesOf(e, i) = IF i = c THEN NamesOf(m, i) \cup {<<dp, dn>>}
                                            ELSE NamesOf(m, i) \ {<<dp, dn>>}
  <2>1. e.ent = [m.ent EXCEPT ![dp][dn] = IF c = None THEN <<>> ELSE <<c>>]
    BY <1>0, <1>13, <1>14, <1>16
  <2>2. e \in Meta BY <1>16
  <2>. QED BY <1>0, <2>1, <2>2, EntryChange
<1>18. Find(e, sp, sn) = c BY <1>0, <1>17
<1>19. y \in Meta /\ y = [e EXCEPT !.ent = [e.ent EXCEPT ![sp][sn] = <<>>]]
  <2>1. e \in Meta BY <1>16
  <2>. QED BY <1>0, <1>17, <1>18, <2>1, DropsEntry
<1>20. /\ y.ent = [e.ent EXCEPT ![sp][sn] = <<>>] /\ Rest(y, e)
       /\ y.up = e.up /\ y.links = e.links
  <2>1. e \in Meta BY <1>16
  <2>. QED BY <1>19, <2>1 DEF Meta, Rest
<1>21. w = [y EXCEPT !.links[sp] = k]
  <2>1. y.links[sp] = m.links[sp] /\ IsDir(y, sp)
    <3>1. y.kind = m.kind BY <1>13, <1>14, <1>16, <1>20 DEF Rest
    <3>2. y.links = [m.links EXCEPT ![dp] = l] BY <1>13, <1>14, <1>16, <1>20
    <3>. QED BY <3>1, <3>2, <1>0, <1>2 DEF IsDir, Live, Meta
  <2>. QED BY <1>11, <2>1 DEF LinkDec
<1>22. w \in Meta /\ w.ent = y.ent /\ Rest(w, y) /\ w.up = y.up /\ w.links = [y.links EXCEPT ![sp] = k]
  <2>1. y \in Meta /\ k \in Nat BY <1>19
  <2>2. w \in Meta /\ w = [y EXCEPT !.links = [y.links EXCEPT ![sp] = k]]
    BY <1>21, <2>1, LinksSet
  <2>. QED BY <2>1, <2>2 DEF Meta, Rest
<1>23. /\ w.ent = [m.ent EXCEPT ![dp][dn] = <<c>>, ![sp][sn] = <<>>] /\ Rest(w, m)
       /\ w.up = [m.up EXCEPT ![c] = dp]
       /\ w.links = [m.links EXCEPT ![dp] = l, ![sp] = k]
  BY <1>13, <1>14, <1>16, <1>20, <1>22 DEF Rest
<1>24. w.inuse = m.inuse /\ w.kind = m.kind BY <1>23 DEF Rest
<1>25. /\ w.links[sp] = k /\ w.links[dp] = l /\ \A i \in Inodes \ {sp, dp} : w.links[i] = m.links[i]
       /\ w.up[c] = dp /\ \A i \in Inodes \ {c} : w.up[i] = m.up[i]
  BY <1>0, <1>2, <1>23 DEF Meta
<1>26. Live(w) = Live(m)
  <2>1. \A i \in Inodes : IsDir(w, i) <=> IsDir(m, i) BY <1>24 DEF IsDir
  <2>. QED BY <1>0, <1>2, <1>24, <1>25, <2>1 DEF Live
<1>27. /\ Slots(w)
       /\ \A d \in Inodes, x \in Names : Find(w, d, x) = IF d = sp /\ x = sn THEN None ELSE Find(e, d, x)
       /\ \A i \in Inodes : NamesOf(w, i) = NamesOf(e, i) \ {<<sp, sn>>}
  <2>1. w.ent = [e.ent EXCEPT ![sp][sn] = IF None = None THEN <<>> ELSE <<None>>]
    BY <1>20, <1>22
  <2>2. e \in Meta /\ w \in Meta BY <1>16, <1>22
  <2>3. \A i \in Inodes : i # None BY NamespaceAssumption
  <2>. QED BY <1>17, <2>1, <2>2, <2>3, EntryChange
<1>28. NamesOf(w, c) = {<<dp, dn>>} /\ \A i \in Inodes \ {c} : NamesOf(w, i) = NamesOf(m, i)
  <2>1. \A i \in Inodes : NamesOf(m, i) = {x \in Places : Find(m, x[1], x[2]) = i}
    BY <1>0, NamesAre
  <2>2. \A i \in Inodes \ {c} : <<dp, dn>> \notin NamesOf(m, i) /\ <<sp, sn>> \notin NamesOf(m, i)
    BY <2>1, NamespaceAssumption
  <2>3. \A i \in Inodes \ {c} : NamesOf(w, i) = NamesOf(m, i)
    <3>. SUFFICES ASSUME NEW i \in Inodes \ {c} PROVE NamesOf(w, i) = NamesOf(m, i) OBVIOUS
    <3>. DEFINE S == NamesOf(m, i)
    <3>1. NamesOf(w, i) = (S \ {<<dp, dn>>}) \ {<<sp, sn>>} BY ONLY <1>17, <1>27, i \in Inodes \ {c}
    <3>2. <<dp, dn>> \notin S /\ <<sp, sn>> \notin S BY ONLY <2>2, i \in Inodes \ {c}
    <3>. HIDE DEF S
    <3>3. NamesOf(w, i) = S BY ONLY <3>1, <3>2
    <3>. QED BY <3>3 DEF S
  <2>4. NamesOf(w, c) = {<<dp, dn>>} BY <1>5, <1>17, <1>27
  <2>. QED BY <2>3, <2>4
<1>29. Entries(w)
  <2>. SUFFICES ASSUME NEW d \in Inodes, NEW x \in Names, w.ent[d][x] # <<>>
                PROVE  d \in Live(w) /\ Find(w, d, x) \in w.inuse \ {Root}
    BY DEF Entries
  <2>1. Find(w, d, x) # None
    <3>1. w \in Meta /\ Slots(w) BY <1>22, <1>27
    <3>. QED BY <3>1, NamesAre
  <2>2. CASE d = dp /\ x = dn BY <2>2, <1>0, <1>2, <1>17, <1>27, <1>24, <1>26
  <2>3. CASE ~(d = dp /\ x = dn)
    <3>1. Find(w, d, x) = Find(m, d, x) BY <2>1, <2>3, <1>17, <1>27
    <3>2. m.ent[d][x] # <<>> BY <2>1, <3>1, <1>0, NamesAre
    <3>. QED BY <3>1, <3>2, <1>24, <1>26 DEF NamesInv, Entries
  <2>. QED BY <2>2, <2>3
<1>30. /\ Subdirs(w, dp) = Subdirs(m, dp) \cup {c} /\ Subdirs(w, sp) = Subdirs(m, sp) \ {c}
       /\ \A d \in Inodes \ {sp, dp} : Subdirs(w, d) = Subdirs(m, d)
  <2>1. \A d, i : i \in Subdirs(m, d) <=> i \in Live(m) \ {Root} /\ m.up[i] = d BY SubdirsAre
  <2>2. \A d, i : i \in Subdirs(w, d) <=> i \in Live(m) \ {Root} /\ w.up[i] = d
    BY <1>26, SubdirsAre
  <2>3. \A d : \A i \in Live(m) \ {c} : i \in Subdirs(w, d) <=> i \in Subdirs(m, d)
    BY <2>1, <2>2, <1>0, <1>25
  <2>4. \A d : (c \in Subdirs(w, d) <=> d = dp) /\ (c \in Subdirs(m, d) <=> d = sp)
    BY <2>1, <2>2, <1>2, <1>4, <1>5, <1>25
  <2>5. \A d, i : i \in Subdirs(w, d) \/ i \in Subdirs(m, d) => i \in Live(m) BY <2>1, <2>2
  <2>6. Subdirs(w, dp) = Subdirs(m, dp) \cup {c} BY <2>3, <2>4, <2>5
  <2>7. Subdirs(w, sp) = Subdirs(m, sp) \ {c} BY <2>3, <2>4, <2>5
  <2>8. ASSUME NEW d \in Inodes \ {sp, dp} PROVE Subdirs(w, d) = Subdirs(m, d)
    <3>1. \A i : i \in Subdirs(w, d) <=> i \in Subdirs(m, d) BY <2>3, <2>4, <2>5
    <3>. QED BY <3>1
  <2>. QED BY <2>6, <2>7, <2>8
<1>31. Links(w)
  <2>1. ASSUME NEW d \in Live(w)
        PROVE  w.links[d] < LinkMax /\ w.links[d] \in {1, 2 + Cardinality(Subdirs(w, d))}
    <3>1. CASE d = sp
      <4>1. Cardinality(Subdirs(w, sp)) = Cardinality(Subdirs(m, sp)) - 1 BY <1>10, <1>30
      <4>2. w.links[sp] = k BY <1>25
      <4>. QED BY <3>1, <4>1, <4>2, <1>7, <1>11
    <3>2. CASE d = dp
      <4>1. Cardinality(Subdirs(w, dp)) = Cardinality(Subdirs(m, dp)) + 1 BY <1>10, <1>30
      <4>2. w.links[dp] = l BY <1>25
      <4>. QED BY <3>2, <4>1, <4>2, <1>7, <1>9
    <3>3. CASE d \notin {sp, dp}
      BY <3>3, <1>0, <1>25, <1>26, <1>30 DEF NamesInv, Links
    <3>. QED BY <3>1, <3>2, <3>3
  <2>2. ASSUME NEW i \in w.inuse \ Live(w) PROVE w.links[i] = Cardinality(NamesOf(w, i))
    <3>1. i \in m.inuse \ Live(m) /\ i \in Inodes \ {c, sp, dp} BY <1>0, <1>2, <1>4, <1>24, <1>26
    <3>. QED BY <3>1, <1>25, <1>28 DEF NamesInv, Links
  <2>. QED BY <2>1, <2>2 DEF Links
<1>32. Homes(w)
  <2>. SUFFICES ASSUME NEW d \in Live(m) \ {Root}
                PROVE  w.up[d] \in Live(m) /\ \E n \in Names : NamesOf(w, d) = {<<w.up[d], n>>}
    BY <1>26 DEF Homes
  <2>1. CASE d = c BY <2>1, <1>25, <1>28
  <2>2. CASE d # c BY <2>2, <1>0, <1>25, <1>28 DEF NamesInv, Homes
  <2>. QED BY <2>1, <2>2
<1>33. Tree(w)
  <2>. SUFFICES ASSUME NEW S \in SUBSET (Live(m) \ {Root}), \A d \in S : w.up[d] \in S, S # {}
                PROVE  FALSE
    BY <1>26 DEF Tree
  <2>1. c \in S
    <3>. SUFFICES ASSUME c \notin S PROVE FALSE OBVIOUS
    <3>1. \A d \in S : m.up[d] \in S BY <1>0, <1>25
    <3>. QED BY <3>1 DEF NamesInv, Tree
  <2>2. dp \in S \cap A BY <2>1, <1>25
  <2>3. \A d \in S \cap A : m.up[d] \in S \cap A BY <1>0, <1>25 DEF Above
  <2>4. S \cap A \in SUBSET (Live(m) \ {Root}) OBVIOUS
  <2>5. S \cap A = {} BY <2>3, <2>4 DEF NamesInv, Tree
  <2>. QED BY <2>2, <2>5
<1>34. NamesInv(w)
  <2>1. w \in Meta /\ Root \in Live(w) BY <1>0, <1>22, <1>26
  <2>. QED BY <2>1, <1>27, <1>29, <1>31, <1>32, <1>33 DEF NamesInv
<1>35. Counted(w, m)
  <2>1. w.links[sp] = 1 => m.links[sp] = 1 BY <1>11, <1>25
  <2>2. w.links[dp] = 1 => m.links[dp] = 1 \/ 2 + Cardinality(Subdirs(w, dp)) >= LinkMax
    <3>1. Cardinality(Subdirs(w, dp)) = Cardinality(Subdirs(m, dp)) + 1 BY <1>10, <1>30
    <3>. QED BY <3>1, <1>7, <1>9, <1>25
  <2>3. \A d \in Live(m) \ {sp, dp} : w.links[d] = m.links[d] BY <1>0, <1>25
  <2>. QED BY <2>1, <2>2, <2>3 DEF Counted
<1>36. y.kind = m.kind BY <1>13, <1>14, <1>16, <1>20 DEF Rest
<1>. QED BY <1>2, <1>9, <1>11, <1>23, <1>25, <1>26, <1>34, <1>35, <1>36
   DEF MovedTo

-----------------------------------------------------------------------------
(* What the calls do to the names.                                         *)

\* The cases in which directories come apart are left out.
Orderly == Windows \cap {"samedir", "samefile", "dxinit", "halfrename"} = {}

\* What chattr protects has a name.
Flagged(m) == \A i \in Inodes : Protected(m, i) => NamesOf(m, i) # {}

\* What chattr protects keeps its names, and its entries.
Protects(w, m) ==
  /\ w.flag = m.flag
  /\ \A i \in Inodes : Protected(m, i) =>
       /\ NamesOf(m, i) \subseteq NamesOf(w, i)
       /\ \A n \in Names : m.ent[i][n] # w.ent[i][n] => m.flag[i] = "append" /\ m.ent[i][n] = <<>>

\* No inode but c gets its first link or loses its last.
Others(w, m, c) == \A i \in Inodes \ {c} : w.links[i] = 0 <=> m.links[i] = 0

\* What two changes in a row respect.
LEMMA ProtectsTwice ==
  ASSUME NEW m, NEW x, NEW w, Protects(x, m), Protects(w, x)
  PROVE  Protects(w, m)
<1>1. \A i : Protected(m, i) <=> Protected(x, i) BY DEF Protects, Protected
<1>. QED BY <1>1 DEF Protects

\* A protected inode that keeps its names has one.
LEMMA ProtectsFlagged ==
  ASSUME NEW m, NEW w, Flagged(m), Protects(w, m)
  PROVE  Flagged(w)
<1>1. \A i : Protected(m, i) <=> Protected(w, i) BY DEF Protects, Protected
<1>. QED BY <1>1 DEF Protects, Flagged

\* One entry is changed in a directory that may be changed so.
LEMMA ProtectsEntry ==
  ASSUME NEW m, m \in Meta, Slots(m), NEW w, w \in Meta, w.flag = m.flag,
         NEW p \in Inodes, NEW n \in Names, NEW v \in Inodes \cup {None},
         w.ent = [m.ent EXCEPT ![p][n] = IF v = None THEN <<>> ELSE <<v>>],
         ~is_immutable(m, p),
         Find(m, p, n) # None => ~Protected(m, p) /\ ~Protected(m, Find(m, p, n))
  PROVE  Protects(w, m)
<1>. SUFFICES ASSUME NEW i \in Inodes, Protected(m, i)
              PROVE  /\ NamesOf(m, i) \subseteq NamesOf(w, i)
                     /\ \A x \in Names : m.ent[i][x] # w.ent[i][x] =>
                          m.flag[i] = "append" /\ m.ent[i][x] = <<>>
  BY DEF Protects
<1>1. NamesOf(m, i) \ {<<p, n>>} \subseteq NamesOf(w, i) BY EntryChange
<1>2. <<p, n>> \notin NamesOf(m, i)
  <2>1. NamesOf(m, i) = {x \in Places : Find(m, x[1], x[2]) = i} BY NamesAre
  <2>2. <<p, n>> \in NamesOf(m, i) => Find(m, p, n) = i BY <2>1
  <2>. QED BY <2>2, NamespaceAssumption
<1>3. ASSUME NEW x \in Names, m.ent[i][x] # w.ent[i][x]
      PROVE  m.flag[i] = "append" /\ m.ent[i][x] = <<>>
  <2>1. m.ent \in [Inodes -> [Names -> Seq(Inodes)]] BY DEF Meta
  <2>2. i = p /\ x = n BY <1>3, <2>1
  <2>3. Find(m, p, n) = None BY <2>2
  <2>4. m.ent[i][x] = <<>> BY <2>2, <2>3, NamesAre
  <2>5. m.flag[i] \in Flags BY DEF Meta
  <2>. QED BY <2>2, <2>4, <2>5 DEF Flags, Protected, is_immutable
<1>. QED BY <1>1, <1>2, <1>3

\* What giving c a name does.
Linked(r, m, p, n, c) ==
  /\ r.rc = "OK" /\ ~r.hit
  /\ NamesInv(r.m) /\ Rest(r.m, m) /\ Counted(r.m, m) /\ Protects(r.m, m)
  /\ Others(r.m, m, c) /\ r.m.links[c] # 0
  /\ Find(r.m, p, n) = c /\ p \in Live(r.m)
  /\ r.m.ent = [m.ent EXCEPT ![p][n] = <<c>>]

\* A name is given to a file or to a new directory.
LEMMA LinkResult ==
  ASSUME Room, Orderly, NEW m, NamesInv(m), NEW p, p \in Live(m), NEW n \in Names,
         NEW c, c \in m.inuse, Find(m, p, n) = None, ~is_immutable(m, p),
         IsDir(m, c) => m.links[c] = 0, NEW r, r \in link_child(m, p, c, n, FALSE)
  PROVE  r = Fail(m) \/ Linked(r, m, p, n, c)
<1>. SUFFICES ASSUME r # Fail(m) PROVE Linked(r, m, p, n, c) OBVIOUS
<1>0. /\ m \in Meta /\ Slots(m) /\ Live(m) \subseteq m.inuse /\ m.inuse \subseteq Inodes
      /\ p \in Inodes /\ c \in Inodes /\ c # None /\ m.links[p] # 0
  BY NamespaceAssumption DEF NamesInv, Live, Meta
<1>1. PICK a : a = AddEntry(m, p, n, c) OBVIOUS
<1>2. ASSUME NEW w, NamesInv(w), Rest(w, m), w.ent = [m.ent EXCEPT ![p][n] = <<c>>]
      PROVE  Protects(w, m) /\ Find(w, p, n) = c
  <2>1. w \in Meta /\ w.flag = m.flag BY <1>2 DEF NamesInv, Rest
  <2>2. w.ent = [m.ent EXCEPT ![p][n] = IF c = None THEN <<>> ELSE <<c>>] BY <1>0, <1>2
  <2>. QED BY <1>0, <2>1, <2>2, ProtectsEntry, EntryChange
<1>3. CASE IsDir(m, c)
  <2>1. PICK b : b = WithDots(a, p, c) OBVIOUS
  <2>2. PICK w : w = LinkInc(b, p) OBVIOUS
  <2>3. r = Ok(w)
    <3>1. r \in dx_init(m, a, p, c) BY <1>1, <1>3 DEF link_child
    <3>. QED BY <3>1, <2>1, <2>2 DEF dx_init, Orderly, WithDots
  <2>4. /\ NamesInv(w) /\ Live(w) = Live(m) \cup {c} /\ Rest(w, m) /\ Counted(w, m)
        /\ w.ent = [m.ent EXCEPT ![p][n] = <<c>>]
        /\ \A i \in Inodes \ {c, p} : w.links[i] = m.links[i]
        /\ w.links[p] # 0 /\ w.links[c] = 2
    BY <1>1, <1>3, <2>1, <2>2, LinkedDir
  <2>5. Others(w, m, c) BY <1>0, <2>4 DEF Others
  <2>6. Protects(w, m) /\ Find(w, p, n) = c BY <1>2, <2>4
  <2>. QED BY <2>3, <2>4, <2>5, <2>6 DEF Ok, Linked
<1>4. CASE ~IsDir(m, c)
  <2>1. PICK w : w = LinkInc(a, c) OBVIOUS
  <2>2. r = Ok(w) BY <1>1, <1>4, <2>1 DEF link_child
  <2>3. /\ NamesInv(w) /\ Live(w) = Live(m) /\ Rest(w, m)
        /\ w.up = m.up /\ w.ent = [m.ent EXCEPT ![p][n] = <<c>>]
        /\ \A i \in Inodes \ {c} : w.links[i] = m.links[i]
        /\ w.links[c] # 0
    BY <1>1, <1>4, <2>1, LinkedFile, SMTT(60)
  <2>4. Others(w, m, c) BY <2>3 DEF Others
  <2>5. Counted(w, m)
    <3>1. \A d \in Live(m) : w.links[d] = m.links[d] BY <1>0, <1>4, <2>3 DEF Live
    <3>. QED BY <3>1 DEF Counted
  <2>6. Protects(w, m) /\ Find(w, p, n) = c BY <1>2, <2>3
  <2>. QED BY <2>2, <2>3, <2>4, <2>5, <2>6 DEF Ok, Linked
<1>. QED BY <1>3, <1>4

\* What taking a name of c away does.
Unlinked(r, m, p, n, c) ==
  /\ r.rc = "OK" /\ ~r.hit
  /\ NamesInv(r.m) /\ Rest(r.m, m) /\ Uncapped(r.m, m) /\ Protects(r.m, m)
  /\ Others(r.m, m, c) /\ r.m.up = m.up /\ Live(m) \ {c} \subseteq Live(r.m)
  /\ Live(r.m) \subseteq Live(m) /\ p \in Live(r.m) \ {c}
  /\ m.links[c] # 0 /\ c \in m.inuse
  /\ r.m.ent = [m.ent EXCEPT ![p][n] = <<>>]

\* A name goes: of a file, or of a directory with nothing in it.
LEMMA UnlinkResult ==
  ASSUME NEW m, NamesInv(m), NEW p, p \in Inodes, NEW n \in Names, NEW c, c \in Inodes,
         Find(m, p, n) = c, ~unlink_forbidden(m, p, c), NEW r, r \in unlink_child(m, p, c, n)
  PROVE  (r.rc # "OK" /\ r.m = m) \/ Unlinked(r, m, p, n, c)
<1>. SUFFICES ASSUME ~(r.rc # "OK" /\ r.m = m) PROVE Unlinked(r, m, p, n, c) OBVIOUS
<1>0. /\ m \in Meta /\ Slots(m) /\ c # None
  BY NamespaceAssumption DEF NamesInv
<1>1. m.ent[p][n] # <<>> BY <1>0, NamesAre
<1>2. p \in Live(m) /\ c \in m.inuse BY <1>1 DEF NamesInv, Entries
<1>3. ASSUME NEW w, NamesInv(w), Rest(w, m), w.ent = [m.ent EXCEPT ![p][n] = <<>>]
      PROVE  Protects(w, m)
  <2>1. w \in Meta /\ w.flag = m.flag BY <1>3 DEF NamesInv, Rest
  <2>2. w.ent = [m.ent EXCEPT ![p][n] = IF None = None THEN <<>> ELSE <<None>>] BY <1>3
  <2>3. ~is_immutable(m, p) /\ ~Protected(m, p) /\ ~Protected(m, Find(m, p, n))
    BY DEF is_immutable, Protected, unlink_forbidden
  <2>. QED BY <1>0, <2>1, <2>2, <2>3, ProtectsEntry
<1>4. PICK a : a = DropEntry(m, p, n) OBVIOUS
<1>5. CASE IsDir(m, c)
  <2>1. PICK b : b = LinkDec(a, p) OBVIOUS
  <2>2. PICK w : w = Zeroed(b, c) OBVIOUS
  <2>3. r = Ok(w) /\ ~HasChildren(m, c)
    BY <1>4, <1>5, <2>1, <2>2 DEF unlink_child, Zeroed, Ok, Fail, Err
  <2>4. /\ NamesInv(w) /\ Live(w) = Live(m) \ {c} /\ Rest(w, m) /\ Uncapped(w, m)
        /\ w.up = m.up /\ w.ent = [m.ent EXCEPT ![p][n] = <<>>]
        /\ \A i \in Inodes \ {c, p} : w.links[i] = m.links[i]
        /\ w.links[p] # 0 /\ w.links[c] = 0
        /\ c \in Live(m) \ {Root} /\ p \in Live(m) \ {c}
    BY <1>4, <1>5, <2>1, <2>2, <2>3, UnlinkedDir, SMTT(60)
  <2>5. Others(w, m, c) BY <2>4 DEF Others, Live
  <2>6. Protects(w, m) BY <1>3, <2>4
  <2>7. m.links[c] # 0 BY <2>4 DEF Live
  <2>. QED BY <1>2, <2>3, <2>4, <2>5, <2>6, <2>7 DEF Ok, Unlinked
<1>6. CASE ~IsDir(m, c)
  <2>1. PICK w : w = LinkDec(a, c) OBVIOUS
  <2>2. r = Ok(w) BY <1>4, <1>6, <2>1 DEF unlink_child, Ok, Fail, Err
  <2>3. /\ NamesInv(w) /\ Live(w) = Live(m) /\ Rest(w, m)
        /\ w.up = m.up /\ w.ent = [m.ent EXCEPT ![p][n] = <<>>]
        /\ \A i \in Inodes \ {c} : w.links[i] = m.links[i]
        /\ m.links[c] # 0
    BY <1>4, <1>6, <2>1, UnlinkedFile, SMTT(60)
  <2>4. Others(w, m, c) BY <2>3 DEF Others
  <2>5. c \notin Live(m) BY <1>6 DEF Live
  <2>6. Uncapped(w, m)
    <3>1. \A d \in Live(m) : w.links[d] = m.links[d] BY <1>0, <2>3, <2>5 DEF Live, Meta
    <3>. QED BY <3>1 DEF Uncapped
  <2>7. Protects(w, m) BY <1>3, <2>3
  <2>. QED BY <1>2, <2>2, <2>3, <2>4, <2>5, <2>6, <2>7 DEF Ok, Unlinked
<1>. QED BY <1>5, <1>6

\* A nameless inode is truncated and freed, or has only its deletion time.
LEMMA DeleteResult ==
  ASSUME NEW m, NamesInv(m), NEW i \in Inodes, m.links[i] = 0, NEW r \in Delete(m, i)
  PROVE  /\ NamesInv(r.m) /\ Live(r.m) = Live(m)
         /\ r.m.ent = m.ent /\ r.m.flag = m.flag /\ r.m.links = m.links
         /\ r.m.head = m.head /\ r.m.sb = m.sb
         /\ \A j \in Inodes \ {i} : /\ r.m.next[j] = m.next[j] /\ r.m.up[j] = m.up[j]
                                    /\ r.m.kind[j] = m.kind[j]
         /\ r.rc = "OK" => ~r.hit /\ r.m.inuse = m.inuse \ {i}
<1>0. m \in Meta BY DEF NamesInv
<1>1. PICK d : d = [m EXCEPT !.next[i] = Dead] OBVIOUS
<1>2. PICK w : w = FreeInode(d, i) OBVIOUS
<1>3. /\ NamesInv(w) /\ Live(w) = Live(m) /\ w.ent = m.ent
  BY <1>1, <1>2, Freed
<1>4. d \in Meta /\ NamesInv(d) /\ Live(d) = Live(m)
  <2>1. d \in Meta BY <1>0, <1>1 DEF Meta
  <2>2. /\ d.ent = m.ent /\ d.links = m.links /\ d.inuse = m.inuse
        /\ d.kind = m.kind /\ d.up = m.up
    BY <1>0, <1>1 DEF Meta
  <2>3. Live(d) = Live(m) BY <2>2 DEF Live, IsDir
  <2>. QED BY <2>1, <2>2, <2>3, NamesFrame
<1>5. r = Ok(w) \/ r = Fail(d) BY <1>1, <1>2 DEF Delete
<1>6. CASE r = Ok(w)
  <2>1. r.m = w /\ ~r.hit BY <1>6 DEF Ok
  <2>2. /\ w.flag = m.flag /\ w.links = m.links /\ w.head = m.head /\ w.sb = m.sb
        /\ w.inuse = m.inuse \ {i}
        /\ \A j \in Inodes \ {i} : w.next[j] = m.next[j] /\ w.up[j] = m.up[j] /\ w.kind[j] = m.kind[j]
    BY <1>0, <1>1, <1>2 DEF Meta, FreeInode
  <2>. QED BY <1>3, <2>1, <2>2
<1>7. CASE r = Fail(d)
  <2>1. r.m = d /\ r.rc # "OK" BY <1>7 DEF Fail
  <2>2. /\ d.ent = m.ent /\ d.flag = m.flag /\ d.links = m.links /\ d.head = m.head /\ d.sb = m.sb
        /\ d.kind = m.kind /\ d.up = m.up
        /\ \A j \in Inodes \ {i} : d.next[j] = m.next[j]
    BY <1>0, <1>1 DEF Meta
  <2>. QED BY <1>4, <2>1, <2>2
<1>. QED BY <1>5, <1>6, <1>7

\* The list of orphans is as it was.
ListKept(w, m) ==
  /\ Orphans(w) = Orphans(m) /\ w.head = m.head /\ w.sb = m.sb
  /\ \A i \in Orphans(m) : w.next[i] = m.next[i]

\* What comes of a call that changes names.
Good(r, m) ==
  /\ NamesInv(r.m) /\ Protects(r.m, m) /\ r.m.sb = m.sb
  /\ r.rc = "OK" => ~r.hit /\ Counted(r.m, m) /\ ListKept(r.m, m)

\* A call that leaves everything as it was.
LEMMA Unchanged ==
  ASSUME NEW m, NamesInv(m), NEW r, r.m = m, ~r.hit \/ r.rc # "OK"
  PROVE  Good(r, m)
BY DEF Good, Protects, Counted, ListKept

\* A file, a directory or a symbolic link is made.
LEMMA CreateResult ==
  ASSUME Room, Orderly, NEW m, NamesInv(m), Flagged(m), NEW p \in Inodes, NEW n \in Names,
         p \in m.inuse, m.links[p] > 0, NEW k \in Kinds, NEW target \in BOOLEAN,
         target => k = "file", NEW c \in Inodes \ m.inuse,
         NEW r \in create_common(m, p, n, k, target, c)
  PROVE  Good(r, m)
<1>1. CASE r.m = m /\ r.rc # "OK" BY <1>1, Unchanged
<1>2. CASE ~(r.m = m /\ r.rc # "OK")
  <2>0. /\ m \in Meta /\ m.links \in [Inodes -> Nat]
        /\ ~is_immutable(m, p) /\ IsDir(m, p) /\ Find(m, p, n) = None
    <3>1. \A x : r # Err(m, x) \/ x = "OK" BY <1>2 DEF Err
    <3>2. m \in Meta /\ m.links \in [Inodes -> Nat] BY DEF NamesInv, Meta
    <3>. QED BY <3>1, <3>2 DEF create_common
  <2>1. p \in Live(m) BY <2>0 DEF Live
  <2>15. PICK child : child = Fresh(m, c, k) OBVIOUS
  <2>2. PICK q \in link_child(child, p, c, n, FALSE) :
          r \in IF q.rc # "OK" THEN {[q EXCEPT !.m = FreeInode(q.m, c)]}
                ELSE IF target THEN SymlinkPayload(q.m, p, c, n) ELSE {q}
    <3>1. r # Fail(m) BY <1>2 DEF Fail
    <3>. QED BY <2>0, <2>15, <3>1 DEF create_common, Fresh
  <2>3. NamesInv(child) /\ Live(child) = Live(m) /\ child.ent = m.ent
    BY <2>15, Allocated
  <2>4. /\ child.inuse = m.inuse \cup {c} /\ child.head = m.head /\ child.sb = m.sb
        /\ child.kind[c] = k /\ child.links[c] = 0
        /\ \A i \in Inodes \ {c} : child.links[i] = m.links[i] /\ child.next[i] = m.next[i]
                                   /\ child.up[i] = m.up[i]
    BY <2>0, <2>15 DEF Meta, Fresh
  <2>5. child.flag = m.flag
    <3>1. NamesOf(m, c) = {} BY Nameless
    <3>2. m.flag[c] = "none" BY <3>1 DEF Flagged, Protected
    <3>. QED BY <2>0, <2>15, <3>2 DEF Meta, Fresh
  <2>6. Live(m) \subseteq m.inuse /\ m.inuse \subseteq Inodes BY <2>0 DEF Live, Meta
  <2>7. \A i : NamesOf(child, i) = NamesOf(m, i) BY <2>3 DEF NamesOf
  <2>8. Protects(child, m) BY <2>3, <2>5, <2>7 DEF Protects
  <2>9. Find(child, p, n) = None BY <2>0, <2>3 DEF Find
  <2>10. ~is_immutable(child, p) BY <2>0, <2>5 DEF is_immutable
  <2>11. \/ q = Fail(child)
         \/ /\ q.rc = "OK" /\ ~q.hit
            /\ NamesInv(q.m) /\ Rest(q.m, child) /\ Counted(q.m, child) /\ Protects(q.m, child)
            /\ Others(q.m, child, c) /\ q.m.links[c] # 0
            /\ Find(q.m, p, n) = c /\ p \in Live(q.m)
            /\ q.m.ent = [child.ent EXCEPT ![p][n] = <<c>>]
    <3>1. c \in child.inuse /\ p \in Live(child) /\ child.links[c] = 0 BY <2>1, <2>3, <2>4
    <3>2. q = Fail(child) \/ Linked(q, child, p, n, c)
      BY <2>3, <2>9, <2>10, <3>1, LinkResult
    <3>. QED BY <3>2 DEF Linked
  <2>12. ASSUME NEW w, NamesInv(w), w.ent = m.ent, w.flag = m.flag, w.sb = m.sb, r.m = w, r.rc # "OK"
         PROVE  Good(r, m)
    <3>1. \A i : NamesOf(w, i) = NamesOf(m, i) BY <2>12 DEF NamesOf
    <3>2. Protects(w, m) BY <2>12, <3>1 DEF Protects
    <3>. QED BY <2>12, <3>2 DEF Good
  <2>13. CASE q = Fail(child)
    <3>1. r.m = FreeInode(child, c) /\ r.rc # "OK" BY <2>2, <2>13 DEF Fail
    <3>2. PICK w : w = FreeInode(child, c) OBVIOUS
    <3>3. child \in Meta BY <2>3 DEF NamesInv
    <3>4. NamesInv(w) /\ w.ent = m.ent
      <4>1. child = [child EXCEPT !.next[c] = child.next[c]] BY <3>3 DEF Meta
      <4>2. child.next[c] \in Inodes \cup {None, Dead} BY <3>3 DEF Meta
      <4>. QED BY <3>2, <4>1, <4>2, <2>3, <2>4, Freed
    <3>5. w.flag = m.flag /\ w.sb = m.sb BY <2>4, <2>5, <3>2, <3>3 DEF FreeInode, Meta
    <3>. QED BY <3>1, <3>2, <3>4, <3>5, <2>12
  <2>14. CASE q # Fail(child)
    <3>1. Protects(q.m, m) BY <2>8, <2>11, <2>14, ProtectsTwice
    <3>2. /\ q.m.inuse = m.inuse \cup {c} /\ q.m.kind = child.kind /\ q.m.next = child.next
          /\ q.m.flag = m.flag /\ q.m.head = m.head /\ q.m.sb = m.sb
      BY <2>4, <2>5, <2>11, <2>14 DEF Rest
    <3>3. ListKept(q.m, m)
      <4>1. Orphans(q.m) = Orphans(m)
        BY <2>4, <2>6, <2>11, <2>14, <3>2 DEF Orphans, Others
      <4>2. Orphans(m) \subseteq Inodes \ {c} BY <2>6 DEF Orphans
      <4>. QED BY <2>4, <3>2, <4>1, <4>2 DEF ListKept
    <3>4. Counted(q.m, m)
      <4>1. \A d \in Live(m) : child.links[d] = m.links[d] BY <2>4, <2>6
      <4>. QED BY <2>3, <2>11, <2>14, <4>1 DEF Counted
    <3>5. Good(q, m) BY <2>11, <2>14, <3>1, <3>2, <3>3, <3>4 DEF Good
    <3>6. CASE r = q BY <3>5, <3>6
    <3>7. CASE r # q
      <4>1. target /\ r \in SymlinkPayload(q.m, p, c, n) BY <2>2, <2>11, <2>14, <3>7
      <4>2. CASE r = Ok(q.m)
        <5>1. r.rc = "OK" /\ r.m = q.m /\ ~r.hit BY <4>2 DEF Ok
        <5>. QED BY <5>1, <3>5, <2>11, <2>14 DEF Good
      <4>3. CASE r # Ok(q.m)
        <5>1. PICK a : a = DropEntry(q.m, p, n) OBVIOUS
        <5>2. PICK b : b = LinkDec(a, c) OBVIOUS
        <5>3. PICK w : w = FreeInode([b EXCEPT !.next[c] = Dead], c) OBVIOUS
        <5>4. r = Fail(w) BY <4>1, <4>3, <5>1, <5>2, <5>3 DEF SymlinkPayload
        <5>5. ~IsDir(q.m, c) BY <2>4, <3>2, <4>1 DEF IsDir
        <5>6. /\ NamesInv(b) /\ Rest(b, q.m)
              /\ b.ent = [q.m.ent EXCEPT ![p][n] = <<>>]
          BY <5>1, <5>2, <5>5, <2>11, <2>14, UnlinkedFile, SMTT(60)
        <5>7. b.ent = m.ent
          <6>1. m.ent[p][n] = <<>> BY <2>0, NamesAre DEF NamesInv
          <6>. QED BY <2>0, <2>3, <2>11, <2>14, <5>6, <6>1 DEF Meta
        <5>8. b.links[c] = 0
          <6>1. NamesOf(b, c) = NamesOf(m, c) BY <5>7 DEF NamesOf
          <6>2. NamesOf(b, c) = {} BY <6>1, Nameless
          <6>3. c \in b.inuse /\ ~IsDir(b, c) BY <3>2, <5>5, <5>6 DEF Rest, IsDir
          <6>. QED BY <5>6, <6>2, <6>3, FS_EmptySet DEF NamesInv, Links, Live
        <5>9. b \in Meta BY <5>6 DEF NamesInv
        <5>10. NamesInv(w) /\ w.ent = b.ent BY <5>3, <5>6, <5>8, Freed
        <5>11. w.flag = b.flag /\ w.sb = b.sb BY <5>3, <5>9 DEF Meta, FreeInode
        <5>12. w.ent = m.ent /\ w.flag = m.flag /\ w.sb = m.sb
          BY <3>2, <5>6, <5>7, <5>10, <5>11 DEF Rest
        <5>13. r.m = w /\ r.rc # "OK" BY <5>4 DEF Fail
        <5>. QED BY <5>10, <5>12, <5>13, <2>12
      <4>. QED BY <4>2, <4>3
    <3>. QED BY <3>6, <3>7
  <2>. QED BY <2>13, <2>14
<1>. QED BY <1>1, <1>2

\* A file gets one more name.
LEMMA HardlinkResult ==
  ASSUME Room, Orderly, NEW m, NamesInv(m), NEW p \in Inodes, NEW n \in Names,
         p \in m.inuse, m.links[p] > 0, IsDir(m, p), NEW c \in m.inuse, m.links[c] > 0,
         NEW r \in hardlink(m, p, n, c)
  PROVE  Good(r, m)
<1>1. CASE r.m = m /\ r.rc # "OK" BY <1>1, Unchanged
<1>2. CASE ~(r.m = m /\ r.rc # "OK")
  <2>0. m \in Meta /\ m.links \in [Inodes -> Nat] /\ m.inuse \subseteq Inodes
    BY DEF NamesInv, Meta
  <2>1. /\ ~is_immutable(m, p) /\ ~IsDir(m, c) /\ Find(m, p, n) = None
        /\ r \in link_child(m, p, c, n, FALSE)
    <3>1. \A x : r # Err(m, x) \/ x = "OK" BY <1>2 DEF Err
    <3>. QED BY <3>1 DEF hardlink
  <2>2. p \in Live(m) BY <2>0 DEF Live
  <2>3. r # Fail(m) BY <1>2 DEF Fail
  <2>4. /\ r.rc = "OK" /\ ~r.hit
        /\ NamesInv(r.m) /\ Rest(r.m, m) /\ Counted(r.m, m) /\ Protects(r.m, m)
        /\ Others(r.m, m, c) /\ r.m.links[c] # 0
    <3>1. Linked(r, m, p, n, c) BY <2>1, <2>2, <2>3, LinkResult
    <3>. QED BY <3>1 DEF Linked
  <2>5. ListKept(r.m, m) BY <2>0, <2>4 DEF ListKept, Orphans, Others, Rest
  <2>. QED BY <2>4, <2>5 DEF Good, Rest
<1>. QED BY <1>1, <1>2

\* What taking v out of the way of c does.
Replaced(r, m, sp, sn, c, dp, dn, v) ==
  /\ r.rc = "OK" /\ ~r.hit
  /\ NamesInv(r.m) /\ Uncapped(r.m, m) /\ ListKept(r.m, m) /\ Protects(r.m, m)
  /\ Find(r.m, sp, sn) = c /\ Find(r.m, dp, dn) = None
  /\ IsDir(r.m, c) <=> IsDir(m, c)
  /\ Live(r.m) \subseteq Live(m) /\ Live(m) \ {v} \subseteq Live(r.m) /\ dp \in Live(r.m)
  /\ \A d \in Live(r.m) : r.m.up[d] = m.up[d]

\* What rename finds under the destination is unlinked and freed.
LEMMA ReplaceResult ==
  ASSUME NEW m, NamesInv(m), NEW sp \in Inodes, NEW sn \in Names, NEW c \in Inodes,
         Find(m, sp, sn) = c, NEW dp, dp \in Live(m), NEW dn \in Names,
         Find(m, dp, dn) # c, NEW r, r \in Replace(m, sp, c, dp, dn)
  PROVE  \/ r.rc # "OK" /\ NamesInv(r.m) /\ Protects(r.m, m) /\ r.m.sb = m.sb
         \/ Replaced(r, m, sp, sn, c, dp, dn, Find(m, dp, dn))
<1>0. /\ m \in Meta /\ Slots(m) /\ dp \in Inodes /\ c # None
      /\ Live(m) \subseteq m.inuse /\ m.inuse \subseteq Inodes /\ m.links \in [Inodes -> Nat]
  BY NamespaceAssumption DEF NamesInv, Live, Meta
<1>1. PICK v : v = Find(m, dp, dn) OBVIOUS
<1>2. Protects(m, m) BY DEF Protects
<1>3. CASE v = None
  <2>1. r = Ok(m) BY <1>1, <1>3 DEF Replace
  <2>2. ListKept(m, m) /\ Uncapped(m, m) BY DEF ListKept, Uncapped
  <2>. QED BY <1>1, <1>2, <1>3, <2>1, <2>2 DEF Ok, Replaced
<1>4. CASE v # None
  <2>0. v \in Inodes \ {c} BY <1>0, <1>1, <1>4, NamesAre
  <2>1. CASE r.m = m /\ r.rc # "OK" BY <2>1, <1>2
  <2>2. CASE ~(r.m = m /\ r.rc # "OK")
    <3>1. ~unlink_forbidden(m, dp, v)
          /\ \E q \in unlink_child(m, dp, v, dn) :
               r \in IF q.rc = "OK" THEN IF q.m.links[v] = 0 THEN Delete(q.m, v) ELSE {Ok(q.m)}
                     ELSE {q}
      <4>1. \A x : r # Err(m, x) \/ x = "OK" BY <2>2 DEF Err
      <4>. QED BY <4>1, <1>1, <1>4, <2>0 DEF Replace, Then
    <3>2. PICK q \in unlink_child(m, dp, v, dn) :
            r \in IF q.rc = "OK" THEN IF q.m.links[v] = 0 THEN Delete(q.m, v) ELSE {Ok(q.m)}
                  ELSE {q}
      BY <3>1
    <3>3. /\ q.rc = "OK" /\ ~q.hit
          /\ NamesInv(q.m) /\ Rest(q.m, m) /\ Uncapped(q.m, m) /\ Protects(q.m, m)
          /\ Others(q.m, m, v) /\ q.m.up = m.up /\ Live(m) \ {v} \subseteq Live(q.m)
          /\ Live(q.m) \subseteq Live(m) /\ dp \in Live(q.m) \ {v}
          /\ m.links[v] # 0 /\ v \in m.inuse
          /\ q.m.ent = [m.ent EXCEPT ![dp][dn] = <<>>]
      <4>1. ~(q.rc # "OK" /\ q.m = m) BY <2>2, <3>2
      <4>2. Unlinked(q, m, dp, dn, v) BY <1>0, <1>1, <2>0, <3>1, <4>1, UnlinkResult
      <4>. QED BY <4>2 DEF Unlinked
    <3>8. PICK x : x = q.m OBVIOUS
    <3>9. /\ NamesInv(x) /\ Rest(x, m) /\ Uncapped(x, m) /\ Protects(x, m)
          /\ Others(x, m, v) /\ x.up = m.up /\ Live(m) \ {v} \subseteq Live(x)
          /\ Live(x) \subseteq Live(m) /\ dp \in Live(x) \ {v}
          /\ m.links[v] # 0 /\ v \in m.inuse /\ x.ent = [m.ent EXCEPT ![dp][dn] = <<>>]
          /\ r \in IF x.links[v] = 0 THEN Delete(x, v) ELSE {Ok(x)}
      BY <3>2, <3>3, <3>8
    <3>4. /\ x.inuse = m.inuse /\ x.kind = m.kind /\ x.next = m.next /\ x.flag = m.flag
          /\ x.head = m.head /\ x.sb = m.sb
      BY <3>9 DEF Rest
    <3>5. Find(x, sp, sn) = c /\ Find(x, dp, dn) = None
      <4>1. x.ent = [m.ent EXCEPT ![dp][dn] = IF None = None THEN <<>> ELSE <<None>>] BY <3>9
      <4>2. x \in Meta BY <3>9 DEF NamesInv
      <4>3. ~(sp = dp /\ sn = dn) BY <1>1, <2>0
      <4>4. \A d \in Inodes, y \in Names :
              Find(x, d, y) = IF d = dp /\ y = dn THEN None ELSE Find(m, d, y)
        BY <1>0, <4>1, <4>2, EntryChange, SMTT(60)
      <4>. QED BY <1>0, <4>3, <4>4
    <3>6. CASE x.links[v] # 0
      <4>1. r = Ok(x) BY <3>9, <3>6
      <4>2. Orphans(x) = Orphans(m) BY <1>0, <3>9, <3>4, <3>6 DEF Orphans, Others
      <4>3. ListKept(x, m) BY <3>4, <4>2 DEF ListKept
      <4>4. IsDir(x, c) <=> IsDir(m, c) BY <3>4 DEF IsDir
      <4>. QED BY <1>1, <3>9, <3>5, <4>1, <4>3, <4>4 DEF Ok, Replaced
    <3>7. CASE x.links[v] = 0
      <4>1. r \in Delete(x, v) BY <3>9, <3>7
      <4>2. /\ NamesInv(r.m) /\ Live(r.m) = Live(x)
            /\ r.m.ent = x.ent /\ r.m.flag = x.flag /\ r.m.links = x.links
            /\ r.m.head = x.head /\ r.m.sb = x.sb
            /\ \A j \in Inodes \ {v} : /\ r.m.next[j] = x.next[j] /\ r.m.up[j] = x.up[j]
                                       /\ r.m.kind[j] = x.kind[j]
            /\ r.rc = "OK" => ~r.hit /\ r.m.inuse = x.inuse \ {v}
        BY <2>0, <3>9, <3>7, <4>1, DeleteResult, SMTT(60)
      <4>3. Protects(r.m, m)
        <5>1. \A i : NamesOf(r.m, i) = NamesOf(x, i) BY <4>2 DEF NamesOf
        <5>2. Protects(r.m, x) BY <4>2, <5>1 DEF Protects
        <5>. QED BY <3>9, <5>2, ProtectsTwice
      <4>4. CASE r.rc # "OK" BY <3>4, <4>2, <4>3, <4>4
      <4>5. CASE r.rc = "OK"
        <5>1. Orphans(r.m) = Orphans(m)
          BY <1>0, <3>9, <3>4, <3>7, <4>2, <4>5 DEF Orphans, Others
        <5>2. Orphans(m) \subseteq Inodes \ {v} BY <1>0, <3>9 DEF Orphans
        <5>3. ListKept(r.m, m) BY <3>4, <4>2, <5>1, <5>2 DEF ListKept
        <5>4. IsDir(r.m, c) <=> IsDir(m, c) BY <2>0, <3>4, <4>2 DEF IsDir
        <5>5. Find(r.m, sp, sn) = c /\ Find(r.m, dp, dn) = None BY <3>5, <4>2 DEF Find
        <5>6. v \notin Live(x) BY <3>7 DEF Live
        <5>7. \A d \in Live(r.m) : r.m.up[d] = m.up[d]
          <6>1. Live(x) \subseteq Inodes \ {v} BY <1>0, <3>9, <5>6
          <6>. QED BY <3>9, <4>2, <6>1
        <5>8. Uncapped(r.m, m) BY <3>9, <4>2 DEF Uncapped
        <5>. QED BY <1>1, <3>9, <4>2, <4>3, <4>5, <5>3, <5>4, <5>5, <5>7, <5>8 DEF Replaced
      <4>. QED BY <4>4, <4>5
    <3>. QED BY <3>6, <3>7
  <2>. QED BY <2>1, <2>2
<1>. QED BY <1>3, <1>4

\* A name is moved from a directory that may lose it to one that may gain it.
LEMMA ProtectsMove ==
  ASSUME NEW m, m \in Meta, Slots(m), NEW w, w \in Meta, w.flag = m.flag,
         NEW sp \in Inodes, NEW sn \in Names, NEW dp \in Inodes, NEW dn \in Names,
         NEW c \in Inodes, Find(m, sp, sn) = c, Find(m, dp, dn) = None,
         w.ent = [m.ent EXCEPT ![dp][dn] = <<c>>, ![sp][sn] = <<>>],
         ~is_immutable(m, dp), ~unlink_forbidden(m, sp, c)
  PROVE  Protects(w, m)
<1>0. c # None /\ ~(sp = dp /\ sn = dn) BY NamespaceAssumption
<1>1. PICK a : a = AddEntry(m, dp, dn, c) OBVIOUS
<1>2. a \in Meta /\ a.flag = m.flag /\ a.ent = [m.ent EXCEPT ![dp][dn] = <<c>>]
  <2>1. a \in Meta /\ a = [m EXCEPT !.ent = [m.ent EXCEPT ![dp][dn] = <<c>>]]
    BY <1>1, AddsEntry
  <2>. QED BY <2>1 DEF Meta
<1>3. /\ Slots(a)
      /\ \A d \in Inodes, x \in Names : Find(a, d, x) = IF d = dp /\ x = dn THEN c ELSE Find(m, d, x)
  <2>1. a.ent = [m.ent EXCEPT ![dp][dn] = IF c = None THEN <<>> ELSE <<c>>] BY <1>0, <1>2
  <2>2. a \in Meta BY <1>2
  <2>. QED BY <2>1, <2>2, EntryChange
<1>4. Protects(a, m)
  <2>1. a.ent = [m.ent EXCEPT ![dp][dn] = IF c = None THEN <<>> ELSE <<c>>] BY <1>0, <1>2
  <2>2. a \in Meta /\ a.flag = m.flag BY <1>2
  <2>. QED BY <2>1, <2>2, ProtectsEntry
<1>5. Protects(w, a)
  <2>1. w.ent = [a.ent EXCEPT ![sp][sn] = IF None = None THEN <<>> ELSE <<None>>] BY <1>2
  <2>2. a \in Meta /\ w.flag = a.flag BY <1>2
  <2>3. Find(a, sp, sn) = c BY <1>0, <1>3
  <2>4. ~is_immutable(a, sp) /\ ~Protected(a, sp) /\ ~Protected(a, Find(a, sp, sn))
    BY <1>2, <2>3 DEF unlink_forbidden, Protected, is_immutable
  <2>. QED BY <1>3, <2>1, <2>2, <2>4, ProtectsEntry
<1>. QED BY <1>4, <1>5, ProtectsTwice

\* What moving c does once nothing is in its way.
Moved(r, m) ==
  /\ r.rc = "OK" /\ ~r.hit
  /\ NamesInv(r.m) /\ Live(r.m) = Live(m) /\ Counted(r.m, m) /\ ListKept(r.m, m)
  /\ Protects(r.m, m)

\* The name is given under the new place and taken from the old.
LEMMA MoveResult ==
  ASSUME Room, Orderly, NEW m, NamesInv(m), NEW sp \in Inodes, NEW sn \in Names,
         NEW dp, dp \in Live(m), NEW dn \in Names, NEW c \in Inodes,
         Find(m, sp, sn) = c, Find(m, dp, dn) = None,
         ~is_immutable(m, dp), ~unlink_forbidden(m, sp, c),
         IsDir(m, c) => sp # dp /\ \E A : Above(m, A) /\ dp \in A /\ c \notin A,
         NEW r, r \in Move(m, sp, sn, dp, dn, c)
  PROVE  (r.rc # "OK" /\ r.m = m) \/ Moved(r, m)
<1>. SUFFICES ASSUME ~(r.rc # "OK" /\ r.m = m) PROVE Moved(r, m) OBVIOUS
<1>0. /\ m \in Meta /\ Slots(m) /\ dp \in Inodes
      /\ Live(m) \subseteq m.inuse /\ m.inuse \subseteq Inodes
  BY DEF NamesInv, Live, Meta
<1>1. PICK a : a = AddEntry(m, dp, dn, c) OBVIOUS
<1>2. ASSUME NEW w, NamesInv(w), Rest(w, m),
             w.ent = [m.ent EXCEPT ![dp][dn] = <<c>>, ![sp][sn] = <<>>]
      PROVE  Protects(w, m)
  <2>1. w \in Meta /\ w.flag = m.flag BY <1>2 DEF NamesInv, Rest
  <2>. QED BY <1>0, <1>2, <2>1, ProtectsMove
<1>3. ASSUME NEW w, Rest(w, m), \A i \in Inodes : w.links[i] = 0 <=> m.links[i] = 0
      PROVE  ListKept(w, m)
  BY <1>0, <1>3 DEF ListKept, Orphans, Rest
<1>4. CASE IsDir(m, c)
  <2>1. PICK b : b = WithUp(a, c, dp) OBVIOUS
  <2>2. PICK e : e = LinkInc(b, dp) OBVIOUS
  <2>3. PICK y : y = DropEntry(e, sp, sn) OBVIOUS
  <2>4. PICK w : w = LinkDec(y, sp) OBVIOUS
  <2>5. PICK A : Above(m, A) /\ dp \in A /\ c \notin A BY <1>4
  <2>6. /\ NamesInv(w) /\ Live(w) = Live(m) /\ Rest(w, m) /\ Counted(w, m)
        /\ w.ent = [m.ent EXCEPT ![dp][dn] = <<c>>, ![sp][sn] = <<>>]
        /\ \A i \in Inodes \ {sp, dp} : w.links[i] = m.links[i]
        /\ w.links[sp] # 0 /\ w.links[dp] # 0 /\ sp \in Live(m) /\ y.kind = m.kind
    <3>1. dp # sp BY <1>4
    <3>2. MovedTo(w, y, m, sp, sn, dp, dn, c)
      BY <1>1, <1>4, <2>1, <2>2, <2>3, <2>4, <2>5, <3>1, MovedDir
    <3>. QED BY <3>2 DEF MovedTo
  <2>7. r = Ok(w)
    <3>1. \A q \in link_child(m, dp, c, dn, TRUE) : q = Fail(m) \/ q = Ok(e)
      BY <1>1, <1>4, <2>1, <2>2 DEF link_child, WithUp, Orderly
    <3>2. r # Fail(m) BY DEF Fail
    <3>3. IsDir(y, c) /\ sp # dp BY <1>4, <2>6 DEF IsDir
    <3>4. Windows \cap {"halfrename"} = {} BY DEF Orderly
    <3>5. e = Ok(e).m /\ Ok(e).rc = "OK" /\ Fail(m).rc # "OK" BY DEF Ok, Fail
    <3>6. \E q \in link_child(m, dp, c, dn, TRUE) :
            r \in IF q.rc = "OK" THEN {Ok(IF IsDir(DropEntry(q.m, sp, sn), c) /\ sp # dp
                                         THEN LinkDec(DropEntry(q.m, sp, sn), sp)
                                         ELSE DropEntry(q.m, sp, sn))}
                 ELSE {q}
      BY <3>4 DEF Move, Then
    <3>. QED BY <2>3, <2>4, <3>1, <3>2, <3>3, <3>5, <3>6
  <2>8. \A i \in Inodes : w.links[i] = 0 <=> m.links[i] = 0 BY <2>6 DEF Live
  <2>9. Protects(w, m) /\ ListKept(w, m) BY <1>2, <1>3, <2>6, <2>8
  <2>. QED BY <2>6, <2>7, <2>9 DEF Ok, Moved
<1>5. CASE ~IsDir(m, c)
  <2>1. PICK w : w = DropEntry(a, sp, sn) OBVIOUS
  <2>2. /\ NamesInv(w) /\ Live(w) = Live(m) /\ Rest(w, m)
        /\ w.up = m.up /\ w.ent = [m.ent EXCEPT ![dp][dn] = <<c>>, ![sp][sn] = <<>>]
        /\ w.links = m.links
    BY <1>1, <1>5, <2>1, MovedFile, SMTT(60)
  <2>3. r = Ok(w)
    <3>1. \A q \in link_child(m, dp, c, dn, TRUE) : q = Fail(m) \/ q = Ok(a)
      BY <1>1, <1>5 DEF link_child
    <3>2. r # Fail(m) BY DEF Fail
    <3>3. ~IsDir(w, c) BY <1>5, <2>2 DEF IsDir, Rest
    <3>4. Windows \cap {"halfrename"} = {} BY DEF Orderly
    <3>5. a = Ok(a).m /\ Ok(a).rc = "OK" /\ Fail(m).rc # "OK" BY DEF Ok, Fail
    <3>6. \E q \in link_child(m, dp, c, dn, TRUE) :
            r \in IF q.rc = "OK" THEN {Ok(IF IsDir(DropEntry(q.m, sp, sn), c) /\ sp # dp
                                         THEN LinkDec(DropEntry(q.m, sp, sn), sp)
                                         ELSE DropEntry(q.m, sp, sn))}
                 ELSE {q}
      BY <3>4 DEF Move, Then
    <3>. QED BY <2>1, <3>1, <3>2, <3>3, <3>5, <3>6
  <2>4. Protects(w, m) /\ ListKept(w, m) BY <1>2, <1>3, <2>2
  <2>5. Counted(w, m) BY <2>2 DEF Counted
  <2>. QED BY <2>2, <2>3, <2>4, <2>5 DEF Ok, Moved
<1>. QED BY <1>4, <1>5

\* A name is changed, within a directory or between two.
LEMMA RenameResult ==
  ASSUME Room, Orderly, NEW m, NamesInv(m), NEW sp \in m.inuse, NEW sn \in Names,
         NEW dp \in m.inuse, NEW dn \in Names, m.links[dp] > 0, IsDir(m, dp),
         Find(m, sp, sn) # None =>
           ~(sp = dp /\ IsDir(m, Find(m, sp, sn))) /\ Find(m, sp, sn) # Find(m, dp, dn),
         NEW r, r \in rename(m, sp, sn, dp, dn)
  PROVE  Good(r, m)
<1>1. CASE r.m = m /\ r.rc # "OK" BY <1>1, Unchanged
<1>2. CASE ~(r.m = m /\ r.rc # "OK")
  <2>0. /\ m \in Meta /\ Slots(m) /\ m.links \in [Inodes -> Nat] /\ m.inuse \subseteq Inodes
        /\ Live(m) \subseteq m.inuse
    BY DEF NamesInv, Meta, Live
  <2>1. dp \in Live(m) BY <2>0 DEF Live
  <2>2. PICK c : c = Find(m, sp, sn) OBVIOUS
  <2>3. PICK v : v = Find(m, dp, dn) OBVIOUS
  <2>4. /\ c # None /\ ~unlink_forbidden(m, sp, c) /\ ~is_immutable(m, dp)
        /\ ~(IsDir(m, c) /\ dp # sp /\ Meets(m, dp, c))
        /\ \E q \in Replace(m, sp, c, dp, dn) :
             r \in IF q.rc = "OK" THEN Move(q.m, sp, sn, dp, dn, c) ELSE {q}
    <3>1. \A x : r # Err(m, x) \/ x = "OK" BY <1>2 DEF Err
    <3>. QED BY <2>2, <3>1 DEF rename, Then
  <2>5. c \in Inodes /\ c # v /\ ~(sp = dp /\ IsDir(m, c))
    BY <2>0, <2>2, <2>3, <2>4, NamesAre
  <2>6. PICK q \in Replace(m, sp, c, dp, dn) :
          r \in IF q.rc = "OK" THEN Move(q.m, sp, sn, dp, dn, c) ELSE {q}
    BY <2>4
  <2>7. \/ q.rc # "OK" /\ NamesInv(q.m) /\ Protects(q.m, m) /\ q.m.sb = m.sb
        \/ Replaced(q, m, sp, sn, c, dp, dn, v)
    BY <2>0, <2>1, <2>2, <2>3, <2>5, ReplaceResult
  <2>8. CASE q.rc # "OK"
    <3>1. r = q BY <2>6, <2>8
    <3>. QED BY <2>7, <2>8, <3>1 DEF Replaced, Good
  <2>9. CASE q.rc = "OK"
    <3>1. PICK x : x = q.m OBVIOUS
    <3>2. /\ NamesInv(x) /\ Uncapped(x, m) /\ ListKept(x, m) /\ Protects(x, m)
          /\ Find(x, sp, sn) = c /\ Find(x, dp, dn) = None
          /\ IsDir(x, c) <=> IsDir(m, c)
          /\ Live(x) \subseteq Live(m) /\ Live(m) \ {v} \subseteq Live(x) /\ dp \in Live(x)
          /\ \A d \in Live(x) : x.up[d] = m.up[d]
      BY <2>7, <2>9, <3>1 DEF Replaced
    <3>3. r \in Move(x, sp, sn, dp, dn, c) BY <2>6, <2>9, <3>1
    <3>4. ~is_immutable(x, dp) /\ ~unlink_forbidden(x, sp, c)
      BY <2>4, <3>2 DEF Protects, is_immutable, unlink_forbidden, Protected
    <3>5. IsDir(x, c) => sp # dp /\ \E A : Above(x, A) /\ dp \in A /\ c \notin A
      <4>. SUFFICES ASSUME IsDir(x, c)
                    PROVE  sp # dp /\ \E A : Above(x, A) /\ dp \in A /\ c \notin A
        OBVIOUS
      <4>1. sp # dp /\ ~Meets(m, dp, c) BY <2>4, <2>5, <3>2
      <4>2. PICK A : dp \in A /\ c \notin A /\ Above(m, A)
        BY <2>1, <2>5, <4>1, ClimbAbove
      <4>3. Above(x, A \cap Live(x))
        <5>1. \A d \in Live(x) \ {Root} : x.up[d] \in Live(x) BY <3>2 DEF NamesInv, Homes
        <5>. QED BY <3>2, <4>2, <5>1 DEF Above
      <4>. QED BY <3>2, <4>1, <4>2, <4>3
    <3>6. (r.rc # "OK" /\ r.m = x) \/ Moved(r, x)
      BY <2>0, <2>5, <3>2, <3>3, <3>4, <3>5, MoveResult
    <3>7. CASE r.rc # "OK" /\ r.m = x BY <3>2, <3>7 DEF Good, ListKept
    <3>8. CASE Moved(r, x)
      <4>1. Protects(r.m, m) BY <3>2, <3>8, ProtectsTwice DEF Moved
      <4>2. ListKept(r.m, m) BY <3>2, <3>8 DEF Moved, ListKept
      <4>3. Counted(r.m, m)
        <5>. SUFFICES ASSUME NEW d \in Live(m) \cap Live(r.m), r.m.links[d] = 1, m.links[d] > 1
                      PROVE  2 + Cardinality(Subdirs(r.m, d)) >= LinkMax
          BY DEF Counted
        <5>1. d \in Live(x) /\ d \in Inodes BY <2>0, <3>8 DEF Moved
        <5>2. x.links[d] # 1 BY <3>2, <5>1, <2>0 DEF Uncapped
        <5>3. x.links[d] # 0 BY <5>1 DEF Live
        <5>4. x.links[d] \in Nat BY <3>2, <5>1 DEF NamesInv, Meta
        <5>5. x.links[d] > 1 BY <5>2, <5>3, <5>4
        <5>. QED BY <3>8, <5>1, <5>5 DEF Moved, Counted
      <4>. QED BY <3>8, <4>1, <4>2, <4>3 DEF Good, Moved, ListKept
    <3>. QED BY <3>6, <3>7, <3>8
  <2>. QED BY <2>8, <2>9
<1>. QED BY <1>1, <1>2

\* The list pointers of an inode and the heads say nothing about names.
LEMMA ListFrame ==
  ASSUME NEW m, NamesInv(m), NEW w, w \in Meta,
         w.ent = m.ent, w.links = m.links, w.inuse = m.inuse,
         w.kind = m.kind, w.up = m.up, w.flag = m.flag
  PROVE  NamesInv(w) /\ Live(w) = Live(m) /\ Protects(w, m) /\ Orphans(w) = Orphans(m)
         /\ Counted(w, m) /\ Uncapped(w, m)
<1>1. NamesInv(w) BY NamesFrame
<1>2. Live(w) = Live(m) BY DEF Live, IsDir
<1>3. \A i : NamesOf(w, i) = NamesOf(m, i) BY DEF NamesOf
<1>4. Protects(w, m) BY <1>3 DEF Protects
<1>5. Orphans(w) = Orphans(m) BY DEF Orphans
<1>6. Counted(w, m) /\ Uncapped(w, m) BY <1>2 DEF Counted, Uncapped
<1>. QED BY <1>1, <1>2, <1>4, <1>5, <1>6

\* An inode that has lost its last name is put at the head of the list.
Joined(r, m, c) ==
  /\ r.rc = "OK" /\ ~r.hit /\ NamesInv(r.m) /\ Protects(r.m, m) /\ Counted(r.m, m)
  /\ c \in Inodes \ Orphans(m) /\ Orphans(r.m) = Orphans(m) \cup {c}
  /\ r.m.sb = c /\ r.m.head = c /\ r.m.next[c] = m.sb
  /\ \A i \in Orphans(m) : r.m.next[i] = m.next[i]

\* The new head could not be written.
Unheaded(r, m) == r.rc = "OK" /\ r.hit /\ NamesInv(r.m) /\ Protects(r.m, m) /\ r.m.sb = m.sb

\* A name is removed; the list is kept, gets a new head, or fails to.
LEMMA UnlinkExResult ==
  ASSUME NEW m, NamesInv(m), NEW p \in m.inuse, NEW n \in Names, NEW defer \in BOOLEAN,
         NEW r, r \in unlink_ex(m, p, n, defer)
  PROVE  \/ Good(r, m)
         \/ Joined(r, m, Find(m, p, n)) /\ defer
         \/ Unheaded(r, m)
<1>1. CASE r.m = m /\ r.rc # "OK" BY <1>1, Unchanged
<1>2. CASE ~(r.m = m /\ r.rc # "OK")
  <2>0. /\ m \in Meta /\ Slots(m) /\ m.links \in [Inodes -> Nat] /\ m.inuse \subseteq Inodes
        /\ Live(m) \subseteq m.inuse /\ p \in Inodes
    BY DEF NamesInv, Meta, Live
  <2>1. PICK c : c = Find(m, p, n) OBVIOUS
  <2>2. /\ c # None /\ ~unlink_forbidden(m, p, c)
        /\ \E q \in unlink_child(m, p, c, n) :
             r \in IF q.rc # "OK" THEN {q}
                   ELSE IF q.m.links[c] # 0 THEN {Ok(q.m)}
                   ELSE IF defer
                   THEN {Ok(orphan_publish_head([q.m EXCEPT !.next[c] = m.sb], c)),
                         [Ok([q.m EXCEPT !.next[c] = m.sb]) EXCEPT !.hit = TRUE]}
                   ELSE Delete(q.m, c)
    <3>1. \A x : r # Err(m, x) \/ x = "OK" BY <1>2 DEF Err
    <3>. QED BY <2>1, <3>1 DEF unlink_ex, Then
  <2>3. c \in Inodes BY <2>0, <2>1, <2>2, NamesAre
  <2>4. PICK q \in unlink_child(m, p, c, n) :
          r \in IF q.rc # "OK" THEN {q}
                ELSE IF q.m.links[c] # 0 THEN {Ok(q.m)}
                ELSE IF defer
                THEN {Ok(orphan_publish_head([q.m EXCEPT !.next[c] = m.sb], c)),
                      [Ok([q.m EXCEPT !.next[c] = m.sb]) EXCEPT !.hit = TRUE]}
                ELSE Delete(q.m, c)
    BY <2>2
  <2>5. (q.rc # "OK" /\ q.m = m) \/ Unlinked(q, m, p, n, c)
    BY <2>0, <2>1, <2>2, <2>3, UnlinkResult
  <2>6. Unlinked(q, m, p, n, c) /\ q.rc = "OK" BY <1>2, <2>4, <2>5 DEF Unlinked
  <2>7. PICK x : x = q.m OBVIOUS
  <2>8. /\ NamesInv(x) /\ Rest(x, m) /\ Uncapped(x, m) /\ Protects(x, m)
        /\ Others(x, m, c) /\ Live(x) \subseteq Live(m) /\ m.links[c] # 0 /\ c \in m.inuse
    BY <2>6, <2>7 DEF Unlinked
  <2>9. Counted(x, m) BY <2>8 DEF Counted, Uncapped
  <2>10. /\ x.inuse = m.inuse /\ x.next = m.next /\ x.head = m.head /\ x.sb = m.sb
    BY <2>8 DEF Rest
  <2>11. CASE x.links[c] # 0
    <3>1. r = Ok(x) BY <2>4, <2>6, <2>7, <2>11
    <3>2. Orphans(x) = Orphans(m) BY <2>0, <2>8, <2>10, <2>11 DEF Orphans, Others
    <3>3. ListKept(x, m) BY <2>10, <3>2 DEF ListKept
    <3>. QED BY <2>8, <2>9, <2>10, <3>1, <3>3 DEF Good, Ok
  <2>12. CASE x.links[c] = 0 /\ ~defer
    <3>1. r \in Delete(x, c) BY <2>4, <2>6, <2>7, <2>12
    <3>2. /\ NamesInv(r.m) /\ Live(r.m) = Live(x)
          /\ r.m.ent = x.ent /\ r.m.flag = x.flag /\ r.m.links = x.links
          /\ r.m.head = x.head /\ r.m.sb = x.sb
          /\ \A j \in Inodes \ {c} : /\ r.m.next[j] = x.next[j] /\ r.m.up[j] = x.up[j]
                                     /\ r.m.kind[j] = x.kind[j]
          /\ r.rc = "OK" => ~r.hit /\ r.m.inuse = x.inuse \ {c}
      BY <2>3, <2>8, <2>12, <3>1, DeleteResult, SMTT(60)
    <3>3. Protects(r.m, m)
      <4>1. \A i : NamesOf(r.m, i) = NamesOf(x, i) BY <3>2 DEF NamesOf
      <4>2. Protects(r.m, x) BY <3>2, <4>1 DEF Protects
      <4>. QED BY <2>8, <4>2, ProtectsTwice
    <3>4. ASSUME r.rc = "OK" PROVE ListKept(r.m, m) /\ Counted(r.m, m)
      <4>1. Orphans(r.m) = Orphans(m)
        BY <2>0, <2>8, <2>10, <2>12, <3>2, <3>4 DEF Orphans, Others
      <4>2. Orphans(m) \subseteq Inodes \ {c} BY <2>0, <2>8 DEF Orphans
      <4>3. ListKept(r.m, m) BY <2>10, <3>2, <4>1, <4>2 DEF ListKept
      <4>4. Uncapped(r.m, m) BY <2>8, <3>2 DEF Uncapped
      <4>. QED BY <4>3, <4>4 DEF Counted, Uncapped
    <3>. QED BY <2>10, <3>2, <3>3, <3>4 DEF Good
  <2>13. CASE x.links[c] = 0 /\ defer
    <3>1. PICK j : j = [x EXCEPT !.next[c] = m.sb] OBVIOUS
    <3>2. PICK w : w = orphan_publish_head(j, c) OBVIOUS
    <3>3. r = Ok(w) \/ r = [Ok(j) EXCEPT !.hit = TRUE]
      BY <2>4, <2>6, <2>7, <2>13, <3>1, <3>2
    <3>4. x \in Meta /\ m.sb \in Inodes \cup {None, Dead} BY <2>0, <2>8 DEF NamesInv, Meta
    <3>5. /\ j \in Meta /\ j.ent = x.ent /\ j.links = x.links /\ j.inuse = x.inuse
          /\ j.kind = x.kind /\ j.up = x.up /\ j.flag = x.flag /\ j.sb = x.sb
          /\ j.next = [x.next EXCEPT ![c] = m.sb]
      BY <3>1, <3>4 DEF Meta
    <3>6. /\ w \in Meta /\ w.ent = x.ent /\ w.links = x.links /\ w.inuse = x.inuse
          /\ w.kind = x.kind /\ w.up = x.up /\ w.flag = x.flag /\ w.sb = c /\ w.head = c
          /\ w.next = [x.next EXCEPT ![c] = m.sb]
      BY <2>3, <3>2, <3>5 DEF Meta, orphan_publish_head
    <3>7. CASE r = Ok(w)
      <4>1. r.m = w /\ r.rc = "OK" /\ ~r.hit BY <3>7 DEF Ok
      <4>2. NamesInv(w) /\ Live(w) = Live(x) /\ Protects(w, x) /\ Orphans(w) = Orphans(x)
        BY <2>8, <3>6, ListFrame
      <4>3. Protects(w, m) BY <2>8, <4>2, ProtectsTwice
      <4>4. Orphans(x) = Orphans(m) \cup {c}
        BY <2>0, <2>8, <2>10, <2>13 DEF Orphans, Others
      <4>5. c \notin Orphans(m) BY <2>8 DEF Orphans
      <4>6. w.next[c] = m.sb /\ \A i \in Orphans(m) : w.next[i] = m.next[i]
        <5>1. Orphans(m) \subseteq Inodes BY <2>0 DEF Orphans
        <5>2. x.next \in [Inodes -> Inodes \cup {None, Dead}] BY <3>4 DEF Meta
        <5>. QED BY <2>3, <2>10, <3>6, <4>5, <5>1, <5>2
      <4>7. Counted(w, m)
        <5>1. Uncapped(w, m) BY <2>8, <3>6, <4>2 DEF Uncapped
        <5>. QED BY <5>1 DEF Counted, Uncapped
      <4>. QED BY <2>1, <2>3, <2>13, <3>6, <4>1, <4>2, <4>3, <4>4, <4>5, <4>6, <4>7 DEF Joined
    <3>8. CASE r = [Ok(j) EXCEPT !.hit = TRUE]
      <4>1. r.m = j /\ r.rc = "OK" /\ r.hit BY <3>8 DEF Ok
      <4>2. NamesInv(j) /\ Protects(j, x) BY <2>8, <3>5, ListFrame
      <4>3. Protects(j, m) BY <2>8, <4>2, ProtectsTwice
      <4>. QED BY <2>10, <3>5, <4>1, <4>2, <4>3 DEF Unheaded
    <3>. QED BY <3>3, <3>7, <3>8
  <2>. QED BY <2>11, <2>12, <2>13
<1>. QED BY <1>1, <1>2

-----------------------------------------------------------------------------
(* What the release of orphans does to the names.                          *)

\* But for list pointers and heads the metadata is the same.
OffList(w, m) ==
  /\ w \in Meta /\ w.ent = m.ent /\ w.links = m.links /\ w.inuse = m.inuse
  /\ w.kind = m.kind /\ w.up = m.up /\ w.flag = m.flag

\* The names are right, and what chattr protects has one.
Sound(m) == NamesInv(m) /\ Flagged(m)

\* Such a change keeps the names, protection and link counts.
LEMMA SoundOff ==
  ASSUME NEW m, Sound(m), NEW w, OffList(w, m)
  PROVE  Sound(w) /\ Protects(w, m) /\ Live(w) = Live(m) /\ Counted(w, m)
BY ListFrame, ProtectsFlagged DEF Sound, OffList

\* Writing the heads or a list pointer.
LEMMA HeadsOff ==
  ASSUME NEW m \in Meta, NEW x \in Inodes \cup {None}
  PROVE  /\ OffList([m EXCEPT !.sb = x], m)
         /\ OffList(orphan_publish_head(m, x), m)
         /\ \A i : OffList([m EXCEPT !.next[i] = x], m)
<1>1. OffList([m EXCEPT !.sb = x], m) BY DEF OffList, Meta
<1>2. OffList(orphan_publish_head(m, x), m) BY DEF OffList, Meta, orphan_publish_head
<1>3. ASSUME NEW i PROVE OffList([m EXCEPT !.next[i] = x], m)
  <2>1. [m.next EXCEPT ![i] = x] \in [Inodes -> Inodes \cup {None, Dead}] BY DEF Meta
  <2>2. [m EXCEPT !.next[i] = x] = [m EXCEPT !.next = [m.next EXCEPT ![i] = x]] BY DEF Meta
  <2>. QED BY <2>1, <2>2 DEF OffList, Meta
<1>. QED BY <1>1, <1>2, <1>3

\* Two such changes in a row are one.
LEMMA OffTwice ==
  ASSUME NEW m, NEW x, NEW w, OffList(x, m), OffList(w, x)
  PROVE  OffList(w, m)
BY DEF OffList

\* Taking an inode off the list.
LEMMA OrphanDelOff ==
  ASSUME NEW m \in Meta, NEW i \in Inodes, NEW r \in orphan_del(m, i)
  PROVE  OffList(r.m, m)
<1>0. NextOf(m, i) \in Inodes \cup {None} /\ None \in Inodes \cup {None} BY DEF NextOf
<1>1. OffList(m, m) BY DEF OffList
<1>2. PICK cl : cl = [m EXCEPT !.next[i] = None] OBVIOUS
<1>3. OffList(cl, m) /\ cl \in Meta
  <2>1. OffList(cl, m) BY <1>0, <1>2, HeadsOff
  <2>. QED BY <2>1 DEF OffList
<1>4. PICK w : w = orphan_publish_head(cl, NextOf(m, i)) OBVIOUS
<1>5. OffList(w, m) BY <1>0, <1>3, <1>4, HeadsOff, OffTwice
<1>6. PICK y : y = [cl EXCEPT !.sb = NextOf(m, i)] OBVIOUS
<1>7. OffList(y, m) BY <1>0, <1>3, <1>6, HeadsOff, OffTwice
<1>8. \A j : OffList([cl EXCEPT !.next[j] = NextOf(m, i)], m)
  BY <1>0, <1>3, HeadsOff, OffTwice
<1>10. CASE m.sb = i
  <2>1. r \in {Ok(w), Fail(m), Fail(y)} BY <1>2, <1>4, <1>6, <1>10 DEF orphan_del
  <2>. QED BY <1>1, <1>5, <1>7, <2>1 DEF Ok, Fail
<1>11. CASE m.sb # i
  <2>1. \/ r \in {Fail(m), Fail(cl), Ok(cl)}
        \/ \E j : r = Ok([cl EXCEPT !.next[j] = NextOf(m, i)])
    BY <1>2, <1>11 DEF orphan_del
  <2>. QED BY <1>1, <1>3, <1>8, <2>1 DEF Ok, Fail
<1>. QED BY <1>10, <1>11

\* An inode that Delete has been through.
LEMMA DeleteSound ==
  ASSUME NEW m, Sound(m), NEW i \in Inodes, m.links[i] = 0, NEW r \in Delete(m, i)
  PROVE  Sound(r.m) /\ Protects(r.m, m) /\ Counted(r.m, m) /\ r.m.sb = m.sb
<1>1. /\ NamesInv(r.m) /\ Live(r.m) = Live(m)
      /\ r.m.ent = m.ent /\ r.m.flag = m.flag /\ r.m.links = m.links /\ r.m.sb = m.sb
  BY DeleteResult, SMTT(60) DEF Sound
<1>2. \A j : NamesOf(r.m, j) = NamesOf(m, j) BY <1>1 DEF NamesOf
<1>3. Protects(r.m, m) BY <1>1, <1>2 DEF Protects
<1>. QED BY <1>1, <1>3, ProtectsFlagged DEF Sound, Counted

\* A release.
LEMMA ReleaseSound ==
  ASSUME NEW m, Sound(m), NEW i \in Inodes, NEW r \in release_inode(m, i)
  PROVE  Sound(r.m) /\ Protects(r.m, m) /\ Counted(r.m, m)
<1>0. Protects(m, m) /\ Counted(m, m) BY DEF Protects, Counted
<1>1. NextOf(m, i) \in Inodes \cup {None} BY DEF NextOf
<1>2. CASE m.links[i] # 0
  <2>1. r.m = m BY <1>2 DEF release_inode, Err, Then
  <2>. QED BY <1>0, <2>1
<1>3. CASE m.links[i] = 0 /\ i \notin m.inuse
  <2>1. r.m = m BY <1>3 DEF release_inode, Ok, Then
  <2>. QED BY <1>0, <2>1
<1>4. CASE m.links[i] = 0 /\ i \in m.inuse
  <2>1. \E q \in Delete(m, i) :
          r \in IF q.rc = "OK"
                THEN IF m.sb = i THEN {Ok(orphan_publish_head(q.m, NextOf(m, i))),
                                       Fail([q.m EXCEPT !.sb = NextOf(m, i)])}
                     ELSE {Ok(q.m)}
                ELSE {q}
    BY <1>4 DEF release_inode, Then
  <2>2. PICK q \in Delete(m, i) :
          r \in IF q.rc = "OK"
                THEN IF m.sb = i THEN {Ok(orphan_publish_head(q.m, NextOf(m, i))),
                                       Fail([q.m EXCEPT !.sb = NextOf(m, i)])}
                     ELSE {Ok(q.m)}
                ELSE {q}
    BY <2>1
  <2>3. PICK x : x = q.m OBVIOUS
  <2>4. Sound(x) /\ Protects(x, m) /\ Counted(x, m) BY <1>4, <2>3, DeleteSound
  <2>5. r.m = x \/ r.m = orphan_publish_head(x, NextOf(m, i)) \/ r.m = [x EXCEPT !.sb = NextOf(m, i)]
    BY <2>2, <2>3 DEF Ok, Fail
  <2>6. x \in Meta BY <2>4 DEF Sound, NamesInv
  <2>7. CASE r.m = x BY <2>4, <2>7
  <2>8. CASE r.m # x
    <3>1. OffList(r.m, x) BY <1>1, <2>5, <2>6, <2>8, HeadsOff
    <3>2. Sound(r.m) /\ Protects(r.m, x) /\ Live(r.m) = Live(x) /\ r.m.links = x.links /\ r.m.up = x.up
      BY <2>4, <3>1, SoundOff DEF OffList
    <3>3. \A d : Subdirs(r.m, d) = Subdirs(x, d) BY <3>2, SubdirsAre
    <3>. QED BY <2>4, <3>2, <3>3, ProtectsTwice DEF Counted
  <2>. QED BY <2>7, <2>8
<1>. QED BY <1>2, <1>3, <1>4

\* A round of the sweep at mount.
LEMMA CleanupSound ==
  ASSUME NEW m, Sound(m), m.sb \in Inodes, NEW r \in orphan_cleanup(m)
  PROVE  Sound(r.m) /\ Protects(r.m, m) /\ Counted(r.m, m)
<1>. DEFINE i == m.sb
<1>0. Protects(m, m) /\ Counted(m, m) /\ m \in Meta BY DEF Protects, Counted, Sound, NamesInv
<1>1. NextOf(m, i) \in Inodes \cup {None} /\ None \in Inodes \cup {None} BY DEF NextOf
<1>2. PICK off : off = orphan_publish_head(m, NextOf(m, i)) OBVIOUS
<1>3. OffList(off, m) /\ off \in Meta BY <1>0, <1>1, <1>2, HeadsOff DEF OffList
<1>4. PICK y : y = [m EXCEPT !.sb = NextOf(m, i)] OBVIOUS
<1>5. OffList(y, m) BY <1>0, <1>1, <1>4, HeadsOff
<1>6. PICK z : z = [off EXCEPT !.next[i] = None] OBVIOUS
<1>7. OffList(z, m) BY <1>1, <1>3, <1>6, HeadsOff, OffTwice
<1>8. \/ r.m \in {m, y, z, off}
      \/ m.links[i] = 0 /\ r \in Delete(off, i)
  BY <1>2, <1>4, <1>6 DEF orphan_cleanup, Ok, Fail
<1>9. CASE r.m \in {m, y, z, off}
  <2>1. r.m = m \/ OffList(r.m, m) BY <1>3, <1>5, <1>7, <1>9
  <2>. QED BY <1>0, <2>1, SoundOff
<1>10. CASE m.links[i] = 0 /\ r \in Delete(off, i)
  <2>1. Sound(off) /\ Protects(off, m) /\ Live(off) = Live(m) /\ off.links = m.links
    BY <1>3, SoundOff DEF OffList
  <2>2. Sound(r.m) /\ Protects(r.m, off) /\ Counted(r.m, off) BY <1>10, <2>1, DeleteSound
  <2>. QED BY <2>1, <2>2, ProtectsTwice DEF Counted
<1>. QED BY <1>8, <1>9, <1>10

-----------------------------------------------------------------------------
(* The steps.                                                              *)

\* The metadata in memory and on the medium is as the directories need it.
NamesOK ==
  /\ Sound(mem) /\ Sound(disk) /\ ops \in 0 .. Batch
  /\ owed \cup loose \cup split \subseteq Inodes /\ pc \in {"up", "down", "sweep"} \cup Inodes

\* Close, with what becomes of the metadata if the call is reported as failed.
Closes(r, t, fixed, off) ==
  LET aborted == t.ops = 0 /\ t.disk # r.m IN
  /\ t.hit => fails < MaxFails
  /\ fails' = IF t.hit THEN fails + 1 ELSE fails
  /\ ops' = t.ops
  /\ mem' = IF t.ok THEN t.mem ELSE fixed
  /\ disk' = t.disk
  /\ loose' = IF aborted THEN split ELSE (loose \cup off) \cap Orphans(r.m)
  /\ split' = IF t.disk = r.m THEN loose' ELSE split
  /\ partial' = (partial \/ (r.rc # "OK" /\ t.disk = r.m /\ r.m # mem) \/ (t.hit /\ r.rc = "OK"))

\* The pairs of Ends are a result and what txn_finish makes of it.
LEMMA EndsAre ==
  ASSUME NEW R, NEW e \in Ends(R)
  PROVE  e.r \in R /\ e.t \in txn_finish(e.r)
BY DEF Ends

\* An abort falls back on what is on disk.
LEMMA AbortedOff ==
  ASSUME NEW m \in Meta, disk \in Meta
  PROVE  OffList(Aborted(m), disk)
<1>1. m.sb \in Inodes \cup {None} BY DEF Meta
<1>. QED BY <1>1, HeadsOff DEF Aborted

\* How a transaction may end.
LEMMA Finishes ==
  ASSUME NamesOK, NEW r, Sound(r.m), NEW t, t \in txn_finish(r)
  PROVE  Sound(t.mem) /\ Sound(t.disk) /\ t.ops \in 0 .. Batch
<1>0. r.m \in Meta /\ disk \in Meta /\ Batch \in Nat /\ ops \in 0 .. Batch /\ Sound(disk)
  BY NamespaceAssumption DEF NamesOK, Sound, NamesInv
<1>1. Sound(Aborted(r.m)) BY <1>0, AbortedOff, SoundOff
<1>2. ASSUME NEW c \in txn_commit(r.m) PROVE Sound(c.mem) /\ Sound(c.disk)
  BY <1>0, <1>1 DEF txn_commit
<1>3. \/ t.mem = Aborted(r.m) /\ t.disk = disk /\ t.ops = 0
      \/ \E c \in txn_commit(r.m) : t.mem = c.mem /\ t.disk = c.disk /\ t.ops = 0
      \/ t.mem = r.m /\ t.disk = disk /\ t.ops = ops + 1 /\ ops + 1 < Batch
  BY DEF txn_finish
<1>. QED BY <1>0, <1>1, <1>2, <1>3

\* Closing a call keeps the names sound in memory and on the medium.
LEMMA ClosesNames ==
  ASSUME NamesOK, NEW r, Sound(r.m), NEW t, t \in txn_finish(r),
         NEW fixed, OffList(fixed, t.mem), NEW off, off \subseteq Inodes, Closes(r, t, fixed, off)
  PROVE  Sound(mem') /\ Sound(disk') /\ ops' \in 0 .. Batch /\ loose' \cup split' \subseteq Inodes
<1>1. Sound(t.mem) /\ Sound(t.disk) /\ t.ops \in 0 .. Batch BY Finishes
<1>2. Sound(fixed) BY <1>1, SoundOff
<1>3. Orphans(r.m) \subseteq Inodes BY DEF Orphans, Sound, NamesInv, Meta
<1>4. loose \subseteq Inodes /\ split \subseteq Inodes BY DEF NamesOK
<1>. QED BY <1>1, <1>2, <1>3, <1>4 DEF Closes

\* What fixes fs->sb after a failed call changes no names.
LEMMA Fixes ==
  ASSUME NamesOK, NEW m, Sound(m)
  PROVE  /\ OffList(m, m) /\ OffList(Restored(m), m) /\ OffList(orphan_publish_head(m, mem.sb), m)
<1>1. m \in Meta /\ mem.sb \in Inodes \cup {None} BY DEF NamesOK, Sound, NamesInv, Meta
<1>2. OffList(m, m) BY <1>1 DEF OffList
<1>. QED BY <1>1, <1>2, HeadsOff DEF Restored

\* A call that only changes names leaves them sound.
LEMMA GoodSound ==
  ASSUME NEW m, Sound(m), NEW r, Good(r, m)
  PROVE  Sound(r.m)
BY ProtectsFlagged DEF Sound, Good

\* A call all of whose results are sound keeps NamesOK, however it ends.
LEMMA CallNames ==
  ASSUME NamesOK, NEW R, \A r \in R : Sound(r.m), NEW e \in Ends(R),
         NEW fixed, Sound(e.t.mem) => OffList(fixed, e.t.mem), NEW off, off \subseteq Inodes,
         Closes(e.r, e.t, fixed, off),
         owed' \subseteq Inodes, pc' \in {"up", "down", "sweep"} \cup Inodes
  PROVE  NamesOK'
<1>1. e.r \in R /\ e.t \in txn_finish(e.r) BY EndsAre
<1>2. Sound(e.r.m) BY <1>1
<1>3. Sound(e.t.mem) BY <1>1, <1>2, Finishes
<1>4. Sound(mem') /\ Sound(disk') /\ ops' \in 0 .. Batch /\ loose' \cup split' \subseteq Inodes
  BY <1>1, <1>2, <1>3, ClosesNames
<1>. QED BY <1>4 DEF NamesOK, Sound, NamesInv

\* Every step keeps the names sound.
LEMMA NamesStep ==
  ASSUME Room, Orderly, NamesOK, [Next]_vars
  PROVE  NamesOK'
<1>0. /\ Sound(mem) /\ NamesInv(mem) /\ Flagged(mem) /\ mem \in Meta /\ disk \in Meta /\ Sound(disk)
      /\ owed \subseteq Inodes /\ pc \in {"up", "down", "sweep"} \cup Inodes
      /\ loose \subseteq Inodes /\ split \subseteq Inodes
  BY DEF NamesOK, Sound, NamesInv
<1>1. ASSUME NEW p \in Inodes, NEW n \in Names, NEW k \in Kinds, NEW c \in Inodes,
             ext4b_create(p, n, k, c)
      PROVE  NamesOK'
  <2>1. PICK e \in Ends(create_common(mem, p, n, k, FALSE, c)) : Close(e, Keep, {})
    BY <1>1 DEF ext4b_create
  <2>2. ASSUME NEW r \in create_common(mem, p, n, k, FALSE, c) PROVE Sound(r.m)
    <3>1. Good(r, mem) BY <1>0, <1>1, <2>2, CreateResult DEF ext4b_create, Named
    <3>. QED BY <1>0, <3>1, GoodSound
  <2>3. Closes(e.r, e.t, e.t.mem, {}) BY <2>1 DEF Close, Closes, Keep
  <2>4. Sound(e.t.mem) => OffList(e.t.mem, e.t.mem) BY Fixes
  <2>5. owed' \subseteq Inodes /\ pc' \in {"up", "down", "sweep"} \cup Inodes
    BY <1>0, <1>1 DEF ext4b_create
  <2>6. {} \subseteq Inodes OBVIOUS
  <2>7. PICK fixed : fixed = e.t.mem OBVIOUS
  <2>8. Closes(e.r, e.t, fixed, {}) /\ (Sound(e.t.mem) => OffList(fixed, e.t.mem))
    BY <2>3, <2>4, <2>7
  <2>9. PICK R : R = create_common(mem, p, n, k, FALSE, c) OBVIOUS
  <2>10. (\A r \in R : Sound(r.m)) /\ e \in Ends(R) BY <2>1, <2>2, <2>9
  <2>. QED BY <2>5, <2>6, <2>8, <2>10, CallNames
<1>2. ASSUME NEW p \in Inodes, NEW n \in Names, NEW c \in Inodes, createSymbolicLink(p, n, c)
      PROVE  NamesOK'
  <2>1. PICK e \in Ends(create_common(mem, p, n, "file", TRUE, c)) : Close(e, Keep, {})
    BY <1>2 DEF createSymbolicLink
  <2>2. ASSUME NEW r \in create_common(mem, p, n, "file", TRUE, c) PROVE Sound(r.m)
    <3>1. "file" \in Kinds BY DEF Kinds
    <3>2. Good(r, mem) BY <1>0, <1>2, <2>2, <3>1, CreateResult DEF createSymbolicLink, Named
    <3>. QED BY <1>0, <3>2, GoodSound
  <2>3. Closes(e.r, e.t, e.t.mem, {}) BY <2>1 DEF Close, Closes, Keep
  <2>4. Sound(e.t.mem) => OffList(e.t.mem, e.t.mem) BY Fixes
  <2>5. owed' \subseteq Inodes /\ pc' \in {"up", "down", "sweep"} \cup Inodes
    BY <1>0, <1>2 DEF createSymbolicLink
  <2>6. {} \subseteq Inodes OBVIOUS
  <2>7. PICK fixed : fixed = e.t.mem OBVIOUS
  <2>8. Closes(e.r, e.t, fixed, {}) /\ (Sound(e.t.mem) => OffList(fixed, e.t.mem))
    BY <2>3, <2>4, <2>7
  <2>9. PICK R : R = create_common(mem, p, n, "file", TRUE, c) OBVIOUS
  <2>10. (\A r \in R : Sound(r.m)) /\ e \in Ends(R) BY <2>1, <2>2, <2>9
  <2>. QED BY <2>5, <2>6, <2>8, <2>10, CallNames
<1>3. ASSUME NEW p \in Inodes, NEW n \in Names, NEW c \in Inodes, ext4b_hardlink(p, n, c)
      PROVE  NamesOK'
  <2>1. PICK e \in Ends(hardlink(mem, p, n, c)) : Close(e, Keep, {})
    BY <1>3 DEF ext4b_hardlink
  <2>2. ASSUME NEW r \in hardlink(mem, p, n, c) PROVE Sound(r.m)
    <3>1. Good(r, mem) BY <1>0, <1>3, <2>2, HardlinkResult DEF ext4b_hardlink, Named
    <3>. QED BY <1>0, <3>1, GoodSound
  <2>3. Closes(e.r, e.t, e.t.mem, {}) BY <2>1 DEF Close, Closes, Keep
  <2>4. Sound(e.t.mem) => OffList(e.t.mem, e.t.mem) BY Fixes
  <2>5. owed' \subseteq Inodes /\ pc' \in {"up", "down", "sweep"} \cup Inodes
    BY <1>0, <1>3 DEF ext4b_hardlink
  <2>6. {} \subseteq Inodes OBVIOUS
  <2>7. PICK fixed : fixed = e.t.mem OBVIOUS
  <2>8. Closes(e.r, e.t, fixed, {}) /\ (Sound(e.t.mem) => OffList(fixed, e.t.mem))
    BY <2>3, <2>4, <2>7
  <2>. QED BY <2>2, <2>5, <2>6, <2>8, CallNames
<1>4. ASSUME NEW p \in Inodes, NEW n \in Names, NEW defer \in BOOLEAN, ext4b_unlink_ex(p, n, defer)
      PROVE  NamesOK'
  <2>1. PICK e \in Ends(unlink_ex(mem, p, n, defer)) :
          /\ Closes(e.r, e.t, IF e.r.rc = "OK" /\ e.r.m.sb # mem.sb
                              THEN orphan_publish_head(e.t.mem, mem.sb) ELSE e.t.mem, {})
          /\ owed' = IF e.t.ok /\ defer /\ Find(mem, p, n) # None /\ e.r.m.links[Find(mem, p, n)] = 0
                     THEN owed \cup {Find(mem, p, n)} ELSE owed
    BY <1>4 DEF ext4b_unlink_ex, Close, Closes
  <2>2. ASSUME NEW r \in unlink_ex(mem, p, n, defer) PROVE Sound(r.m)
    <3>1. NamesInv(r.m) /\ Protects(r.m, mem)
      BY <1>0, <1>4, <2>2, UnlinkExResult DEF Good, Joined, Unheaded, ext4b_unlink_ex, Named
    <3>. QED BY <1>0, <3>1, ProtectsFlagged DEF Sound
  <2>3. Sound(e.t.mem) => OffList(e.t.mem, e.t.mem) /\ OffList(orphan_publish_head(e.t.mem, mem.sb), e.t.mem)
    BY Fixes
  <2>4. Find(mem, p, n) \in Inodes \cup {None} BY <1>0, NamesAre DEF NamesInv
  <2>5. owed' \subseteq Inodes /\ pc' \in {"up", "down", "sweep"} \cup Inodes
    BY <1>0, <1>4, <2>1, <2>4 DEF ext4b_unlink_ex
  <2>6. {} \subseteq Inodes OBVIOUS
  <2>7. PICK fixed : fixed = IF e.r.rc = "OK" /\ e.r.m.sb # mem.sb
                             THEN orphan_publish_head(e.t.mem, mem.sb) ELSE e.t.mem
    OBVIOUS
  <2>8. Closes(e.r, e.t, fixed, {}) /\ (Sound(e.t.mem) => OffList(fixed, e.t.mem))
    BY <2>1, <2>3, <2>7
  <2>. QED BY <2>2, <2>5, <2>6, <2>8, CallNames
<1>5. ASSUME NEW sp \in Inodes, NEW sn \in Names, NEW dp \in Inodes, NEW dn \in Names,
             ext4b_rename(sp, sn, dp, dn)
      PROVE  NamesOK'
  <2>1. PICK e \in Ends(rename(mem, sp, sn, dp, dn)) : Close(e, Keep, {})
    BY <1>5 DEF ext4b_rename
  <2>2. ASSUME NEW r \in rename(mem, sp, sn, dp, dn) PROVE Sound(r.m)
    <3>1. Find(mem, sp, sn) # None =>
            ~(sp = dp /\ IsDir(mem, Find(mem, sp, sn))) /\ Find(mem, sp, sn) # Find(mem, dp, dn)
      BY <1>5 DEF ext4b_rename, Orderly
    <3>2. Good(r, mem) BY <1>0, <1>5, <2>2, <3>1, RenameResult DEF ext4b_rename, Named
    <3>. QED BY <1>0, <3>2, GoodSound
  <2>3. Closes(e.r, e.t, e.t.mem, {}) BY <2>1 DEF Close, Closes, Keep
  <2>4. Sound(e.t.mem) => OffList(e.t.mem, e.t.mem) BY Fixes
  <2>5. owed' \subseteq Inodes /\ pc' \in {"up", "down", "sweep"} \cup Inodes
    BY <1>0, <1>5 DEF ext4b_rename
  <2>6. {} \subseteq Inodes OBVIOUS
  <2>7. PICK fixed : fixed = e.t.mem OBVIOUS
  <2>8. Closes(e.r, e.t, fixed, {}) /\ (Sound(e.t.mem) => OffList(fixed, e.t.mem))
    BY <2>3, <2>4, <2>7
  <2>9. PICK R : R = rename(mem, sp, sn, dp, dn) OBVIOUS
  <2>10. (\A r \in R : Sound(r.m)) /\ e \in Ends(R) BY <2>1, <2>2, <2>9
  <2>. QED BY <2>5, <2>6, <2>8, <2>10, CallNames
<1>6. ASSUME NEW i \in Inodes, ReleaseUnlist(i) PROVE NamesOK'
  <2>1. PICK e \in Ends(orphan_del(mem, i)) :
          /\ Closes(e.r, e.t, Restored(e.t.mem), IF e.t.ok THEN {i} ELSE {})
          /\ pc' = IF e.t.ok THEN i ELSE pc
    BY <1>6 DEF ReleaseUnlist, Close, Closes
  <2>2. ASSUME NEW r \in orphan_del(mem, i) PROVE Sound(r.m)
    BY <1>0, OrphanDelOff, SoundOff
  <2>3. Sound(e.t.mem) => OffList(Restored(e.t.mem), e.t.mem) BY Fixes
  <2>4. owed' \subseteq Inodes /\ pc' \in {"up", "down", "sweep"} \cup Inodes
    BY <1>0, <1>6, <2>1 DEF ReleaseUnlist
  <2>5. (IF e.t.ok THEN {i} ELSE {}) \subseteq Inodes OBVIOUS
  <2>. QED BY <2>1, <2>2, <2>3, <2>4, <2>5, CallNames
<1>7. ASSUME NEW i \in Inodes, ext4b_release_inode(i) PROVE NamesOK'
  <2>1. PICK e \in Ends(release_inode(mem, i)) :
          /\ Closes(e.r, e.t, IF mem.sb = i THEN Restored(e.t.mem) ELSE e.t.mem, {})
          /\ owed' = IF e.t.ok THEN owed \ {i} ELSE owed
    BY <1>7 DEF ext4b_release_inode, Close, Closes
  <2>2. ASSUME NEW r \in release_inode(mem, i) PROVE Sound(r.m)
    BY <1>0, ReleaseSound
  <2>3. Sound(e.t.mem) => OffList(e.t.mem, e.t.mem) /\ OffList(Restored(e.t.mem), e.t.mem)
    BY Fixes
  <2>4. owed' \subseteq Inodes /\ pc' \in {"up", "down", "sweep"} \cup Inodes
    BY <1>0, <1>7, <2>1 DEF ext4b_release_inode
  <2>5. PICK fixed : fixed = IF mem.sb = i THEN Restored(e.t.mem) ELSE e.t.mem OBVIOUS
  <2>6. Closes(e.r, e.t, fixed, {}) /\ (Sound(e.t.mem) => OffList(fixed, e.t.mem))
    BY <2>1, <2>3, <2>5
  <2>. QED BY <2>2, <2>4, <2>6, CallNames
<1>8. ASSUME ext4b_orphan_cleanup PROVE NamesOK'
  <2>1. PICK e \in Ends(orphan_cleanup(mem)) :
          Close(e, Keep, {}) /\ pc' = IF e.t.ok THEN "sweep" ELSE "up"
    BY <1>8 DEF ext4b_orphan_cleanup
  <2>2. ASSUME NEW r \in orphan_cleanup(mem) PROVE Sound(r.m)
    <3>1. mem.sb \in Inodes BY <1>0, <1>8 DEF ext4b_orphan_cleanup, Meta
    <3>. QED BY <1>0, <3>1, CleanupSound
  <2>3. Closes(e.r, e.t, e.t.mem, {}) BY <2>1 DEF Close, Closes, Keep
  <2>4. Sound(e.t.mem) => OffList(e.t.mem, e.t.mem) BY Fixes
  <2>5. owed' \subseteq Inodes /\ pc' \in {"up", "down", "sweep"} \cup Inodes
    BY <1>0, <1>8, <2>1 DEF ext4b_orphan_cleanup
  <2>6. {} \subseteq Inodes OBVIOUS
  <2>7. PICK fixed : fixed = e.t.mem OBVIOUS
  <2>8. Closes(e.r, e.t, fixed, {}) /\ (Sound(e.t.mem) => OffList(fixed, e.t.mem))
    BY <2>3, <2>4, <2>7
  <2>. QED BY <2>2, <2>5, <2>6, <2>8, CallNames
<1>9. ASSUME ext4b_sync PROVE NamesOK'
  <2>1. PICK t \in txn_commit(mem) : mem' = t.mem /\ disk' = t.disk /\ ops' = 0
                                     /\ loose' \in {loose, split} /\ split' = loose'
    BY <1>9 DEF ext4b_sync, Drain
  <2>2. Sound(Aborted(mem)) BY <1>0, AbortedOff, SoundOff
  <2>3. Sound(t.mem) /\ Sound(t.disk) BY <1>0, <2>2 DEF txn_commit
  <2>4. ops' \in 0 .. Batch BY <2>1, NamespaceAssumption
  <2>5. Sound(mem') /\ Sound(disk') BY <2>1, <2>3
  <2>6. loose' \subseteq Inodes /\ split' \subseteq Inodes /\ owed' = owed /\ pc' = pc
    BY <1>0, <1>9, <2>1 DEF ext4b_sync
  <2>. QED BY <1>0, <2>4, <2>5, <2>6 DEF NamesOK, Sound, NamesInv
<1>10. ASSUME ext4b_unmount PROVE NamesOK'
  <2>1. PICK w : w = [mem EXCEPT !.head = mem.sb] OBVIOUS
  <2>2. OffList(w, mem) BY <1>0, <2>1 DEF OffList, Meta
  <2>3. Sound(w) BY <1>0, <2>2, SoundOff
  <2>4. mem' = w /\ disk' = w /\ ops' = ops /\ owed' = {} /\ loose' = loose /\ split' = loose /\ pc' = "down"
    BY <1>10, <2>1 DEF ext4b_unmount
  <2>5. Sound(mem') /\ Sound(disk') BY <2>3, <2>4
  <2>. QED BY <1>0, <2>4, <2>5 DEF NamesOK, Sound, NamesInv
<1>11. ASSUME Crash PROVE NamesOK'
  <2>1. mem' = disk /\ disk' = disk /\ ops' = 0 /\ owed' = {} /\ loose' = split /\ split' = split
        /\ pc' = "down"
    BY <1>11 DEF Crash
  <2>2. Sound(mem') /\ Sound(disk') BY <1>0, <2>1
  <2>. QED BY <1>0, <2>1, <2>2, NamespaceAssumption DEF NamesOK, Sound, NamesInv
<1>12. ASSUME ext4b_mount PROVE NamesOK'
  <2>1. PICK w : w = [disk EXCEPT !.sb = disk.head] OBVIOUS
  <2>2. OffList(w, disk) BY <1>0, <2>1 DEF OffList, Meta
  <2>3. Sound(w) BY <1>0, <2>2, SoundOff
  <2>4. mem' = w /\ disk' = disk /\ ops' = ops /\ owed' = owed /\ loose' = loose /\ split' = split
        /\ pc' = "sweep"
    BY <1>12, <2>1 DEF ext4b_mount
  <2>5. Sound(mem') /\ Sound(disk') BY <1>0, <2>3, <2>4
  <2>. QED BY <1>0, <2>4, <2>5 DEF NamesOK, Sound, NamesInv
<1>13. CASE UNCHANGED vars \/ CleanupDone
  <2>1. /\ mem' = mem /\ disk' = disk /\ ops' = ops /\ owed' = owed /\ loose' = loose
        /\ split' = split /\ pc' \in {pc, "up"}
    BY <1>13 DEF vars, CleanupDone
  <2>. QED BY <1>0, <2>1 DEF NamesOK, Sound, NamesInv
<1>. QED BY <1>1, <1>2, <1>3, <1>4, <1>5, <1>6, <1>7, <1>8, <1>9, <1>10, <1>11, <1>12, <1>13
     DEF Next

-----------------------------------------------------------------------------
(* The volume that is mounted first.                                       *)

\* A fresh volume.
LEMMA BlankNames == Sound(Blank)
<1>1. Blank.inuse = {Root} /\ Root \in Inodes /\ Blank.kind[Root] = "dir" /\ Blank.links[Root] = 2
  BY NamespaceAssumption DEF Blank
<1>2. Empty \in [Names -> Seq(Inodes)] /\ \A n \in Names : Empty[n] = <<>> BY DEF Empty
<1>3. Blank \in Meta BY <1>2, NamespaceAssumption DEF Blank, Meta, Kinds, Flags
<1>4. \A d \in Inodes, n \in Names : Blank.ent[d][n] = <<>> BY <1>2 DEF Blank
<1>5. Live(Blank) = {Root} BY <1>1 DEF Live, IsDir
<1>6. \A i \in Inodes : NamesOf(Blank, i) = {} /\ Subdirs(Blank, i) = {}
  BY <1>1, <1>4 DEF NamesOf, Places, Subdirs
<1>7. Slots(Blank) /\ Entries(Blank) BY <1>4 DEF Slots, Entries
<1>8. Links(Blank)
  <2>1. Cardinality({}) = 0 BY FS_EmptySet
  <2>2. \A d \in Live(Blank) : d = Root /\ Blank.links[d] = 2 /\ Subdirs(Blank, d) = {}
    BY <1>1, <1>5, <1>6
  <2>3. Blank.inuse \ Live(Blank) = {} BY <1>1, <1>5
  <2>4. 2 < LinkMax BY NamespaceAssumption
  <2>5. \A d \in Live(Blank) :
          Blank.links[d] < LinkMax /\ Blank.links[d] \in {1, 2 + Cardinality(Subdirs(Blank, d))}
    <3>. TAKE d \in Live(Blank)
    <3>1. Cardinality(Subdirs(Blank, d)) = 0 BY <2>1, <2>2
    <3>. QED BY <2>2, <2>4, <3>1
  <2>. QED BY <2>3, <2>5 DEF Links
<1>9. Homes(Blank) /\ Tree(Blank) BY <1>5 DEF Homes, Tree
<1>10. \A i \in Inodes : ~Protected(Blank, i) BY DEF Blank, Protected
<1>. QED BY <1>3, <1>5, <1>7, <1>8, <1>9, <1>10 DEF Sound, NamesInv, Flagged

\* The root and one inode in it.
Holds(m, i, n, k, f) ==
  /\ m \in Meta
  /\ m.inuse = {Root, i} /\ m.kind[Root] = "dir" /\ m.kind[i] = k
  /\ m.links[Root] = (IF k = "dir" THEN 3 ELSE 2)
  /\ m.links[i] = (IF k = "dir" THEN 2 ELSE 1)
  /\ m.up[i] = (IF k = "dir" THEN Root ELSE None)
  /\ \A d \in Inodes, x \in Names : m.ent[d][x] = IF d = Root /\ x = n THEN <<i>> ELSE <<>>
  /\ \A j \in Inodes : m.flag[j] = IF j = i THEN f ELSE "none"
  /\ \A j \in Inodes : m.next[j] = None
  /\ m.head = None /\ m.sb = None

\* What Guarded puts there.
LEMMA GuardedFields ==
  ASSUME NEW i \in Inodes \ {Root}, NEW n \in Names, NEW k \in Kinds, NEW f \in Flags,
         NEW m, m = Guarded(i, n, k, f)
  PROVE  Holds(m, i, n, k, f)
<1>. DEFINE ent == [[j \in Inodes |-> Empty] EXCEPT ![Root] = [Empty EXCEPT ![n] = <<i>>]]
            kind == [[j \in Inodes |-> IF j = Root THEN "dir" ELSE "file"] EXCEPT ![i] = k]
            links == [[[j \in Inodes |-> IF j = Root THEN 2 ELSE 0]
                         EXCEPT ![i] = IF k = "dir" THEN 2 ELSE 1]
                         EXCEPT ![Root] = IF k = "dir" THEN 3 ELSE 2]
            up == [[j \in Inodes |-> IF j = Root THEN Root ELSE None]
                     EXCEPT ![i] = IF k = "dir" THEN Root ELSE None]
            flag == [[j \in Inodes |-> "none"] EXCEPT ![i] = f]
            next == [j \in Inodes |-> None]
<1>1. /\ m.ent = ent /\ m.kind = kind /\ m.links = links /\ m.up = up /\ m.flag = flag
      /\ m.next = next /\ m.inuse = {Root, i} /\ m.head = None /\ m.sb = None
      /\ m = [ent |-> ent, kind |-> kind, links |-> links, up |-> up, next |-> next,
              inuse |-> {Root, i}, flag |-> flag, head |-> None, sb |-> None]
  <2>1. PICK ent0, kind0, links0, up0, flag0 :
          /\ ent0 = [j \in Inodes |-> Empty]
          /\ kind0 = [j \in Inodes |-> IF j = Root THEN "dir" ELSE "file"]
          /\ links0 = [j \in Inodes |-> IF j = Root THEN 2 ELSE 0]
          /\ up0 = [j \in Inodes |-> IF j = Root THEN Root ELSE None]
          /\ flag0 = [j \in Inodes |-> "none"]
    OBVIOUS
  <2>2. PICK b : b = [ent |-> ent0, kind |-> kind0, links |-> links0, up |-> up0, next |-> next,
                      inuse |-> {Root}, flag |-> flag0, head |-> None, sb |-> None]
    OBVIOUS
  <2>3. b = Blank BY <2>1, <2>2 DEF Blank
  <2>4. m = [b EXCEPT !.ent = [b.ent EXCEPT ![Root] = [b.ent[Root] EXCEPT ![n] = <<i>>]],
                      !.inuse = b.inuse \cup {i}, !.flag = [b.flag EXCEPT ![i] = f],
                      !.kind = [b.kind EXCEPT ![i] = k],
                      !.links = [[b.links EXCEPT ![i] = IF k = "dir" THEN 2 ELSE 1]
                                   EXCEPT ![Root] = IF k = "dir" THEN 3 ELSE 2],
                      !.up = [b.up EXCEPT ![i] = IF k = "dir" THEN Root ELSE None]]
    BY <2>2, <2>3 DEF Guarded
  <2>5. b.ent[Root] = Empty BY <2>1, <2>2, NamespaceAssumption
  <2>6. PICK ent1, kind1, links1, up1, flag1, use1 :
          /\ ent1 = [b.ent EXCEPT ![Root] = [b.ent[Root] EXCEPT ![n] = <<i>>]]
          /\ use1 = b.inuse \cup {i} /\ flag1 = [b.flag EXCEPT ![i] = f]
          /\ kind1 = [b.kind EXCEPT ![i] = k]
          /\ links1 = [[b.links EXCEPT ![i] = IF k = "dir" THEN 2 ELSE 1]
                         EXCEPT ![Root] = IF k = "dir" THEN 3 ELSE 2]
          /\ up1 = [b.up EXCEPT ![i] = IF k = "dir" THEN Root ELSE None]
    OBVIOUS
  <2>7. m = [b EXCEPT !.ent = ent1, !.inuse = use1, !.flag = flag1, !.kind = kind1,
                      !.links = links1, !.up = up1]
    BY <2>4, <2>6
  <2>8. ent1 = ent /\ use1 = {Root, i} BY <2>1, <2>2, <2>5, <2>6
  <2>9. kind1 = kind BY <2>1, <2>2, <2>6
  <2>10. links1 = links BY <2>1, <2>2, <2>6
  <2>11. up1 = up /\ flag1 = flag BY <2>1, <2>2, <2>6
  <2>. HIDE DEF next, ent, kind, links, up, flag
  <2>. QED BY <2>2, <2>7, <2>8, <2>9, <2>10, <2>11
<1>2. Empty \in [Names -> Seq(Inodes)] /\ \A x \in Names : Empty[x] = <<>> BY DEF Empty
<1>3. <<i>> \in Seq(Inodes) OBVIOUS
<1>4. ent \in [Inodes -> [Names -> Seq(Inodes)]]
  <2>1. [Empty EXCEPT ![n] = <<i>>] \in [Names -> Seq(Inodes)] BY <1>2, <1>3
  <2>. QED BY <1>2, <2>1
<1>5. kind \in [Inodes -> Kinds] /\ links \in [Inodes -> Nat] /\ up \in [Inodes -> Inodes \cup {None}]
      /\ flag \in [Inodes -> Flags] /\ next \in [Inodes -> Inodes \cup {None, Dead}]
  BY NamespaceAssumption DEF Kinds, Flags
<1>6. m \in Meta
  <2>. HIDE DEF ent, kind, links, up, flag, next
  <2>. QED BY <1>1, <1>4, <1>5, NamespaceAssumption DEF Meta
<1>7. \A d \in Inodes, x \in Names : ent[d][x] = IF d = Root /\ x = n THEN <<i>> ELSE <<>>
  BY <1>2, NamespaceAssumption
<1>8. kind[Root] = "dir" /\ kind[i] = k /\ links[Root] = (IF k = "dir" THEN 3 ELSE 2)
      /\ links[i] = (IF k = "dir" THEN 2 ELSE 1) /\ up[i] = (IF k = "dir" THEN Root ELSE None)
      /\ (\A j \in Inodes : flag[j] = IF j = i THEN f ELSE "none")
      /\ (\A j \in Inodes : next[j] = None)
  BY NamespaceAssumption
<1>. HIDE DEF ent, kind, links, up, flag, next
<1>. QED BY <1>1, <1>6, <1>7, <1>8 DEF Holds

\* The names of such a volume are sound.
LEMMA GuardedNames ==
  ASSUME NEW i \in Inodes \ {Root}, NEW n \in Names, NEW k \in Kinds, NEW f \in Flags,
         NEW m, m = Guarded(i, n, k, f)
  PROVE  Sound(m)
<1>0. Root \in Inodes /\ None \notin Inodes BY NamespaceAssumption
<1>. Holds(m, i, n, k, f) BY GuardedFields
<1>1. m \in Meta /\ m.inuse = {Root, i} /\ m.kind[Root] = "dir" /\ m.kind[i] = k
  BY DEF Holds
<1>2. m.links[Root] = (IF k = "dir" THEN 3 ELSE 2) /\ m.links[i] = (IF k = "dir" THEN 2 ELSE 1)
      /\ (k = "dir" => m.up[i] = Root)
  BY DEF Holds
<1>3. \A d \in Inodes, x \in Names : m.ent[d][x] = IF d = Root /\ x = n THEN <<i>> ELSE <<>>
  BY DEF Holds
<1>4. Live(m) = IF k = "dir" THEN {Root, i} ELSE {Root} BY <1>1, <1>2 DEF Live, IsDir
<1>5. Slots(m) BY <1>3 DEF Slots
<1>6. \A d \in Inodes, x \in Names : Find(m, d, x) = IF d = Root /\ x = n THEN i ELSE None
  BY <1>3 DEF Find
<1>7. Entries(m) BY <1>1, <1>3, <1>4, <1>6 DEF Entries
<1>8. \A j \in Inodes : NamesOf(m, j) = IF j = i THEN {<<Root, n>>} ELSE {}
  <2>. TAKE j \in Inodes
  <2>1. NamesOf(m, j) = {x \in Places : Find(m, x[1], x[2]) = j} BY <1>1, <1>5, NamesAre
  <2>. QED BY <1>0, <1>6, <2>1 DEF Places
<1>9. \A d \in Inodes : Subdirs(m, d) = IF d = Root /\ k = "dir" THEN {i} ELSE {}
  BY <1>0, <1>1, <1>2 DEF Subdirs, IsDir
<1>10. Cardinality({}) = 0 /\ Cardinality({i}) = 1 /\ Cardinality({<<Root, n>>}) = 1
  BY FS_EmptySet, FS_Singleton
<1>11. Links(m)
  <2>1. Root # i /\ 3 < LinkMax /\ LinkMax \in Nat BY NamespaceAssumption
  <2>2. ASSUME NEW d \in Live(m)
        PROVE  m.links[d] < LinkMax /\ m.links[d] \in {1, 2 + Cardinality(Subdirs(m, d))}
    <3>1. CASE d = Root
      <4>1. Cardinality(Subdirs(m, d)) = IF k = "dir" THEN 1 ELSE 0 BY <1>0, <1>9, <1>10, <3>1
      <4>2. m.links[d] = IF k = "dir" THEN 3 ELSE 2 BY <1>2, <3>1
      <4>. QED BY <2>1, <4>1, <4>2
    <3>2. CASE d # Root
      <4>1. d = i /\ k = "dir" /\ Subdirs(m, d) = {} BY <1>4, <1>9, <3>2
      <4>2. Cardinality(Subdirs(m, d)) = 0 /\ m.links[d] = 2 BY <1>2, <1>10, <4>1
      <4>. QED BY <2>1, <4>2
    <3>. QED BY <3>1, <3>2
  <2>3. ASSUME NEW j \in m.inuse \ Live(m) PROVE m.links[j] = Cardinality(NamesOf(m, j))
    <3>1. j = i /\ k # "dir" BY <1>1, <1>4
    <3>. QED BY <1>2, <1>8, <1>10, <3>1
  <2>. QED BY <2>2, <2>3 DEF Links
<1>12. Homes(m) BY <1>0, <1>2, <1>4, <1>8 DEF Homes
<1>13. Tree(m)
  <2>. SUFFICES ASSUME NEW S \in SUBSET (Live(m) \ {Root}), \A d \in S : m.up[d] \in S
                PROVE  S = {}
    BY DEF Tree
  <2>1. i \in S => FALSE BY <1>2, <1>4
  <2>. QED BY <1>4, <2>1
<1>14. Flagged(m)
  <2>1. \A j \in Inodes : m.flag[j] = IF j = i THEN f ELSE "none" BY DEF Holds
  <2>. QED BY <1>8, <2>1 DEF Flagged, Protected
<1>. QED BY <1>1, <1>4, <1>5, <1>7, <1>11, <1>12, <1>13, <1>14 DEF Sound, NamesInv

\* So the invariant holds at first.
LEMMA InitNames == Init => NamesOK
<1>. SUFFICES ASSUME Init PROVE NamesOK OBVIOUS
<1>1. Sound(mem) BY BlankNames, GuardedNames DEF Init
<1>2. disk = mem /\ ops = 0 /\ pc = "up" /\ owed = {} /\ loose = {} /\ split = {} BY DEF Init
<1>. QED BY <1>1, <1>2, NamespaceAssumption DEF NamesOK

-----------------------------------------------------------------------------
(* Names are sound.                                                        *)

\* A directory with a name has one, where its ".." leads, and its climb meets the
\* root.
LEMMA TreeConnected ==
  ASSUME NEW m, NamesInv(m), NEW d \in m.inuse \ {Root}, IsDir(m, d), m.links[d] # 0
  PROVE  (\E n \in Names : NamesOf(m, d) = {<<m.up[d], n>>}) /\ Meets(m, d, Root)
<1>1. d \in Live(m) \ {Root} BY DEF Live
<1>. QED BY <1>1, ReachesRoot DEF NamesInv, Homes

\* The invariant implies what the runs check.
LEMMA NamesOKSound ==
  ASSUME NamesOK
  PROVE  NamesSound /\ LinkCounts
<1>1. NamesInv(mem) /\ NamesInv(disk) BY DEF NamesOK, Sound
<1>2. TypeOK BY <1>1 DEF NamesOK, TypeOK, NamesInv
<1>3. NoDangling BY <1>1, Nameless DEF NoDangling
<1>4. Connected BY <1>1, TreeConnected DEF Connected
<1>5. ASSUME NEW m, NamesInv(m) PROVE LinksRight(m)
  <2>1. ASSUME NEW x \in Places PROVE Len(m.ent[x[1]][x[2]]) <= 1
    <3>1. x[1] \in Inodes /\ x[2] \in Names BY DEF Places
    <3>2. PICK s : s = m.ent[x[1]][x[2]] OBVIOUS
    <3>3. s = <<>> \/ \E i \in Inodes : s = <<i>> BY <1>5, <3>1, <3>2 DEF NamesInv, Slots
    <3>4. Len(s) <= 1 BY <3>3
    <3>. QED BY <3>2, <3>4
  <2>2. ASSUME NEW i \in m.inuse
        PROVE  IF IsDir(m, i) /\ m.links[i] # 0
               THEN m.links[i] \in {1, 2 + Cardinality(Subdirs(m, i))}
               ELSE m.links[i] = Cardinality(NamesOf(m, i))
    BY <1>5 DEF NamesInv, Links, Live
  <2>. QED BY <2>1, <2>2 DEF LinksRight
<1>6. LinkCounts BY <1>1, <1>5 DEF LinkCounts
<1>. QED BY <1>2, <1>3, <1>4, <1>6 DEF NamesSound

\* The invariant holds in every state, if link counts do not wrap and the cases
\* of Windows that break names are left out.
LEMMA NamesAlways ==
  ASSUME Room, Orderly
  PROVE  Spec => []NamesOK
<1>1. NamesOK /\ [Next]_vars => NamesOK' BY NamesStep
<1>. QED BY <1>1, InitNames, PTL DEF Spec

\* No directory, in memory or on the medium, names a free inode, and each directory
\* has one name and hangs below the root (create_common, link_child, unlink_child,
\* ext4b_rename), whatever fails or is lost in a crash.
THEOREM NamesSafe == Room /\ Orderly => (Spec => []NamesSound)
<1>. SUFFICES ASSUME Room, Orderly PROVE Spec => []NamesSound OBVIOUS
<1>1. NamesOK => NamesSound BY NamesOKSound
<1>. QED BY <1>1, NamesAlways, PTL

\* A name is in a directory once, and each link count is the number of entries
\* (ext4_fs_inode_links_count_inc and _dec, ext4b_rename), or 1 for a directory
\* that has had too many.
THEOREM LinksSafe == Room /\ Orderly => (Spec => []LinkCounts)
<1>. SUFFICES ASSUME Room, Orderly PROVE Spec => []LinkCounts OBVIOUS
<1>1. NamesOK => LinkCounts BY NamesOKSound
<1>. QED BY <1>1, NamesAlways, PTL

-----------------------------------------------------------------------------
(* The orphan list is a chain.                                             *)

\* The inodes s[1], ..., s[n] are what following the pointers from the head
\* comes past, before it comes to an end.
Runs(m, s, n) ==
  /\ s \in [1 .. n -> Inodes] /\ \A j, k \in 1 .. n : s[j] = s[k] => j = k
  /\ \A k \in 1 .. n : NextOf(m, s[k]) = IF k < n THEN s[k + 1] ELSE None
  /\ m.sb = IF n = 0 THEN None ELSE s[1]

\* They are the orphans, but for those in out, and both heads are the first.
Chain(m, out) ==
  /\ m.head = m.sb /\ out \subseteq Orphans(m)
  /\ \E n \in Nat : \E s : Runs(m, s, n)
       /\ \A i : i \in Orphans(m) \ out <=> \E k \in 1 .. n : s[k] = i

\* The walk of Walk, n steps of it.
Follows(m, h, n, f) ==
  f = [k \in 1 .. n + 1 |-> IF k = 1 THEN h
                            ELSE IF f[k - 1] = None THEN None ELSE NextOf(m, f[k - 1])]

\* The walk is a function.
LEMMA FollowsExists ==
  ASSUME NEW m, NEW h, NEW n \in Nat
  PROVE  \E f : Follows(m, h, n, f)
<1>. DEFINE Next1(x) == IF x = None THEN None ELSE NextOf(m, x)
            S == {i \in Nat : \E f : f = [k \in 1 .. i + 1 |-> IF k = 1 THEN h ELSE Next1(f[k - 1])]}
<1>. HIDE DEF Next1
<1>1. 0 \in S
  <2>. DEFINE f == [k \in 1 .. 0 + 1 |-> h]
  <2>1. f = [k \in 1 .. 0 + 1 |-> IF k = 1 THEN h ELSE Next1(f[k - 1])] OBVIOUS
  <2>. QED BY <2>1
<1>2. ASSUME NEW i \in Nat, i \in S PROVE i + 1 \in S
  <2>1. PICK f : f = [k \in 1 .. i + 1 |-> IF k = 1 THEN h ELSE Next1(f[k - 1])] BY <1>2
  <2>. DEFINE g == [k \in 1 .. (i + 1) + 1 |-> IF k = (i + 1) + 1 THEN Next1(f[i + 1]) ELSE f[k]]
  <2>2. g = [k \in 1 .. (i + 1) + 1 |-> IF k = 1 THEN h ELSE Next1(g[k - 1])]
    <3>. SUFFICES ASSUME NEW k \in 1 .. (i + 1) + 1
                  PROVE  g[k] = IF k = 1 THEN h ELSE Next1(g[k - 1])
      OBVIOUS
    <3>1. CASE k = (i + 1) + 1 BY <3>1
    <3>2. CASE k # (i + 1) + 1
      <4>1. f[k] = IF k = 1 THEN h ELSE Next1(f[k - 1]) BY <2>1, <3>2
      <4>2. k # 1 => g[k - 1] = f[k - 1] BY <3>2
      <4>. QED BY <3>2, <4>1, <4>2
    <3>. QED BY <3>1, <3>2
  <2>. HIDE DEF g
  <2>3. \E e : e = [k \in 1 .. (i + 1) + 1 |-> IF k = 1 THEN h ELSE Next1(e[k - 1])] BY <2>2
  <2>. QED BY <2>3
<1>. HIDE DEF S
<1>3. Nat \subseteq S BY <1>1, <1>2, NatInd
<1>. QED BY <1>3 DEF S, Next1, Follows

\* What the walk comes past.
LEMMA WalkIs ==
  ASSUME NEW m, NEW h
  PROVE  /\ Cardinality(Inodes) \in Nat
         /\ DOMAIN Walk(m, h) = 1 .. Cardinality(Inodes) + 1
         /\ Walk(m, h)[1] = h
         /\ \A k \in 2 .. Cardinality(Inodes) + 1 :
              Walk(m, h)[k] = IF Walk(m, h)[k - 1] = None THEN None ELSE NextOf(m, Walk(m, h)[k - 1])
<1>. DEFINE N == Cardinality(Inodes)
<1>0. N \in Nat BY NamespaceAssumption, FS_CardinalityType
<1>. DEFINE at == CHOOSE f : Follows(m, h, N, f)
<1>1. Follows(m, h, N, at)
  <2>. HIDE DEF N
  <2>. QED BY <1>0, FollowsExists
<1>2. Walk(m, h) = at BY DEF Walk, Follows
<1>. HIDE DEF at, N
<1>3. DOMAIN at = 1 .. N + 1 /\ at[1] = h BY <1>0, <1>1 DEF Follows
<1>4. \A k \in 2 .. N + 1 : at[k] = IF at[k - 1] = None THEN None ELSE NextOf(m, at[k - 1])
  BY <1>0, <1>1 DEF Follows
<1>. QED BY <1>0, <1>2, <1>3, <1>4 DEF N

\* The walk from the head of a chain comes past its inodes in order.
LEMMA WalkRuns ==
  ASSUME NEW m, NEW n \in Nat, NEW s, Runs(m, s, n)
  PROVE  /\ n <= Cardinality(Inodes)
         /\ \A k \in 1 .. Cardinality(Inodes) + 1 : Walk(m, m.sb)[k] = IF k <= n THEN s[k] ELSE None
<1>. DEFINE N == Cardinality(Inodes)
<1>0. N \in Nat /\ IsFiniteSet(Inodes) BY NamespaceAssumption, FS_CardinalityType
<1>1. s \in [1 .. n -> Inodes] /\ (\A j, k \in 1 .. n : s[j] = s[k] => j = k)
      /\ (\A k \in 1 .. n : NextOf(m, s[k]) = IF k < n THEN s[k + 1] ELSE None)
      /\ m.sb = IF n = 0 THEN None ELSE s[1]
  BY DEF Runs
<1>2. n <= N
  <2>1. s \in Injection(1 .. n, Inodes) BY <1>1 DEF Injection, IsInjective
  <2>2. IsFiniteSet(1 .. n) /\ Cardinality(1 .. n) = n BY FS_Interval
  <2>. QED BY <1>0, <2>1, <2>2, FS_Injection
<1>3. PICK at : at = Walk(m, m.sb) OBVIOUS
<1>4. at[1] = m.sb /\ \A k \in 2 .. N + 1 :
        at[k] = IF at[k - 1] = None THEN None ELSE NextOf(m, at[k - 1])
  BY <1>3, WalkIs
<1>. DEFINE S == {k \in Nat : k \in 0 .. N => at[k + 1] = IF k + 1 <= n THEN s[k + 1] ELSE None}
<1>. HIDE DEF N
<1>5. 0 \in S BY <1>1, <1>4
<1>6. ASSUME NEW k \in Nat, k \in S PROVE k + 1 \in S
  <2>. SUFFICES ASSUME k + 1 \in 0 .. N
                PROVE  at[(k + 1) + 1] = IF (k + 1) + 1 <= n THEN s[(k + 1) + 1] ELSE None
    OBVIOUS
  <2>1. at[k + 1] = IF k + 1 <= n THEN s[k + 1] ELSE None BY <1>0, <1>6
  <2>2. at[(k + 1) + 1] = IF at[k + 1] = None THEN None ELSE NextOf(m, at[k + 1])
    BY <1>0, <1>4
  <2>3. k + 1 <= n => s[k + 1] # None BY <1>1, NamespaceAssumption
  <2>. QED BY <1>1, <2>1, <2>2, <2>3
<1>. HIDE DEF S
<1>7. Nat \subseteq S BY <1>5, <1>6, NatInd
<1>8. ASSUME NEW k \in 1 .. N + 1 PROVE at[k] = IF k <= n THEN s[k] ELSE None
  <2>1. k - 1 \in S /\ k - 1 \in 0 .. N BY <1>0, <1>7
  <2>2. (k - 1) + 1 = k OBVIOUS
  <2>. QED BY <2>1, <2>2 DEF S
<1>. QED BY <1>2, <1>3, <1>8 DEF N

\* The list a mount would find is what the chain holds.
LEMMA ListedIs ==
  ASSUME NEW m, NEW out, Chain(m, out)
  PROVE  Listed(m) = Orphans(m) \ out
<1>1. PICK n \in Nat : \E s : Runs(m, s, n)
        /\ \A i : i \in Orphans(m) \ out <=> \E k \in 1 .. n : s[k] = i
  BY DEF Chain
<1>2. PICK s : Runs(m, s, n) /\ \A i : i \in Orphans(m) \ out <=> \E k \in 1 .. n : s[k] = i
  BY <1>1
<1>3. m.head = m.sb BY DEF Chain
<1>4. n <= Cardinality(Inodes) /\ Cardinality(Inodes) \in Nat
      /\ DOMAIN Walk(m, m.sb) = 1 .. Cardinality(Inodes) + 1
      /\ \A k \in 1 .. Cardinality(Inodes) + 1 : Walk(m, m.sb)[k] = IF k <= n THEN s[k] ELSE None
  BY <1>2, WalkIs, WalkRuns
<1>5. \A k \in 1 .. n : s[k] \in Inodes /\ s[k] # None BY <1>2, NamespaceAssumption DEF Runs
<1>6. Listed(m) = {Walk(m, m.sb)[k] : k \in 1 .. Cardinality(Inodes) + 1} \ {None}
  BY <1>3, <1>4 DEF Listed
<1>7. PICK W, N : W = Walk(m, m.sb) /\ N = Cardinality(Inodes) OBVIOUS
<1>8. n <= N /\ N \in Nat /\ \A k \in 1 .. N + 1 : W[k] = IF k <= n THEN s[k] ELSE None
  BY <1>4, <1>7
<1>9. ASSUME NEW i PROVE i \in {W[k] : k \in 1 .. N + 1} \ {None} <=> \E k \in 1 .. n : s[k] = i
  <2>1. ASSUME NEW k \in 1 .. N + 1, W[k] = i, i # None PROVE \E j \in 1 .. n : s[j] = i
    BY <1>8, <2>1
  <2>2. ASSUME NEW k \in 1 .. n, s[k] = i PROVE i \in {W[j] : j \in 1 .. N + 1} /\ i # None
    <3>1. k \in 1 .. N + 1 /\ W[k] = i BY <1>8, <2>2
    <3>. QED BY <1>5, <2>2, <3>1
  <2>. QED BY <2>1, <2>2
<1>10. Listed(m) = {W[k] : k \in 1 .. N + 1} \ {None} BY <1>6, <1>7
<1>. QED BY <1>2, <1>9, <1>10

\* The chain has the same orphans at the same places.
LEMMA ChainKept ==
  ASSUME NEW m, NEW out, Chain(m, out), NEW w, w.head = m.head, w.sb = m.sb,
         \A i \in Orphans(m) \ out : w.next[i] = m.next[i],
         NEW o, o \subseteq Orphans(w), Orphans(w) \ o = Orphans(m) \ out
  PROVE  Chain(w, o)
<1>1. PICK n \in Nat : \E s : Runs(m, s, n)
        /\ \A i : i \in Orphans(m) \ out <=> \E k \in 1 .. n : s[k] = i
  BY DEF Chain
<1>2. PICK s : Runs(m, s, n) /\ \A i : i \in Orphans(m) \ out <=> \E k \in 1 .. n : s[k] = i
  BY <1>1
<1>3. \A k \in 1 .. n : s[k] \in Orphans(m) \ out BY <1>2
<1>4. \A k \in 1 .. n : NextOf(w, s[k]) = NextOf(m, s[k]) BY <1>3 DEF NextOf
<1>5. Runs(w, s, n) BY <1>2, <1>4 DEF Runs
<1>6. w.head = w.sb BY DEF Chain
<1>. QED BY <1>2, <1>5, <1>6 DEF Chain

\* The head is on it.
LEMMA HeadIn ==
  ASSUME NEW m, NEW out, Chain(m, out), m.sb # None
  PROVE  m.sb \in Orphans(m) \ out
<1>1. PICK n \in Nat : \E s : Runs(m, s, n)
        /\ \A i : i \in Orphans(m) \ out <=> \E k \in 1 .. n : s[k] = i
  BY DEF Chain
<1>2. PICK s : Runs(m, s, n) /\ \A i : i \in Orphans(m) \ out <=> \E k \in 1 .. n : s[k] = i
  BY <1>1
<1>3. n # 0 /\ m.sb = s[1] BY <1>2 DEF Runs
<1>4. 1 \in 1 .. n BY <1>3
<1>. QED BY <1>2, <1>3, <1>4

\* Without a head there is nothing on it.
LEMMA NoHead ==
  ASSUME NEW m, NEW out, Chain(m, out), m.sb = None
  PROVE  Orphans(m) \subseteq out
<1>1. PICK n \in Nat : \E s : Runs(m, s, n)
        /\ \A i : i \in Orphans(m) \ out <=> \E k \in 1 .. n : s[k] = i
  BY DEF Chain
<1>2. PICK s : Runs(m, s, n) /\ \A i : i \in Orphans(m) \ out <=> \E k \in 1 .. n : s[k] = i
  BY <1>1
<1>3. n = 0 BY <1>2, NamespaceAssumption DEF Runs
<1>. QED BY <1>2, <1>3

\* An inode becomes the head.
LEMMA ChainJoins ==
  ASSUME NEW m, m \in Meta, NEW out, Chain(m, out), NEW c \in Inodes \ Orphans(m),
         NEW w, w.sb = c, w.head = c, w.next[c] = m.sb,
         \A i \in Orphans(m) : w.next[i] = m.next[i], Orphans(w) = Orphans(m) \cup {c}
  PROVE  Chain(w, out)
<1>1. PICK n \in Nat : \E s : Runs(m, s, n)
        /\ \A i : i \in Orphans(m) \ out <=> \E k \in 1 .. n : s[k] = i
  BY DEF Chain
<1>2. PICK s : Runs(m, s, n) /\ \A i : i \in Orphans(m) \ out <=> \E k \in 1 .. n : s[k] = i
  BY <1>1
<1>3. PICK z : z = [k \in 1 .. n + 1 |-> IF k = 1 THEN c ELSE s[k - 1]] OBVIOUS
<1>4. s \in [1 .. n -> Inodes] /\ (\A j, k \in 1 .. n : s[j] = s[k] => j = k)
      /\ (\A k \in 1 .. n : NextOf(m, s[k]) = IF k < n THEN s[k + 1] ELSE None)
      /\ m.sb = IF n = 0 THEN None ELSE s[1]
  BY <1>2 DEF Runs
<1>5. \A k \in 1 .. n : s[k] \in Orphans(m) /\ s[k] # c BY <1>2
<1>6. \A k \in 1 .. n : NextOf(w, s[k]) = NextOf(m, s[k]) BY <1>5 DEF NextOf
<1>7. NextOf(w, c) = m.sb BY <1>4, NamespaceAssumption DEF NextOf
<1>8. z[1] = c /\ \A k \in 2 .. n + 1 : k - 1 \in 1 .. n /\ z[k] = s[k - 1] BY <1>3
<1>9. Runs(w, z, n + 1)
  <2>1. z \in [1 .. n + 1 -> Inodes] BY <1>3, <1>4
  <2>2. ASSUME NEW j \in 1 .. n + 1, NEW k \in 1 .. n + 1, z[j] = z[k] PROVE j = k
    <3>1. CASE j = 1 BY <1>5, <1>8, <2>2, <3>1
    <3>2. CASE k = 1 BY <1>5, <1>8, <2>2, <3>2
    <3>3. CASE j # 1 /\ k # 1 BY <1>4, <1>8, <2>2, <3>3
    <3>. QED BY <3>1, <3>2, <3>3
  <2>3. ASSUME NEW k \in 1 .. n + 1
        PROVE  NextOf(w, z[k]) = IF k < n + 1 THEN z[k + 1] ELSE None
    <3>1. CASE k = 1 BY <1>4, <1>7, <1>8, <3>1
    <3>2. CASE k # 1
      <4>1. k - 1 \in 1 .. n /\ z[k] = s[k - 1] BY <1>8, <3>2
      <4>2. NextOf(w, z[k]) = IF k - 1 < n THEN s[(k - 1) + 1] ELSE None BY <1>4, <1>6, <4>1
      <4>3. k < n + 1 => z[k + 1] = s[k] BY <1>8
      <4>. QED BY <4>2, <4>3
    <3>. QED BY <3>1, <3>2
  <2>. QED BY <1>8, <2>1, <2>2, <2>3 DEF Runs
<1>10. \A i : i \in Orphans(w) \ out <=> \E k \in 1 .. n + 1 : z[k] = i
  <2>1. c \notin out BY DEF Chain
  <2>2. ASSUME NEW i, i \in Orphans(w) \ out PROVE \E k \in 1 .. n + 1 : z[k] = i
    <3>1. CASE i = c BY <1>8, <3>1
    <3>2. CASE i # c
      <4>1. PICK k \in 1 .. n : s[k] = i BY <1>2, <2>2, <3>2
      <4>2. k + 1 \in 2 .. n + 1 /\ (k + 1) - 1 = k OBVIOUS
      <4>3. z[k + 1] = i BY <1>8, <4>1, <4>2
      <4>. QED BY <4>2, <4>3
    <3>. QED BY <3>1, <3>2
  <2>3. ASSUME NEW k \in 1 .. n + 1 PROVE z[k] \in Orphans(w) \ out
    <3>1. CASE k = 1 BY <1>8, <2>1, <3>1
    <3>2. CASE k # 1 BY <1>2, <1>8, <3>2
    <3>. QED BY <3>1, <3>2
  <2>. QED BY <2>2, <2>3
<1>11. out \subseteq Orphans(w) BY DEF Chain
<1>. QED BY <1>9, <1>10, <1>11 DEF Chain

\* The head comes off.
LEMMA ChainBeheaded ==
  ASSUME NEW m, NEW out, Chain(m, out), NEW c \in Inodes, m.sb = c,
         NEW w, w.sb = NextOf(m, c), w.head = NextOf(m, c),
         \A i \in Orphans(m) \ {c} : w.next[i] = m.next[i],
         NEW o, o \subseteq Orphans(w), Orphans(w) \ o = (Orphans(m) \ out) \ {c}
  PROVE  Chain(w, o)
<1>1. PICK n \in Nat : \E s : Runs(m, s, n)
        /\ \A i : i \in Orphans(m) \ out <=> \E k \in 1 .. n : s[k] = i
  BY DEF Chain
<1>2. PICK s : Runs(m, s, n) /\ \A i : i \in Orphans(m) \ out <=> \E k \in 1 .. n : s[k] = i
  BY <1>1
<1>4. s \in [1 .. n -> Inodes] /\ (\A j, k \in 1 .. n : s[j] = s[k] => j = k)
      /\ (\A k \in 1 .. n : NextOf(m, s[k]) = IF k < n THEN s[k + 1] ELSE None)
      /\ m.sb = IF n = 0 THEN None ELSE s[1]
  BY <1>2 DEF Runs
<1>5. n # 0 /\ s[1] = c BY <1>4, NamespaceAssumption
<1>11. \A k \in 2 .. n : s[k] # c /\ s[k] \in Orphans(m) \ out
  <2>. TAKE k \in 2 .. n
  <2>1. k \in 1 .. n /\ 1 \in 1 .. n /\ k # 1 BY <1>5
  <2>2. s[k] # s[1] BY <1>4, <2>1
  <2>3. s[k] \in Orphans(m) \ out BY <1>2, <2>1
  <2>. QED BY <1>5, <2>2, <2>3
<1>3. PICK z : z = [k \in 1 .. n - 1 |-> s[k + 1]] OBVIOUS
<1>8. \A k \in 1 .. n - 1 : k + 1 \in 1 .. n /\ z[k] = s[k + 1] BY <1>3
<1>6. \A k \in 2 .. n : NextOf(w, s[k]) = NextOf(m, s[k])
  <2>. TAKE k \in 2 .. n
  <2>1. s[k] \in Orphans(m) \ {c} BY <1>11
  <2>. QED BY <2>1 DEF NextOf
<1>7. n - 1 \in Nat BY <1>5
<1>9. Runs(w, z, n - 1)
  <2>1. z \in [1 .. n - 1 -> Inodes] BY <1>3, <1>4
  <2>2. \A j, k \in 1 .. n - 1 : z[j] = z[k] => j = k BY <1>4, <1>8
  <2>3. ASSUME NEW k \in 1 .. n - 1
        PROVE  NextOf(w, z[k]) = IF k < n - 1 THEN z[k + 1] ELSE None
    <3>1. k + 1 \in 2 .. n /\ z[k] = s[k + 1] BY <1>8
    <3>2. NextOf(w, z[k]) = IF k + 1 < n THEN s[(k + 1) + 1] ELSE None BY <1>4, <1>6, <3>1
    <3>3. k < n - 1 => z[k + 1] = s[(k + 1) + 1] BY <1>8
    <3>. QED BY <3>2, <3>3
  <2>4. w.sb = IF n - 1 = 0 THEN None ELSE z[1]
    <3>2. 1 \in 1 .. n BY <1>5
    <3>3. NextOf(m, s[1]) = IF 1 < n THEN s[1 + 1] ELSE None BY <1>4, <3>2
    <3>1. w.sb = IF 1 < n THEN s[1 + 1] ELSE None BY <1>5, <3>3
    <3>. QED BY <1>5, <1>8, <3>1
  <2>. QED BY <2>1, <2>2, <2>3, <2>4 DEF Runs
<1>10. \A i : i \in Orphans(w) \ o <=> \E k \in 1 .. n - 1 : z[k] = i
  <2>1. ASSUME NEW i, i \in Orphans(w) \ o PROVE \E k \in 1 .. n - 1 : z[k] = i
    <3>1. i # c /\ i \in Orphans(m) \ out BY <2>1
    <3>2. PICK k \in 1 .. n : s[k] = i BY <1>2, <3>1
    <3>3. k # 1 BY <1>5, <3>1, <3>2
    <3>4. k - 1 \in 1 .. n - 1 /\ (k - 1) + 1 = k BY <3>3
    <3>5. z[k - 1] = i BY <1>8, <3>2, <3>4
    <3>. QED BY <3>4, <3>5
  <2>2. ASSUME NEW k \in 1 .. n - 1 PROVE z[k] \in Orphans(w) \ o
    <3>1. z[k] = s[k + 1] /\ k + 1 \in 2 .. n BY <1>8
    <3>2. z[k] \in Orphans(m) \ out /\ z[k] # c BY <1>11, <3>1
    <3>. QED BY <3>2
  <2>. QED BY <2>1, <2>2
<1>. QED BY <1>7, <1>9, <1>10 DEF Chain

\* One that is not the head comes off, and its predecessor skips it.
LEMMA ChainSkips ==
  ASSUME NEW m, m \in Meta, NEW out, Chain(m, out), NEW c \in Inodes, m.sb # c, m.sb # None,
         NEW r, r \in orphan_del(m, c), r.rc = "OK", NEW o, o = (out \cup {c}) \cap Orphans(r.m)
  PROVE  Chain(r.m, o)
<1>1. PICK n \in Nat : \E s : Runs(m, s, n)
        /\ \A i : i \in Orphans(m) \ out <=> \E k \in 1 .. n : s[k] = i
  BY DEF Chain
<1>2. PICK s : Runs(m, s, n) /\ \A i : i \in Orphans(m) \ out <=> \E k \in 1 .. n : s[k] = i
  BY <1>1
<1>3. s \in [1 .. n -> Inodes] /\ (\A j, k \in 1 .. n : s[j] = s[k] => j = k)
      /\ (\A k \in 1 .. n : NextOf(m, s[k]) = IF k < n THEN s[k + 1] ELSE None)
      /\ m.sb = (IF n = 0 THEN None ELSE s[1]) /\ n # 0
  BY <1>2 DEF Runs
<1>4. PICK W, N : W = Walk(m, m.sb) /\ N = Cardinality(Inodes) OBVIOUS
<1>5. /\ n <= N /\ N \in Nat /\ DOMAIN W = 1 .. N + 1
      /\ \A k \in 1 .. N + 1 : W[k] = IF k <= n THEN s[k] ELSE None
  BY <1>2, <1>4, WalkIs, WalkRuns
<1>6. PICK cl : cl = [m EXCEPT !.next[c] = None] OBVIOUS
<1>7. PICK before : before = {k \in DOMAIN W : W[k] # None /\ NextOf(m, W[k]) = c} OBVIOUS
<1>8. PICK b : b = W[CHOOSE k \in before : TRUE] OBVIOUS
<1>9. r = Ok(IF before = {} THEN cl ELSE [cl EXCEPT !.next[b] = NextOf(m, c)])
  <2>1. \/ r \in {Fail(m), Fail(cl)}
        \/ r = Ok(IF before = {} THEN cl ELSE [cl EXCEPT !.next[b] = NextOf(m, c)])
    BY <1>4, <1>6, <1>7, <1>8 DEF orphan_del
  <2>. QED BY <2>1 DEF Fail
<1>10. PICK w : w = r.m OBVIOUS
<1>11. w = IF before = {} THEN cl ELSE [cl EXCEPT !.next[b] = NextOf(m, c)] BY <1>9, <1>10 DEF Ok
<1>12. cl.next = [m.next EXCEPT ![c] = None] /\ cl.sb = m.sb /\ cl.head = m.head
       /\ cl.inuse = m.inuse /\ cl.links = m.links
  BY <1>6 DEF Meta
<1>13. m.next \in [Inodes -> Inodes \cup {None, Dead}] /\ Orphans(m) \subseteq Inodes
  BY DEF Meta, Orphans
<1>14. w.sb = m.sb /\ w.head = m.head /\ w.inuse = m.inuse /\ w.links = m.links
  BY <1>11, <1>12
<1>15. Orphans(w) = Orphans(m) BY <1>14 DEF Orphans
<1>16. w.next = IF before = {} THEN [m.next EXCEPT ![c] = None]
                ELSE [[m.next EXCEPT ![c] = None] EXCEPT ![b] = NextOf(m, c)]
  BY <1>11, <1>12
<1>17. w.head = w.sb /\ o \subseteq Orphans(w) BY <1>10, <1>14 DEF Chain
<1>18. ASSUME NEW k \in before PROVE k \in 1 .. n /\ k < n /\ s[k + 1] = c
  <2>1. k \in 1 .. N + 1 /\ W[k] # None /\ NextOf(m, W[k]) = c BY <1>5, <1>7
  <2>2. k \in 1 .. n /\ W[k] = s[k] BY <1>5, <2>1
  <2>3. c # None BY NamespaceAssumption
  <2>. QED BY <1>3, <2>1, <2>2, <2>3
<1>19. ASSUME NEW k \in 1 .. n - 1, s[k + 1] = c PROVE k \in before
  <2>1. k \in 1 .. n /\ k < n /\ k \in 1 .. N + 1 BY <1>5
  <2>2. W[k] = s[k] /\ s[k] # None BY <1>3, <1>5, <2>1, NamespaceAssumption
  <2>. QED BY <1>3, <1>5, <1>7, <1>19, <2>1, <2>2
<1>20. CASE before = {}
  <2>1. \A k \in 1 .. n : s[k] # c
    <3>. SUFFICES ASSUME NEW k \in 1 .. n, s[k] = c PROVE FALSE OBVIOUS
    <3>1. k # 1 BY <1>3
    <3>2. k - 1 \in 1 .. n - 1 /\ (k - 1) + 1 = k BY <3>1
    <3>. QED BY <1>19, <1>20, <3>2
  <2>2. \A k \in 1 .. n : NextOf(w, s[k]) = NextOf(m, s[k])
    BY <1>3, <1>13, <1>16, <1>20, <2>1 DEF NextOf
  <2>3. Runs(w, s, n) BY <1>2, <1>14, <2>2 DEF Runs
  <2>4. \A i : i \in Orphans(w) \ o <=> \E k \in 1 .. n : s[k] = i
    BY <1>2, <1>10, <1>15, <2>1
  <2>. QED BY <1>10, <1>17, <2>3, <2>4 DEF Chain
<1>21. CASE before # {}
  <2>1. PICK a \in before : b = W[a] BY <1>8, <1>21
  <2>2. a \in 1 .. n /\ a < n /\ s[a + 1] = c BY <1>18
  <2>3. b = s[a] BY <1>5, <2>1, <2>2
  <2>4. NextOf(m, c) = IF a + 1 < n THEN s[(a + 1) + 1] ELSE None BY <1>3, <2>2
  <2>5. b \in Inodes /\ b # c BY <1>3, <2>2, <2>3
  <2>6. NextOf(w, b) = NextOf(m, c)
    <3>1. w.next[b] = NextOf(m, c) BY <1>13, <1>16, <1>21, <2>5
    <3>2. NextOf(m, c) \in Inodes \/ NextOf(m, c) = None BY DEF NextOf
    <3>. QED BY <3>1, <3>2, NamespaceAssumption DEF NextOf
  <2>7. \A i \in Inodes \ {b, c} : NextOf(w, i) = NextOf(m, i)
    BY <1>13, <1>16, <1>21, <2>5 DEF NextOf
  <2>8. PICK z : z = [k \in 1 .. n - 1 |-> IF k <= a THEN s[k] ELSE s[k + 1]] OBVIOUS
  <2>9. \A k \in 1 .. n - 1 : z[k] = IF k <= a THEN s[k] ELSE s[k + 1] BY <2>8
  <2>10. Runs(w, z, n - 1)
    <3>1. z \in [1 .. n - 1 -> Inodes] BY <1>3, <2>8
    <3>2. ASSUME NEW j \in 1 .. n - 1, NEW k \in 1 .. n - 1, z[j] = z[k] PROVE j = k
      <4>1. j \in 1 .. n /\ k \in 1 .. n /\ j + 1 \in 1 .. n /\ k + 1 \in 1 .. n OBVIOUS
      <4>2. CASE j <= a /\ k <= a BY <1>3, <2>9, <3>2, <4>1, <4>2
      <4>3. CASE j <= a /\ ~(k <= a)
        <5>1. s[j] = s[k + 1] BY <2>9, <3>2, <4>3
        <5>2. j = k + 1 BY <1>3, <4>1, <5>1
        <5>. QED BY <2>2, <4>3, <5>2
      <4>4. CASE ~(j <= a) /\ k <= a
        <5>1. s[j + 1] = s[k] BY <2>9, <3>2, <4>4
        <5>2. j + 1 = k BY <1>3, <4>1, <5>1
        <5>. QED BY <2>2, <4>4, <5>2
      <4>5. CASE ~(j <= a) /\ ~(k <= a)
        <5>1. s[j + 1] = s[k + 1] BY <2>9, <3>2, <4>5
        <5>2. j + 1 = k + 1 BY <1>3, <4>1, <5>1
        <5>. QED BY <5>2
      <4>. QED BY <4>2, <4>3, <4>4, <4>5
    <3>3. ASSUME NEW k \in 1 .. n - 1
          PROVE  NextOf(w, z[k]) = IF k < n - 1 THEN z[k + 1] ELSE None
      <4>1. CASE k = a
        <5>1. NextOf(w, z[k]) = IF a + 1 < n THEN s[(a + 1) + 1] ELSE None
          BY <2>3, <2>4, <2>6, <2>9, <4>1
        <5>2. k < n - 1 => z[k + 1] = s[(a + 1) + 1] BY <2>9, <4>1
        <5>. QED BY <4>1, <5>1, <5>2
      <4>2. CASE k < a
        <5>1. z[k] = s[k] /\ z[k + 1] = s[k + 1] /\ k < n - 1 BY <2>2, <2>9, <4>2
        <5>2. s[k] # b /\ s[k] # c /\ s[k] \in Inodes BY <1>3, <2>2, <2>3, <4>2
        <5>. QED BY <1>3, <2>7, <5>1, <5>2
      <4>3. CASE k > a
        <5>1. z[k] = s[k + 1] /\ (k < n - 1 => z[k + 1] = s[(k + 1) + 1]) BY <2>2, <2>9, <4>3
        <5>2. s[k + 1] # b /\ s[k + 1] # c /\ s[k + 1] \in Inodes
          BY <1>3, <2>2, <2>3, <4>3
        <5>3. NextOf(m, s[k + 1]) = IF k + 1 < n THEN s[(k + 1) + 1] ELSE None BY <1>3
        <5>. QED BY <2>7, <5>1, <5>2, <5>3
      <4>. QED BY <2>2, <4>1, <4>2, <4>3
    <3>4. w.sb = IF n - 1 = 0 THEN None ELSE z[1] BY <1>3, <1>14, <2>2, <2>9
    <3>. QED BY <3>1, <3>2, <3>3, <3>4 DEF Runs
  <2>11. \A i : i \in Orphans(w) \ o <=> \E k \in 1 .. n - 1 : z[k] = i
    <3>1. ASSUME NEW i, i \in Orphans(w) \ o PROVE \E k \in 1 .. n - 1 : z[k] = i
      <4>1. i # c /\ i \in Orphans(m) \ out BY <1>10, <1>15, <3>1
      <4>2. PICK k \in 1 .. n : s[k] = i BY <1>2, <4>1
      <4>3. CASE k <= a
        <5>1. k \in 1 .. n - 1 BY <2>2, <4>3
        <5>2. z[k] = i BY <2>9, <4>2, <4>3, <5>1
        <5>. QED BY <5>1, <5>2
      <4>4. CASE k > a
        <5>1. k # a + 1 BY <2>2, <4>1, <4>2
        <5>2. k - 1 \in 1 .. n - 1 /\ ~(k - 1 <= a) /\ (k - 1) + 1 = k BY <2>2, <4>4, <5>1
        <5>3. z[k - 1] = i BY <2>9, <4>2, <5>2
        <5>. QED BY <5>2, <5>3
      <4>. QED BY <2>2, <4>3, <4>4
    <3>2. ASSUME NEW k \in 1 .. n - 1 PROVE z[k] \in Orphans(w) \ o
      <4>1. PICK j \in 1 .. n : z[k] = s[j] /\ j # a + 1 BY <2>2, <2>9
      <4>2. s[j] # c BY <1>3, <2>2, <4>1
      <4>. QED BY <1>2, <1>10, <1>15, <4>1, <4>2
    <3>. QED BY <3>1, <3>2
  <2>12. n - 1 \in Nat BY <1>3
  <2>. QED BY <1>10, <1>17, <2>10, <2>11, <2>12 DEF Chain
<1>. QED BY <1>20, <1>21

-----------------------------------------------------------------------------
(* The list through the steps.                                             *)

\* No case of Windows is allowed.
Calm == Windows = {}

\* The orphans as the list has them, and what a rollback finds: the names of
\* before, and all of it if no part of a failed operation was committed.
ListOK ==
  /\ fails \in Nat /\ (pc = "down" => ops = 0) /\ (ops = 0 => OffList(mem, disk))
  /\ ~partial =>
       /\ Chain(mem, loose) /\ Chain(disk, split)
       /\ ops = 0 => mem = disk /\ loose = split
       /\ pc \in Inodes => pc \notin Orphans(mem) \ loose

\* What a failure alone in its transaction leaves.
Undone == fails' > fails /\ ops = 0 /\ ~partial' => mem' = mem /\ disk' = disk

\* What a call may come to, as to the list: the list if it succeeds, and fs->sb
\* if it does not.
Keeps(r, t, fixed, off) ==
  /\ ~partial /\ r.rc = "OK" /\ ~r.hit => Chain(r.m, (loose \cup off) \cap Orphans(r.m))
  /\ ~partial /\ ~t.ok => off = {} /\ (t.mem = mem => fixed = mem)
  /\ ~partial /\ ~t.ok /\ mem = disk /\ t.mem = Aborted(r.m) => fixed = disk

\* What a call may come to, as to protected names and link counts.
Guards(r, t, fixed) ==
  /\ Sound(r.m) /\ Protects(r.m, mem) /\ OffList(fixed, t.mem)
  /\ r.rc = "OK" /\ ~r.hit => Counted(r.m, mem)

\* What no step does while the volume is up: take from what chattr protects,
\* and, unless part of a failed operation is committed, stop counting links early.
Held ==
  pc # "down" /\ pc' # "down" => Protects(mem', mem) /\ (~partial' => Counted(mem', mem))

\* A commit that cannot fail.
LEMMA CommitCalm ==
  ASSUME Calm, NEW m
  PROVE  txn_commit(m) = {[mem |-> m, disk |-> m, ok |-> TRUE, hit |-> FALSE]}
BY DEF Calm, txn_commit

\* How a transaction ends when commits do not fail: rolled back, committed as
\* far as it got, committed, or going on.
RollsBack(r, t) ==
  /\ r.rc # "OK" /\ ops = 0 /\ t.mem = Aborted(r.m) /\ t.disk = disk /\ t.ops = 0 /\ ~t.ok
GivesUp(r, t) ==
  /\ r.rc # "OK" /\ ops # 0 /\ t.mem = r.m /\ t.disk = r.m /\ t.ops = 0 /\ ~t.ok
Succeeds(r, t) ==
  /\ r.rc = "OK" /\ t.mem = r.m /\ t.ok /\ (r.hit => t.hit)
  /\ (t.disk = r.m /\ t.ops = 0) \/ (t.disk = disk /\ t.ops = ops + 1)

\* These are all the ways.
LEMMA FinishCalm ==
  ASSUME Calm, NEW r, NEW t, t \in txn_finish(r)
  PROVE  RollsBack(r, t) \/ GivesUp(r, t) \/ Succeeds(r, t)
<1>1. txn_commit(r.m) = {[mem |-> r.m, disk |-> r.m, ok |-> TRUE, hit |-> FALSE]}
  BY CommitCalm
<1>2. CASE r.rc # "OK" /\ ops = 0
  <2>1. t = [mem |-> Aborted(r.m), disk |-> disk, ops |-> 0, ok |-> FALSE, hit |-> r.hit]
    BY <1>2 DEF txn_finish
  <2>. QED BY <1>2, <2>1 DEF RollsBack
<1>3. CASE r.rc # "OK" /\ ops # 0
  <2>1. t = [mem |-> r.m, disk |-> r.m, ops |-> 0, ok |-> TRUE /\ r.rc = "OK",
             hit |-> FALSE \/ r.hit]
    BY <1>1, <1>3 DEF txn_finish
  <2>. QED BY <1>3, <2>1 DEF GivesUp
<1>4. CASE r.rc = "OK"
  <2>1. PICK k, h : k = (TRUE /\ r.rc = "OK") /\ h = (FALSE \/ r.hit) OBVIOUS
  <2>2. \/ t = [mem |-> r.m, disk |-> r.m, ops |-> 0, ok |-> k, hit |-> h]
        \/ t = [mem |-> r.m, disk |-> disk, ops |-> ops + 1, ok |-> TRUE, hit |-> r.hit]
    BY <1>1, <1>4, <2>1 DEF txn_finish
  <2>3. t.mem = r.m /\ ((t.disk = r.m /\ t.ops = 0) \/ (t.disk = disk /\ t.ops = ops + 1))
    BY <2>2
  <2>4. (t.ok = k \/ t.ok = TRUE) /\ (t.hit = h \/ t.hit = r.hit) BY <2>2
  <2>5. k BY <1>4, <2>1
  <2>6. t.ok BY <2>4, <2>5
  <2>7. r.hit => h BY <2>1, Zenon
  <2>8. r.hit => t.hit BY <2>4, <2>7, Zenon
  <2>. QED BY <1>4, <2>3, <2>6, <2>8 DEF Succeeds
<1>. QED BY <1>2, <1>3, <1>4

\* A call keeps both chains, and is undone if it fails alone.
LEMMA CallList ==
  ASSUME Calm, ListOK, ops \in Nat, NEW r, NEW t, t \in txn_finish(r),
         NEW fixed, NEW off, Closes(r, t, fixed, off), Keeps(r, t, fixed, off)
  PROVE  /\ fails' \in Nat /\ Undone
         /\ ~partial' => /\ ~partial /\ Chain(mem', loose') /\ Chain(disk', split')
                         /\ ops' = 0 => mem' = disk' /\ loose' = split'
<1>1. fails' \in Nat BY DEF ListOK, Closes
<1>. SUFFICES ASSUME ~partial'
              PROVE  /\ Undone /\ ~partial /\ Chain(mem', loose') /\ Chain(disk', split')
                     /\ ops' = 0 => mem' = disk' /\ loose' = split'
  BY <1>1 DEF Undone
<1>2. ~partial /\ (r.rc # "OK" /\ t.disk = r.m => r.m = mem) /\ (r.rc = "OK" => ~t.hit)
  BY DEF Closes
<1>3. /\ ops' = t.ops /\ mem' = (IF t.ok THEN t.mem ELSE fixed) /\ disk' = t.disk
      /\ loose' = IF t.ops = 0 /\ t.disk # r.m THEN split ELSE (loose \cup off) \cap Orphans(r.m)
      /\ split' = IF t.disk = r.m THEN loose' ELSE split
  BY DEF Closes
<1>4. Chain(mem, loose) /\ Chain(disk, split) /\ (ops = 0 => mem = disk /\ loose = split)
      /\ loose \subseteq Orphans(mem)
  BY <1>2 DEF ListOK, Chain
<1>5. CASE RollsBack(r, t)
  <2>0. r.rc # "OK" /\ ops = 0 /\ t.mem = Aborted(r.m) /\ t.disk = disk /\ t.ops = 0 /\ ~t.ok
    BY <1>5 DEF RollsBack
  <2>1. off = {} /\ fixed = disk BY <1>2, <1>4, <2>0 DEF Keeps
  <2>2. mem' = disk /\ disk' = disk BY <1>3, <2>0, <2>1
  <2>3. disk = r.m => (loose \cup off) \cap Orphans(r.m) = loose BY <1>4, <2>0, <2>1
  <2>4. loose' = split /\ split' = split BY <1>3, <1>4, <2>0, <2>3
  <2>. QED BY <1>2, <1>4, <2>0, <2>2, <2>4 DEF Undone
<1>6. CASE GivesUp(r, t)
  <2>0. r.rc # "OK" /\ ops # 0 /\ t.mem = r.m /\ t.disk = r.m /\ t.ops = 0 /\ ~t.ok
    BY <1>6 DEF GivesUp
  <2>1. r.m = mem BY <1>2, <2>0
  <2>2. off = {} /\ fixed = mem BY <1>2, <2>0, <2>1 DEF Keeps
  <2>3. mem' = mem /\ disk' = mem BY <1>3, <2>0, <2>1, <2>2
  <2>4. (loose \cup off) \cap Orphans(r.m) = loose BY <1>4, <2>1, <2>2
  <2>5. loose' = loose /\ split' = loose BY <1>3, <2>0, <2>4
  <2>. QED BY <1>2, <1>4, <2>0, <2>3, <2>5 DEF Undone
<1>7. CASE Succeeds(r, t)
  <2>0. r.rc = "OK" /\ t.ok /\ t.mem = r.m /\ (r.hit => t.hit)
        /\ (t.disk = r.m \/ (t.disk = disk /\ t.ops = ops + 1))
    BY <1>7 DEF Succeeds
  <2>1. ~t.hit /\ ~r.hit BY <1>2, <2>0
  <2>2. Chain(r.m, (loose \cup off) \cap Orphans(r.m)) BY <1>2, <2>0, <2>1 DEF Keeps
  <2>3. mem' = r.m /\ loose' = (loose \cup off) \cap Orphans(r.m)
    BY <1>3, <2>0
  <2>4. fails' = fails BY <2>1 DEF Closes
  <2>5. Undone BY <2>4 DEF Undone, ListOK
  <2>6. CASE t.disk = r.m BY <1>2, <1>3, <2>2, <2>3, <2>5, <2>6
  <2>7. CASE t.disk # r.m
    <3>1. disk' = disk /\ split' = split /\ ops' # 0 BY <1>3, <2>0, <2>7
    <3>. QED BY <1>2, <1>4, <2>2, <2>3, <2>5, <3>1
  <2>. QED BY <2>6, <2>7
<1>. QED BY <1>5, <1>6, <1>7, FinishCalm

\* fs->sb gets back what it had.
LEMMA RestoredIs ==
  ASSUME mem \in Meta, NEW x
  PROVE  Restored(mem) = mem /\ (mem = disk => Restored(Aborted(x)) = disk)
<1>1. [mem EXCEPT !.sb = mem.sb] = mem BY DEF Meta
<1>2. [[mem EXCEPT !.sb = x.sb] EXCEPT !.sb = mem.sb] = [mem EXCEPT !.sb = mem.sb] BY DEF Meta
<1>. QED BY <1>1, <1>2 DEF Restored, Aborted

\* A call that fails leaves in fs->sb what it found there, or has it put back.
LEMMA FailKeeps ==
  ASSUME NamesOK, NEW r, r.rc # "OK", NEW t, NEW fixed,
         fixed = Restored(t.mem) \/ (fixed = t.mem /\ r.m.sb = mem.sb)
  PROVE  Keeps(r, t, fixed, {})
<1>0. mem \in Meta /\ disk \in Meta BY DEF NamesOK, Sound, NamesInv
<1>1. t.mem = mem => fixed = mem BY <1>0, RestoredIs
<1>2. ASSUME mem = disk, t.mem = Aborted(r.m) PROVE fixed = disk
  <2>1. CASE fixed = Restored(t.mem) BY <1>0, <1>2, <2>1, RestoredIs
  <2>2. CASE fixed = t.mem /\ r.m.sb = mem.sb BY <1>0, <1>2, <2>2 DEF Aborted, Meta
  <2>. QED BY <2>1, <2>2
<1>. QED BY <1>1, <1>2 DEF Keeps

\* A call that succeeds has to leave a chain, and nothing else matters.
LEMMA OkKeeps ==
  ASSUME Calm, NEW r, r.rc = "OK", NEW t, t \in txn_finish(r), NEW fixed, NEW off,
         ~partial /\ ~r.hit => Chain(r.m, (loose \cup off) \cap Orphans(r.m))
  PROVE  Keeps(r, t, fixed, off)
<1>1. t.ok BY FinishCalm DEF RollsBack, GivesUp, Succeeds
<1>. QED BY <1>1 DEF Keeps

\* A call that only changes names leaves the list as it was.
LEMMA GoodKeeps ==
  ASSUME Calm, NamesOK, ListOK, NEW r, Good(r, mem), NEW t, t \in txn_finish(r),
         NEW fixed, fixed = t.mem
  PROVE  Keeps(r, t, fixed, {})
<1>1. CASE r.rc # "OK"
  <2>1. r.m.sb = mem.sb BY DEF Good
  <2>. QED BY <1>1, <2>1, FailKeeps
<1>2. CASE r.rc = "OK"
  <2>. SUFFICES ASSUME ~partial PROVE Chain(r.m, (loose \cup {}) \cap Orphans(r.m))
    BY <1>2, OkKeeps
  <2>1. Chain(mem, loose) /\ loose \subseteq Orphans(mem) BY DEF ListOK, Chain
  <2>2. ListKept(r.m, mem) BY <1>2 DEF Good
  <2>3. Orphans(r.m) = Orphans(mem) BY <2>2 DEF ListKept
  <2>4. (loose \cup {}) \cap Orphans(r.m) = loose BY <2>1, <2>3
  <2>5. Chain(r.m, loose) BY <2>1, <2>2, <2>3, ChainKept DEF ListKept
  <2>. QED BY <2>4, <2>5
<1>. QED BY <1>1, <1>2

\* So does one that removes a last name, or the inode becomes the head.
LEMMA UnlinkKeeps ==
  ASSUME Calm, NamesOK, ListOK, NEW p \in mem.inuse, NEW n \in Names, NEW defer \in BOOLEAN,
         NEW r, r \in unlink_ex(mem, p, n, defer), NEW t, t \in txn_finish(r), NEW fixed,
         fixed = IF r.rc = "OK" /\ r.m.sb # mem.sb THEN orphan_publish_head(t.mem, mem.sb) ELSE t.mem
  PROVE  Keeps(r, t, fixed, {})
<1>0. mem \in Meta /\ NamesInv(mem) BY DEF NamesOK, Sound, NamesInv
<1>1. Good(r, mem) \/ Joined(r, mem, Find(mem, p, n)) \/ Unheaded(r, mem)
  BY <1>0, UnlinkExResult
<1>2. CASE Good(r, mem)
  <2>1. fixed = t.mem BY <1>2 DEF Good
  <2>. QED BY <1>2, <2>1, GoodKeeps
<1>3. CASE Joined(r, mem, Find(mem, p, n))
  <2>0. r.rc = "OK" BY <1>3 DEF Joined
  <2>. SUFFICES ASSUME ~partial PROVE Chain(r.m, (loose \cup {}) \cap Orphans(r.m))
    BY <2>0, OkKeeps
  <2>1. Chain(mem, loose) /\ loose \subseteq Orphans(mem) BY DEF ListOK, Chain
  <2>2. PICK c : c = Find(mem, p, n) OBVIOUS
  <2>3. /\ c \in Inodes \ Orphans(mem) /\ Orphans(r.m) = Orphans(mem) \cup {c}
        /\ r.m.sb = c /\ r.m.head = c /\ r.m.next[c] = mem.sb
        /\ \A i \in Orphans(mem) : r.m.next[i] = mem.next[i]
    BY <1>3, <2>2 DEF Joined
  <2>4. Chain(r.m, loose) BY <1>0, <2>1, <2>3, ChainJoins
  <2>5. (loose \cup {}) \cap Orphans(r.m) = loose BY <2>1, <2>3
  <2>. QED BY <2>4, <2>5
<1>4. CASE Unheaded(r, mem) BY <1>4, OkKeeps DEF Unheaded
<1>. QED BY <1>1, <1>2, <1>3, <1>4

\* An inode comes off the list before it is freed.
LEMMA UnlistKeeps ==
  ASSUME Calm, NamesOK, ListOK, NEW i \in Inodes, mem.sb # i, mem.sb # None,
         NEW r, r \in orphan_del(mem, i), NEW t, t \in txn_finish(r),
         NEW fixed, fixed = Restored(t.mem), NEW off, off = IF t.ok THEN {i} ELSE {}
  PROVE  Keeps(r, t, fixed, off)
<1>0. mem \in Meta BY DEF NamesOK, Sound, NamesInv
<1>1. CASE r.rc # "OK"
  <2>1. off = {} BY <1>1, FinishCalm DEF RollsBack, GivesUp, Succeeds
  <2>. QED BY <1>1, <2>1, FailKeeps
<1>2. CASE r.rc = "OK"
  <2>. SUFFICES ASSUME ~partial PROVE Chain(r.m, (loose \cup off) \cap Orphans(r.m))
    BY <1>2, OkKeeps
  <2>0. Chain(mem, loose) /\ loose \subseteq Orphans(mem) BY DEF ListOK, Chain
  <2>1. off = {i} BY <1>2, FinishCalm DEF RollsBack, GivesUp, Succeeds
  <2>. QED BY <1>0, <1>2, <2>0, <2>1, ChainSkips
<1>. QED BY <1>1, <1>2

\* A release frees the head, or what is no longer on the list.
LEMMA ReleaseKeeps ==
  ASSUME Calm, NamesOK, ListOK, NEW i \in Inodes, pc = i \/ mem.sb \in {i, None},
         NEW r, r \in release_inode(mem, i), NEW t, t \in txn_finish(r),
         NEW fixed, fixed = IF mem.sb = i THEN Restored(t.mem) ELSE t.mem
  PROVE  Keeps(r, t, fixed, {})
<1>0. mem \in Meta /\ NamesInv(mem) BY DEF NamesOK, Sound, NamesInv
<1>1. CASE mem.links[i] # 0
  <2>1. r = Err(mem, "EBUSY") BY <1>1 DEF release_inode
  <2>2. r.rc # "OK" /\ r.m.sb = mem.sb BY <2>1 DEF Err
  <2>. QED BY <2>2, FailKeeps
<1>2. CASE mem.links[i] = 0 /\ i \notin mem.inuse
  <2>0. r = Ok(mem) BY <1>2 DEF release_inode
  <2>1. r.rc = "OK" /\ r.m = mem BY <2>0 DEF Ok
  <2>2. ~partial => Chain(mem, loose) /\ (loose \cup {}) \cap Orphans(mem) = loose
    BY DEF ListOK, Chain
  <2>. QED BY <2>1, <2>2, OkKeeps
<1>3. CASE mem.links[i] = 0 /\ i \in mem.inuse
  <2>1. PICK q \in Delete(mem, i) :
          r \in IF q.rc = "OK"
                THEN IF mem.sb = i THEN {Ok(orphan_publish_head(q.m, NextOf(mem, i))),
                                         Fail([q.m EXCEPT !.sb = NextOf(mem, i)])}
                     ELSE {Ok(q.m)}
                ELSE {q}
    BY <1>3 DEF release_inode, Then
  <2>2. PICK x : x = q.m OBVIOUS
  <2>3. NamesInv(x) /\ x.links = mem.links /\ x.head = mem.head /\ x.sb = mem.sb
        /\ (\A j \in Inodes \ {i} : x.next[j] = mem.next[j])
        /\ (q.rc = "OK" => x.inuse = mem.inuse \ {i})
    BY <1>0, <1>3, <2>2, DeleteResult, SMTT(60)
  <2>4. i \in Orphans(mem) /\ Orphans(mem) \subseteq Inodes BY <1>0, <1>3 DEF Orphans, Meta
  <2>5. CASE q.rc # "OK"
    <3>1. r.rc # "OK" /\ r.m.sb = mem.sb BY <2>1, <2>2, <2>3, <2>5
    <3>. QED BY <3>1, FailKeeps
  <2>6. CASE q.rc = "OK" /\ mem.sb = i
    <3>1. PICK w : w = orphan_publish_head(x, NextOf(mem, i)) OBVIOUS
    <3>2. r = Ok(w) \/ r.rc # "OK" BY <2>1, <2>2, <2>6, <3>1 DEF Fail
    <3>3. CASE r.rc # "OK" BY <2>6, <3>3, FailKeeps
    <3>4. CASE r = Ok(w)
      <4>0. r.rc = "OK" /\ r.m = w BY <3>4 DEF Ok
      <4>. SUFFICES ASSUME ~partial PROVE Chain(w, (loose \cup {}) \cap Orphans(w))
        BY <4>0, OkKeeps
      <4>1. w.sb = NextOf(mem, i) /\ w.head = NextOf(mem, i) /\ w.next = x.next
            /\ w.inuse = x.inuse /\ w.links = x.links
        BY <2>3, <3>1 DEF orphan_publish_head, NamesInv, Meta
      <4>2. Orphans(w) = Orphans(mem) \ {i} BY <2>3, <2>6, <4>1 DEF Orphans
      <4>3. Chain(mem, loose) BY DEF ListOK
      <4>4. \A j \in Orphans(mem) \ {i} : w.next[j] = mem.next[j] BY <2>3, <2>4, <4>1
      <4>5. PICK o : o = (loose \cup {}) \cap Orphans(w) OBVIOUS
      <4>6. o \subseteq Orphans(w) /\ Orphans(w) \ o = (Orphans(mem) \ loose) \ {i} BY <4>2, <4>5
      <4>7. Chain(w, o) BY <2>6, <4>1, <4>3, <4>4, <4>6, ChainBeheaded
      <4>. QED BY <4>5, <4>7
    <3>. QED BY <3>2, <3>3, <3>4
  <2>7. CASE q.rc = "OK" /\ mem.sb # i
    <3>0. r.rc = "OK" /\ r.m = x BY <2>1, <2>2, <2>7 DEF Ok
    <3>. SUFFICES ASSUME ~partial PROVE Chain(x, (loose \cup {}) \cap Orphans(x))
      BY <3>0, OkKeeps
    <3>1. Chain(mem, loose) BY DEF ListOK
    <3>2. i \notin Orphans(mem) \ loose /\ Chain(mem, loose)
      <4>1. CASE pc = i BY <3>1, <4>1 DEF ListOK
      <4>2. CASE mem.sb = None BY <3>1, <4>2, NoHead
      <4>. QED BY <2>7, <3>1, <4>1, <4>2
    <3>3. Orphans(x) = Orphans(mem) \ {i} BY <2>3, <2>7 DEF Orphans
    <3>4. \A j \in Orphans(mem) \ loose : x.next[j] = mem.next[j] BY <2>3, <2>4, <3>2
    <3>5. PICK o : o = (loose \cup {}) \cap Orphans(x) OBVIOUS
    <3>6. o \subseteq Orphans(x) /\ Orphans(x) \ o = Orphans(mem) \ loose BY <3>2, <3>3, <3>5
    <3>7. Chain(x, o) BY <2>3, <3>2, <3>4, <3>6, ChainKept
    <3>. QED BY <3>5, <3>7
  <2>. QED BY <2>5, <2>6, <2>7
<1>. QED BY <1>1, <1>2, <1>3

\* The sweep at mount takes the head off and frees it.
LEMMA CleanupKeeps ==
  ASSUME Calm, NamesOK, ListOK, NEW i \in Inodes, mem.sb = i,
         NEW r, r \in orphan_cleanup(mem), NEW t, t \in txn_finish(r), NEW fixed, fixed = t.mem
  PROVE  Keeps(r, t, fixed, {})
<1>. SUFFICES ASSUME ~partial PROVE Keeps(r, t, fixed, {}) BY DEF Keeps
<1>0. mem \in Meta /\ NamesInv(mem) /\ Sound(mem) BY DEF NamesOK, Sound, NamesInv
<1>1. Chain(mem, loose) /\ i \in Orphans(mem) \ loose
  <2>1. Chain(mem, loose) BY DEF ListOK
  <2>. QED BY <2>1, HeadIn, NamespaceAssumption
<1>2. i \in mem.inuse /\ mem.links[i] = 0 /\ Orphans(mem) \subseteq Inodes
  BY <1>0, <1>1 DEF Orphans, Meta
<1>3. NextOf(mem, i) \in Inodes \cup {None} BY DEF NextOf
<1>4. PICK off : off = orphan_publish_head(mem, NextOf(mem, i)) OBVIOUS
<1>5. r = Fail(mem) \/ (r \in Delete(off, i) /\ ~r.hit)
  BY <1>2, <1>4 DEF orphan_cleanup, Calm
<1>6. CASE r = Fail(mem)
  <2>1. r.rc # "OK" /\ r.m.sb = mem.sb BY <1>6 DEF Fail
  <2>. QED BY <2>1, FailKeeps
<1>7. CASE r \in Delete(off, i) /\ ~r.hit
  <2>0. r.rc = "OK" BY <1>7 DEF Delete, Ok, Fail
  <2>. SUFFICES Chain(r.m, (loose \cup {}) \cap Orphans(r.m)) BY <2>0, OkKeeps
  <2>1. OffList(off, mem) BY <1>0, <1>3, <1>4, HeadsOff
  <2>2. NamesInv(off) BY <1>0, <2>1, SoundOff DEF Sound
  <2>3. off.sb = NextOf(mem, i) /\ off.head = NextOf(mem, i) /\ off.next = mem.next
        /\ off.inuse = mem.inuse /\ off.links = mem.links
    BY <1>0, <1>4 DEF orphan_publish_head, Meta
  <2>4. PICK w : w = r.m OBVIOUS
  <2>5. w.links = off.links /\ w.head = off.head /\ w.sb = off.sb
        /\ (\A j \in Inodes \ {i} : w.next[j] = off.next[j]) /\ w.inuse = off.inuse \ {i}
    BY <1>2, <1>7, <2>0, <2>2, <2>3, <2>4, DeleteResult, SMTT(60)
  <2>6. Orphans(w) = Orphans(mem) \ {i} BY <2>3, <2>5 DEF Orphans
  <2>7. \A j \in Orphans(mem) \ {i} : w.next[j] = mem.next[j] BY <1>2, <2>3, <2>5
  <2>8. PICK o : o = (loose \cup {}) \cap Orphans(w) OBVIOUS
  <2>9. o \subseteq Orphans(w) /\ Orphans(w) \ o = (Orphans(mem) \ loose) \ {i} BY <2>6, <2>8
  <2>10. Chain(w, o) BY <1>1, <2>3, <2>5, <2>7, <2>9, ChainBeheaded
  <2>. QED BY <2>4, <2>8, <2>10
<1>. QED BY <1>5, <1>6, <1>7

\* A call that only changes names takes nothing from what is protected.
LEMMA GoodGuards ==
  ASSUME NamesOK, NEW r, Good(r, mem), NEW t, t \in txn_finish(r), NEW fixed, fixed = t.mem
  PROVE  Guards(r, t, fixed)
<1>1. Sound(r.m) BY GoodSound DEF NamesOK
<1>2. Sound(t.mem) BY <1>1, Finishes
<1>3. OffList(fixed, t.mem) BY <1>2, Fixes
<1>. QED BY <1>1, <1>3 DEF Guards, Good

\* Nor does one that changes the list.
LEMMA OtherGuards ==
  ASSUME NamesOK, NEW r, Sound(r.m), Protects(r.m, mem), r.rc = "OK" /\ ~r.hit => Counted(r.m, mem),
         NEW t, t \in txn_finish(r), NEW fixed,
         fixed \in {t.mem, Restored(t.mem), orphan_publish_head(t.mem, mem.sb)}
  PROVE  Guards(r, t, fixed)
<1>1. Sound(t.mem) BY Finishes
<1>2. OffList(fixed, t.mem) BY <1>1, Fixes
<1>. QED BY <1>2 DEF Guards

\* A call holds what it must, however its transaction ends.
LEMMA CallHeld ==
  ASSUME Calm, NamesOK, ListOK, NEW r, NEW t, t \in txn_finish(r), NEW fixed, NEW off,
         Closes(r, t, fixed, off), Guards(r, t, fixed)
  PROVE  (ops' = 0 => OffList(mem', disk')) /\ Held
<1>0. Sound(mem) /\ mem \in Meta /\ disk \in Meta /\ ops \in Nat /\ r.m \in Meta
  BY NamespaceAssumption DEF NamesOK, Sound, NamesInv, Guards
<1>1. /\ ops' = t.ops /\ mem' = (IF t.ok THEN t.mem ELSE fixed) /\ disk' = t.disk
      /\ ~partial' => (r.rc # "OK" /\ t.disk = r.m => r.m = mem) /\ (r.rc = "OK" => ~t.hit)
  BY DEF Closes
<1>2. OffList(fixed, t.mem) /\ Protects(r.m, mem) /\ Sound(r.m) BY DEF Guards
<1>3. CASE RollsBack(r, t)
  <2>1. ops = 0 /\ t.mem = Aborted(r.m) /\ t.disk = disk /\ ~t.ok BY <1>3 DEF RollsBack
  <2>2. OffList(t.mem, disk) BY <1>0, <2>1, AbortedOff
  <2>3. mem' = fixed /\ OffList(fixed, disk) BY <1>1, <1>2, <2>1, <2>2, OffTwice
  <2>4. OffList(mem, disk) BY <2>1 DEF ListOK
  <2>5. OffList(mem', mem) BY <2>3, <2>4 DEF OffList
  <2>6. Protects(mem', mem) /\ Counted(mem', mem) BY <1>0, <2>5, SoundOff
  <2>. QED BY <1>1, <2>1, <2>3, <2>6 DEF Held
<1>4. CASE GivesUp(r, t)
  <2>1. r.rc # "OK" /\ t.mem = r.m /\ t.disk = r.m /\ ~t.ok BY <1>4 DEF GivesUp
  <2>2. mem' = fixed /\ OffList(mem', r.m) /\ disk' = r.m BY <1>1, <1>2, <2>1
  <2>3. Protects(mem', r.m) /\ Counted(mem', r.m) BY <1>2, <2>2, SoundOff
  <2>4. Protects(mem', mem) BY <1>2, <2>3, ProtectsTwice
  <2>5. ~partial' => Counted(mem', mem) BY <1>1, <2>1, <2>3
  <2>. QED BY <2>2, <2>4, <2>5 DEF Held
<1>5. CASE Succeeds(r, t)
  <2>1. r.rc = "OK" /\ t.ok /\ t.mem = r.m /\ (r.hit => t.hit)
        /\ (t.disk = r.m \/ (t.disk = disk /\ t.ops = ops + 1))
    BY <1>5 DEF Succeeds
  <2>2. mem' = r.m BY <1>1, <2>1
  <2>3. ~partial' => Counted(mem', mem) BY <1>1, <2>1, <2>2 DEF Guards
  <2>4. ops' = 0 => disk' = r.m BY <1>0, <1>1, <2>1
  <2>5. OffList(r.m, r.m) BY <1>0 DEF OffList
  <2>. QED BY <1>2, <2>2, <2>3, <2>4, <2>5 DEF Held
<1>. QED BY <1>3, <1>4, <1>5, FinishCalm

\* A call keeps the list, is undone if it fails alone, and holds what it must.
LEMMA ListCall ==
  ASSUME Calm, NamesOK, ListOK, NEW r, NEW t, t \in txn_finish(r), NEW fixed, NEW off,
         Closes(r, t, fixed, off), Keeps(r, t, fixed, off), Guards(r, t, fixed),
         pc' \in {"up", "sweep"} \/ (pc' \in Inodes /\ t.ok /\ off = {pc'})
  PROVE  ListOK' /\ Undone /\ Held
<1>0. ops \in Nat BY NamespaceAssumption DEF NamesOK
<1>1. /\ fails' \in Nat /\ Undone
      /\ ~partial' => /\ ~partial /\ Chain(mem', loose') /\ Chain(disk', split')
                      /\ ops' = 0 => mem' = disk' /\ loose' = split'
  BY <1>0, CallList
<1>2. pc' # "down" BY NamespaceAssumption
<1>3. ASSUME pc' \in Inodes PROVE pc' \notin Orphans(mem') \ loose'
  <2>1. t.ok /\ off = {pc'} BY <1>3, NamespaceAssumption
  <2>2. Succeeds(r, t) BY <2>1, FinishCalm DEF RollsBack, GivesUp
  <2>3. mem' = r.m /\ loose' = (loose \cup off) \cap Orphans(r.m)
    BY <1>0, <2>2 DEF Succeeds, Closes
  <2>. QED BY <2>1, <2>3
<1>4. (ops' = 0 => OffList(mem', disk')) /\ Held BY CallHeld
<1>. QED BY <1>1, <1>2, <1>3, <1>4 DEF ListOK

\* Every step keeps the list, undoes what fails alone, and holds what it must.
LEMMA ListStep ==
  ASSUME Room, Calm, NamesOK, ListOK, [Next]_vars
  PROVE  ListOK' /\ Undone /\ Held
<1>0. /\ NamesInv(mem) /\ Flagged(mem) /\ mem \in Meta /\ disk \in Meta /\ Orderly
      /\ mem.inuse \subseteq Inodes
  BY DEF NamesOK, Sound, NamesInv, Calm, Orderly, Meta
<1>20. OffList(mem, mem) /\ OffList(disk, disk) /\ Protects(mem, mem) /\ Counted(mem, mem)
  BY <1>0 DEF OffList, Protects, Counted
<1>1. ASSUME NEW p \in Inodes, NEW n \in Names, NEW k \in Kinds, NEW c \in Inodes,
             ext4b_create(p, n, k, c)
      PROVE  ListOK' /\ Undone /\ Held
  <2>1. PICK R : R = create_common(mem, p, n, k, FALSE, c) OBVIOUS
  <2>2. PICK e \in Ends(R) : Close(e, Keep, {}) BY <1>1, <2>1 DEF ext4b_create
  <2>3. PICK fixed : fixed = e.t.mem OBVIOUS
  <2>4. e.r \in R /\ e.t \in txn_finish(e.r) BY <2>2, EndsAre
  <2>5. Good(e.r, mem) BY <1>0, <1>1, <2>1, <2>4, CreateResult DEF ext4b_create, Named
  <2>6. Closes(e.r, e.t, fixed, {}) BY <2>2, <2>3 DEF Close, Closes, Keep
  <2>7. Keeps(e.r, e.t, fixed, {}) /\ Guards(e.r, e.t, fixed)
    BY <2>3, <2>4, <2>5, GoodKeeps, GoodGuards
  <2>8. pc' = "up" BY <1>1 DEF ext4b_create, Up
  <2>. QED BY <2>4, <2>6, <2>7, <2>8, ListCall
<1>2. ASSUME NEW p \in Inodes, NEW n \in Names, NEW c \in Inodes, createSymbolicLink(p, n, c)
      PROVE  ListOK' /\ Undone /\ Held
  <2>1. PICK R : R = create_common(mem, p, n, "file", TRUE, c) OBVIOUS
  <2>2. PICK e \in Ends(R) : Close(e, Keep, {}) BY <1>2, <2>1 DEF createSymbolicLink
  <2>3. PICK fixed : fixed = e.t.mem OBVIOUS
  <2>4. e.r \in R /\ e.t \in txn_finish(e.r) BY <2>2, EndsAre
  <2>5. Good(e.r, mem)
    <3>1. "file" \in Kinds BY DEF Kinds
    <3>. QED BY <1>0, <1>2, <2>1, <2>4, <3>1, CreateResult DEF createSymbolicLink, Named
  <2>6. Closes(e.r, e.t, fixed, {}) BY <2>2, <2>3 DEF Close, Closes, Keep
  <2>7. Keeps(e.r, e.t, fixed, {}) /\ Guards(e.r, e.t, fixed)
    BY <2>3, <2>4, <2>5, GoodKeeps, GoodGuards
  <2>8. pc' = "up" BY <1>2 DEF createSymbolicLink, Up
  <2>. QED BY <2>4, <2>6, <2>7, <2>8, ListCall
<1>3. ASSUME NEW p \in Inodes, NEW n \in Names, NEW c \in Inodes, ext4b_hardlink(p, n, c)
      PROVE  ListOK' /\ Undone /\ Held
  <2>1. PICK R : R = hardlink(mem, p, n, c) OBVIOUS
  <2>2. PICK e \in Ends(R) : Close(e, Keep, {}) BY <1>3, <2>1 DEF ext4b_hardlink
  <2>3. PICK fixed : fixed = e.t.mem OBVIOUS
  <2>4. e.r \in R /\ e.t \in txn_finish(e.r) BY <2>2, EndsAre
  <2>5. Good(e.r, mem) BY <1>0, <1>3, <2>1, <2>4, HardlinkResult DEF ext4b_hardlink, Named
  <2>6. Closes(e.r, e.t, fixed, {}) BY <2>2, <2>3 DEF Close, Closes, Keep
  <2>7. Keeps(e.r, e.t, fixed, {}) /\ Guards(e.r, e.t, fixed)
    BY <2>3, <2>4, <2>5, GoodKeeps, GoodGuards
  <2>8. pc' = "up" BY <1>3 DEF ext4b_hardlink, Up
  <2>. QED BY <2>4, <2>6, <2>7, <2>8, ListCall
<1>4. ASSUME NEW p \in Inodes, NEW n \in Names, NEW defer \in BOOLEAN, ext4b_unlink_ex(p, n, defer)
      PROVE  ListOK' /\ Undone /\ Held
  <2>1. PICK R : R = unlink_ex(mem, p, n, defer) OBVIOUS
  <2>2. PICK e \in Ends(R) :
          Closes(e.r, e.t, IF e.r.rc = "OK" /\ e.r.m.sb # mem.sb
                           THEN orphan_publish_head(e.t.mem, mem.sb) ELSE e.t.mem, {})
    BY <1>4, <2>1 DEF ext4b_unlink_ex, Close, Closes
  <2>3. PICK fixed : fixed = IF e.r.rc = "OK" /\ e.r.m.sb # mem.sb
                             THEN orphan_publish_head(e.t.mem, mem.sb) ELSE e.t.mem
    OBVIOUS
  <2>4. e.r \in R /\ e.t \in txn_finish(e.r) BY <2>2, EndsAre
  <2>5. p \in mem.inuse BY <1>4 DEF ext4b_unlink_ex, Named
  <2>6. Closes(e.r, e.t, fixed, {}) BY <2>2, <2>3
  <2>7. Keeps(e.r, e.t, fixed, {}) BY <2>1, <2>3, <2>4, <2>5, UnlinkKeeps
  <2>9. Guards(e.r, e.t, fixed)
    <3>1. Good(e.r, mem) \/ Joined(e.r, mem, Find(mem, p, n)) \/ Unheaded(e.r, mem)
      BY <1>0, <2>1, <2>4, <2>5, UnlinkExResult
    <3>2. NamesInv(e.r.m) /\ Protects(e.r.m, mem) /\ (e.r.rc = "OK" /\ ~e.r.hit => Counted(e.r.m, mem))
      BY <3>1 DEF Good, Joined, Unheaded
    <3>3. Sound(e.r.m) BY <1>0, <3>2, ProtectsFlagged DEF Sound
    <3>. QED BY <2>3, <2>4, <3>2, <3>3, OtherGuards
  <2>8. pc' = "up" BY <1>4 DEF ext4b_unlink_ex, Up
  <2>. QED BY <2>4, <2>6, <2>7, <2>8, <2>9, ListCall
<1>5. ASSUME NEW sp \in Inodes, NEW sn \in Names, NEW dp \in Inodes, NEW dn \in Names,
             ext4b_rename(sp, sn, dp, dn)
      PROVE  ListOK' /\ Undone /\ Held
  <2>1. PICK R : R = rename(mem, sp, sn, dp, dn) OBVIOUS
  <2>2. PICK e \in Ends(R) : Close(e, Keep, {}) BY <1>5, <2>1 DEF ext4b_rename
  <2>3. PICK fixed : fixed = e.t.mem OBVIOUS
  <2>4. e.r \in R /\ e.t \in txn_finish(e.r) BY <2>2, EndsAre
  <2>5. Good(e.r, mem)
    <3>1. Find(mem, sp, sn) # None =>
            ~(sp = dp /\ IsDir(mem, Find(mem, sp, sn))) /\ Find(mem, sp, sn) # Find(mem, dp, dn)
      BY <1>0, <1>5 DEF ext4b_rename, Orderly
    <3>. QED BY <1>0, <1>5, <2>1, <2>4, <3>1, RenameResult DEF ext4b_rename, Named
  <2>6. Closes(e.r, e.t, fixed, {}) BY <2>2, <2>3 DEF Close, Closes, Keep
  <2>7. Keeps(e.r, e.t, fixed, {}) /\ Guards(e.r, e.t, fixed)
    BY <2>3, <2>4, <2>5, GoodKeeps, GoodGuards
  <2>8. pc' = "up" BY <1>5 DEF ext4b_rename, Up
  <2>. QED BY <2>4, <2>6, <2>7, <2>8, ListCall
<1>6. ASSUME NEW i \in Inodes, ReleaseUnlist(i) PROVE ListOK' /\ Undone /\ Held
  <2>1. PICK R : R = orphan_del(mem, i) OBVIOUS
  <2>2. PICK e \in Ends(R) : /\ Closes(e.r, e.t, Restored(e.t.mem), IF e.t.ok THEN {i} ELSE {})
                             /\ pc' = IF e.t.ok THEN i ELSE pc
    BY <1>6, <2>1 DEF ReleaseUnlist, Close, Closes
  <2>3. PICK fixed, off : fixed = Restored(e.t.mem) /\ off = IF e.t.ok THEN {i} ELSE {} OBVIOUS
  <2>4. e.r \in R /\ e.t \in txn_finish(e.r) BY <2>2, EndsAre
  <2>5. pc = "up" /\ mem.sb # i /\ mem.sb # None BY <1>6 DEF ReleaseUnlist, Up
  <2>6. Closes(e.r, e.t, fixed, off) BY <2>2, <2>3
  <2>7. Keeps(e.r, e.t, fixed, off) BY <2>1, <2>3, <2>4, <2>5, UnlistKeeps
  <2>9. Guards(e.r, e.t, fixed)
    <3>1. OffList(e.r.m, mem) BY <1>0, <2>1, <2>4, OrphanDelOff
    <3>2. Sound(e.r.m) /\ Protects(e.r.m, mem) /\ Counted(e.r.m, mem)
      BY <1>0, <3>1, SoundOff DEF Sound
    <3>. QED BY <2>3, <2>4, <3>2, OtherGuards
  <2>8. pc' \in {"up", "sweep"} \/ (pc' \in Inodes /\ e.t.ok /\ off = {pc'}) BY <2>2, <2>3, <2>5
  <2>. QED BY <2>4, <2>6, <2>7, <2>8, <2>9, ListCall
<1>7. ASSUME NEW i \in Inodes, ext4b_release_inode(i) PROVE ListOK' /\ Undone /\ Held
  <2>1. PICK R : R = release_inode(mem, i) OBVIOUS
  <2>2. PICK e \in Ends(R) :
          Closes(e.r, e.t, IF mem.sb = i THEN Restored(e.t.mem) ELSE e.t.mem, {})
    BY <1>7, <2>1 DEF ext4b_release_inode, Close, Closes
  <2>3. PICK fixed : fixed = IF mem.sb = i THEN Restored(e.t.mem) ELSE e.t.mem OBVIOUS
  <2>4. e.r \in R /\ e.t \in txn_finish(e.r) BY <2>2, EndsAre
  <2>5. (pc = i \/ mem.sb \in {i, None}) /\ pc' = "up" BY <1>7 DEF ext4b_release_inode
  <2>6. Closes(e.r, e.t, fixed, {}) BY <2>2, <2>3
  <2>7. Keeps(e.r, e.t, fixed, {}) BY <2>1, <2>3, <2>4, <2>5, ReleaseKeeps
  <2>9. Guards(e.r, e.t, fixed)
    <3>1. Sound(e.r.m) /\ Protects(e.r.m, mem) /\ Counted(e.r.m, mem)
      BY <1>0, <2>1, <2>4, ReleaseSound DEF Sound
    <3>. QED BY <2>3, <2>4, <3>1, OtherGuards
  <2>. QED BY <2>4, <2>5, <2>6, <2>7, <2>9, ListCall
<1>8. ASSUME ext4b_orphan_cleanup PROVE ListOK' /\ Undone /\ Held
  <2>1. PICK R : R = orphan_cleanup(mem) OBVIOUS
  <2>2. PICK e \in Ends(R) : Close(e, Keep, {}) /\ pc' = IF e.t.ok THEN "sweep" ELSE "up"
    BY <1>8, <2>1 DEF ext4b_orphan_cleanup
  <2>3. PICK fixed, i : fixed = e.t.mem /\ i = mem.sb OBVIOUS
  <2>4. e.r \in R /\ e.t \in txn_finish(e.r) BY <2>2, EndsAre
  <2>5. i \in Inodes BY <1>0, <1>8, <2>3 DEF ext4b_orphan_cleanup, Meta
  <2>6. Closes(e.r, e.t, fixed, {}) BY <2>2, <2>3 DEF Close, Closes, Keep
  <2>7. Keeps(e.r, e.t, fixed, {}) BY <2>1, <2>3, <2>4, <2>5, CleanupKeeps
  <2>9. Guards(e.r, e.t, fixed)
    <3>1. Sound(e.r.m) /\ Protects(e.r.m, mem) /\ Counted(e.r.m, mem)
      BY <1>0, <2>1, <2>3, <2>4, <2>5, CleanupSound DEF Sound
    <3>. QED BY <2>3, <2>4, <3>1, OtherGuards
  <2>8. pc' \in {"up", "sweep"} BY <2>2
  <2>. QED BY <2>4, <2>6, <2>7, <2>8, <2>9, ListCall
<1>9. ASSUME ext4b_sync PROVE ListOK' /\ Undone /\ Held
  <2>1. PICK t \in txn_commit(mem) :
          /\ fails' = IF t.hit THEN fails + 1 ELSE fails
          /\ mem' = t.mem /\ disk' = t.disk /\ ops' = 0
          /\ loose' = (IF t.disk = mem THEN loose ELSE split) /\ split' = loose'
          /\ partial' = (partial \/ t.hit)
    BY <1>9 DEF ext4b_sync, Drain
  <2>2. t = [mem |-> mem, disk |-> mem, ok |-> TRUE, hit |-> FALSE]
    BY <2>1, CommitCalm
  <2>3. /\ fails' = fails /\ mem' = mem /\ disk' = mem /\ ops' = 0 /\ loose' = loose
        /\ split' = loose /\ (~partial' => ~partial)
    BY <2>1, <2>2
  <2>4. pc = "up" /\ pc' = pc BY <1>9 DEF ext4b_sync, Up
  <2>. QED BY <2>3, <2>4, <1>20, NamespaceAssumption DEF ListOK, Undone, Held
<1>10. ASSUME ext4b_unmount PROVE ListOK' /\ Undone /\ Held
  <2>1. PICK w : w = [mem EXCEPT !.head = mem.sb] OBVIOUS
  <2>2. mem' = w /\ disk' = w /\ ops' = 0 /\ ops = 0 /\ loose' = loose /\ split' = loose
        /\ pc' = "down" /\ partial' = partial /\ fails' = fails
    BY <1>10, <2>1 DEF ext4b_unmount
  <2>4. OffList(w, w) BY <1>0, <2>1 DEF OffList, Meta
  <2>3. ASSUME ~partial PROVE w = mem
    <3>1. mem.head = mem.sb BY <2>3 DEF ListOK, Chain
    <3>. QED BY <1>0, <2>1, <3>1 DEF Meta
  <2>. QED BY <2>2, <2>3, <2>4, NamespaceAssumption DEF ListOK, Undone, Held
<1>11. ASSUME Crash PROVE ListOK' /\ Undone /\ Held
  BY <1>11, <1>20, NamespaceAssumption DEF Crash, ListOK, Undone, Held
<1>12. ASSUME ext4b_mount PROVE ListOK' /\ Undone /\ Held
  <2>1. PICK w : w = [disk EXCEPT !.sb = disk.head] OBVIOUS
  <2>2. mem' = w /\ disk' = disk /\ ops' = ops /\ loose' = loose /\ split' = split
        /\ pc = "down" /\ pc' = "sweep" /\ partial' = partial /\ fails' = fails
    BY <1>12, <2>1 DEF ext4b_mount
  <2>4. OffList(w, disk) BY <1>0, <2>1 DEF OffList, Meta
  <2>3. ASSUME ~partial PROVE w = disk /\ mem = disk
    <3>1. disk.head = disk.sb /\ mem = disk BY <2>2, <2>3 DEF ListOK, Chain
    <3>. QED BY <1>0, <2>1, <3>1 DEF Meta
  <2>. QED BY <2>2, <2>3, <2>4, NamespaceAssumption DEF ListOK, Undone, Held
<1>13. CASE UNCHANGED vars \/ CleanupDone
  <2>1. /\ mem' = mem /\ disk' = disk /\ ops' = ops /\ loose' = loose /\ split' = split
        /\ partial' = partial /\ fails' = fails
        /\ pc' = pc \/ (pc = "sweep" /\ pc' = "up")
    BY <1>13 DEF vars, CleanupDone
  <2>. QED BY <2>1, <1>20, NamespaceAssumption DEF ListOK, Undone, Held
<1>. QED BY <1>1, <1>2, <1>3, <1>4, <1>5, <1>6, <1>7, <1>8, <1>9, <1>10, <1>11, <1>12, <1>13
     DEF Next

-----------------------------------------------------------------------------
(* The list and the steps are as they should be.                           *)

\* A volume without orphans has an empty list.
LEMMA EmptyChain ==
  ASSUME NEW m, m.sb = None, m.head = None, Orphans(m) = {}
  PROVE  Chain(m, {})
<1>1. PICK s : s = [k \in 1 .. 0 |-> Root] OBVIOUS
<1>2. Runs(m, s, 0) BY <1>1 DEF Runs
<1>3. \A i : i \in Orphans(m) \ {} <=> \E k \in 1 .. 0 : s[k] = i OBVIOUS
<1>. QED BY <1>2, <1>3 DEF Chain

\* At first the list is empty.
LEMMA InitList == Init => ListOK
<1>. SUFFICES ASSUME Init PROVE ListOK OBVIOUS
<1>1. Orphans(mem) = {} /\ mem.sb = None /\ mem.head = None
  <2>1. CASE mem = Blank
    <3>1. mem.inuse = {Root} /\ mem.links[Root] = 2 /\ mem.sb = None /\ mem.head = None
      BY <2>1, NamespaceAssumption DEF Blank
    <3>. QED BY <3>1 DEF Orphans
  <2>2. ASSUME NEW i \in Inodes \ {Root}, NEW n \in Names, NEW k \in Kinds, NEW f \in Flags,
               mem = Guarded(i, n, k, f)
        PROVE  Orphans(mem) = {} /\ mem.sb = None /\ mem.head = None
    <3>1. Holds(mem, i, n, k, f) BY <2>2, GuardedFields
    <3>. QED BY <3>1 DEF Holds, Orphans
  <2>. QED BY <2>1, <2>2 DEF Init
<1>2. Chain(mem, {}) BY <1>1, EmptyChain
<1>3. disk = mem /\ ops = 0 /\ pc = "up" /\ loose = {} /\ split = {} /\ fails = 0 BY DEF Init
<1>4. OffList(mem, mem) BY InitNames DEF OffList, NamesOK, Sound, NamesInv
<1>. QED BY <1>2, <1>3, <1>4, NamespaceAssumption DEF ListOK

\* Both invariants hold in every state.
LEMMA ListAlways ==
  ASSUME Room, Calm
  PROVE  Spec => [](NamesOK /\ ListOK)
<1>1. Orderly BY DEF Calm, Orderly
<1>2. NamesOK /\ ListOK /\ [Next]_vars => NamesOK' /\ ListOK' BY <1>1, NamesStep, ListStep
<1>. QED BY <1>2, InitNames, InitList, PTL DEF Spec

\* The chain from the superblock's head holds exactly the inodes in use without
\* a name, on the medium and in memory, but for those whose release has been
\* cut in two, and the bridge works with that head (orphan_publish_head,
\* orphan_del, ext4b_release_inode, txn_abort): if no part of a failed operation
\* was committed.
THEOREM OrphansSafe == Room /\ Calm => (Spec => []OrphanChain)
<1>. SUFFICES ASSUME Room, Calm PROVE Spec => []OrphanChain OBVIOUS
<1>1. ListOK => OrphanChain
  <2>1. ASSUME ListOK, ~partial PROVE OrphansExact /\ HeadAgrees
    <3>1. Chain(mem, loose) /\ Chain(disk, split) BY <2>1 DEF ListOK
    <3>2. Listed(mem) = Orphans(mem) \ loose /\ Listed(disk) = Orphans(disk) \ split
      BY <3>1, ListedIs
    <3>. QED BY <3>1, <3>2 DEF OrphansExact, HeadAgrees, Chain
  <2>. QED BY <2>1 DEF OrphanChain, OrphansExact, HeadAgrees
<1>. QED BY <1>1, ListAlways, PTL

\* What a step may never do (txn_abort, is_immutable, unlink_forbidden,
\* ext4_fs_inode_links_count_inc, ext4b_orphan_cleanup): finish a sweep with
\* orphans left, change anything in an operation that fails alone, touch what
\* chattr protects, or give up counting links too early.
THEOREM StepsSafe == Room /\ Calm => (Spec => StepsAllowed)
<1>. SUFFICES ASSUME Room, Calm PROVE Spec => StepsAllowed OBVIOUS
<1>1. NamesOK /\ ListOK /\ [Next]_vars => [CleanupDone /\ ~partial => Orphans(mem) \subseteq loose]_vars
  <2>1. ASSUME ListOK, CleanupDone, ~partial PROVE Orphans(mem) \subseteq loose
    <3>1. Chain(mem, loose) /\ mem.sb = None BY <2>1 DEF ListOK, CleanupDone
    <3>. QED BY <3>1, NoHead
  <2>. QED BY <2>1
<1>2. NamesOK /\ ListOK /\ [Next]_vars =>
        [fails' > fails /\ ops = 0 /\ ~partial' => UNCHANGED <<mem, disk>>]_vars
  <2>1. ASSUME NamesOK, ListOK, [Next]_vars, fails' > fails, ops = 0, ~partial'
        PROVE  UNCHANGED <<mem, disk>>
    <3>1. Undone BY <2>1, ListStep
    <3>. QED BY <2>1, <3>1 DEF Undone
  <2>. QED BY <2>1
<1>3. NamesOK /\ ListOK /\ [Next]_vars =>
        [\A i \in Inodes :
           Protected(mem, i) /\ pc \notin {"down"} /\ pc' # "down" =>
             /\ NamesOf(mem, i) \subseteq NamesOf(mem', i)
             /\ \A n \in Names : mem.ent[i][n] # mem'.ent[i][n] =>
                   mem.flag[i] = "append" /\ mem.ent[i][n] = <<>>]_vars
  <2>1. ASSUME NamesOK, ListOK, [Next]_vars, NEW i \in Inodes, Protected(mem, i),
               pc \notin {"down"}, pc' # "down"
        PROVE  /\ NamesOf(mem, i) \subseteq NamesOf(mem', i)
               /\ \A n \in Names : mem.ent[i][n] # mem'.ent[i][n] =>
                     mem.flag[i] = "append" /\ mem.ent[i][n] = <<>>
    <3>1. Held BY <2>1, ListStep
    <3>2. Protects(mem', mem) BY <2>1, <3>1 DEF Held
    <3>. QED BY <2>1, <3>2 DEF Protects
  <2>. QED BY <2>1
<1>4. NamesOK /\ ListOK /\ [Next]_vars =>
        [\A d \in mem.inuse \cap mem'.inuse :
           ~partial' /\ pc = "up" /\ pc' = "up" /\ IsDir(mem, d) /\ IsDir(mem', d)
             /\ mem.links[d] > 1 /\ mem'.links[d] = 1
             => 2 + Cardinality(Subdirs(mem', d)) >= LinkMax]_vars
  <2>1. ASSUME NamesOK, ListOK, [Next]_vars, NEW d \in mem.inuse \cap mem'.inuse, ~partial',
               pc = "up", pc' = "up", IsDir(mem, d), IsDir(mem', d),
               mem.links[d] > 1, mem'.links[d] = 1
        PROVE  2 + Cardinality(Subdirs(mem', d)) >= LinkMax
    <3>1. Held BY <2>1, ListStep
    <3>2. Counted(mem', mem) BY <2>1, <3>1 DEF Held
    <3>3. d \in Live(mem) \cap Live(mem') BY <2>1 DEF Live
    <3>. QED BY <2>1, <3>2, <3>3 DEF Counted
  <2>. QED BY <2>1
<1>. QED BY <1>1, <1>2, <1>3, <1>4, ListAlways, PTL
     DEF Spec, StepsAllowed, Settled, RolledBack, ProtectionHolds, CappedWhenFull

=============================================================================
