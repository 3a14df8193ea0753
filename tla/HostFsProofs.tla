---------------------------- MODULE HostFsProofs ----------------------------
(***************************************************************************)
(* Proofs about HostFs, for every file system, all names and all calls.    *)
(*                                                                         *)
(* First what paths lead to, and what each system call makes of a disk     *)
(* that is a tree; then what a step of a call leaves, whichever it is      *)
(* (StepOf), and what its beginning does (BeginOf); then the invariants    *)
(* DiskInv, KeepInv and CountInv of HostFs, from which the two theorems    *)
(* follow.                                                                 *)
(***************************************************************************)
EXTENDS HostFs, FiniteSetTheorems, SequenceTheorems, TLAPS

-----------------------------------------------------------------------------
(* Paths *)

LEMMA UptoIsPath ==
  ASSUME NEW S, NEW p \in Seq(S), NEW i \in 0 .. Len(p)
  PROVE  /\ Upto(p, i) \in Seq(S) /\ Len(Upto(p, i)) = i
         /\ \A j \in 1 .. i : Upto(p, i)[j] = p[j]
BY DEF Upto

LEMMA UptoAll ==
  ASSUME NEW S, NEW p \in Seq(S)
  PROVE  Upto(p, Len(p)) = p
BY DEF Upto

LEMMA UptoUpto ==
  ASSUME NEW S, NEW p \in Seq(S), NEW j \in 0 .. Len(p), NEW i \in 0 .. j
  PROVE  Upto(Upto(p, j), i) = Upto(p, i)
BY DEF Upto

LEMMA ParentOfUpto ==
  ASSUME NEW S, NEW p \in Seq(S), NEW i \in 1 .. Len(p)
  PROVE  Parent(Upto(p, i)) = Upto(p, i - 1)
<1>1. Len(Upto(p, i)) = i /\ i \in 0 .. Len(p) /\ i - 1 \in 0 .. i
  BY UptoIsPath
<1> QED BY <1>1, UptoUpto DEF Parent

LEMMA ParentIsPath ==
  ASSUME NEW S, NEW p \in Seq(S), p # <<>>
  PROVE  /\ Len(p) \in Nat \ {0} /\ Parent(p) = Upto(p, Len(p) - 1)
         /\ Parent(p) \in Seq(S) /\ Len(Parent(p)) = Len(p) - 1
         /\ Last(p) = p[Len(p)] /\ Last(p) \in S
         /\ p = Append(Parent(p), Last(p))
<1>1. Len(p) \in Nat \ {0} /\ Parent(p) = Upto(p, Len(p) - 1) /\ Len(p) - 1 \in 0 .. Len(p)
  BY DEF Parent
<1>2. /\ Parent(p) \in Seq(S) /\ Len(Parent(p)) = Len(p) - 1
      /\ \A j \in 1 .. Len(p) - 1 : Parent(p)[j] = p[j]
  BY <1>1, UptoIsPath
<1>3. Last(p) = p[Len(p)] /\ Last(p) \in S
  BY <1>1 DEF Last
<1>4. p = Append(Parent(p), Last(p))
  <2> DEFINE q == Append(Parent(p), Last(p))
  <2>1. /\ q \in Seq(S) /\ Len(q) = Len(p) /\ q[Len(p)] = p[Len(p)]
        /\ \A j \in 1 .. Len(p) - 1 : q[j] = p[j]
    BY <1>1, <1>2, <1>3
  <2>2. \A j \in 1 .. Len(p) : q[j] = p[j]
    BY <1>1, <2>1
  <2>3. p = q
    <3> HIDE DEF q
    <3> QED BY <2>1, <2>2, SeqEqual
  <2> QED BY <2>3
<1> QED BY <1>1, <1>2, <1>3, <1>4

LEMMA AppendedPath ==
  ASSUME NEW S, NEW p \in Seq(S), NEW x \in S
  PROVE  /\ Append(p, x) \in Seq(S) /\ Append(p, x) # <<>> /\ Len(Append(p, x)) = Len(p) + 1
         /\ Parent(Append(p, x)) = p /\ Last(Append(p, x)) = x
         /\ \A i \in 0 .. Len(p) : Upto(Append(p, x), i) = Upto(p, i)
<1>1. /\ Append(p, x) \in Seq(S) /\ Len(Append(p, x)) = Len(p) + 1 /\ Len(p) \in Nat
      /\ \A j \in 1 .. Len(p) : Append(p, x)[j] = p[j]
      /\ Append(p, x)[Len(p) + 1] = x
  OBVIOUS
<1>2. \A i \in 0 .. Len(p) : Upto(Append(p, x), i) = Upto(p, i)
  <2> SUFFICES ASSUME NEW i \in 0 .. Len(p) PROVE Upto(Append(p, x), i) = Upto(p, i)
    OBVIOUS
  <2> QED BY <1>1 DEF Upto
<1>3. Append(p, x) # <<>>
  BY <1>1
<1>4. Parent(Append(p, x)) = p
  BY <1>1, <1>2, UptoAll DEF Parent
<1> QED BY <1>1, <1>2, <1>3, <1>4 DEF Last

LEMMA PrefixIsUpto ==
  ASSUME NEW S, NEW p \in Seq(S), NEW q \in Seq(S)
  PROVE  IsPrefix(p, q) <=> Len(p) <= Len(q) /\ p = Upto(q, Len(p))
BY DEF IsPrefix, Upto
-----------------------------------------------------------------------------
(* Links *)

\* Induction: a set that has 0, and with each number the next one, has all.
LEMMA AllNumbers ==
  ASSUME NEW S, 0 \in S, \A n \in Nat : n \in S => n + 1 \in S
  PROVE  \A n \in Nat : n \in S
<1> DEFINE T == Nat \ S
<1> SUFFICES ASSUME T # {} PROVE FALSE
  OBVIOUS
<1>1. IsWellFoundedOn(OpToRel(<, Nat), Nat)
  BY NatLessThanWellFounded
<1>2. PICK x \in T : \A y \in T : ~ (<<y, x>> \in OpToRel(<, Nat))
  BY <1>1, WFMin
<1>3. \A m, n \in Nat : <<m, n>> \in OpToRel(<, Nat) <=> m < n
  BY DEF OpToRel
<1>4. x \in Nat /\ x # 0
  OBVIOUS
<1>5. x - 1 \in Nat /\ x - 1 < x /\ (x - 1) + 1 = x
  BY <1>4
<1>6. x - 1 \in S
  BY <1>2, <1>3, <1>4, <1>5
<1> QED BY <1>5, <1>6

LEMMA Nodes ==
  ASSUME NEW d, IsDisk(d), NEW p
  PROVE  /\ NodeAt(d, p).type \in {"dir", "file", "link", "missing"}
         /\ NodeAt(d, p).type = "missing" <=> p # <<>> /\ p \notin DOMAIN d.tree
         /\ NodeAt(d, p).type \in {"file", "link"} => p \in DOMAIN d.tree /\ NodeAt(d, p) = d.tree[p]
         /\ NodeAt(d, p).type = "file" => NodeAt(d, p).file \in DOMAIN d.data
         /\ NodeAt(d, p).type # "file" => NodeAt(d, p).file = 0
         /\ NodeAt(d, p).type = "link" => NodeAt(d, p).target \in Path
<1>1. CASE p = <<>>
  BY <1>1 DEF NodeAt, Dir
<1>2. CASE p # <<>> /\ p \notin DOMAIN d.tree
  BY <1>2 DEF NodeAt, Missing
<1>3. CASE p # <<>> /\ p \in DOMAIN d.tree
  <2>1. NodeAt(d, p) = d.tree[p] /\ IsNode(d.tree[p], d.data)
    BY <1>3 DEF NodeAt, IsDisk
  <2> QED BY <1>3, <2>1 DEF IsNode, Dir, FileNode, Link
<1> QED BY <1>1, <1>2, <1>3

\* What precedes an entry on its path are directories.
LEMMA Ancestors ==
  ASSUME NEW d, IsDisk(d), NEW p \in DOMAIN d.tree, NEW i \in 0 .. Len(p) - 1
  PROVE  NodeAt(d, Upto(p, i)).type = "dir"
<1> DEFINE n == Len(p)
           S == {k \in Nat : k < n => NodeAt(d, Upto(p, n - 1 - k)).type = "dir"}
<1>1. p \in Seq(Name) /\ p # <<>> /\ n \in Nat \ {0}
  BY DEF IsDisk, Path
<1>2. 0 \in S
  <2>1. NodeAt(d, Parent(p)).type = "dir" /\ Parent(p) = Upto(p, n - 1) /\ n - 1 - 0 = n - 1
    BY <1>1 DEF IsDisk, Parent
  <2> QED BY <2>1
<1>3. ASSUME NEW k \in Nat, k \in S PROVE k + 1 \in S
  <2> DEFINE m == n - 1 - k
             q == Upto(p, m)
  <2> SUFFICES ASSUME k + 1 < n PROVE NodeAt(d, Upto(p, n - 1 - (k + 1))).type = "dir"
    OBVIOUS
  <2>1. m \in 1 .. n /\ m \in 0 .. n /\ m - 1 = n - 1 - (k + 1)
    BY <1>1
  <2>2. q \in Seq(Name) /\ Len(q) = m /\ Parent(q) = Upto(p, m - 1)
    BY <1>1, <2>1, UptoIsPath, ParentOfUpto
  <2>3. NodeAt(d, q).type = "dir" /\ q # <<>>
    BY <1>1, <1>3, <2>1, <2>2
  <2>4. q \in DOMAIN d.tree
    BY <2>3, Nodes
  <2>5. NodeAt(d, Parent(q)).type = "dir"
    BY <2>4 DEF IsDisk
  <2> QED BY <2>1, <2>2, <2>5
<1>4. \A k \in Nat : k \in S
  <2> HIDE DEF S
  <2> QED BY <1>2, <1>3, AllNumbers
<1>5. n - 1 - i \in Nat /\ n - 1 - i < n /\ n - 1 - (n - 1 - i) = i
  BY <1>1
<1> QED BY <1>4, <1>5

LEMMA OneLinkOnPath ==
  ASSUME NEW d, IsDisk(d), NEW p \in Seq(Name), NEW i \in LinksOn(d, p)
  PROVE  /\ i \in 1 .. Len(p) /\ LinksOn(d, p) = {i} /\ Min(LinksOn(d, p)) = i
         /\ Upto(p, i) \in DOMAIN d.tree /\ d.tree[Upto(p, i)].target \in Path
<1>1. \A j \in LinksOn(d, p) :
        /\ j \in 1 .. Len(p) /\ Len(p) \in Nat /\ Upto(p, j) \in DOMAIN d.tree
        /\ NodeAt(d, Upto(p, j)).type = "link" /\ NodeAt(d, Upto(p, j)) = d.tree[Upto(p, j)]
  BY Nodes DEF LinksOn
<1>2. ASSUME NEW j \in LinksOn(d, p), NEW k \in LinksOn(d, p), j < k PROVE FALSE
  <2>1. k \in 0 .. Len(p) /\ j \in 0 .. k - 1 /\ j \in 0 .. k
    BY <1>1, <1>2
  <2>2. Len(Upto(p, k)) = k /\ Upto(Upto(p, k), j) = Upto(p, j)
    BY <2>1, UptoIsPath, UptoUpto
  <2>3. NodeAt(d, Upto(p, j)).type = "dir"
    BY <1>1, <2>1, <2>2, Ancestors
  <2> QED BY <1>1, <2>3
<1>3. \A j \in LinksOn(d, p) : j = i
  BY <1>1, <1>2
<1>4. LinksOn(d, p) = {i}
  BY <1>3
<1>5. Min({i}) = i
  BY <1>1 DEF Min
<1>6. d.tree[Upto(p, i)].target \in Path
  BY <1>1, Nodes
<1> QED BY <1>1, <1>4, <1>5, <1>6

LEMMA NoLinkToFollow ==
  ASSUME NEW d, NEW p, LinksOn(d, p) = {}
  PROVE  FollowLink(d, p) = p
BY DEF FollowLink

LEMMA LinkFollowed ==
  ASSUME NEW d, IsDisk(d), NEW p \in Seq(Name), NEW i \in LinksOn(d, p)
  PROVE  FollowLink(d, p) = d.tree[Upto(p, i)].target \o SubSeq(p, i + 1, Len(p))
<1>1. LinksOn(d, p) # {} /\ Min(LinksOn(d, p)) = i
  BY OneLinkOnPath
<1> QED BY <1>1, Zenon DEF FollowLink

\* What is left of a path behind its first names.
LEMMA RestIsPath ==
  ASSUME NEW S, NEW p \in Seq(S), NEW i \in 1 .. Len(p)
  PROVE  /\ SubSeq(p, i + 1, Len(p)) \in Seq(S) /\ Len(SubSeq(p, i + 1, Len(p))) = Len(p) - i
         /\ \A j \in 1 .. Len(p) - i : SubSeq(p, i + 1, Len(p))[j] = p[i + j]
OBVIOUS

LEMMA FollowedIsPath ==
  ASSUME NEW d, IsDisk(d), NEW p \in Seq(Name)
  PROVE  /\ FollowLink(d, p) \in Seq(Name)
         /\ p # <<>> => FollowLink(d, p) # <<>>
<1>1. CASE LinksOn(d, p) = {}
  BY <1>1, NoLinkToFollow
<1>2. CASE LinksOn(d, p) # {}
  <2>1. PICK i \in LinksOn(d, p) : TRUE
    BY <1>2
  <2> DEFINE t == d.tree[Upto(p, i)].target
             r == SubSeq(p, i + 1, Len(p))
  <2>2. FollowLink(d, p) = t \o r
    BY <2>1, LinkFollowed
  <2>3. t \in Seq(Name) /\ t # <<>> /\ i \in 1 .. Len(p)
    BY <2>1, OneLinkOnPath DEF Path
  <2>4. r \in Seq(Name)
    BY <2>3, RestIsPath
  <2> HIDE DEF t, r
  <2>5. t \o r \in Seq(Name) /\ t \o r # <<>>
    BY <2>3, <2>4, ConcatProperties, ConcatEqualIffEmpty
  <2> QED BY <2>2, <2>5
<1> QED BY <1>1, <1>2

LEMMA RealIsPath ==
  ASSUME NEW d, IsDisk(d), NEW p \in Seq(Name)
  PROVE  /\ Real(d, p) \in Seq(Name)
         /\ p # <<>> => Real(d, p) # <<>>
         /\ p = <<>> => Real(d, p) = <<>>
<1>1. p = <<>> => LinksOn(d, p) = {}
  BY DEF LinksOn
<1> QED BY <1>1, FollowedIsPath, NoLinkToFollow, Zenon DEF Real

\* A name behind a path with a link stays behind what the link leads to.
LEMMA FollowAppended ==
  ASSUME NEW d, IsDisk(d), NEW p \in Seq(Name), NEW x \in Name
  PROVE  /\ LinksOn(d, p) # {} => FollowLink(d, Append(p, x)) = Append(FollowLink(d, p), x)
         /\ LinksOn(d, p) = {} /\ NodeAt(d, Append(p, x)).type # "link"
              => FollowLink(d, Append(p, x)) = Append(p, x)
<1> DEFINE q == Append(p, x)
           n == Len(p)
<1>1. /\ q \in Seq(Name) /\ Len(q) = n + 1 /\ n \in Nat /\ DOMAIN p = 1 .. n /\ DOMAIN q = 1 .. n + 1
      /\ \A i \in 0 .. n : Upto(q, i) = Upto(p, i)
  BY AppendedPath
<1>2. \A i \in 1 .. n : i \in LinksOn(d, p) <=> i \in LinksOn(d, q)
  BY <1>1 DEF LinksOn
<1>3. ASSUME LinksOn(d, p) # {}
      PROVE  FollowLink(d, q) = Append(FollowLink(d, p), x)
  <2>1. PICK i \in LinksOn(d, p) : i \in 1 .. n
    BY <1>3, OneLinkOnPath
  <2>2. i \in LinksOn(d, q) /\ i \in 1 .. n + 1 /\ Upto(q, i) = Upto(p, i)
    BY <1>1, <1>2, <2>1
  <2> DEFINE t == d.tree[Upto(p, i)].target
             r == SubSeq(p, i + 1, n)
             s == SubSeq(q, i + 1, n + 1)
  <2>3. FollowLink(d, p) = t \o r /\ FollowLink(d, q) = t \o s
    BY <1>1, <2>1, <2>2, LinkFollowed
  <2>4. t \in Seq(Name)
    BY <2>1, OneLinkOnPath DEF Path
  <2>5. r \in Seq(Name) /\ s = Append(r, x)
    <3>1. \A j \in 1 .. n : q[j] = p[j]
      BY <1>1
    <3>2. q[n + 1] = x
      BY <1>1
    <3>3. /\ r \in Seq(Name) /\ Len(r) = n - i
          /\ \A j \in 1 .. n - i : r[j] = p[i + j]
      BY <1>1, <2>1, RestIsPath
    <3>4. /\ s \in Seq(Name) /\ Len(s) = n + 1 - i
          /\ \A j \in 1 .. n + 1 - i : s[j] = q[i + j]
      BY <1>1, <2>2, RestIsPath
    <3> HIDE DEF r, s, q, n
    <3>5. Append(r, x) \in Seq(Name) /\ Len(Append(r, x)) = n - i + 1
          /\ Append(r, x)[n - i + 1] = x /\ \A j \in 1 .. n - i : Append(r, x)[j] = r[j]
      BY <3>3, <1>1, <2>1
    <3>6. Len(s) = Len(Append(r, x))
      BY <3>4, <3>5, <1>1, <2>1
    <3>7. ASSUME NEW j \in 1 .. Len(s) PROVE s[j] = Append(r, x)[j]
      <4>1. CASE j = n - i + 1
        BY <4>1, <3>2, <3>4, <3>5, <1>1, <2>1
      <4>2. CASE j \in 1 .. n - i
        <5>1. i + j \in 1 .. n /\ j \in 1 .. n + 1 - i
          BY <4>2, <1>1, <2>1
        <5> QED BY <4>2, <5>1, <3>1, <3>3, <3>4, <3>5
      <4>3. n \in Nat /\ i \in 1 .. n /\ Len(s) = n + 1 - i /\ j \in 1 .. Len(s)
        BY <1>1, <2>1, <3>4
      <4>4. j = n - i + 1 \/ j \in 1 .. n - i
        BY <4>3
      <4> QED BY <4>1, <4>2, <4>4
    <3> QED BY <3>3, <3>4, <3>5, <3>6, <3>7, SeqEqual
  <2> HIDE DEF t, r, s
  <2>6. t \o Append(r, x) = Append(t \o r, x)
    BY <2>4, <2>5
  <2> QED BY <2>3, <2>5, <2>6
<1>4. ASSUME LinksOn(d, p) = {}, NodeAt(d, q).type # "link"
      PROVE  FollowLink(d, q) = q
  <2>1. Upto(q, n + 1) = q
    BY <1>1, UptoAll
  <2>2. LinksOn(d, q) = {}
    <3> HIDE DEF q
    <3> QED BY <1>1, <1>2, <1>4, <2>1 DEF LinksOn
  <2> QED BY <2>2, NoLinkToFollow
<1> QED BY <1>3, <1>4

\* What is no link is where its directory is.
LEMMA RealAppended ==
  ASSUME NEW d, IsDisk(d), NEW p \in Seq(Name), NEW x \in Name,
         NodeAt(d, Append(Real(d, p), x)).type # "link"
  PROVE  Real(d, Append(p, x)) = Append(Real(d, p), x)
<1> DEFINE F(q) == FollowLink(d, q)
           p1 == F(p)
           p2 == F(p1)
           p3 == F(p2)
<1>1. Real(d, p) = p3 /\ Real(d, Append(p, x)) = F(F(F(Append(p, x))))
  BY DEF Real
<1>2. p1 \in Seq(Name) /\ p2 \in Seq(Name) /\ p3 \in Seq(Name)
  BY FollowedIsPath
<1>3. ASSUME NEW q \in Seq(Name), LinksOn(d, q) = {} => q = p3
      PROVE  F(Append(q, x)) = Append(F(q), x)
  <2>1. CASE LinksOn(d, q) # {}
    BY <2>1, FollowAppended
  <2>2. CASE LinksOn(d, q) = {}
    <3>1. q = p3 /\ F(q) = q
      BY <1>3, <2>2, NoLinkToFollow
    <3>2. NodeAt(d, Append(q, x)).type # "link"
      BY <1>1, <3>1
    <3> QED BY <2>2, <3>1, <3>2, FollowAppended
  <2> QED BY <2>1, <2>2
<1>4. /\ LinksOn(d, p) = {} => p = p3 /\ p1 = p
      /\ LinksOn(d, p1) = {} => p1 = p3 /\ p2 = p1
      /\ LinksOn(d, p2) = {} => p2 = p3
  BY NoLinkToFollow
<1> HIDE DEF p1, p2, p3, F
<1>5. F(p) = p1 /\ F(p1) = p2 /\ F(p2) = p3
  BY DEF p1, p2, p3
<1>6. F(Append(p, x)) = Append(p1, x)
  BY <1>3, <1>4, <1>5
<1>7. F(Append(p1, x)) = Append(p2, x)
  BY <1>2, <1>3, <1>4, <1>5
<1>8. F(Append(p2, x)) = Append(p3, x)
  BY <1>2, <1>3, <1>4, <1>5
<1> QED BY <1>1, <1>6, <1>7, <1>8

-----------------------------------------------------------------------------
(* What the operations make of a disk *)

LEMMA ImageIsFinite ==
  ASSUME NEW S, IsFiniteSet(S), NEW f
  PROVE  IsFiniteSet({f[x] : x \in S})
<1> DEFINE T == {f[x] : x \in S}
           g == [x \in S |-> f[x]]
<1>1. g \in Surjection(S, T)
  BY DEF Surjection
<1> HIDE DEF T, g
<1>2. IsFiniteSet(T)
  BY <1>1, FS_Surjection
<1> QED BY <1>2 DEF T

\* Links are followed alike on disks with the same links.
LEMMA SameLinks ==
  ASSUME NEW d, NEW e, IsDisk(d),
         \A p : /\ NodeAt(e, p).type = "link" <=> NodeAt(d, p).type = "link"
                /\ NodeAt(d, p).type = "link" => e.tree[p] = d.tree[p]
  PROVE  \A p \in Seq(Name) : Real(e, p) = Real(d, p) /\ RealLink(e, p) = RealLink(d, p)
<1>1. \A p : LinksOn(e, p) = LinksOn(d, p)
  BY DEF LinksOn
<1>2. ASSUME NEW p \in Seq(Name) PROVE FollowLink(e, p) = FollowLink(d, p)
  <2>1. CASE LinksOn(d, p) = {}
    BY <1>1, <2>1, NoLinkToFollow
  <2>2. CASE LinksOn(d, p) # {}
    <3>1. PICK i \in LinksOn(d, p) : TRUE
      BY <2>2
    <3>2. Min(LinksOn(d, p)) = i
      BY <3>1, OneLinkOnPath
    <3>3. NodeAt(d, Upto(p, i)).type = "link"
      BY <3>1 DEF LinksOn
    <3>4. e.tree[Upto(p, i)] = d.tree[Upto(p, i)]
      BY <3>3
    <3>5. LinksOn(e, p) # {} /\ Min(LinksOn(e, p)) = i
      BY <1>1, <2>2, <3>2
    <3>6. FollowLink(e, p) = e.tree[Upto(p, i)].target \o SubSeq(p, i + 1, Len(p))
      BY <3>5, Zenon DEF FollowLink
    <3> QED BY <3>1, <3>4, <3>6, LinkFollowed
  <2> QED BY <2>1, <2>2
<1>3. \A p \in Seq(Name) : FollowLink(d, p) \in Seq(Name)
  BY FollowedIsPath
<1>4. \A p \in Seq(Name) : Real(e, p) = Real(d, p)
  BY <1>2, <1>3, Zenon DEF Real
<1>5. \A p \in Seq(Name) : p # <<>> => Parent(p) \in Seq(Name)
  BY ParentIsPath
<1> QED BY <1>4, <1>5 DEF RealLink

\* A disk with more entries, each in a directory.
LEMMA GrownDisk ==
  ASSUME NEW d, IsDisk(d), NEW e, NEW N, IsFiniteSet(N),
         HasFields(e), e.data \in Seq(Content), Len(d.data) <= Len(e.data), IsFunction(e.tree),
         DOMAIN e.tree = DOMAIN d.tree \cup N, \A p \in DOMAIN d.tree : e.tree[p] = d.tree[p],
         \A p \in N \ DOMAIN d.tree :
            p \in Path /\ IsNode(e.tree[p], e.data) /\ NodeAt(e, Parent(p)).type = "dir"
  PROVE  IsDisk(e) /\ \A p : NodeAt(d, p).type # "missing" => NodeAt(e, p) = NodeAt(d, p)
<1>1. IsFiniteSet(DOMAIN e.tree)
  <2>1. IsFiniteSet(DOMAIN d.tree)
    BY DEF IsDisk
  <2>2. IsFiniteSet(DOMAIN d.tree \cup N)
    BY <2>1, FS_Union
  <2> QED BY <2>2
<1>2. \A p : NodeAt(d, p).type # "missing" => NodeAt(e, p) = NodeAt(d, p)
  BY DEF NodeAt, Missing
<1>3. DOMAIN d.data \subseteq DOMAIN e.data
  <2>1. d.data \in Seq(Content) /\ Len(d.data) \in Nat /\ Len(e.data) \in Nat
    BY DEF IsDisk
  <2>2. DOMAIN d.data = 1 .. Len(d.data) /\ DOMAIN e.data = 1 .. Len(e.data)
    BY <2>1
  <2> QED BY <2>1, <2>2
<1>4. ASSUME NEW p \in DOMAIN d.tree
      PROVE  p \in Path /\ IsNode(e.tree[p], e.data) /\ NodeAt(e, Parent(p)).type = "dir"
  <2>1. p \in Path /\ IsNode(d.tree[p], d.data) /\ NodeAt(d, Parent(p)).type = "dir"
    BY DEF IsDisk
  <2>2. IsNode(e.tree[p], e.data)
    BY <1>3, <2>1 DEF IsNode
  <2> QED BY <1>2, <2>1, <2>2
<1>5. \A p \in DOMAIN e.tree :
        p \in Path /\ IsNode(e.tree[p], e.data) /\ NodeAt(e, Parent(p)).type = "dir"
  BY <1>4
<1> QED BY <1>1, <1>2, <1>5 DEF IsDisk

\* A disk whose new entries are no links.
LEMMA GrownWithoutLinks ==
  ASSUME NEW d, IsDisk(d), NEW e, IsDisk(e),
         \A p : NodeAt(d, p).type # "missing" => NodeAt(e, p) = NodeAt(d, p),
         \A p : NodeAt(d, p).type = "missing" => NodeAt(e, p).type # "link"
  PROVE  \A p \in Seq(Name) : Real(e, p) = Real(d, p) /\ RealLink(e, p) = RealLink(d, p)
<1>1. \A p : /\ NodeAt(e, p).type = "link" <=> NodeAt(d, p).type = "link"
             /\ NodeAt(d, p).type = "link" => e.tree[p] = d.tree[p]
  <2> TAKE p
  <2>1. CASE NodeAt(d, p).type = "missing"
    BY <2>1
  <2>2. CASE NodeAt(d, p).type # "missing"
    <3>1. NodeAt(e, p) = NodeAt(d, p)
      BY <2>2
    <3>2. NodeAt(d, p).type = "link" => NodeAt(d, p) = d.tree[p] /\ NodeAt(e, p) = e.tree[p]
      BY <3>1, Nodes
    <3> QED BY <3>1, <3>2
  <2> QED BY <2>1, <2>2
<1> QED BY <1>1, SameLinks

LEMMA PutFields ==
  ASSUME NEW d, IsDisk(d), NEW p, NEW node
  PROVE  /\ DOMAIN Put(d, p, node).tree = DOMAIN d.tree \cup {p}
         /\ Put(d, p, node).tree[p] = node /\ Put(d, p, node).data = d.data
         /\ \A q \in DOMAIN d.tree : q # p => Put(d, p, node).tree[q] = d.tree[q]
         /\ HasFields(Put(d, p, node)) /\ IsFunction(Put(d, p, node).tree)
         /\ \A data : /\ HasFields([Put(d, p, node) EXCEPT !.data = data])
                      /\ [Put(d, p, node) EXCEPT !.data = data].tree = Put(d, p, node).tree
                      /\ [Put(d, p, node) EXCEPT !.data = data].data = data
<1>1. PICK tree, data : d = [tree |-> tree, data |-> data]
  BY DEF IsDisk, HasFields
<1>2. d.tree = tree /\ d.data = data
  BY <1>1
<1>3. Put(d, p, node) = [tree |-> Over([q \in {p} |-> node], tree), data |-> data]
  BY <1>1 DEF Put
<1> QED BY <1>2, <1>3 DEF Over, HasFields, IsFunction

LEMMA PutDisk ==
  ASSUME NEW d, IsDisk(d), NEW p \in Path, p \notin DOMAIN d.tree,
         NodeAt(d, Parent(p)).type = "dir",
         NEW e, e.data \in Seq(Content), Len(d.data) <= Len(e.data), HasFields(e),
         NEW node, IsNode(node, e.data), e.tree = Put(d, p, node).tree
  PROVE  /\ IsDisk(e) /\ NodeAt(e, p) = node
         /\ \A q : q # p => NodeAt(e, q) = NodeAt(d, q)
<1>2. /\ DOMAIN e.tree = DOMAIN d.tree \cup {p} /\ IsFunction(e.tree)
      /\ e.tree[p] = node /\ \A q \in DOMAIN d.tree : e.tree[q] = d.tree[q]
  BY PutFields
<1>3. Parent(p) # p
  BY ParentIsPath DEF Path
<1>4. p # <<>>
  BY DEF Path
<1>5. \A q : q # p => NodeAt(e, q) = NodeAt(d, q)
  BY <1>2 DEF NodeAt
<1>6. NodeAt(e, Parent(p)).type = "dir" /\ NodeAt(e, p) = node
  BY <1>2, <1>3, <1>4, <1>5 DEF NodeAt
<1>7. IsFiniteSet({p})
  BY FS_Singleton
<1>8. IsDisk(e)
  <2>1. \A q \in {p} \ DOMAIN d.tree :
          q \in Path /\ IsNode(e.tree[q], e.data) /\ NodeAt(e, Parent(q)).type = "dir"
    BY <1>2, <1>6
  <2> QED BY <1>2, <1>7, <2>1, GrownDisk
<1> QED BY <1>5, <1>6, <1>8

\* A disk with other contents of its files.
LEMMA RefilledDisk ==
  ASSUME NEW d, IsDisk(d), NEW f \in DOMAIN d.data, NEW c \in Content,
         NEW e, e = [d EXCEPT !.data[f] = c]
  PROVE  /\ IsDisk(e) /\ \A p : NodeAt(e, p) = NodeAt(d, p)
         /\ Len(e.data) = Len(d.data) /\ DOMAIN e.data = DOMAIN d.data
         /\ \A g : g # f /\ g \in DOMAIN d.data => e.data[g] = d.data[g]
<1>1. e.tree = d.tree /\ e.data = [d.data EXCEPT ![f] = c] /\ HasFields(e)
  BY DEF IsDisk, HasFields
<1>2. d.data \in Seq(Content) /\ f \in 1 .. Len(d.data)
  BY DEF IsDisk
<1>3. e.data \in Seq(Content) /\ Len(e.data) = Len(d.data) /\ DOMAIN e.data = DOMAIN d.data
  BY <1>1, <1>2, ExceptSeq
<1>4. \A p : NodeAt(e, p) = NodeAt(d, p)
  BY <1>1 DEF NodeAt
<1>5. \A n : IsNode(n, d.data) => IsNode(n, e.data)
  BY <1>3 DEF IsNode
<1>6. IsDisk(e)
  BY <1>1, <1>3, <1>4, <1>5 DEF IsDisk
<1>7. \A g : g # f /\ g \in DOMAIN d.data => e.data[g] = d.data[g]
  BY <1>1
<1> QED BY <1>3, <1>4, <1>6, <1>7

\* MkdirAll: the directories it makes are in directories, made or found.
LEMMA MadeDisk ==
  ASSUME NEW d, IsDisk(d), NEW p \in Path, MkdirAll(d, p).ok
  PROVE  LET e == MkdirAll(d, p).disk IN
         /\ IsDisk(e) /\ e.data = d.data
         /\ \A q : NodeAt(d, q).type # "missing" => NodeAt(e, q) = NodeAt(d, q)
         /\ \A q : NodeAt(d, q).type = "missing" => NodeAt(e, q).type \in {"missing", "dir"}
<1> DEFINE e == MkdirAll(d, p).disk
           made == {Real(d, Upto(p, i)) : i \in DOMAIN p}
           N == made \ {<<>>}
<1>1. /\ ~TooLong(p)
      /\ \A i \in DOMAIN p : Lstat(d, Upto(p, i)).type # "missing" => Stat(d, Upto(p, i)).type = "dir"
      /\ e = [d EXCEPT !.tree = Over(@, [q \in N |-> Dir])]
  BY DEF MkdirAll, Ok, Fails
<1>2. e.tree = Over(d.tree, [q \in N |-> Dir]) /\ e.data = d.data /\ HasFields(e)
  BY <1>1 DEF IsDisk, HasFields
<1>3. /\ DOMAIN e.tree = DOMAIN d.tree \cup N /\ IsFunction(e.tree)
      /\ \A q \in DOMAIN d.tree : e.tree[q] = d.tree[q]
      /\ \A q \in N \ DOMAIN d.tree : e.tree[q] = Dir
  <2> HIDE DEF N, e
  <2> QED BY <1>2 DEF Over, IsFunction
<1>4. p \in Seq(Name) /\ Len(p) \in Nat /\ DOMAIN p = 1 .. Len(p)
  BY DEF Path
<1>5. IsFiniteSet(N)
  <2> DEFINE f == [i \in DOMAIN p |-> Real(d, Upto(p, i))]
  <2>1. IsFiniteSet(DOMAIN p)
    BY <1>4, FS_Interval
  <2>2. IsFiniteSet({f[i] : i \in DOMAIN p})
    <3> HIDE DEF f
    <3> QED BY <2>1, ImageIsFinite
  <2>3. {f[i] : i \in DOMAIN p} = made
    OBVIOUS
  <2> HIDE DEF made, f
  <2>4. IsFiniteSet(made)
    BY <2>2, <2>3
  <2>5. N \in SUBSET made
    OBVIOUS
  <2> QED BY <2>4, <2>5, FS_Subset
<1> HIDE DEF e
<1>6. ASSUME NEW q \in N \ DOMAIN d.tree
      PROVE  q \in Path /\ NodeAt(e, Parent(q)).type = "dir"
  <2>1. PICK i \in DOMAIN p : q = Real(d, Upto(p, i))
    OBVIOUS
  <2> DEFINE u == Upto(p, i)
             v == Upto(p, i - 1)
  <2>2. /\ u \in Seq(Name) /\ Len(u) = i /\ v \in Seq(Name) /\ Len(v) = i - 1
        /\ u # <<>> /\ Parent(u) = v /\ i \in 1 .. Len(p) /\ i \in 0 .. Len(p) /\ i - 1 \in 0 .. Len(p)
    <3>1. i \in 1 .. Len(p) /\ i \in 0 .. Len(p) /\ i - 1 \in 0 .. Len(p)
      BY <1>4
    <3>2. u \in Seq(Name) /\ Len(u) = i /\ v \in Seq(Name) /\ Len(v) = i - 1
      BY <1>4, <3>1, UptoIsPath
    <3> QED BY <1>4, <3>1, <3>2, ParentOfUpto
  <2>3. ~TooLong(u) /\ ~TooLong(v)
    BY <1>1, <1>4, <2>2, NamesAssumption DEF TooLong
  <2> HIDE DEF u, v
  <2>4. q \in Path
    BY <2>1, <2>2, RealIsPath DEF Path, u
  <2>5. NodeAt(d, q).type = "missing"
    BY <2>4, Nodes DEF Path
  <2>6. Stat(d, u).type # "dir"
    BY <2>1, <2>3, <2>5 DEF Stat, u
  <2>7. Lstat(d, u).type = "missing"
    BY <1>1, <2>6 DEF u
  <2>8. PICK x \in Name : u = Append(v, x) /\ RealLink(d, u) = Append(Real(d, v), x)
    BY <2>2, ParentIsPath DEF RealLink
  <2>9. NodeAt(d, Append(Real(d, v), x)).type = "missing"
    BY <2>3, <2>7, <2>8 DEF Lstat
  <2>10. q = Append(Real(d, v), x) /\ Parent(q) = Real(d, v)
    <3>1. Real(d, Append(v, x)) = Append(Real(d, v), x)
      BY <2>2, <2>9, RealAppended
    <3>2. q = Real(d, u) /\ Real(d, v) \in Seq(Name)
      BY <2>1, <2>2, RealIsPath DEF u
    <3>3. Parent(Append(Real(d, v), x)) = Real(d, v)
      BY <3>2, AppendedPath
    <3> QED BY <2>8, <3>1, <3>2, <3>3
  <2>11. CASE Real(d, v) = <<>>
    BY <2>4, <2>10, <2>11 DEF NodeAt, Dir
  <2>12. CASE Real(d, v) # <<>>
    <3>1. i - 1 \in DOMAIN p
      <4>1. v # <<>>
        BY <2>2, <2>12, RealIsPath
      <4> QED BY <1>4, <2>2, <4>1
    <3>2. Real(d, v) \in N
      BY <3>1, <2>12 DEF v
    <3>3. CASE Real(d, v) \notin DOMAIN d.tree
      BY <1>3, <2>4, <2>10, <2>12, <3>2, <3>3 DEF NodeAt, Dir
    <3>4. CASE Real(d, v) \in DOMAIN d.tree
      <4>1. NodeAt(d, Real(d, v)).type # "missing"
        BY <3>4, Nodes
      <4>2. Stat(d, v).type # "missing"
        BY <2>3, <4>1 DEF Stat
      <4>3. Lstat(d, v).type # "missing"
        <5> SUFFICES ASSUME Lstat(d, v).type = "missing" PROVE FALSE
          OBVIOUS
        <5> DEFINE w == Parent(v)
        <5>1. v # <<>>
          BY <2>2, <2>12, RealIsPath
        <5>2. w \in Seq(Name) /\ Last(v) \in Name /\ v = Append(w, Last(v))
          BY <2>2, <5>1, ParentIsPath
        <5>3. NodeAt(d, Append(Real(d, w), Last(v))).type = "missing"
          BY <2>3, <5>1 DEF Lstat, RealLink
        <5>4. Real(d, v) = Append(Real(d, w), Last(v))
          <6>1. PICK y \in Name : v = Append(w, y) /\ y = Last(v)
            BY <5>2
          <6>2. NodeAt(d, Append(Real(d, w), y)).type # "link"
            BY <5>3, <6>1
          <6> HIDE DEF w
          <6>3. Real(d, Append(w, y)) = Append(Real(d, w), y)
            BY <5>2, <6>2, RealAppended
          <6> QED BY <6>1, <6>3
        <5> QED BY <4>1, <5>3, <5>4
      <4>4. Stat(d, v).type = "dir"
        BY <1>1, <3>1, <4>3 DEF v
      <4>5. NodeAt(d, Real(d, v)).type = "dir"
        BY <2>3, <4>4 DEF Stat
      <4> QED BY <1>3, <2>4, <2>10, <2>12, <3>4, <4>5 DEF NodeAt
    <3> QED BY <3>3, <3>4
  <2> QED BY <2>4, <2>11, <2>12
<1>7. IsNode(Dir, d.data)
  BY DEF IsNode, Dir
<1>8. e.data \in Seq(Content) /\ Len(d.data) <= Len(e.data)
  <2>1. d.data \in Seq(Content)
    BY DEF IsDisk
  <2>2. Len(d.data) \in Nat
    BY <2>1
  <2> QED BY <1>2, <2>1, <2>2
<1> HIDE DEF e, N
<1>9. /\ IsDisk(e)
      /\ \A q : NodeAt(d, q).type # "missing" => NodeAt(e, q) = NodeAt(d, q)
  <2>1. \A q \in N \ DOMAIN d.tree :
          q \in Path /\ IsNode(e.tree[q], e.data) /\ NodeAt(e, Parent(q)).type = "dir"
    BY <1>2, <1>3, <1>6, <1>7
  <2> QED BY <1>2, <1>3, <1>5, <1>8, <2>1, GrownDisk
<1>10. ASSUME NEW q, NodeAt(d, q).type = "missing"
       PROVE  NodeAt(e, q).type \in {"missing", "dir"}
  <2>1. q # <<>> /\ q \notin DOMAIN d.tree
    BY <1>10, Nodes
  <2> QED BY <1>3, <2>1 DEF NodeAt, Dir, Missing
<1>11. e = MkdirAll(d, p).disk
  BY DEF e
<1> QED BY <1>2, <1>9, <1>10, <1>11

\* Opening for writing: the file found, or a new one in its directory.
LEMMA OpenedDisk ==
  ASSUME NEW d, IsDisk(d), NEW p \in Path, NEW truncate \in BOOLEAN, now \in Nat,
         OpenForWriting(d, p, truncate).ok
  PROVE  LET r == OpenForWriting(d, p, truncate)
             e == r.disk IN
         /\ IsDisk(e) /\ Len(d.data) <= Len(e.data) /\ r.file \in DOMAIN e.data
         /\ \A q : NodeAt(d, q).type # "missing" => NodeAt(e, q) = NodeAt(d, q)
         /\ \A q : NodeAt(d, q).type = "missing" =>
                NodeAt(e, q).type = "missing" \/ NodeAt(e, q) = FileNode(Len(d.data) + 1)
         /\ \/ Stat(d, p).type = "file" /\ r.file = Stat(d, p).file
            \/ r.file = Len(d.data) + 1
         /\ \A g \in DOMAIN d.data : g # r.file => e.data[g] = d.data[g]
<1> DEFINE r == OpenForWriting(d, p, truncate)
           e == r.disk
           real == Real(d, p)
           node == NodeAt(d, real)
           empty == [content |-> <<>>, time |-> now]
<1>1. /\ d.data \in Seq(Content) /\ empty \in Content
      /\ Len(d.data) \in Nat /\ DOMAIN d.data = 1 .. Len(d.data)
  BY DEF IsDisk, Content
<1>2. real \in Path
  BY RealIsPath DEF Path
<1>3. ~TooLong(p) /\ node.type # "dir" /\ node.type # "link" /\ Stat(d, p) = node
  BY DEF OpenForWriting, Stat, Fails
<1>4. CASE node.type = "file" /\ truncate
  <2>1. r = [ok |-> TRUE, file |-> node.file, disk |-> [d EXCEPT !.data[node.file] = empty]]
    <3> HIDE DEF real
    <3> QED BY <1>3, <1>4 DEF OpenForWriting, real
  <2>2. e = [d EXCEPT !.data[node.file] = empty] /\ r.file = node.file
    BY <2>1
  <2>3. node.file \in DOMAIN d.data
    BY <1>4, Nodes
  <2> HIDE DEF e, r, node, empty
  <2>4. /\ IsDisk(e) /\ \A q : NodeAt(e, q) = NodeAt(d, q)
        /\ Len(e.data) = Len(d.data) /\ DOMAIN e.data = DOMAIN d.data
        /\ \A g : g # r.file /\ g \in DOMAIN d.data => e.data[g] = d.data[g]
    <3>1. e = [d EXCEPT !.data[r.file] = empty]
      BY <2>2
    <3>2. empty \in Content /\ r.file \in DOMAIN d.data
      BY <1>1, <2>2, <2>3
    <3> QED BY <3>1, <3>2, RefilledDisk
  <2>5. Len(d.data) <= Len(e.data) /\ r.file \in DOMAIN e.data
    BY <1>1, <2>2, <2>3, <2>4
  <2>6. Stat(d, p).type = "file" /\ r.file = Stat(d, p).file
    BY <1>3, <1>4, <2>2
  <2> QED BY <2>4, <2>5, <2>6, Zenon DEF e, r
<1>5. CASE node.type = "file" /\ ~truncate
  <2>1. r = [ok |-> TRUE, file |-> node.file, disk |-> d]
    <3> HIDE DEF real
    <3> QED BY <1>3, <1>5 DEF OpenForWriting, real
  <2>2. e = d /\ r.file = node.file
    BY <2>1
  <2>3. node.file \in DOMAIN d.data
    BY <1>5, Nodes
  <2> HIDE DEF e, r, node
  <2> QED BY <1>1, <1>3, <1>5, <2>2, <2>3 DEF e, r
<1>6. CASE node.type = "missing"
  <2> DEFINE n == Len(d.data) + 1
  <2>1. /\ NodeAt(d, Parent(real)).type = "dir"
        /\ r = [ok |-> TRUE, file |-> n,
                disk |-> [Put(d, real, FileNode(n)) EXCEPT !.data = Append(@, empty)]]
    <3> HIDE DEF real
    <3> QED BY <1>3, <1>6 DEF OpenForWriting, real, Fails
  <2>2. /\ e.tree = Put(d, real, FileNode(n)).tree /\ e.data = Append(d.data, empty) /\ HasFields(e)
        /\ r.file = n
    <3> DEFINE new == FileNode(n)
               put == Put(d, real, new)
               data == Append(d.data, empty)
    <3>1. put.data = d.data /\ HasFields([put EXCEPT !.data = data])
          /\ [put EXCEPT !.data = data].tree = put.tree /\ [put EXCEPT !.data = data].data = data
      <4> HIDE DEF new, data, real
      <4> QED BY PutFields
    <3>2. e = [put EXCEPT !.data = Append(put.data, empty)] /\ r.file = n
      <4> HIDE DEF empty, n, real
      <4> QED BY <2>1
    <3>3. e = [put EXCEPT !.data = data]
      <4> HIDE DEF put, empty, n, real, e
      <4> QED BY <3>1, <3>2
    <3> HIDE DEF put, data, e, r
    <3>4. e.tree = put.tree /\ e.data = data /\ HasFields(e) /\ r.file = n
      BY <3>1, <3>2, <3>3
    <3> QED BY <3>4 DEF put, data
  <2>3. /\ Append(d.data, empty) \in Seq(Content) /\ Len(Append(d.data, empty)) = n /\ n \in Nat
        /\ DOMAIN Append(d.data, empty) = 1 .. n
        /\ \A g \in 1 .. Len(d.data) : Append(d.data, empty)[g] = d.data[g]
    <3> HIDE DEF empty
    <3> QED BY <1>1
  <2>4. IsNode(FileNode(n), Append(d.data, empty))
    BY <2>3 DEF IsNode, FileNode
  <2>5. real \notin DOMAIN d.tree
    BY <1>6, Nodes
  <2> HIDE DEF e, r, empty, n, real, node
  <2>6. Len(d.data) <= Len(Append(d.data, empty)) /\ n \in 1 .. n /\ n = Len(d.data) + 1
    BY <1>1, <2>3 DEF n
  <2>7. /\ IsDisk(e) /\ NodeAt(e, real) = FileNode(n)
        /\ \A q : q # real => NodeAt(e, q) = NodeAt(d, q)
    <3> DEFINE new == FileNode(n)
    <3>1. /\ e.tree = Put(d, real, new).tree /\ HasFields(e) /\ IsNode(new, e.data)
          /\ e.data \in Seq(Content) /\ Len(d.data) <= Len(e.data)
      BY <2>2, <2>3, <2>4, <2>6
    <3>2. NodeAt(d, Parent(real)).type = "dir"
      BY <2>1
    <3> HIDE DEF new
    <3>3. /\ IsDisk(e) /\ NodeAt(e, real) = new
          /\ \A q : q # real => NodeAt(e, q) = NodeAt(d, q)
      BY <1>2, <2>5, <3>1, <3>2, PutDisk
    <3> QED BY <3>3 DEF new
  <2>8. e.data = Append(d.data, empty)
    BY <2>2
  <2>9. NodeAt(d, real).type = "missing"
    BY <1>6 DEF node
  <2>10. /\ IsDisk(e) /\ Len(d.data) <= Len(e.data) /\ r.file \in DOMAIN e.data
         /\ r.file = Len(d.data) + 1
         /\ \A g \in DOMAIN d.data : g # r.file => e.data[g] = d.data[g]
    BY <1>1, <2>2, <2>3, <2>6, <2>7, <2>8
  <2>11. /\ \A q : NodeAt(d, q).type # "missing" => NodeAt(e, q) = NodeAt(d, q)
         /\ \A q : NodeAt(d, q).type = "missing" =>
                NodeAt(e, q).type = "missing" \/ NodeAt(e, q) = FileNode(Len(d.data) + 1)
    BY <2>6, <2>7, <2>9
  <2> QED BY <2>10, <2>11 DEF e, r
<1> QED BY <1>3, <1>4, <1>5, <1>6, Nodes

\* A disk with one more name, for what is no directory.
LEMMA NamedDisk ==
  ASSUME NEW d, IsDisk(d), NEW p \in Path, NEW node, IsNode(node, d.data),
         ~ TooLong(p), Lstat(d, p).type = "missing", Stat(d, Parent(p)).type = "dir",
         NEW e, e = Put(d, RealLink(d, p), node)
  PROVE  IsDisk(e) /\ e.data = d.data
<1> DEFINE link == RealLink(d, p)
<1>2. /\ p # <<>> /\ Parent(p) \in Seq(Name) /\ Last(p) \in Name /\ link = Append(Real(d, Parent(p)), Last(p))
      /\ Real(d, Parent(p)) \in Seq(Name)
  BY ParentIsPath, RealIsPath DEF Path, RealLink
<1>3. link \in Path /\ Parent(link) = Real(d, Parent(p))
  BY <1>2, AppendedPath DEF Path
<1>4. NodeAt(d, Parent(link)).type = "dir"
  BY <1>3 DEF Stat, Missing
<1>5. link \notin DOMAIN d.tree
  BY Nodes DEF Lstat
<1>6. /\ e.tree = Put(d, link, node).tree /\ e.data = d.data /\ HasFields(e)
      /\ d.data \in Seq(Content) /\ Len(d.data) \in Nat
  <2>1. d.data \in Seq(Content)
    BY DEF IsDisk
  <2>2. Put(d, link, node).data = d.data /\ HasFields(Put(d, link, node))
    <3> HIDE DEF link
    <3> QED BY PutFields
  <2> HIDE DEF link
  <2> QED BY <2>1, <2>2 DEF link
<1>7. IsNode(node, e.data) /\ Len(d.data) <= Len(e.data)
  BY <1>6
<1> HIDE DEF link
<1>8. IsDisk(e)
  BY <1>3, <1>4, <1>5, <1>6, <1>7, PutDisk
<1> QED BY <1>6, <1>8

LEMMA LinkedDisk ==
  ASSUME NEW d, IsDisk(d), NEW p \in Path, NEW target \in Path, Symlink(d, target, p).ok
  PROVE  IsDisk(Symlink(d, target, p).disk) /\ Symlink(d, target, p).disk.data = d.data
<1>1. /\ ~TooLong(p) /\ Lstat(d, p).type = "missing" /\ Stat(d, Parent(p)).type = "dir"
      /\ Symlink(d, target, p).disk = Put(d, RealLink(d, p), Link(target))
  BY DEF Symlink, Ok, Fails
<1>2. IsNode(Link(target), d.data)
  BY DEF IsNode, Link
<1> QED BY <1>1, <1>2, NamedDisk

LEMMA HardLinkedDisk ==
  ASSUME NEW d, IsDisk(d), NEW p \in Path, NEW target \in Path, HardLink(d, target, p).ok
  PROVE  IsDisk(HardLink(d, target, p).disk) /\ HardLink(d, target, p).disk.data = d.data
<1> DEFINE node == Lstat(d, target)
<1>1. /\ ~TooLong(p) /\ Lstat(d, p).type = "missing" /\ Stat(d, Parent(p)).type = "dir"
      /\ HardLink(d, target, p).disk = Put(d, RealLink(d, p), node)
      /\ node.type \notin {"missing", "dir"}
  BY DEF HardLink, Ok, Fails
<1>2. node = NodeAt(d, RealLink(d, target))
  BY <1>1 DEF Lstat, Missing
<1>3. RealLink(d, target) \in DOMAIN d.tree /\ node = d.tree[RealLink(d, target)]
  BY <1>1, <1>2, Nodes
<1>4. IsNode(node, d.data)
  BY <1>3 DEF IsDisk
<1> HIDE DEF node
<1> QED BY <1>1, <1>4, NamedDisk

-----------------------------------------------------------------------------
(* Removing *)

LEMMA PrefixOfPath ==
  ASSUME NEW S, NEW a \in Seq(S), NEW p \in Seq(S), NEW q \in Seq(S), IsPrefix(p, q)
  PROVE  /\ IsPrefix(a, p) => IsPrefix(a, q)
         /\ p # q => Len(p) \in 0 .. Len(q) - 1
         /\ p = Upto(q, Len(p)) /\ Len(p) \in 0 .. Len(q) /\ Len(q) \in Nat
<1>1. Len(p) <= Len(q) /\ p = Upto(q, Len(p)) /\ Len(p) \in Nat /\ Len(q) \in Nat
  BY PrefixIsUpto
<1>2. ASSUME IsPrefix(a, p) PROVE IsPrefix(a, q)
  <2>1. Len(a) <= Len(p) /\ a = Upto(p, Len(a)) /\ Len(a) \in Nat
    BY <1>2, PrefixIsUpto
  <2>2. Upto(Upto(q, Len(p)), Len(a)) = Upto(q, Len(a))
    <3>1. Len(p) \in 0 .. Len(q) /\ Len(a) \in 0 .. Len(p)
      BY <1>1, <2>1
    <3> QED BY <3>1, UptoUpto
  <2>3. Len(a) <= Len(q)
    BY <1>1, <2>1
  <2>4. a = Upto(q, Len(a))
    BY <1>1, <2>1, <2>2, Zenon
  <2> QED BY <2>3, <2>4, PrefixIsUpto
<1>3. p # q => Len(p) # Len(q)
  BY <1>1, UptoAll
<1> QED BY <1>1, <1>2, <1>3

LEMMA PathIsItsPrefix ==
  ASSUME NEW S, NEW p \in Seq(S)
  PROVE  /\ IsPrefix(p, p)
         /\ p # <<>> => IsPrefix(Parent(p), p)
         /\ \A i \in 0 .. Len(p) : IsPrefix(Upto(p, i), p)
<1>1. ASSUME NEW i \in 0 .. Len(p) PROVE IsPrefix(Upto(p, i), p)
  <2>1. Upto(p, i) \in Seq(S) /\ Len(Upto(p, i)) = i /\ Len(p) \in Nat
    BY UptoIsPath
  <2> QED BY <2>1, PrefixIsUpto
<1>2. Len(p) \in 0 .. Len(p) /\ Upto(p, Len(p)) = p
  BY UptoAll
<1>3. p # <<>> => Parent(p) = Upto(p, Len(p) - 1) /\ Len(p) - 1 \in 0 .. Len(p)
  BY ParentIsPath
<1> QED BY <1>1, <1>2, <1>3

\* A set of entries that holds with each what is below it.
LEMMA RemovedDisk ==
  ASSUME NEW d, IsDisk(d), NEW R \in SUBSET Path, IsClosed(d, R)
  PROVE  /\ IsDisk(Without(d, R)) /\ Without(d, R).data = d.data
         /\ DOMAIN Without(d, R).tree = DOMAIN d.tree \ R
         /\ \A p : NodeAt(Without(d, R), p) = IF p \in R THEN Missing ELSE NodeAt(d, p)
<1> DEFINE e == Without(d, R)
<1>1. /\ e.data = d.data /\ HasFields(e) /\ IsFunction(e.tree)
      /\ DOMAIN e.tree = DOMAIN d.tree \ R /\ \A p \in DOMAIN e.tree : e.tree[p] = d.tree[p]
  BY DEF Without, IsDisk, HasFields, IsFunction
<1> HIDE DEF e
<1>2. <<>> \notin R
  BY DEF Path
<1>3. \A p : NodeAt(e, p) = IF p \in R THEN Missing ELSE NodeAt(d, p)
  BY <1>1, <1>2 DEF NodeAt
<1>4. IsFiniteSet(DOMAIN e.tree)
  <2>1. IsFiniteSet(DOMAIN d.tree) /\ DOMAIN e.tree \in SUBSET DOMAIN d.tree
    BY <1>1 DEF IsDisk
  <2> QED BY <2>1, FS_Subset
<1>5. ASSUME NEW p \in DOMAIN e.tree
      PROVE  p \in Path /\ IsNode(e.tree[p], e.data) /\ NodeAt(e, Parent(p)).type = "dir"
  <2>1. /\ p \in DOMAIN d.tree /\ p \notin R
        /\ p \in Path /\ IsNode(d.tree[p], d.data) /\ NodeAt(d, Parent(p)).type = "dir"
    BY <1>1 DEF IsDisk
  <2>2. IsPrefix(Parent(p), p)
    BY <2>1, PathIsItsPrefix DEF Path
  <2>3. Parent(p) \notin R
    BY <2>1, <2>2 DEF IsClosed
  <2> QED BY <1>1, <1>3, <2>1, <2>3
<1>6. IsDisk(e)
  BY <1>1, <1>4, <1>5 DEF IsDisk
<1> QED BY <1>1, <1>3, <1>6 DEF e

\* A path that leads to a place that is gone.
IsLost(d, p) == LinksOn(d, p) = {} /\ \E i \in DOMAIN p : Upto(p, i) \notin DOMAIN d.tree

LEMMA LostIsMissing ==
  ASSUME NEW d, IsDisk(d), NEW p \in Seq(Name), IsLost(d, p)
  PROVE  /\ NodeAt(d, p).type = "missing"
         /\ \A x \in Name : NodeAt(d, Append(p, x)).type = "missing"
<1>1. PICK i \in DOMAIN p : Upto(p, i) \notin DOMAIN d.tree
  BY DEF IsLost
<1>2. Len(p) \in Nat /\ i \in 1 .. Len(p) /\ i \in 0 .. Len(p)
  OBVIOUS
<1>3. Upto(p, i) # <<>>
  BY <1>2, UptoIsPath
<1>4. NodeAt(d, Upto(p, i)).type = "missing"
  BY <1>1, <1>3, Nodes
<1>5. NodeAt(d, p).type = "missing"
  <2>1. CASE i = Len(p)
    BY <1>4, <2>1, UptoAll
  <2>2. CASE i # Len(p)
    <3>1. i \in 0 .. Len(p) - 1 /\ p # <<>>
      BY <1>2, <2>2
    <3>2. p \notin DOMAIN d.tree
      BY <1>4, <3>1, Ancestors
    <3> QED BY <3>1, <3>2, Nodes
  <2> QED BY <2>1, <2>2
<1>6. ASSUME NEW x \in Name PROVE NodeAt(d, Append(p, x)).type = "missing"
  <2> DEFINE q == Append(p, x)
  <2>1. q # <<>> /\ Len(q) = Len(p) + 1 /\ Upto(q, i) = Upto(p, i)
    BY <1>2, AppendedPath
  <2>2. i \in 0 .. Len(q) - 1
    BY <1>2, <2>1
  <2> HIDE DEF q
  <2>3. q \notin DOMAIN d.tree
    BY <1>4, <2>1, <2>2, Ancestors
  <2>4. NodeAt(d, q).type = "missing"
    BY <2>1, <2>3, Nodes
  <2> QED BY <2>4 DEF q
<1> QED BY <1>5, <1>6

LEMMA FollowAfterRemoval ==
  ASSUME NEW d, IsDisk(d), NEW e, IsDisk(e), NEW R,
         DOMAIN e.tree = DOMAIN d.tree \ R,
         \A p : NodeAt(e, p) = IF p \in R THEN Missing ELSE NodeAt(d, p),
         NEW p \in Seq(Name)
  PROVE  FollowLink(e, p) = FollowLink(d, p) \/ (FollowLink(e, p) = p /\ IsLost(e, p))
<1>1. Missing.type = "missing"
  BY DEF Missing
<1>2. LinksOn(e, p) \subseteq LinksOn(d, p)
  BY <1>1 DEF LinksOn
<1>3. CASE LinksOn(d, p) = {}
  <2>1. LinksOn(e, p) = {}
    BY <1>2, <1>3
  <2>2. FollowLink(d, p) = p /\ FollowLink(e, p) = p
    BY <1>3, <2>1, NoLinkToFollow
  <2>3. FollowLink(e, p) = FollowLink(d, p)
    BY <2>2
  <2> QED BY <2>3
<1>4. CASE LinksOn(d, p) # {}
  <2>1. PICK i \in LinksOn(d, p) : TRUE
    BY <1>4
  <2>2. LinksOn(d, p) = {i} /\ i \in DOMAIN p /\ Upto(p, i) \in DOMAIN d.tree
        /\ NodeAt(d, Upto(p, i)).type = "link" /\ NodeAt(d, Upto(p, i)) = d.tree[Upto(p, i)]
    <3>1. LinksOn(d, p) = {i}
      BY <2>1, OneLinkOnPath
    <3>2. i \in DOMAIN p /\ NodeAt(d, Upto(p, i)).type = "link"
      BY <2>1 DEF LinksOn
    <3> QED BY <3>1, <3>2, Nodes
  <2>3. CASE Upto(p, i) \in R
    <3>1. NodeAt(e, Upto(p, i)).type = "missing" /\ Upto(p, i) \notin DOMAIN e.tree
      BY <1>1, <2>3
    <3>2. LinksOn(e, p) = {}
      BY <1>2, <2>2, <3>1 DEF LinksOn
    <3>3. IsLost(e, p)
      BY <2>2, <3>1, <3>2 DEF IsLost
    <3> QED BY <3>2, <3>3, NoLinkToFollow
  <2>4. CASE Upto(p, i) \notin R
    <3>1. NodeAt(e, Upto(p, i)) = NodeAt(d, Upto(p, i))
      BY <2>4
    <3>2. i \in LinksOn(e, p)
      BY <2>2, <3>1 DEF LinksOn
    <3>3. NodeAt(e, Upto(p, i)) = e.tree[Upto(p, i)]
      BY <2>2, <3>1, Nodes
    <3>4. e.tree[Upto(p, i)] = d.tree[Upto(p, i)]
      BY <2>2, <3>1, <3>3
    <3>5. FollowLink(d, p) = d.tree[Upto(p, i)].target \o SubSeq(p, i + 1, Len(p))
      BY <2>1, LinkFollowed
    <3>6. FollowLink(e, p) = e.tree[Upto(p, i)].target \o SubSeq(p, i + 1, Len(p))
      BY <3>2, LinkFollowed
    <3>7. FollowLink(e, p) = FollowLink(d, p)
      BY <3>4, <3>5, <3>6
    <3> QED BY <3>7
  <2> QED BY <2>3, <2>4
<1> QED BY <1>3, <1>4

\* What a path leads to after a removal: what it led to, or nothing.
LEMMA RealAfterRemoval ==
  ASSUME NEW d, IsDisk(d), NEW e, IsDisk(e), NEW R,
         DOMAIN e.tree = DOMAIN d.tree \ R,
         \A p : NodeAt(e, p) = IF p \in R THEN Missing ELSE NodeAt(d, p)
  PROVE  /\ \A p \in Seq(Name) : Real(e, p) = Real(d, p) \/ IsLost(e, Real(e, p))
         /\ \A p \in Seq(Name) : NodeAt(e, Real(e, p)).type = "missing"
                                   \/ NodeAt(e, Real(e, p)) = NodeAt(d, Real(d, p))
         /\ \A p \in Path : NodeAt(e, RealLink(e, p)).type = "missing"
                              \/ RealLink(e, p) = RealLink(d, p)
<1> DEFINE F(p) == FollowLink(d, p)
           G(p) == FollowLink(e, p)
<1>1. \A p \in Seq(Name) : F(p) \in Seq(Name) /\ G(p) \in Seq(Name)
  BY FollowedIsPath
<1>2. \A p \in Seq(Name) : G(p) = F(p) \/ (G(p) = p /\ IsLost(e, p))
  BY FollowAfterRemoval
<1>3. \A p \in Seq(Name) : IsLost(e, p) => G(p) = p
  BY NoLinkToFollow DEF IsLost
<1>4. \A p : Real(d, p) = F(F(F(p))) /\ Real(e, p) = G(G(G(p)))
  BY DEF Real
<1> HIDE DEF F, G
<1>5. ASSUME NEW p \in Seq(Name) PROVE Real(e, p) = Real(d, p) \/ IsLost(e, Real(e, p))
  <2>1. G(p) = F(p) \/ IsLost(e, G(p))
    BY <1>2
  <2>2. G(G(p)) = F(F(p)) \/ IsLost(e, G(G(p)))
    BY <1>1, <1>2, <1>3, <2>1
  <2>3. G(G(G(p))) = F(F(F(p))) \/ IsLost(e, G(G(G(p))))
    BY <1>1, <1>2, <1>3, <2>2
  <2> QED BY <1>4, <2>3
<1>6. Missing.type = "missing"
  BY DEF Missing
<1>7. ASSUME NEW p \in Seq(Name)
      PROVE  NodeAt(e, Real(e, p)).type = "missing" \/ NodeAt(e, Real(e, p)) = NodeAt(d, Real(d, p))
  <2>1. Real(e, p) \in Seq(Name)
    BY RealIsPath
  <2>2. CASE IsLost(e, Real(e, p))
    BY <2>1, <2>2, LostIsMissing
  <2>3. CASE Real(e, p) = Real(d, p)
    BY <1>6, <2>3
  <2> QED BY <1>5, <2>2, <2>3
<1>8. ASSUME NEW p \in Path
      PROVE  NodeAt(e, RealLink(e, p)).type = "missing" \/ RealLink(e, p) = RealLink(d, p)
  <2>1. p # <<>> /\ Parent(p) \in Seq(Name) /\ Last(p) \in Name
    BY ParentIsPath DEF Path
  <2>2. Real(e, Parent(p)) \in Seq(Name)
    BY <2>1, RealIsPath
  <2>3. CASE IsLost(e, Real(e, Parent(p)))
    BY <2>1, <2>2, <2>3, LostIsMissing DEF RealLink
  <2>4. CASE Real(e, Parent(p)) = Real(d, Parent(p))
    BY <2>4 DEF RealLink
  <2> QED BY <1>5, <2>1, <2>3, <2>4
<1> QED BY <1>5, <1>7, <1>8

LEMMA BelowIsClosed ==
  ASSUME NEW d, IsDisk(d), NEW l \in Path
  PROVE  Below(d, l) \in SUBSET Path /\ IsClosed(d, Below(d, l))
<1>1. \A p \in DOMAIN d.tree : p \in Path
  BY DEF IsDisk
<1>2. ASSUME NEW p \in Below(d, l), NEW q \in DOMAIN d.tree, IsPrefix(p, q)
      PROVE  q \in Below(d, l)
  <2>1. p \in Seq(Name) /\ q \in Seq(Name) /\ l \in Seq(Name) /\ IsPrefix(l, p)
    BY <1>1 DEF Below, Path
  <2>2. IsPrefix(l, q)
    BY <1>2, <2>1, PrefixOfPath
  <2> QED BY <2>2 DEF Below
<1> QED BY <1>1, <1>2 DEF Below, IsClosed

LEMMA TwoElements ==
  ASSUME NEW S, IsFiniteSet(S), NEW a \in S, NEW b \in S, a # b
  PROVE  Cardinality(S) > 1
<1>1. IsFiniteSet({a}) /\ Cardinality({a}) = 1
  BY FS_Singleton
<1>2. b \notin {a} /\ {a} \cup {b} = {a, b} /\ {a, b} \in SUBSET S
  OBVIOUS
<1>3. IsFiniteSet({a} \cup {b}) /\ Cardinality({a} \cup {b}) = 2
  BY <1>1, <1>2, FS_AddElement
<1>4. Cardinality({a, b}) <= Cardinality(S) /\ Cardinality(S) \in Nat
  BY <1>2, FS_Subset, FS_CardinalityType
<1> QED BY <1>2, <1>3, <1>4

LEMMA RealLinkIsPath ==
  ASSUME NEW d, IsDisk(d), NEW p \in Path
  PROVE  /\ RealLink(d, p) \in Path
         /\ Parent(RealLink(d, p)) = Real(d, Parent(p))
<1>1. p # <<>> /\ Parent(p) \in Seq(Name) /\ Last(p) \in Name
  BY ParentIsPath DEF Path
<1>2. Real(d, Parent(p)) \in Seq(Name)
  BY <1>1, RealIsPath
<1> QED BY <1>1, <1>2, AppendedPath DEF RealLink, Path

\* What remove takes is one entry, with nothing below it.
LEMMA RemovedEntry ==
  ASSUME NEW d, IsDisk(d), NEW p \in Path, RemoveOs(d, p).ok
  PROVE  /\ RemoveOs(d, p).disk = Without(d, {RealLink(d, p)})
         /\ {RealLink(d, p)} \in SUBSET Path /\ IsClosed(d, {RealLink(d, p)})
<1> DEFINE l == RealLink(d, p)
<1>1. RemoveOs(d, p).disk = Without(d, {l}) /\ ~ (Cardinality(Below(d, l)) > 1)
  BY DEF RemoveOs, Ok, Fails
<1>2. l \in Path
  BY RealLinkIsPath
<1> HIDE DEF l
<1>3. ASSUME NEW q \in DOMAIN d.tree, IsPrefix(l, q) PROVE q = l
  <2> SUFFICES ASSUME q # l PROVE FALSE
    OBVIOUS
  <2>1. q \in Seq(Name) /\ l \in Seq(Name) /\ l # <<>>
    BY <1>2 DEF IsDisk, Path
  <2>2. l = Upto(q, Len(l)) /\ Len(l) \in 0 .. Len(q) - 1
    BY <1>3, <2>1, PrefixOfPath
  <2>3. NodeAt(d, Upto(q, Len(l))).type = "dir"
    BY <2>2, Ancestors
  <2>4. l \in DOMAIN d.tree
    BY <2>1, <2>2, <2>3, Nodes
  <2>5. l \in Below(d, l) /\ q \in Below(d, l)
    BY <1>3, <2>1, <2>4, PathIsItsPrefix DEF Below
  <2>6. IsFiniteSet(Below(d, l))
    <3>1. IsFiniteSet(DOMAIN d.tree) /\ Below(d, l) \in SUBSET DOMAIN d.tree
      BY DEF IsDisk, Below
    <3> QED BY <3>1, FS_Subset
  <2> QED BY <1>1, <2>5, <2>6, TwoElements
<1>4. IsClosed(d, {l})
  BY <1>3 DEF IsClosed
<1> QED BY <1>1, <1>2, <1>4 DEF l

-----------------------------------------------------------------------------
(* Renaming *)

\* The path p, below from, when from is renamed to to.
Moved(from, to, p) == to \o SubSeq(p, Len(from) + 1, Len(p))

IsMoved(S, from, to, p, moved) ==
    /\ moved \in Seq(S) /\ Len(p) \in Nat /\ Len(from) \in 1 .. Len(p)
    /\ Len(to) \in Nat /\ Len(moved) = Len(to) + (Len(p) - Len(from))
    /\ \A j \in 1 .. Len(to) : moved[j] = to[j]
    /\ \A j \in 1 .. Len(p) - Len(from) : moved[Len(to) + j] = p[Len(from) + j]
    /\ \A j \in 1 .. Len(from) : p[j] = from[j]

LEMMA MovedPath ==
  ASSUME NEW S, NEW from \in Seq(S), from # <<>>, NEW to \in Seq(S), NEW p \in Seq(S),
         IsPrefix(from, p)
  PROVE  IsMoved(S, from, to, p, Moved(from, to, p))
<1> DEFINE k == Len(from)
           n == Len(p)
           r == SubSeq(p, k + 1, n)
           m == Len(to)
<1>1. /\ k \in 1 .. n /\ n \in Nat /\ m \in Nat /\ k \in 0 .. n /\ from = Upto(p, k)
  BY PrefixIsUpto
<1>2. \A j \in 1 .. k : p[j] = from[j]
  <2>1. \A j \in 1 .. k : Upto(p, k)[j] = p[j]
    BY <1>1, UptoIsPath
  <2> HIDE DEF k
  <2> QED BY <1>1, <2>1
<1>3. r \in Seq(S) /\ Len(r) = n - k /\ \A j \in 1 .. n - k : r[j] = p[k + j]
  BY <1>1, RestIsPath
<1> HIDE DEF k, r, n, m
<1>4. /\ to \o r \in Seq(S) /\ Len(to \o r) = m + (n - k)
      /\ \A j \in 1 .. m + (n - k) : (to \o r)[j] = IF j <= m THEN to[j] ELSE r[j - m]
  BY <1>3, ConcatProperties DEF m
<1>5. \A j \in 1 .. m : (to \o r)[j] = to[j]
  BY <1>1, <1>4
<1>6. ASSUME NEW j \in 1 .. n - k PROVE (to \o r)[m + j] = p[k + j]
  <2>1. m + j \in 1 .. m + (n - k) /\ ~ (m + j <= m) /\ (m + j) - m = j
    BY <1>1
  <2>2. (to \o r)[m + j] = r[(m + j) - m]
    BY <1>4, <2>1
  <2> QED BY <1>3, <2>1, <2>2
<1>7. Moved(from, to, p) = to \o r
  BY DEF Moved, r, k, n
<1> QED BY <1>1, <1>2, <1>4, <1>5, <1>6, <1>7 DEF k, n, m, IsMoved

LEMMA MovedApart ==
  ASSUME NEW S, NEW from \in Seq(S), from # <<>>, NEW to \in Seq(S),
         NEW p \in Seq(S), IsPrefix(from, p), NEW q \in Seq(S), IsPrefix(from, q),
         Moved(from, to, p) = Moved(from, to, q)
  PROVE  p = q
<1> DEFINE k == Len(from)
           m == Len(to)
           a == Moved(from, to, p)
           b == Moved(from, to, q)
<1>1. /\ Len(p) \in Nat /\ k \in 1 .. Len(p) /\ m \in Nat /\ Len(a) = m + (Len(p) - k)
      /\ \A j \in 1 .. Len(p) - k : a[m + j] = p[k + j]
      /\ \A j \in 1 .. k : p[j] = from[j]
  <2>1. IsMoved(S, from, to, p, a)
    BY MovedPath
  <2> HIDE DEF a
  <2> QED BY <2>1 DEF IsMoved
<1>2. /\ Len(q) \in Nat /\ k \in 1 .. Len(q) /\ Len(b) = m + (Len(q) - k)
      /\ \A j \in 1 .. Len(q) - k : b[m + j] = q[k + j]
      /\ \A j \in 1 .. k : q[j] = from[j]
  <2>1. IsMoved(S, from, to, q, b)
    BY MovedPath
  <2> HIDE DEF b
  <2> QED BY <2>1 DEF IsMoved
<1>3. a = b
  OBVIOUS
<1> HIDE DEF a, b, k, m
<1>4. Len(p) = Len(q)
  BY <1>1, <1>2, <1>3
<1>5. ASSUME NEW i \in 1 .. Len(p) PROVE p[i] = q[i]
  <2>1. CASE i <= k
    BY <1>1, <1>2, <2>1
  <2>2. CASE ~ (i <= k)
    <3>1. i - k \in 1 .. Len(p) - k /\ k + (i - k) = i
      BY <1>1, <2>2
    <3> QED BY <1>1, <1>2, <1>3, <1>4, <3>1
  <2> QED BY <2>1, <2>2
<1> QED BY <1>4, <1>5, SeqEqual

LEMMA MovedParent ==
  ASSUME NEW S, NEW from \in Seq(S), from # <<>>, NEW to \in Seq(S),
         NEW p \in Seq(S), IsPrefix(from, p), p # from
  PROVE  /\ Parent(p) \in Seq(S) /\ IsPrefix(from, Parent(p))
         /\ Parent(Moved(from, to, p)) = Moved(from, to, Parent(p))
<1> DEFINE k == Len(from)
           m == Len(to)
           n == Len(p)
           a == Moved(from, to, p)
           u == Parent(p)
           b == Moved(from, to, u)
<1>1. /\ a \in Seq(S) /\ n \in Nat /\ k \in 1 .. n /\ m \in Nat /\ Len(a) = m + (n - k)
      /\ \A j \in 1 .. m : a[j] = to[j]
      /\ \A j \in 1 .. n - k : a[m + j] = p[k + j]
  <2>1. IsMoved(S, from, to, p, a)
    BY MovedPath
  <2> HIDE DEF a
  <2> QED BY <2>1 DEF IsMoved
<1>2. k \in 0 .. n - 1 /\ from = Upto(p, k)
  BY PrefixOfPath
<1>3. p # <<>> /\ u \in Seq(S) /\ Len(u) = n - 1 /\ u = Upto(p, n - 1)
      /\ \A j \in 1 .. n - 1 : u[j] = p[j]
  <2>1. n \in 1 .. n /\ n - 1 \in 0 .. n /\ p # <<>>
    BY <1>1
  <2>2. u = Upto(p, n - 1)
    BY <2>1, ParentIsPath
  <2> QED BY <2>1, <2>2, UptoIsPath
<1>4. IsPrefix(from, u)
  <2>1. Upto(Upto(p, n - 1), k) = Upto(p, k)
    <3>1. n - 1 \in 0 .. n /\ k \in 0 .. n - 1
      BY <1>1, <1>2
    <3> QED BY <3>1, UptoUpto
  <2>2. k <= Len(u) /\ from = Upto(u, k)
    <3> HIDE DEF u, k, n
    <3> QED BY <1>2, <1>3, <2>1
  <2> QED BY <1>3, <2>2, PrefixIsUpto
<1>5. /\ b \in Seq(S) /\ Len(b) = m + (n - 1 - k)
      /\ \A j \in 1 .. m : b[j] = to[j]
      /\ \A j \in 1 .. n - 1 - k : b[m + j] = u[k + j]
  <2>1. IsMoved(S, from, to, u, b)
    <3> HIDE DEF u
    <3> QED BY <1>3, <1>4, MovedPath
  <2> HIDE DEF b, u
  <2> QED BY <1>1, <1>3, <2>1 DEF IsMoved
<1> HIDE DEF a, b, k, m, n, u
<1>6. a # <<>> /\ Parent(a) \in Seq(S) /\ Len(Parent(a)) = m + (n - 1 - k)
      /\ \A j \in 1 .. m + (n - 1 - k) : Parent(a)[j] = a[j]
  <2>1. Len(a) # 0 /\ Len(a) - 1 = m + (n - 1 - k) /\ Len(a) - 1 \in 0 .. Len(a)
    BY <1>1, <1>2
  <2>2. a # <<>>
    BY <2>1
  <2>3. Parent(a) = Upto(a, Len(a) - 1)
    BY <1>1, <2>2, ParentIsPath
  <2>4. /\ Upto(a, Len(a) - 1) \in Seq(S) /\ Len(Upto(a, Len(a) - 1)) = Len(a) - 1
        /\ \A j \in 1 .. Len(a) - 1 : Upto(a, Len(a) - 1)[j] = a[j]
    BY <1>1, <2>1, UptoIsPath
  <2> QED BY <2>1, <2>2, <2>3, <2>4
<1>7. ASSUME NEW j \in 1 .. m + (n - 1 - k) PROVE Parent(a)[j] = b[j]
  <2>1. CASE j <= m
    BY <1>1, <1>5, <1>6, <2>1
  <2>2. CASE ~ (j <= m)
    <3> DEFINE i == j - m
    <3>1. i \in 1 .. n - 1 - k /\ i \in 1 .. n - k /\ m + i = j /\ k + i \in 1 .. n - 1
      BY <1>1, <1>2, <2>2
    <3> HIDE DEF i
    <3>2. a[m + i] = p[k + i] /\ b[m + i] = u[k + i] /\ u[k + i] = p[k + i]
      BY <1>1, <1>3, <1>5, <3>1
    <3> QED BY <1>6, <3>1, <3>2
  <2> QED BY <2>1, <2>2
<1>8. Parent(a) = b
  BY <1>5, <1>6, <1>7, SeqEqual
<1> QED BY <1>3, <1>4, <1>8 DEF a, b, u

LEMMA RenamedDisk ==
  ASSUME NEW d, IsDisk(d), NEW src \in Path, NEW dst \in Path, RenameOs(d, src, dst).ok
  PROVE  IsDisk(RenameOs(d, src, dst).disk) /\ RenameOs(d, src, dst).disk.data = d.data
<1> DEFINE e == RenameOs(d, src, dst).disk
           from == RealLink(d, src)
           to == RealLink(d, dst)
           moved == Below(d, from)
           I(q) == Moved(from, to, q)
           images == {I(q) : q \in moved}
           kept == DOMAIN d.tree \ moved
           tree == Over([p \in images |-> d.tree[CHOOSE q \in moved : I(q) = p]],
                        [p \in kept |-> d.tree[p]])
<1>1. /\ NodeAt(d, Parent(to)).type = "dir" /\ ~ (from # to /\ IsPrefix(from, to))
      /\ from # to => Lstat(d, dst).type # "dir"
      /\ ~ TooLong(dst)
      /\ \/ e = d
         \/ from # to /\ e = [d EXCEPT !.tree = tree]
  BY DEF RenameOs, Moved, Ok, Fails
<1>2. CASE e = d
  BY <1>2
<1> SUFFICES ASSUME from # to, e = [d EXCEPT !.tree = tree] PROVE IsDisk(e) /\ e.data = d.data
  BY <1>1, <1>2
<1>3. e.tree = tree /\ e.data = d.data /\ HasFields(e)
  BY DEF HasFields, IsDisk
<1>18. NodeAt(d, to).type # "dir"
  BY <1>1 DEF Lstat
<1>4. /\ from \in Seq(Name) /\ from # <<>> /\ to \in Seq(Name) /\ to # <<>>
  BY RealLinkIsPath DEF Path
<1>5. \A q \in DOMAIN d.tree : q \in Seq(Name) /\ q # <<>>
  BY DEF IsDisk, Path
<1>6. \A q \in moved : q \in DOMAIN d.tree /\ IsPrefix(from, q)
  BY DEF Below
<1>7. \A q \in kept : q \in DOMAIN d.tree /\ ~ IsPrefix(from, q)
  BY DEF Below
<1>8. /\ DOMAIN tree = images \cup kept /\ IsFunction(tree)
      /\ \A p \in images : tree[p] = d.tree[CHOOSE q \in moved : I(q) = p]
      /\ \A p \in kept \ images : tree[p] = d.tree[p]
  <2> HIDE DEF images, kept, I, moved
  <2> QED BY DEF Over, IsFunction
<1> HIDE DEF e, from, to, moved
<1>9. ASSUME NEW q \in moved PROVE tree[I(q)] = d.tree[q]
  <2>1. \A u \in moved : I(u) = I(q) => u = q
    <3>1. ASSUME NEW u \in moved, I(u) = I(q) PROVE u = q
      <4>1. /\ u \in Seq(Name) /\ q \in Seq(Name) /\ IsPrefix(from, u) /\ IsPrefix(from, q)
            /\ Moved(from, to, u) = Moved(from, to, q)
        BY <1>5, <1>6, <3>1
      <4> QED BY <1>4, <4>1, MovedApart
    <3> QED BY <3>1
  <2> HIDE DEF I
  <2>2. (CHOOSE u \in moved : I(u) = I(q)) = q
    BY <2>1
  <2>3. I(q) \in images
    OBVIOUS
  <2> HIDE DEF tree, images
  <2>4. tree[I(q)] = d.tree[CHOOSE u \in moved : I(u) = I(q)]
    BY <1>8, <2>3
  <2> QED BY <2>2, <2>4
<1> HIDE DEF tree
<1>10. ASSUME NEW q \in moved
       PROVE  I(q) \in Path /\ IsPrefix(to, I(q))
  <2>1. q \in Seq(Name) /\ IsPrefix(from, q)
    BY <1>5, <1>6
  <2>2. IsMoved(Name, from, to, q, I(q))
    BY <1>4, <2>1, MovedPath
  <2> HIDE DEF I
  <2>3. /\ I(q) \in Seq(Name) /\ Len(I(q)) \in Nat /\ Len(to) \in Nat \ {0} /\ Len(to) <= Len(I(q))
        /\ \A j \in 1 .. Len(to) : I(q)[j] = to[j]
    BY <1>4, <2>2 DEF IsMoved
  <2>4. I(q) # <<>>
    BY <2>3
  <2>5. /\ Upto(I(q), Len(to)) \in Seq(Name) /\ Len(Upto(I(q), Len(to))) = Len(to)
        /\ \A j \in 1 .. Len(to) : Upto(I(q), Len(to))[j] = I(q)[j]
    <3>1. Len(to) \in 0 .. Len(I(q))
      BY <2>3
    <3> QED BY <2>3, <3>1, UptoIsPath
  <2>6. \A j \in 1 .. Len(to) : Upto(I(q), Len(to))[j] = to[j]
    BY <2>3, <2>5
  <2>7. Upto(I(q), Len(to)) = to
    BY <1>4, <2>5, <2>6, SeqEqual
  <2> QED BY <1>4, <2>3, <2>4, <2>7, PrefixIsUpto DEF Path
<1>11. \A p \in images : p \in Path /\ IsPrefix(to, p)
  BY <1>10
<1>12. ASSUME NEW q \in moved
       PROVE  IsNode(tree[I(q)], d.data) /\ NodeAt(e, Parent(I(q))).type = "dir"
  <2>1. q \in DOMAIN d.tree /\ IsNode(d.tree[q], d.data) /\ NodeAt(d, Parent(q)).type = "dir"
    BY <1>6 DEF IsDisk
  <2>2. CASE q = from
    <3>1. I(q) = to
      <4>1. IsMoved(Name, from, to, q, I(q))
        BY <1>4, <1>5, <1>6, <2>1, MovedPath
      <4> HIDE DEF I
      <4>2. /\ I(q) \in Seq(Name) /\ Len(I(q)) = Len(to)
            /\ \A j \in 1 .. Len(to) : I(q)[j] = to[j]
        BY <1>4, <2>2, <4>1 DEF IsMoved
      <4> QED BY <1>4, <4>2, SeqEqual
    <3> DEFINE u == Parent(to)
    <3>2. /\ u \in Seq(Name) /\ u = Upto(to, Len(to) - 1) /\ Len(to) \in Nat \ {0}
          /\ Len(u) = Len(to) - 1 /\ IsPrefix(u, to)
      BY <1>4, ParentIsPath, PathIsItsPrefix
    <3> HIDE DEF u
    <3>3. u \notin images
      <4> SUFFICES ASSUME u \in images PROVE FALSE
        OBVIOUS
      <4>1. IsPrefix(to, u)
        BY <1>11
      <4>2. Len(to) <= Len(u)
        BY <1>4, <3>2, <4>1, PrefixIsUpto
      <4> QED BY <3>2, <4>2
    <3>4. u \notin moved
      <4> SUFFICES ASSUME u \in moved PROVE FALSE
        OBVIOUS
      <4>1. IsPrefix(from, u)
        BY <1>6
      <4>2. IsPrefix(from, to)
        BY <1>4, <3>2, <4>1, PrefixOfPath
      <4> QED BY <1>1, <4>2
    <3>5. NodeAt(d, u).type = "dir"
      BY <1>1 DEF u
    <3>6. CASE u = <<>>
      BY <1>9, <2>1, <3>1, <3>6 DEF NodeAt, Dir, u
    <3>7. CASE u # <<>>
      <4>1. u \in DOMAIN d.tree
        BY <3>5, <3>7, Nodes
      <4>2. u \in kept \ images
        BY <3>3, <3>4, <4>1
      <4> HIDE DEF kept, images
      <4>3. e.tree[u] = d.tree[u] /\ u \in DOMAIN e.tree
        BY <1>3, <1>8, <4>2
      <4>4. NodeAt(e, u).type = "dir"
        BY <3>5, <3>7, <4>1, <4>3 DEF NodeAt
      <4> QED BY <1>9, <2>1, <3>1, <4>4 DEF u
    <3> QED BY <3>6, <3>7
  <2>3. CASE q # from
    <3> DEFINE u == Parent(q)
    <3>1. u \in Seq(Name) /\ IsPrefix(from, u) /\ Parent(I(q)) = I(u)
      <4>1. q \in Seq(Name) /\ IsPrefix(from, q)
        BY <1>5, <1>6
      <4> QED BY <1>4, <2>3, <4>1, MovedParent
    <3>2. u # <<>>
      <4>1. Len(from) \in Nat \ {0} /\ Len(from) <= Len(u)
        BY <1>4, <3>1, PrefixIsUpto
      <4> HIDE DEF u
      <4> QED BY <4>1
    <3>3. NodeAt(d, u).type = "dir"
      BY <2>1
    <3> HIDE DEF u
    <3>4. u \in DOMAIN d.tree /\ NodeAt(d, u) = d.tree[u]
      BY <3>2, <3>3, Nodes DEF NodeAt
    <3>5. u \in moved
      BY <3>1, <3>4 DEF moved, Below
    <3>6. I(u) \in Path /\ I(u) \in DOMAIN e.tree /\ e.tree[I(u)] = d.tree[u]
      BY <1>3, <1>8, <1>9, <1>10, <3>5
    <3> HIDE DEF I
    <3>7. NodeAt(e, I(u)).type = "dir"
      BY <3>3, <3>4, <3>6 DEF NodeAt, Path
    <3> QED BY <1>9, <2>1, <3>1, <3>7
  <2> QED BY <2>2, <2>3
<1>13. ASSUME NEW p \in kept \ images
       PROVE  p \in Path /\ IsNode(tree[p], d.data) /\ NodeAt(e, Parent(p)).type = "dir"
  <2> DEFINE u == Parent(p)
  <2>1. /\ p \in DOMAIN d.tree /\ ~ IsPrefix(from, p) /\ p \in Path
        /\ IsNode(d.tree[p], d.data) /\ NodeAt(d, u).type = "dir"
    BY <1>7 DEF IsDisk
  <2>2. p \in Seq(Name) /\ p # <<>> /\ u \in Seq(Name) /\ IsPrefix(u, p) /\ u # p
    <3>1. p \in Seq(Name) /\ p # <<>> /\ Len(p) \in Nat
      BY <2>1 DEF Path
    <3>2. u \in Seq(Name) /\ IsPrefix(u, p) /\ Len(u) = Len(p) - 1
      BY <3>1, ParentIsPath, PathIsItsPrefix
    <3> HIDE DEF u
    <3> QED BY <3>1, <3>2
  <2> HIDE DEF u
  <2>3. u \notin moved
    <3> SUFFICES ASSUME u \in moved PROVE FALSE
      OBVIOUS
    <3>1. IsPrefix(from, u)
      BY <1>6
    <3> QED BY <1>4, <2>1, <2>2, <3>1, PrefixOfPath
  <2>4. CASE u = <<>>
    <3>1. NodeAt(e, u).type = "dir"
      BY <2>4 DEF NodeAt, Dir
    <3> HIDE DEF kept, images
    <3> QED BY <1>8, <2>1, <3>1 DEF u
  <2>5. CASE u # <<>>
    <3>1. u \in DOMAIN d.tree /\ NodeAt(d, u) = d.tree[u]
      BY <2>1, <2>5, Nodes DEF NodeAt
    <3>2. u \notin images
      <4> SUFFICES ASSUME u \in images PROVE FALSE
        OBVIOUS
      <4>1. IsPrefix(to, u)
        BY <1>11
      <4>2. CASE u = to
        BY <1>18, <2>1, <4>2
      <4>3. CASE u # to
        <5>1. to = Upto(u, Len(to)) /\ Len(to) \in 0 .. Len(u) - 1
          BY <1>4, <2>2, <4>1, <4>3, PrefixOfPath
        <5>2. NodeAt(d, to).type = "dir"
          BY <3>1, <5>1, Ancestors
        <5> QED BY <1>18, <5>2
      <4> QED BY <4>2, <4>3
    <3>3. u \in kept \ images
      BY <2>3, <3>1, <3>2
    <3> HIDE DEF kept, images
    <3>4. e.tree[u] = d.tree[u] /\ u \in DOMAIN e.tree
      BY <1>3, <1>8, <3>3
    <3>5. NodeAt(e, u).type = "dir"
      BY <2>1, <2>5, <3>1, <3>4 DEF NodeAt
    <3> QED BY <1>8, <2>1, <3>5 DEF u
  <2> QED BY <2>4, <2>5
<1>14. IsFiniteSet(DOMAIN tree)
  <2>1. IsFiniteSet(DOMAIN d.tree) /\ moved \in SUBSET DOMAIN d.tree /\ kept \in SUBSET DOMAIN d.tree
    BY <1>6 DEF IsDisk
  <2>2. IsFiniteSet(moved) /\ IsFiniteSet(kept)
    BY <2>1, FS_Subset
  <2>3. IsFiniteSet(images)
    <3> DEFINE f == [q \in moved |-> I(q)]
    <3>1. IsFiniteSet({f[q] : q \in moved})
      <4> HIDE DEF f
      <4> QED BY <2>2, ImageIsFinite
    <3>2. {f[q] : q \in moved} = images
      OBVIOUS
    <3> QED BY <3>1, <3>2
  <2> HIDE DEF images, kept
  <2>4. IsFiniteSet(images \cup kept)
    BY <2>2, <2>3, FS_Union
  <2> QED BY <1>8, <2>4
<1>15. ASSUME NEW p \in DOMAIN tree
       PROVE  p \in Path /\ IsNode(tree[p], d.data) /\ NodeAt(e, Parent(p)).type = "dir"
  <2>1. p \in images \/ p \in kept \ images
    BY <1>8
  <2>2. CASE p \in images
    <3>1. PICK q \in moved : p = I(q)
      BY <2>2
    <3> QED BY <1>10, <1>12, <3>1
  <2> QED BY <1>13, <2>1, <2>2
<1>16. d.data \in Seq(Content)
  BY DEF IsDisk
<1>17. IsDisk(e)
  <2> HIDE DEF kept, images
  <2> QED BY <1>3, <1>8, <1>14, <1>15, <1>16 DEF IsDisk
<1> QED BY <1>3, <1>17 DEF e

-----------------------------------------------------------------------------
(* What a system call may do to the files another call has found *)

\* A path that leads to a file led to it before, or the file is new.
Quiet(d, e) ==
    \A p \in Path : Stat(e, p).type = "file" =>
        Stat(e, p) = Stat(d, p) \/ Stat(e, p).file \notin DOMAIN d.data

LEMMA QuietGrowth ==
  ASSUME NEW d, IsDisk(d), NEW e, IsDisk(e), NEW n, n \notin DOMAIN d.data,
         \A p : NodeAt(d, p).type # "missing" => NodeAt(e, p) = NodeAt(d, p),
         \A p : NodeAt(d, p).type = "missing" =>
                    NodeAt(e, p).type \in {"missing", "dir"} \/ NodeAt(e, p) = FileNode(n)
  PROVE  Quiet(d, e)
<1>1. \A p : NodeAt(d, p).type = "missing" => NodeAt(e, p).type # "link"
  BY DEF FileNode
<1>2. \A p \in Path : Real(e, p) = Real(d, p)
  BY <1>1, GrownWithoutLinks DEF Path
<1>3. \A p : NodeAt(e, p).type = "file" => NodeAt(e, p) = NodeAt(d, p) \/ NodeAt(e, p).file = n
  BY DEF FileNode
<1> QED BY <1>2, <1>3 DEF Quiet, Stat, Missing

LEMMA QuietRemoval ==
  ASSUME NEW d, IsDisk(d), NEW R \in SUBSET Path, IsClosed(d, R)
  PROVE  Quiet(d, Without(d, R))
<1> DEFINE e == Without(d, R)
<1>1. /\ IsDisk(e) /\ DOMAIN e.tree = DOMAIN d.tree \ R
      /\ \A p : NodeAt(e, p) = IF p \in R THEN Missing ELSE NodeAt(d, p)
  BY RemovedDisk
<1> HIDE DEF e
<1>2. \A p \in Seq(Name) : NodeAt(e, Real(e, p)).type = "missing"
                             \/ NodeAt(e, Real(e, p)) = NodeAt(d, Real(d, p))
  BY <1>1, RealAfterRemoval
<1>3. Quiet(d, e)
  BY <1>2 DEF Quiet, Stat, Missing, Path
<1> QED BY <1>3 DEF e

LEMMA LengthOfData ==
  ASSUME NEW d, IsDisk(d)
  PROVE  /\ Len(d.data) \in Nat /\ DOMAIN d.data = 1 .. Len(d.data)
         /\ d.data \in Seq(Content)
BY DEF IsDisk

\* A disk another one can become in a step.
Follows(d, e) == IsDisk(e) /\ Len(d.data) <= Len(e.data)

LEMMA SameFollows ==
  ASSUME NEW d, IsDisk(d)
  PROVE  Follows(d, d) /\ Quiet(d, d)
BY LengthOfData DEF Follows, Quiet

LEMMA MadeFollows ==
  ASSUME NEW d, IsDisk(d), NEW p \in Path
  PROVE  LET e == MkdirAll(d, p).disk IN Follows(d, e) /\ Quiet(d, e) /\ e.data = d.data
<1> DEFINE e == MkdirAll(d, p).disk
<1>1. CASE ~ MkdirAll(d, p).ok
  <2>1. e = d
    BY <1>1 DEF MkdirAll, Ok, Fails
  <2> QED BY <2>1, SameFollows
<1>2. CASE MkdirAll(d, p).ok
  <2>1. /\ IsDisk(e) /\ e.data = d.data
        /\ \A q : NodeAt(d, q).type # "missing" => NodeAt(e, q) = NodeAt(d, q)
        /\ \A q : NodeAt(d, q).type = "missing" => NodeAt(e, q).type \in {"missing", "dir"}
    BY <1>2, MadeDisk
  <2> HIDE DEF e
  <2>2. Len(d.data) + 1 \notin DOMAIN d.data
    BY LengthOfData
  <2>3. Quiet(d, e)
    BY <2>1, <2>2, QuietGrowth
  <2>4. Follows(d, e)
    BY <2>1, LengthOfData DEF Follows
  <2> QED BY <2>1, <2>3, <2>4 DEF e
<1> QED BY <1>1, <1>2

LEMMA OpenedFollows ==
  ASSUME NEW d, IsDisk(d), NEW p \in Path, NEW truncate \in BOOLEAN, now \in Nat
  PROVE  LET r == OpenForWriting(d, p, truncate)
             e == r.disk IN
         /\ Follows(d, e) /\ Quiet(d, e) /\ (~ r.ok => e = d)
         /\ r.ok => r.file \in DOMAIN e.data
         /\ r.ok => \/ Stat(d, p).type = "file" /\ r.file = Stat(d, p).file
                    \/ r.file = Len(d.data) + 1
         /\ r.ok => \A g \in DOMAIN d.data : g # r.file => e.data[g] = d.data[g]
<1> DEFINE r == OpenForWriting(d, p, truncate)
           e == r.disk
<1>1. CASE ~ r.ok
  <2>1. e = d
    BY <1>1 DEF OpenForWriting, Fails
  <2> HIDE DEF e, r
  <2> QED BY <1>1, <2>1, SameFollows DEF e, r
<1>2. CASE r.ok
  <2>1. /\ IsDisk(e) /\ Len(d.data) <= Len(e.data) /\ r.file \in DOMAIN e.data
        /\ \A q : NodeAt(d, q).type # "missing" => NodeAt(e, q) = NodeAt(d, q)
        /\ \A q : NodeAt(d, q).type = "missing" =>
               NodeAt(e, q).type = "missing" \/ NodeAt(e, q) = FileNode(Len(d.data) + 1)
        /\ \/ Stat(d, p).type = "file" /\ r.file = Stat(d, p).file
           \/ r.file = Len(d.data) + 1
        /\ \A g \in DOMAIN d.data : g # r.file => e.data[g] = d.data[g]
    BY <1>2, OpenedDisk, Zenon
  <2> HIDE DEF e, r
  <2>2. Len(d.data) + 1 \notin DOMAIN d.data
    BY LengthOfData
  <2>3. Quiet(d, e)
    BY <2>1, <2>2, QuietGrowth
  <2> QED BY <1>2, <2>1, <2>3 DEF Follows, e, r
<1> QED BY <1>1, <1>2

LEMMA RefilledFollows ==
  ASSUME NEW d, IsDisk(d), NEW f \in DOMAIN d.data, NEW c \in Content,
         NEW e, e = [d EXCEPT !.data[f] = c]
  PROVE  /\ Follows(d, e) /\ Quiet(d, e)
         /\ \A g : g # f /\ g \in DOMAIN d.data => e.data[g] = d.data[g]
<1>1. /\ IsDisk(e) /\ \A p : NodeAt(e, p) = NodeAt(d, p)
      /\ Len(e.data) = Len(d.data)
      /\ \A g : g # f /\ g \in DOMAIN d.data => e.data[g] = d.data[g]
  BY RefilledDisk
<1>2. Len(d.data) + 1 \notin DOMAIN d.data
  BY LengthOfData
<1>3. Quiet(d, e)
  BY <1>1, <1>2, QuietGrowth
<1> QED BY <1>1, <1>3, LengthOfData DEF Follows

LEMMA LinkedFollows ==
  ASSUME NEW d, IsDisk(d), NEW p \in Path, NEW target \in Path
  PROVE  LET e == Symlink(d, target, p).disk IN Follows(d, e) /\ e.data = d.data
<1>1. CASE ~ Symlink(d, target, p).ok
  <2>1. Symlink(d, target, p).disk = d
    BY <1>1 DEF Symlink, Ok, Fails
  <2> QED BY <2>1, SameFollows
<1>2. CASE Symlink(d, target, p).ok
  BY <1>2, LinkedDisk, LengthOfData DEF Follows
<1> QED BY <1>1, <1>2

LEMMA HardLinkedFollows ==
  ASSUME NEW d, IsDisk(d), NEW p \in Path, NEW target \in Path
  PROVE  LET e == HardLink(d, target, p).disk IN Follows(d, e) /\ e.data = d.data
<1>1. CASE ~ HardLink(d, target, p).ok
  <2>1. HardLink(d, target, p).disk = d
    BY <1>1 DEF HardLink, Ok, Fails
  <2> QED BY <2>1, SameFollows
<1>2. CASE HardLink(d, target, p).ok
  BY <1>2, HardLinkedDisk, LengthOfData DEF Follows
<1> QED BY <1>1, <1>2

LEMMA RenamedFollows ==
  ASSUME NEW d, IsDisk(d), NEW src \in Path, NEW dst \in Path
  PROVE  LET e == RenameOs(d, src, dst).disk IN Follows(d, e) /\ e.data = d.data
<1>1. CASE ~ RenameOs(d, src, dst).ok
  <2>1. RenameOs(d, src, dst).disk = d
    BY <1>1 DEF RenameOs, Ok, Fails
  <2> QED BY <2>1, SameFollows
<1>2. CASE RenameOs(d, src, dst).ok
  BY <1>2, RenamedDisk, LengthOfData DEF Follows
<1> QED BY <1>1, <1>2

LEMMA RemovedFollows ==
  ASSUME NEW d, IsDisk(d), NEW p \in Path
  PROVE  LET e == RemoveOs(d, p).disk IN Follows(d, e) /\ Quiet(d, e) /\ e.data = d.data
<1>1. CASE ~ RemoveOs(d, p).ok
  <2>1. RemoveOs(d, p).disk = d
    BY <1>1 DEF RemoveOs, Ok, Fails
  <2> QED BY <2>1, SameFollows
<1>2. CASE RemoveOs(d, p).ok
  <2> DEFINE R == {RealLink(d, p)}
  <2>1. RemoveOs(d, p).disk = Without(d, R) /\ R \in SUBSET Path /\ IsClosed(d, R)
    BY <1>2, RemovedEntry
  <2> HIDE DEF R
  <2>2. Follows(d, Without(d, R)) /\ Quiet(d, Without(d, R)) /\ Without(d, R).data = d.data
    BY <2>1, RemovedDisk, QuietRemoval, LengthOfData DEF Follows
  <2> QED BY <2>1, <2>2
<1> QED BY <1>1, <1>2

LEMMA ClosedFollows ==
  ASSUME NEW d, IsDisk(d), NEW R \in SUBSET Path, IsClosed(d, R)
  PROVE  LET e == Without(d, R) IN Follows(d, e) /\ Quiet(d, e) /\ e.data = d.data
BY RemovedDisk, QuietRemoval, LengthOfData DEF Follows

-----------------------------------------------------------------------------
(* The steps of a call *)

\* The tasks a step of r puts before the ones that are left, on the disk d.
GoodTasks(r, d, tasks) ==
    /\ tasks \in Seq(Tasks)
    /\ \A i \in DOMAIN tasks : i # 1 => tasks[i].do \in Later
    /\ r.op.op = "copy" => \A i \in DOMAIN tasks : tasks[i].do \in CopyDos
    /\ \A i \in DOMAIN tasks :
        /\ tasks[i].do \notin Namers
        /\ tasks[i].do \in {"compare", "against"} => "update_existing" \in r.op.flags
    /\ tasks # <<>> /\ tasks[1].do = "open" => r.todo[1].do \in {"look", "against"}
    /\ tasks # <<>> /\ tasks[1].do = "fill" => r.todo[1].do = "open"
    /\ tasks # <<>> /\ tasks[1].do \in {"fill", "put"} =>
            /\ tasks[1].out \in DOMAIN d.data
            /\ tasks[1].do = "fill" => tasks[1].in \in {0} \cup DOMAIN d.data

\* What c may make of the disk.
Allowed(c, d) ==
    /\ Quiet(disk, d) \/ run[c].op.op \in Namers \/ "copy_symlinks" \in Flags(c)
    /\ d.data = disk.data \/ run[c].op.op # "copy" \/ Doing(c, "open") \/ Doing(c, "fill")

\* What every step of c leaves, whatever it does.
StepOf(c) ==
    /\ run[c].pc = "busy" /\ run' = [e \in Callers |-> IF e = c THEN run'[c] ELSE run[e]]
    /\ now' = now /\ Follows(disk, disk')
    /\ IsRun(run[c])' /\ OpenAreThere(run[c])' /\ run'[c].pc \in {"busy", "done"}
    /\ run'[c].op = run[c].op /\ run'[c].found = run[c].found /\ run'[c].rivals = run[c].rivals
    /\ Allowed(c, disk')
    /\ run'[c].todo # <<>> /\ run'[c].todo[1].do = "open" => Doing(c, "look") \/ Doing(c, "against")
    /\ run'[c].todo # <<>> /\ run'[c].todo[1].do = "fill" => Doing(c, "open")

LEMMA NoTasks ==
  ASSUME NEW r, NEW d
  PROVE  GoodTasks(r, d, <<>>)
BY DEF GoodTasks

LEMMA OneTask ==
  ASSUME NEW r, NEW d, NEW task \in Tasks, task.do \notin Namers,
         r.op.op = "copy" => task.do \in CopyDos,
         task.do \in {"compare", "against"} => "update_existing" \in r.op.flags,
         task.do \in {"fill", "put"} => task.out \in DOMAIN d.data,
         task.do = "fill" => task.in \in {0} \cup DOMAIN d.data,
         task.do = "open" => r.todo[1].do \in {"look", "against"},
         task.do = "fill" => r.todo[1].do = "open"
  PROVE  GoodTasks(r, d, <<task>>)
BY DEF GoodTasks

LEMMA TailOfTodo ==
  ASSUME NEW r, IsTodo(r), r.todo # <<>>
  PROVE  /\ Tail(r.todo) \in Seq(Tasks) /\ Len(Tail(r.todo)) = Len(r.todo) - 1
         /\ Len(r.todo) \in Nat \ {0} /\ r.todo[1] \in Tasks /\ Head(r.todo) = r.todo[1]
         /\ \A i \in 1 .. Len(Tail(r.todo)) : Tail(r.todo)[i] = r.todo[i + 1]
         /\ \A i \in 1 .. Len(Tail(r.todo)) : Tail(r.todo)[i].do \in Later
<1>1. r.todo \in Seq(Tasks) /\ DOMAIN r.todo = 1 .. Len(r.todo) /\ Len(r.todo) \in Nat \ {0}
  BY DEF IsTodo
<1>2. /\ Tail(r.todo) \in Seq(Tasks) /\ Len(Tail(r.todo)) = Len(r.todo) - 1
      /\ Head(r.todo) = r.todo[1] /\ r.todo[1] \in Tasks
      /\ \A i \in 1 .. Len(Tail(r.todo)) : Tail(r.todo)[i] = r.todo[i + 1]
  BY <1>1, HeadTailProperties
<1>3. \A i \in 1 .. Len(Tail(r.todo)) : i + 1 \in 1 .. Len(r.todo) /\ i + 1 # 1
  BY <1>1, <1>2
<1> QED BY <1>1, <1>2, <1>3 DEF IsTodo

\* What r has to do then.
GoodTodo(r, tasks, t) ==
    /\ t \in Seq(Tasks)
    /\ \A i \in DOMAIN t : i # 1 => t[i].do \in Later
    /\ r.op.op = "copy" => \A i \in DOMAIN t : t[i].do \in CopyDos
    /\ \A i \in DOMAIN t :
        /\ t[i].do \notin Namers
        /\ t[i].do \in {"compare", "against"} => "update_existing" \in r.op.flags
    /\ t # <<>> => t[1].do \in Later \/ (tasks # <<>> /\ t[1] = tasks[1])

LEMMA TodoAfter ==
  ASSUME NEW r, IsTodo(r), r.todo # <<>>, NEW d, NEW tasks, GoodTasks(r, d, tasks),
         NEW t, t = tasks \o Tail(r.todo)
  PROVE  GoodTodo(r, tasks, t)
<1> DEFINE u == Tail(r.todo)
           m == Len(tasks)
<1>1. u \in Seq(Tasks) /\ \A i \in 1 .. Len(u) : u[i].do \in Later
  BY TailOfTodo
<1>2. tasks \in Seq(Tasks) /\ m \in Nat /\ DOMAIN tasks = 1 .. m /\ Len(u) \in Nat
  BY <1>1 DEF GoodTasks
<1> HIDE DEF u, m
<1>3. /\ t \in Seq(Tasks) /\ Len(t) = m + Len(u)
      /\ \A i \in 1 .. m + Len(u) : t[i] = IF i <= m THEN tasks[i] ELSE u[i - m]
  <2>1. t = tasks \o u
    BY DEF u
  <2>2. /\ tasks \o u \in Seq(Tasks) /\ Len(tasks \o u) = Len(tasks) + Len(u)
        /\ \A i \in 1 .. Len(tasks) + Len(u) :
              (tasks \o u)[i] = IF i <= Len(tasks) THEN tasks[i] ELSE u[i - Len(tasks)]
    BY <1>1, <1>2, ConcatProperties
  <2> QED BY <2>1, <2>2 DEF m
<1>4. DOMAIN t = 1 .. m + Len(u)
  BY <1>3
<1>5. ASSUME NEW i \in DOMAIN t
      PROVE  \/ i \in 1 .. m /\ t[i] = tasks[i]
             \/ ~ (i <= m) /\ t[i].do \in Later
  <2>1. CASE i <= m
    BY <1>2, <1>3, <1>4, <2>1
  <2>2. CASE ~ (i <= m)
    <3>1. i - m \in 1 .. Len(u)
      BY <1>2, <1>4, <2>2
    <3> QED BY <1>1, <1>3, <1>4, <2>2, <3>1
  <2> QED BY <2>1, <2>2
<1>6. /\ \A i \in DOMAIN t : i # 1 => t[i].do \in Later
      /\ \A i \in DOMAIN t :
            /\ t[i].do \notin Namers
            /\ t[i].do \in {"compare", "against"} => "update_existing" \in r.op.flags
  BY <1>2, <1>5 DEF GoodTasks, Later, Namers
<1>9. r.op.op = "copy" => \A i \in DOMAIN t : t[i].do \in CopyDos
  <2>1. r.op.op = "copy" => \A i \in 1 .. Len(u) : u[i].do \in CopyDos
    <3>1. \A i \in 1 .. Len(u) : u[i] = r.todo[i + 1] /\ i + 1 \in DOMAIN r.todo
      <4>1. Len(r.todo) \in Nat /\ Len(u) = Len(r.todo) - 1 /\ DOMAIN r.todo = 1 .. Len(r.todo)
            /\ \A i \in 1 .. Len(u) : u[i] = r.todo[i + 1]
        BY TailOfTodo DEF u, IsTodo
      <4> QED BY <4>1
    <3> QED BY <3>1 DEF IsTodo
  <2>2. ASSUME NEW i \in DOMAIN t, r.op.op = "copy" PROVE t[i].do \in CopyDos
    <3>1. CASE i <= m
      BY <1>2, <1>3, <1>4, <2>2, <3>1 DEF GoodTasks
    <3>2. CASE ~ (i <= m)
      <4>1. i - m \in 1 .. Len(u) /\ i \in 1 .. m + Len(u)
        BY <1>2, <1>4, <3>2
      <4>2. t[i] = u[i - m]
        BY <1>3, <3>2, <4>1
      <4> QED BY <2>1, <2>2, <4>1, <4>2
    <3> QED BY <3>1, <3>2
  <2> QED BY <2>2
<1>7. t # <<>> => 1 \in DOMAIN t
  <2>1. t \in Seq(Tasks)
    BY <1>3
  <2>2. t # <<>> => Len(t) \in Nat \ {0} /\ DOMAIN t = 1 .. Len(t)
    BY ONLY <2>1
  <2> QED BY ONLY <2>2
<1>8. 1 \in 1 .. m => tasks # <<>>
  BY <1>2 DEF m
<1> QED BY <1>3, <1>5, <1>6, <1>7, <1>8, <1>9 DEF GoodTodo

\* What the invariant says of the call of c, and of the disk.
LEMMA CallOf ==
  ASSUME DiskInv, NEW c \in Callers
  PROVE  /\ IsDisk(disk) /\ now \in Nat /\ IsRun(run[c]) /\ OpenAreThere(run[c])
         /\ IsTodo(run[c]) /\ run = [e \in Callers |-> run[e]]
         /\ run[c].pc # "idle" => IsDisk(run[c].found) /\ Len(run[c].found.data) <= Len(disk.data)
  BY DEF DiskInv, DiskStaysATree, RunsOk, IsRun

\* The call after a step that changes what it is about to do.
Changed(r, pc, todo, count, answer) ==
    [r EXCEPT !.pc = pc, !.todo = todo, !.count = count, !.answer = answer]

LEMMA ChangedRun ==
  ASSUME NEW r, IsRun(r), NEW pc, NEW todo, NEW count, NEW answer,
         NEW q, q = Changed(r, pc, todo, count, answer)
  PROVE  /\ HasRunFields(q)
         /\ q.pc = pc /\ q.op = r.op /\ q.todo = todo /\ q.count = count /\ q.answer = answer
         /\ q.found = r.found /\ q.rivals = r.rivals
  BY DEF IsRun, HasRunFields, Changed

\* The call c becomes q, and no other changes.
Becomes(c, q) == now' = now /\ run' = [e \in Callers |-> IF e = c THEN q ELSE run[e]]

LEMMA GoesOnIsStep ==
  ASSUME DiskInv, NEW c \in Callers, run[c].pc = "busy", run[c].todo # <<>>,
         NEW d, Follows(disk, d), NEW tasks, GoodTasks(run[c], d, tasks),
         Allowed(c, d), NEW count, disk' = d,
         Becomes(c, Changed(run[c], run[c].pc, tasks \o Tail(run[c].todo), count, run[c].answer))
  PROVE  StepOf(c)
<1> DEFINE r == run[c]
           q == run'[c]
           t == tasks \o Tail(r.todo)
<1>1. /\ IsDisk(disk) /\ IsRun(r) /\ OpenAreThere(r) /\ IsTodo(r)
      /\ IsDisk(r.found) /\ Len(r.found.data) <= Len(disk.data)
      /\ run = [e \in Callers |-> run[e]]
  BY CallOf
<1>2. disk' = d /\ now' = now
  BY DEF Becomes
<1>4. q = Changed(r, r.pc, t, count, r.answer)
  BY DEF Becomes
<1>3. run' = [e \in Callers |-> IF e = c THEN q ELSE run[e]]
  BY <1>4 DEF Becomes
<1>5. GoodTodo(r, tasks, t)
  <2>1. IsTodo(r) /\ r.todo # <<>> /\ GoodTasks(r, d, tasks) /\ t = tasks \o Tail(r.todo)
    BY <1>1
  <2> HIDE DEF r, t
  <2> QED BY <2>1, TodoAfter
<1> HIDE DEF t, q, r
<1>6. /\ HasRunFields(q)
      /\ q.pc = r.pc /\ q.op = r.op /\ q.todo = t
      /\ q.found = r.found /\ q.rivals = r.rivals
  BY <1>1, <1>4, ChangedRun
<1>7. r.pc = "busy"
  BY DEF r
<1>8. IsTodo(q)
  BY <1>5, <1>6 DEF IsTodo, GoodTodo
<1>9. IsDisk(d) /\ Len(q.found.data) <= Len(d.data) /\ IsDisk(q.found)
  BY <1>1, <1>6, LengthOfData DEF Follows
<1>10. IsRun(run[c])'
  <2>1. q.op = [op |-> q.op.op, src |-> q.op.src, dst |-> q.op.dst, flags |-> q.op.flags]
        /\ q.op.op \in Ops
    BY <1>1, <1>6 DEF IsRun
  <2>2. q.pc = "busy" /\ disk' = d
    BY <1>2, <1>6, <1>7
  <2>3. /\ HasRunFields(q)
        /\ q.pc \in {"idle", "busy", "done"} /\ (q.pc = "idle" => q = Idle)
        /\ (q.pc # "idle" => IsDisk(q.found) /\ Len(q.found.data) <= Len(disk'.data))
    BY <1>6, <1>9, <2>2
  <2> QED BY <1>8, <2>1, <2>3 DEF IsRun, q
<1>11. OpenAreThere(run[c])'
  <2>1. GoodTasks(r, d, tasks) /\ disk' = d
    BY <1>2 DEF r
  <2>2. q.todo # <<>> /\ q.todo[1].do \in {"fill", "put"} =>
            /\ q.todo[1].out \in DOMAIN d.data
            /\ q.todo[1].do = "fill" => q.todo[1].in \in {0} \cup DOMAIN d.data
    BY <1>5, <1>6, <2>1 DEF GoodTasks, GoodTodo, Later
  <2> QED BY <2>1, <2>2 DEF OpenAreThere, q
<1>12. /\ q.todo # <<>> /\ q.todo[1].do = "open" => Doing(c, "look") \/ Doing(c, "against")
       /\ q.todo # <<>> /\ q.todo[1].do = "fill" => Doing(c, "open")
  <2>1. r.todo # <<>> /\ GoodTasks(r, d, tasks)
    BY DEF r
  <2>2. Head(r.todo) = r.todo[1]
    BY <1>1, <2>1, TailOfTodo
  <2>3. \A do : r.todo[1].do = do => Doing(c, do)
    BY <1>7, <2>1, <2>2 DEF Doing, r
  <2>4. /\ q.todo # <<>> /\ q.todo[1].do = "open" => r.todo[1].do \in {"look", "against"}
        /\ q.todo # <<>> /\ q.todo[1].do = "fill" => r.todo[1].do = "open"
    BY <1>5, <1>6, <2>1 DEF GoodTasks, GoodTodo, Later
  <2> QED BY <2>3, <2>4
<1>13. Allowed(c, disk')
  BY <1>2
<1> QED BY <1>2, <1>3, <1>6, <1>7, <1>10, <1>11, <1>12, <1>13 DEF StepOf, q, r

LEMMA ContinueIsStep ==
  ASSUME DiskInv, NEW c \in Callers, run[c].pc = "busy", run[c].todo # <<>>,
         NEW d, Follows(disk, d), NEW tasks, GoodTasks(run[c], d, tasks),
         Allowed(c, d),
         Continue(c, d, tasks)
  PROVE  StepOf(c)
<1> DEFINE r == run[c]
           t == tasks \o Tail(r.todo)
<1>1. HasRunFields(r) /\ run = [e \in Callers |-> run[e]]
  BY CallOf DEF IsRun
<1>2. disk' = d /\ Becomes(c, [r EXCEPT !.todo = t])
  BY <1>1 DEF Continue, Becomes
<1>3. [r EXCEPT !.todo = t] = Changed(r, r.pc, t, r.count, r.answer)
  <2> HIDE DEF t, r
  <2> QED BY <1>1 DEF HasRunFields, Changed
<1>4. Becomes(c, Changed(run[c], run[c].pc, tasks \o Tail(run[c].todo), run[c].count, run[c].answer))
  BY <1>2, <1>3
<1> QED BY <1>2, <1>4, GoesOnIsStep

LEMMA CountIsStep ==
  ASSUME DiskInv, NEW c \in Callers, run[c].pc = "busy", run[c].todo # <<>>,
         NEW tasks, GoodTasks(run[c], disk, tasks), Count(c, tasks)
  PROVE  StepOf(c)
<1> DEFINE r == run[c]
           t == tasks \o Tail(r.todo)
           n == r.count + 1
<1>1. HasRunFields(r) /\ run = [e \in Callers |-> run[e]]
  BY CallOf DEF IsRun
<1>2. disk' = disk /\ Becomes(c, [r EXCEPT !.todo = t, !.count = n])
  BY <1>1 DEF Count, Becomes
<1>3. [r EXCEPT !.todo = t, !.count = n] = Changed(r, r.pc, t, n, r.answer)
  <2> HIDE DEF t, r, n
  <2> QED BY <1>1 DEF HasRunFields, Changed
<1>4. Follows(disk, disk) /\ Allowed(c, disk)
  BY CallOf, SameFollows DEF Allowed
<1>5. Becomes(c, Changed(run[c], run[c].pc, tasks \o Tail(run[c].todo), n, run[c].answer))
  BY <1>2, <1>3
<1> HIDE DEF n
<1> QED BY <1>2, <1>4, <1>5, GoesOnIsStep

LEMMA EndIsStep ==
  ASSUME DiskInv, NEW c \in Callers, run[c].pc = "busy",
         NEW d, Follows(disk, d), NEW answer, NEW count,
         Allowed(c, d), disk' = d,
         Becomes(c, Changed(run[c], "done", <<>>, count, answer))
  PROVE  StepOf(c)
<1> DEFINE r == run[c]
           q == run'[c]
<1>1. /\ IsDisk(disk) /\ IsRun(r) /\ IsDisk(r.found) /\ Len(r.found.data) <= Len(disk.data)
      /\ run = [e \in Callers |-> run[e]]
  BY CallOf
<1>2. disk' = d /\ now' = now
  BY DEF Becomes
<1>4. q = Changed(r, "done", <<>>, count, answer)
  BY DEF Becomes
<1>3. run' = [e \in Callers |-> IF e = c THEN q ELSE run[e]]
  BY <1>4 DEF Becomes
<1> HIDE DEF q, r
<1>6. /\ HasRunFields(q)
      /\ q.pc = "done" /\ q.op = r.op /\ q.todo = <<>>
      /\ q.found = r.found /\ q.rivals = r.rivals
  BY <1>1, <1>4, ChangedRun
<1>8. IsTodo(q)
  BY <1>6 DEF IsTodo
<1>9. IsDisk(d) /\ Len(q.found.data) <= Len(d.data) /\ IsDisk(q.found)
  BY <1>1, <1>6, LengthOfData DEF Follows
<1>10. IsRun(run[c])'
  <2>1. q.op = [op |-> q.op.op, src |-> q.op.src, dst |-> q.op.dst, flags |-> q.op.flags]
        /\ q.op.op \in Ops
    BY <1>1, <1>6 DEF IsRun
  <2>3. /\ HasRunFields(q)
        /\ q.pc \in {"idle", "busy", "done"} /\ (q.pc = "idle" => q = Idle)
        /\ (q.pc # "idle" => IsDisk(q.found) /\ Len(q.found.data) <= Len(disk'.data))
    BY <1>2, <1>6, <1>9
  <2> QED BY <1>8, <2>1, <2>3 DEF IsRun, q
<1>11. OpenAreThere(run[c])'
  BY <1>6 DEF OpenAreThere, q
<1>12. Allowed(c, disk')
  BY <1>2
<1> QED BY <1>2, <1>3, <1>6, <1>10, <1>11, <1>12 DEF StepOf, q, r

LEMMA ReturnIsStep ==
  ASSUME DiskInv, NEW c \in Callers, run[c].pc = "busy",
         NEW d, Follows(disk, d), NEW answer,
         Allowed(c, d),
         Return(c, d, answer)
  PROVE  StepOf(c)
<1> DEFINE r == run[c]
<1>1. HasRunFields(r) /\ run = [e \in Callers |-> run[e]]
  BY CallOf DEF IsRun
<1>2. disk' = d /\ Becomes(c, [r EXCEPT !.pc = "done", !.todo = <<>>, !.answer = answer])
  BY <1>1 DEF Return, Becomes
<1>3. [r EXCEPT !.pc = "done", !.todo = <<>>, !.answer = answer]
        = Changed(r, "done", <<>>, r.count, answer)
  <2> HIDE DEF r
  <2> QED BY <1>1 DEF HasRunFields, Changed
<1>4. Becomes(c, Changed(run[c], "done", <<>>, run[c].count, answer))
  BY <1>2, <1>3
<1> QED BY <1>2, <1>4, EndIsStep

LEMMA GiveUpIsStep ==
  ASSUME DiskInv, NEW c \in Callers, run[c].pc = "busy",
         NEW d, Follows(disk, d), NEW notExist,
         Allowed(c, d),
         GiveUp(c, d, notExist)
  PROVE  StepOf(c)
<1> DEFINE r == run[c]
           answer == IF notExist THEN "ok" ELSE "error"
<1>1. HasRunFields(r) /\ run = [e \in Callers |-> run[e]]
  BY CallOf DEF IsRun
<1>2. disk' = d /\ Becomes(c, [r EXCEPT !.pc = "done", !.todo = <<>>, !.count = 0, !.answer = answer])
  BY <1>1 DEF GiveUp, Becomes
<1> HIDE DEF answer
<1>3. [r EXCEPT !.pc = "done", !.todo = <<>>, !.count = 0, !.answer = answer]
        = Changed(r, "done", <<>>, 0, answer)
  <2> HIDE DEF r
  <2> QED BY <1>1 DEF HasRunFields, Changed
<1>4. Becomes(c, Changed(run[c], "done", <<>>, 0, answer))
  BY <1>2, <1>3
<1> QED BY <1>2, <1>4, EndIsStep

LEMMA ContinueOrFailIsStep ==
  ASSUME DiskInv, NEW c \in Callers, run[c].pc = "busy", run[c].todo # <<>>,
         NEW result, Follows(disk, result.disk),
         Allowed(c, result.disk),
         NEW tasks, result.ok => GoodTasks(run[c], result.disk, tasks),
         ContinueOrFail(c, result, tasks)
  PROVE  StepOf(c)
<1>1. CASE result.ok
  <2>1. Continue(c, result.disk, tasks)
    BY <1>1 DEF ContinueOrFail
  <2> QED BY <1>1, <2>1, ContinueIsStep
<1>2. CASE ~ result.ok
  <2>1. Return(c, result.disk, "error")
    BY <1>2 DEF ContinueOrFail
  <2> QED BY <2>1, ReturnIsStep
<1> QED BY <1>1, <1>2

LEMMA SameAllowed ==
  ASSUME DiskInv, NEW c \in Callers
  PROVE  Follows(disk, disk) /\ Allowed(c, disk)
BY CallOf, SameFollows DEF Allowed

LEMMA TaskInHand ==
  ASSUME DiskInv, NEW c \in Callers, NEW do, Doing(c, do)
  PROVE  /\ run[c].pc = "busy" /\ run[c].todo # <<>> /\ Now(c) = run[c].todo[1]
         /\ Now(c) \in Tasks /\ Now(c).do = do
         /\ Now(c).src \in Path /\ Now(c).dst \in Path /\ Now(c).in \in Nat /\ Now(c).out \in Nat
         /\ run[c].op.op = "copy" => do \in CopyDos
         /\ do \in Namers => run[c].op.op = do
         /\ do \in {"compare", "against"} => "update_existing" \in Flags(c)
         /\ do \in {"fill", "put"} => Now(c).out \in DOMAIN disk.data
         /\ do = "fill" => Now(c).in \in {0} \cup DOMAIN disk.data
<1>1. /\ IsTodo(run[c]) /\ OpenAreThere(run[c])
      /\ run[c].pc = "busy" /\ run[c].todo # <<>> /\ Head(run[c].todo).do = do
  BY CallOf DEF Doing
<1>2. Now(c) = run[c].todo[1] /\ run[c].todo[1] \in Tasks /\ Now(c).do = do
      /\ 1 \in DOMAIN run[c].todo
  <2>1. /\ Head(run[c].todo) = run[c].todo[1] /\ run[c].todo[1] \in Tasks
        /\ Len(run[c].todo) \in Nat \ {0}
    BY <1>1, TailOfTodo
  <2>2. run[c].todo \in Seq(Tasks)
    BY <1>1 DEF IsTodo
  <2>3. DOMAIN run[c].todo = 1 .. Len(run[c].todo)
    BY <2>2
  <2> QED BY <1>1, <2>1, <2>3 DEF Now
<1>3. Now(c).src \in Path /\ Now(c).dst \in Path /\ Now(c).in \in Nat /\ Now(c).out \in Nat
  BY <1>2 DEF Tasks
<1>4. /\ run[c].op.op = "copy" => do \in CopyDos
      /\ do \in Namers => run[c].op.op = do
      /\ do \in {"compare", "against"} => "update_existing" \in Flags(c)
  BY <1>1, <1>2 DEF IsTodo, Flags
<1>5. /\ do \in {"fill", "put"} => Now(c).out \in DOMAIN disk.data
      /\ do = "fill" => Now(c).in \in {0} \cup DOMAIN disk.data
  BY <1>1, <1>2 DEF OpenAreThere
<1> QED BY <1>1, <1>2, <1>3, <1>4, <1>5

LEMMA NewTask ==
  ASSUME NEW do \in Dos, NEW src \in Path, NEW dst \in Path
  PROVE  Task(do, src, dst) \in Tasks /\ Task(do, src, dst).do = do
BY DEF Task, Tasks

LEMMA Stats ==
  ASSUME NEW d, IsDisk(d), NEW p
  PROVE  /\ Stat(d, p).type \in {"dir", "file", "link", "missing"}
         /\ Stat(d, p).type = "file" => Stat(d, p).file \in DOMAIN d.data
         /\ Stat(d, p).type # "file" => Stat(d, p).file = 0
         /\ Lstat(d, p).type = "link" => Lstat(d, p).target \in Path
BY Nodes DEF Stat, Lstat, Missing

LEMMA IntoDirectory ==
  ASSUME NEW src \in Path, NEW dst \in Path
  PROVE  Append(dst, Last(src)) \in Path
BY ParentIsPath, AppendedPath DEF Path

LEMMA CopyLinkIsStep ==
  ASSUME DiskInv, NEW c \in Callers, CopyLink(c)
  PROVE  StepOf(c)
<1> DEFINE src == Now(c).src
           into == IF Stat(disk, Now(c).dst).type = "dir" THEN Append(Now(c).dst, Last(src)) ELSE Now(c).dst
           target == Lstat(disk, src).target
           node == Stat(disk, target)
<1>1. Doing(c, "copy") /\ Lstat(disk, src).type = "link"
  BY DEF CopyLink
<1>2. /\ run[c].pc = "busy" /\ run[c].todo # <<>> /\ src \in Path /\ Now(c).dst \in Path
      /\ IsDisk(disk)
  BY <1>1, TaskInHand, CallOf
<1>3. into \in Path /\ target \in Path
  BY <1>1, <1>2, IntoDirectory, Stats
<1>4. CASE "copy_symlinks" \in Flags(c)
  <2>1. ContinueOrFail(c, Symlink(disk, target, into), <<>>)
    BY <1>4 DEF CopyLink
  <2> HIDE DEF into, target
  <2>2. Follows(disk, Symlink(disk, target, into).disk) /\ Allowed(c, Symlink(disk, target, into).disk)
    BY <1>2, <1>3, <1>4, LinkedFollows DEF Allowed
  <2> QED BY <1>2, <1>4, <2>1, <2>2, NoTasks, ContinueOrFailIsStep
<1>5. CASE "copy_symlinks" \notin Flags(c)
  <2>1. CASE node.type \in {"missing", "link"} \/ (node.type = "dir" /\ "recursive" \notin Flags(c))
    <3>1. Return(c, disk, "error")
      BY <1>5, <2>1 DEF CopyLink
    <3> QED BY <1>2, <3>1, SameAllowed, ReturnIsStep
  <2>2. CASE ~ (node.type \in {"missing", "link"} \/ (node.type = "dir" /\ "recursive" \notin Flags(c)))
    <3>1. Continue(c, disk, <<Task(node.type, target, Now(c).dst)>>)
      BY <1>5, <2>2 DEF CopyLink
    <3>2. node.type \in {"dir", "file"}
      BY <1>2, <2>2, Stats
    <3> DEFINE task == Task(node.type, target, Now(c).dst)
    <3>3. task \in Tasks /\ task.do \in {"dir", "file"}
      <4>1. node.type \in Dos
        BY <3>2 DEF Dos, CopyDos
      <4> HIDE DEF node, target
      <4> QED BY <1>2, <1>3, <3>2, <4>1, NewTask
    <3> HIDE DEF task
    <3>4. GoodTasks(run[c], disk, <<task>>)
      BY <3>3, OneTask DEF CopyDos, Namers
    <3>5. Continue(c, disk, <<task>>)
      BY <3>1 DEF task
    <3> QED BY <1>2, <3>4, <3>5, SameAllowed, ContinueIsStep
  <2> QED BY <2>1, <2>2
<1> QED BY <1>4, <1>5

LEMMA CopyIsStep ==
  ASSUME DiskInv, NEW c \in Callers, Copy(c)
  PROVE  StepOf(c)
<1> DEFINE node == Lstat(disk, Now(c).src)
<1>1. Doing(c, "copy") /\ node.type # "link"
  BY DEF Copy
<1>2. /\ run[c].pc = "busy" /\ run[c].todo # <<>> /\ Now(c).src \in Path /\ Now(c).dst \in Path
      /\ IsDisk(disk)
  BY <1>1, TaskInHand, CallOf
<1>3. CASE node.type = "missing" \/ (node.type = "dir" /\ "recursive" \notin Flags(c))
  <2>1. Return(c, disk, "error")
    BY <1>3 DEF Copy
  <2> QED BY <1>2, <2>1, SameAllowed, ReturnIsStep
<1>4. CASE ~ (node.type = "missing" \/ (node.type = "dir" /\ "recursive" \notin Flags(c)))
  <2>1. Continue(c, disk, <<Task(node.type, Now(c).src, Now(c).dst)>>)
    BY <1>4 DEF Copy
  <2>2. node.type \in {"dir", "file"}
    BY <1>1, <1>2, <1>4, Nodes DEF Lstat, Missing
  <2> DEFINE task == Task(node.type, Now(c).src, Now(c).dst)
  <2>3. task \in Tasks /\ task.do \in {"dir", "file"}
    <3>1. node.type \in Dos
      BY <2>2 DEF Dos, CopyDos
    <3> HIDE DEF node
    <3> QED BY <1>2, <2>2, <3>1, NewTask
  <2> HIDE DEF task
  <2>4. GoodTasks(run[c], disk, <<task>>)
    BY <2>3, OneTask DEF CopyDos, Namers
  <2>5. Continue(c, disk, <<task>>)
    BY <2>1 DEF task
  <2> QED BY <1>2, <2>4, <2>5, SameAllowed, ContinueIsStep
<1> QED BY <1>3, <1>4

LEMMA CopyDirIsStep ==
  ASSUME DiskInv, NEW c \in Callers, CopyDir(c)
  PROVE  StepOf(c)
<1> DEFINE result == MkdirAll(disk, Now(c).dst)
           task == [Now(c) EXCEPT !.do = "list"]
           tasks == IF "directories_only" \in Flags(c) THEN <<>> ELSE <<task>>
<1>1. Doing(c, "dir") /\ ContinueOrFail(c, result, tasks)
  BY DEF CopyDir
<1>2. /\ run[c].pc = "busy" /\ run[c].todo # <<>> /\ Now(c) \in Tasks /\ Now(c).dst \in Path
      /\ IsDisk(disk)
  BY <1>1, TaskInHand, CallOf
<1>3. Follows(disk, result.disk) /\ Allowed(c, result.disk)
  BY <1>2, MadeFollows DEF Allowed
<1> HIDE DEF result
<1>4. GoodTasks(run[c], result.disk, tasks)
  <2>1. task \in Tasks /\ task.do = "list"
    BY <1>2 DEF Tasks, Dos, CopyDos
  <2> HIDE DEF task
  <2>2. GoodTasks(run[c], result.disk, <<task>>)
    BY <2>1, OneTask DEF CopyDos, Namers
  <2> QED BY <2>2, NoTasks
<1> HIDE DEF tasks
<1> QED BY <1>1, <1>2, <1>3, <1>4, ContinueOrFailIsStep

\* The names s are those of the first k that an entry of the directory has, each
\* of them once.
IsEntry(d, path, x) == Append(Real(d, path), x) \in DOMAIN d.tree
Lists(d, path, s, k) ==
    /\ s \in Seq(Name)
    /\ \A x : (\E i \in DOMAIN s : s[i] = x) <=> IsEntry(d, path, x) /\ \E n \in 1 .. k : Names[n] = x
    /\ \A i, j \in DOMAIN s : s[i] = s[j] => i = j

LEMMA ListsNone ==
  ASSUME NEW d, NEW path
  PROVE  Lists(d, path, <<>>, 0)
BY DEF Lists

LEMMA ListsOneMore ==
  ASSUME NEW d, NEW path, NEW s, NEW k \in Nat, k + 1 <= Len(Names), Lists(d, path, s, k),
         NEW t, t = IF IsEntry(d, path, Names[k + 1]) THEN Append(s, Names[k + 1]) ELSE s
  PROVE  Lists(d, path, t, k + 1)
<1> DEFINE x == Names[k + 1]
<1>1. /\ s \in Seq(Name) /\ Len(s) \in Nat /\ DOMAIN s = 1 .. Len(s)
      /\ DOMAIN Names = 1 .. Len(Names) /\ Len(Names) \in Nat
  BY NamesAssumption DEF Lists
<1>2. k + 1 \in DOMAIN Names /\ \A n \in 1 .. k : n \in DOMAIN Names /\ n # k + 1
  BY <1>1
<1>3. x \in Name /\ \A n \in 1 .. k : Names[n] # x
  BY <1>2, NamesAssumption DEF Name, ToSet
<1>4. \A y : (\E n \in 1 .. k + 1 : Names[n] = y) <=> (y = x \/ \E n \in 1 .. k : Names[n] = y)
  <2>1. \A n \in 1 .. k + 1 : n = k + 1 \/ n \in 1 .. k
    OBVIOUS
  <2>2. k + 1 \in 1 .. k + 1 /\ \A n \in 1 .. k : n \in 1 .. k + 1
    OBVIOUS
  <2> QED BY <2>1, <2>2
<1>5. /\ \A y : (\E i \in DOMAIN s : s[i] = y) <=> IsEntry(d, path, y) /\ \E n \in 1 .. k : Names[n] = y
      /\ \A i, j \in DOMAIN s : s[i] = s[j] => i = j
  BY DEF Lists
<1>6. CASE ~ IsEntry(d, path, x)
  <2>1. t = s
    BY <1>6
  <2> HIDE DEF x
  <2>2. \A y : (\E i \in DOMAIN s : s[i] = y)
                 <=> IsEntry(d, path, y) /\ \E n \in 1 .. k + 1 : Names[n] = y
    BY <1>4, <1>5, <1>6
  <2> QED BY <1>1, <1>5, <2>1, <2>2 DEF Lists
<1>7. CASE IsEntry(d, path, x)
  <2>1. t = Append(s, x)
    BY <1>7
  <2> HIDE DEF x
  <2> DEFINE l == Len(s) + 1
  <2>2. /\ t \in Seq(Name) /\ DOMAIN t = 1 .. l /\ t[l] = x
        /\ \A i \in 1 .. Len(s) : t[i] = s[i]
    BY <1>1, <1>3, <2>1
  <2>3. DOMAIN t = DOMAIN s \cup {l} /\ l \notin DOMAIN s
    BY <1>1, <2>2
  <2> HIDE DEF l
  <2>4. \A i \in DOMAIN s : s[i] # x
    BY <1>3, <1>5
  <2>5. \A y : (\E i \in DOMAIN t : t[i] = y) <=> (y = x \/ \E i \in DOMAIN s : s[i] = y)
    BY <1>1, <2>2, <2>3
  <2>6. \A y : (\E i \in DOMAIN t : t[i] = y)
                 <=> IsEntry(d, path, y) /\ \E n \in 1 .. k + 1 : Names[n] = y
    BY <1>4, <1>5, <1>7, <2>5
  <2>7. \A i, j \in DOMAIN t : t[i] = t[j] => i = j
    BY <1>1, <1>5, <2>2, <2>3, <2>4
  <2> QED BY <2>2, <2>6, <2>7 DEF Lists
<1> QED BY <1>6, <1>7

\* What a directory lists: the names of its entries, each once.
LEMMA ListedAre ==
  ASSUME NEW d, NEW path
  PROVE  Lists(d, path, Listed(d, path), Len(Names))
<1> DEFINE len == Len(Names)
           Next1(f, n) == IF n = 0 THEN <<>>
                          ELSE IF Append(Real(d, path), Names[n]) \in DOMAIN d.tree
                            THEN Append(f[n - 1], Names[n]) ELSE f[n - 1]
           Good(f, k) == \A n \in 0 .. k : f[n] = Next1(f, n)
           upTo == CHOOSE f : f = [n \in 0 .. len |-> Next1(f, n)]
<1>1. len \in Nat /\ \A n \in 1 .. len : Names[n] \in Name
  <2>1. len \in Nat /\ DOMAIN Names = 1 .. len
    BY NamesAssumption
  <2>2. \A n \in DOMAIN Names : Names[n] \in Name
    BY DEF Name, ToSet
  <2> QED BY <2>1, <2>2
<1> HIDE DEF len
<1>2. \A k \in Nat : k <= len => \E f \in [0 .. k -> Seq(Name)] : Good(f, k)
  <2> DEFINE S == {k \in Nat : k <= len => \E f \in [0 .. k -> Seq(Name)] : Good(f, k)}
  <2>1. 0 \in S
    <3> DEFINE f == [n \in 0 .. 0 |-> <<>>]
    <3>1. f \in [0 .. 0 -> Seq(Name)] /\ Good(f, 0)
      OBVIOUS
    <3> QED BY <3>1
  <2>2. ASSUME NEW k \in Nat, k \in S PROVE k + 1 \in S
    <3> SUFFICES ASSUME k + 1 <= len
                 PROVE  \E g \in [0 .. k + 1 -> Seq(Name)] : Good(g, k + 1)
      <4> HIDE DEF Good
      <4> QED OBVIOUS
    <3>1. PICK f \in [0 .. k -> Seq(Name)] : Good(f, k)
      <4>1. k <= len
        BY <1>1
      <4> HIDE DEF Good
      <4> QED BY <2>2, <4>1
    <3> DEFINE g == [n \in 0 .. k + 1 |-> IF n = k + 1 THEN Next1(f, k + 1) ELSE f[n]]
    <3>2. Next1(f, k + 1) \in Seq(Name)
      <4>1. f[(k + 1) - 1] \in Seq(Name) /\ Names[k + 1] \in Name
        BY <1>1
      <4> QED BY <4>1, AppendProperties
    <3>3. g \in [0 .. k + 1 -> Seq(Name)]
      BY <3>2
    <3>4. \A n \in 0 .. k : g[n] = f[n]
      OBVIOUS
    <3>5. \A n \in 0 .. k + 1 : n # 0 => g[n - 1] = f[n - 1]
      BY <3>4
    <3>6. \A n \in 0 .. k + 1 : Next1(g, n) = Next1(f, n)
      BY <3>5
    <3>7. Good(g, k + 1)
      <4>1. \A n \in 0 .. k : g[n] = Next1(f, n)
        <5> HIDE DEF g, Next1
        <5> QED BY <3>1, <3>4
      <4>2. g[k + 1] = Next1(f, k + 1)
        OBVIOUS
      <4>3. \A n \in 0 .. k + 1 : n \in 0 .. k \/ n = k + 1
        OBVIOUS
      <4> HIDE DEF g, Next1
      <4> QED BY <3>6, <4>1, <4>2, <4>3
    <3> QED BY <3>3, <3>7
  <2>3. \A k \in Nat : k \in S
    <3> HIDE DEF S
    <3> QED BY <2>1, <2>2, AllNumbers
  <2> QED BY <2>3
<1>3. upTo = [n \in 0 .. len |-> Next1(upTo, n)]
  <2>1. PICK f \in [0 .. len -> Seq(Name)] : Good(f, len)
    <3> HIDE DEF Good
    <3>1. len <= len
      BY <1>1
    <3> QED BY <1>1, <1>2, <3>1
  <2>2. f = [n \in 0 .. len |-> Next1(f, n)]
    BY <2>1
  <2> QED BY <2>2
<1> HIDE DEF upTo
<1>4. \A k \in Nat : k <= len => Lists(d, path, upTo[k], k)
  <2> DEFINE S == {k \in Nat : k <= len => Lists(d, path, upTo[k], k)}
  <2>1. 0 \in S
    <3>1. upTo[0] = <<>>
      BY <1>1, <1>3
    <3> QED BY <3>1, ListsNone
  <2>2. ASSUME NEW k \in Nat, k \in S PROVE k + 1 \in S
    <3> SUFFICES ASSUME k + 1 <= len PROVE Lists(d, path, upTo[k + 1], k + 1)
      OBVIOUS
    <3>1. upTo[k + 1] = Next1(upTo, k + 1)
      <4>1. k + 1 \in 0 .. len
        BY <1>1
      <4> HIDE DEF Next1
      <4> QED BY <1>3, <4>1
    <3>2. (k + 1) - 1 = k /\ k + 1 # 0 /\ Lists(d, path, upTo[k], k)
      BY <1>1, <2>2
    <3>3. upTo[k + 1] = IF IsEntry(d, path, Names[k + 1]) THEN Append(upTo[k], Names[k + 1]) ELSE upTo[k]
      BY <3>1, <3>2 DEF IsEntry
    <3> QED BY <3>2, <3>3, ListsOneMore DEF len
  <2>3. \A k \in Nat : k \in S
    <3> HIDE DEF S
    <3> QED BY <2>1, <2>2, AllNumbers
  <2> QED BY <2>3
<1>5. Listed(d, path) = upTo[len]
  BY DEF Listed, upTo, len
<1>6. len <= len
  BY <1>1
<1>7. Lists(d, path, upTo[len], len)
  BY <1>1, <1>4, <1>6
<1> QED BY <1>5, <1>7 DEF len

LEMMA ListedNames ==
  ASSUME NEW d, NEW path
  PROVE  /\ Listed(d, path) \in Seq(Name)
         /\ \A x \in Name : (\E i \in DOMAIN Listed(d, path) : Listed(d, path)[i] = x)
                              <=> Append(Real(d, path), x) \in DOMAIN d.tree
         /\ \A i, j \in DOMAIN Listed(d, path) : Listed(d, path)[i] = Listed(d, path)[j] => i = j
<1>1. \A x \in Name : \E n \in 1 .. Len(Names) : Names[n] = x
  <2>1. DOMAIN Names = 1 .. Len(Names)
    BY NamesAssumption
  <2> QED BY <2>1 DEF Name, ToSet
<1> QED BY <1>1, ListedAre DEF Lists, IsEntry

LEMMA ListDirIsStep ==
  ASSUME DiskInv, NEW c \in Callers, ListDir(c)
  PROVE  StepOf(c)
<1> DEFINE src == Now(c).src
           dst == Now(c).dst
           names == Listed(disk, src)
           Do(i) == EntryKind(disk, src, names[i])
           T(i) == Task(Do(i), Append(src, names[i]), Append(dst, names[i]))
           tasks == [i \in DOMAIN names |-> T(i)]
<1>1. Doing(c, "list")
  BY DEF ListDir
<1>2. /\ run[c].pc = "busy" /\ run[c].todo # <<>> /\ src \in Path /\ dst \in Path
      /\ IsDisk(disk)
  BY <1>1, TaskInHand, CallOf
<1>3. CASE Stat(disk, src).type # "dir"
  <2>1. Return(c, disk, "error")
    BY <1>3 DEF ListDir
  <2> QED BY <1>2, <2>1, SameAllowed, ReturnIsStep
<1>4. CASE Stat(disk, src).type = "dir"
  <2>1. Continue(c, disk, tasks)
    BY <1>4 DEF ListDir
  <2>2. names \in Seq(Name)
    BY ListedNames
  <2> HIDE DEF names
  <2>3. \A i \in DOMAIN names : names[i] \in Name
    BY <2>2
  <2>4. \A i : Do(i) \in {"subdir", "entry"}
    BY DEF EntryKind
  <2> HIDE DEF src, dst, Do
  <2>5. ASSUME NEW i \in DOMAIN names
        PROVE  T(i) \in Tasks /\ T(i).do \in {"subdir", "entry"}
    <3>1. Append(src, names[i]) \in Path /\ Append(dst, names[i]) \in Path
      BY <1>2, <2>3, AppendedPath DEF Path
    <3>2. Do(i) \in Dos
      BY <2>4 DEF Dos, CopyDos
    <3> QED BY <2>4, <3>1, <3>2, NewTask
  <2> HIDE DEF T
  <2>6. tasks \in Seq(Tasks) /\ DOMAIN tasks = DOMAIN names
        /\ \A i \in DOMAIN tasks : tasks[i].do \in {"subdir", "entry"}
    <3>1. Len(names) \in Nat /\ DOMAIN names = 1 .. Len(names)
      BY <2>2
    <3>2. tasks \in [1 .. Len(names) -> Tasks]
      BY <2>5, <3>1
    <3> QED BY <2>5, <3>1, <3>2
  <2> HIDE DEF tasks
  <2>7. tasks # <<>> => 1 \in DOMAIN tasks
    BY <2>6
  <2>8. GoodTasks(run[c], disk, tasks)
    BY <2>6, <2>7 DEF GoodTasks, CopyDos, Later, Namers
  <2> QED BY <1>2, <2>1, <2>8, SameAllowed, ContinueIsStep
<1> QED BY <1>3, <1>4

LEMMA EntryIsStep ==
  ASSUME DiskInv, NEW c \in Callers, Entry(c)
  PROVE  StepOf(c)
<1> DEFINE src == Now(c).src
           dst == Now(c).dst
           node == Lstat(disk, src)
<1>1. PICK do \in {"subdir", "entry"} : Doing(c, do)
  BY DEF Entry
<1>2. /\ run[c].pc = "busy" /\ run[c].todo # <<>> /\ src \in Path /\ dst \in Path
      /\ IsDisk(disk)
  BY <1>1, TaskInHand, CallOf
<1>3. CASE node.type = "missing"
  <2>1. Return(c, disk, "error")
    BY <1>3 DEF Entry
  <2> QED BY <1>2, <2>1, SameAllowed, ReturnIsStep
<1>4. CASE node.type = "link" /\ "copy_symlinks" \in Flags(c)
  <2> DEFINE target == node.target
  <2>1. ContinueOrFail(c, Symlink(disk, target, dst), <<>>)
    BY <1>4 DEF Entry
  <2>2. target \in Path
    BY <1>2, <1>4, Stats
  <2> HIDE DEF dst, target, node
  <2>3. Follows(disk, Symlink(disk, target, dst).disk) /\ Allowed(c, Symlink(disk, target, dst).disk)
    BY <1>2, <1>4, <2>2, LinkedFollows DEF Allowed
  <2> QED BY <1>2, <1>4, <2>1, <2>3, NoTasks, ContinueOrFailIsStep
<1>5. CASE node.type # "missing" /\ ~ (node.type = "link" /\ "copy_symlinks" \in Flags(c))
  <2> DEFINE tasks == EntryTasks(Now(c).do, src, dst)
  <2>1. Continue(c, disk, tasks)
    BY <1>5 DEF Entry
  <2>2. PICK new \in {"dir", "file"} : tasks = <<Task(new, src, dst)>>
    BY DEF EntryTasks
  <2> HIDE DEF tasks, src, dst
  <2> DEFINE task == Task(new, src, dst)
  <2>3. task \in Tasks /\ task.do \in {"dir", "file"}
    <3>1. new \in Dos
      BY DEF Dos, CopyDos
    <3> QED BY <1>2, <3>1, NewTask
  <2> HIDE DEF task
  <2>4. GoodTasks(run[c], disk, <<task>>)
    BY <2>3, OneTask DEF CopyDos, Namers
  <2>5. Continue(c, disk, <<task>>)
    BY <2>1, <2>2 DEF task
  <2> QED BY <1>2, <2>4, <2>5, SameAllowed, ContinueIsStep
<1> QED BY <1>3, <1>4, <1>5

LEMMA CopyFileIsStep ==
  ASSUME DiskInv, NEW c \in Callers, CopyFile(c)
  PROVE  StepOf(c)
<1> DEFINE dst == IF Stat(disk, Now(c).dst).type = "dir"
                    THEN Append(Now(c).dst, Last(Now(c).src)) ELSE Now(c).dst
           task == Task("look", Now(c).src, dst)
<1>1. Doing(c, "file") /\ Continue(c, disk, <<task>>)
  BY DEF CopyFile
<1>2. run[c].pc = "busy" /\ run[c].todo # <<>> /\ Now(c).src \in Path /\ Now(c).dst \in Path
  BY <1>1, TaskInHand
<1>3. dst \in Path
  BY <1>2, IntoDirectory
<1> HIDE DEF dst
<1>4. task \in Tasks /\ task.do = "look"
  <2>1. "look" \in Dos
    BY DEF Dos, CopyDos
  <2> QED BY <1>2, <1>3, <2>1, NewTask
<1> HIDE DEF task
<1>5. GoodTasks(run[c], disk, <<task>>)
  BY <1>4, OneTask DEF CopyDos, Namers
<1> QED BY <1>1, <1>2, <1>5, SameAllowed, ContinueIsStep

\* What copyFile does when it has looked at the destination: only what is free,
\* or to be overwritten, is opened at once.
LEMMA LookCases ==
  ASSUME DiskInv, NEW c \in Callers, Look(c)
  PROVE  \/ Continue(c, disk, <<>>)
         \/ Return(c, disk, "error")
         \/ /\ Continue(c, disk, <<Task("open", Now(c).src, Now(c).dst)>>)
            /\ Stat(disk, Now(c).dst).type = "missing" \/ "overwrite_existing" \in Flags(c)
         \/ /\ Continue(c, disk, <<Task("compare", Now(c).src, Now(c).dst)>>)
            /\ "update_existing" \in Flags(c)
<1> DEFINE free == Stat(disk, Now(c).dst).type = "missing"
           flags == Flags(c)
           decision == IF free THEN "open" ELSE Decide(flags)
           T(do) == <<Task(do, Now(c).src, Now(c).dst)>>
<1>1. (CASE decision = "keep" -> Continue(c, disk, <<>>)
        [] decision = "refuse" -> Return(c, disk, "error")
        [] OTHER -> Continue(c, disk, T(decision)))
  BY DEF Look
<1> HIDE DEF T, free, flags
<1>2. /\ decision \in {"keep", "refuse", "open", "compare"}
      /\ decision = "open" => free \/ "overwrite_existing" \in flags
      /\ decision = "compare" => "update_existing" \in flags
  BY DEF Decide
<1> HIDE DEF decision
<1>3. \/ Continue(c, disk, <<>>)
      \/ Return(c, disk, "error")
      \/ Continue(c, disk, T("open")) /\ (free \/ "overwrite_existing" \in flags)
      \/ Continue(c, disk, T("compare")) /\ "update_existing" \in flags
  BY <1>1, <1>2
<1> QED BY <1>3 DEF T, free, flags

LEMMA LookIsStep ==
  ASSUME DiskInv, NEW c \in Callers, Look(c)
  PROVE  StepOf(c)
<1>1. Doing(c, "look")
  BY DEF Look
<1>2. run[c].pc = "busy" /\ run[c].todo # <<>> /\ Now(c).src \in Path /\ Now(c).dst \in Path
  BY <1>1, TaskInHand
<1>3. CASE Continue(c, disk, <<>>)
  BY <1>2, <1>3, NoTasks, SameAllowed, ContinueIsStep
<1>4. CASE Return(c, disk, "error")
  BY <1>2, <1>4, SameAllowed, ReturnIsStep
<1>5. ASSUME NEW do \in {"open", "compare"},
             Continue(c, disk, <<Task(do, Now(c).src, Now(c).dst)>>),
             do = "compare" => "update_existing" \in Flags(c)
      PROVE  StepOf(c)
  <2> DEFINE task == Task(do, Now(c).src, Now(c).dst)
  <2>1. task \in Tasks /\ task.do = do
    <3>1. do \in Dos
      BY DEF Dos, CopyDos
    <3> QED BY <1>2, <3>1, NewTask
  <2> HIDE DEF task
  <2>2. GoodTasks(run[c], disk, <<task>>)
    <3>1. run[c].todo[1].do = "look"
      BY <1>1, TaskInHand
    <3>2. task.do = "compare" => "update_existing" \in run[c].op.flags
      BY <1>5, <2>1 DEF Flags
    <3> QED BY <2>1, <3>1, <3>2, OneTask DEF CopyDos, Namers
  <2>3. Continue(c, disk, <<task>>)
    BY <1>5 DEF task
  <2> QED BY <1>2, <2>2, <2>3, SameAllowed, ContinueIsStep
<1> QED BY <1>3, <1>4, <1>5, LookCases

LEMMA TimesAreNumbers ==
  ASSUME DiskInv, NEW p
  PROVE  TimesOf(disk, p) \subseteq Nat
<1>1. IsDisk(disk) /\ now \in Nat
  BY DEF DiskInv, DiskStaysATree, RunsOk
<1>2. \A f \in DOMAIN disk.data : disk.data[f].time \in Nat
  <2>1. disk.data \in Seq(Content)
    BY <1>1, LengthOfData
  <2>2. \A f \in DOMAIN disk.data : disk.data[f] \in Content
    BY <2>1
  <2> QED BY <2>2 DEF Content
<1>3. Stat(disk, p).type = "file" => Stat(disk, p).file \in DOMAIN disk.data
  BY <1>1, Stats
<1> QED BY <1>1, <1>2, <1>3 DEF TimesOf

LEMMA CompareIsStep ==
  ASSUME DiskInv, NEW c \in Callers, Compare(c)
  PROVE  StepOf(c)
<1>1. Doing(c, "compare")
  BY DEF Compare
<1>2. run[c].pc = "busy" /\ run[c].todo # <<>> /\ Now(c) \in Tasks /\ "update_existing" \in Flags(c)
  BY <1>1, TaskInHand
<1>3. CASE Return(c, disk, "error")
  BY <1>2, <1>3, SameAllowed, ReturnIsStep
<1>4. ASSUME NEW time \in TimesOf(disk, Now(c).src),
             Continue(c, disk, <<[Now(c) EXCEPT !.do = "against", !.in = time]>>)
      PROVE  StepOf(c)
  <2> DEFINE task == [Now(c) EXCEPT !.do = "against", !.in = time]
  <2>1. time \in Nat
    BY TimesAreNumbers
  <2>2. task \in Tasks /\ task.do = "against"
    BY <1>2, <2>1 DEF Tasks, Dos, CopyDos
  <2> HIDE DEF task
  <2>3. GoodTasks(run[c], disk, <<task>>)
    BY <1>2, <2>2, OneTask DEF CopyDos, Namers, Flags
  <2>4. Continue(c, disk, <<task>>)
    BY <1>4 DEF task
  <2> QED BY <1>2, <2>3, <2>4, SameAllowed, ContinueIsStep
<1> QED BY <1>3, <1>4 DEF Compare

LEMMA AgainstIsStep ==
  ASSUME DiskInv, NEW c \in Callers, Against(c)
  PROVE  StepOf(c)
<1>1. Doing(c, "against")
  BY DEF Against
<1>2. run[c].pc = "busy" /\ run[c].todo # <<>> /\ Now(c).src \in Path /\ Now(c).dst \in Path
  BY <1>1, TaskInHand
<1>3. CASE Return(c, disk, "error")
  BY <1>2, <1>3, SameAllowed, ReturnIsStep
<1>4. CASE Continue(c, disk, <<>>)
  BY <1>2, <1>4, NoTasks, SameAllowed, ContinueIsStep
<1> DEFINE task == Task("open", Now(c).src, Now(c).dst)
<1>5. CASE Continue(c, disk, <<task>>)
  <2>1. task \in Tasks /\ task.do = "open"
    <3>1. "open" \in Dos
      BY DEF Dos, CopyDos
    <3> QED BY <1>2, <3>1, NewTask
  <2> HIDE DEF task
  <2>2. GoodTasks(run[c], disk, <<task>>)
    <3>1. run[c].todo[1].do = "against"
      BY <1>1, TaskInHand
    <3> QED BY <2>1, <3>1, OneTask DEF CopyDos, Namers
  <2> QED BY <1>2, <1>5, <2>2, SameAllowed, ContinueIsStep
<1>6. Return(c, disk, "error") \/ Continue(c, disk, <<>>) \/ Continue(c, disk, <<task>>)
  BY DEF Against
<1> QED BY <1>3, <1>4, <1>5, <1>6

LEMMA OpenBothIsStep ==
  ASSUME DiskInv, NEW c \in Callers, OpenBoth(c)
  PROVE  StepOf(c)
<1> DEFINE source == Stat(disk, Now(c).src)
           created == OpenForWriting(disk, Now(c).dst, TRUE)
           task == [Now(c) EXCEPT !.do = "fill", !.in = source.file, !.out = created.file]
<1>1. Doing(c, "open")
  BY DEF OpenBoth
<1>2. /\ run[c].pc = "busy" /\ run[c].todo # <<>> /\ Now(c) \in Tasks /\ Now(c).dst \in Path
      /\ IsDisk(disk) /\ now \in Nat
  BY <1>1, TaskInHand, CallOf
<1>3. CASE source.type = "missing"
  <2>1. Return(c, disk, "error")
    BY <1>3 DEF OpenBoth
  <2> QED BY <1>2, <2>1, SameAllowed, ReturnIsStep
<1>4. CASE source.type # "missing"
  <2>1. ContinueOrFail(c, created, <<task>>)
    BY <1>4 DEF OpenBoth
  <2>2. /\ Follows(disk, created.disk) /\ Allowed(c, created.disk)
        /\ created.ok => created.file \in DOMAIN created.disk.data
    BY <1>1, <1>2, OpenedFollows DEF Allowed
  <2>3. source.file \in {0} \cup DOMAIN disk.data
    BY <1>2, Stats
  <2> HIDE DEF source, created
  <2>4. ASSUME created.ok
        PROVE  GoodTasks(run[c], created.disk, <<task>>)
    <3>1. DOMAIN disk.data \subseteq DOMAIN created.disk.data
          /\ DOMAIN created.disk.data \subseteq Nat
      <4>1. Len(disk.data) \in Nat /\ DOMAIN disk.data = 1 .. Len(disk.data)
        BY <1>2, LengthOfData
      <4>2. IsDisk(created.disk) /\ Len(disk.data) <= Len(created.disk.data)
        BY <2>2 DEF Follows
      <4>3. /\ Len(created.disk.data) \in Nat
            /\ DOMAIN created.disk.data = 1 .. Len(created.disk.data)
        BY <4>2, LengthOfData
      <4> QED BY <4>1, <4>2, <4>3
    <3>2. source.file \in Nat /\ created.file \in Nat
      BY <2>2, <2>3, <2>4, <3>1
    <3>3. /\ task \in Tasks /\ task.do = "fill"
          /\ task.in = source.file /\ task.out = created.file
      BY <1>2, <3>2 DEF Tasks, Dos, CopyDos
    <3> HIDE DEF task
    <3>4. task.out \in DOMAIN created.disk.data /\ task.in \in {0} \cup DOMAIN created.disk.data
      BY <2>2, <2>3, <2>4, <3>1, <3>3
    <3>5. run[c].todo[1].do = "open"
      BY <1>1, TaskInHand
    <3> QED BY <3>3, <3>4, <3>5, OneTask DEF CopyDos, Namers
  <2> HIDE DEF task
  <2> QED BY <1>2, <2>1, <2>2, <2>4, ContinueOrFailIsStep
<1> QED BY <1>3, <1>4

\* The contents a step writes.
LEMMA OfContent ==
  ASSUME now \in Nat, NEW text \in Seq(Texts)
  PROVE  [content |-> text, time |-> now] \in Content
BY DEF Content

LEMMA Written ==
  ASSUME NEW d, IsDisk(d), NEW f \in DOMAIN d.data
  PROVE  d.data[f].content \in Seq(Texts)
<1>1. d.data[f] \in Content
  BY LengthOfData
<1> QED BY <1>1 DEF Content

LEMMA FillIsStep ==
  ASSUME DiskInv, NEW c \in Callers, Fill(c)
  PROVE  /\ StepOf(c)
         /\ \A g \in DOMAIN disk.data : g # Now(c).out => disk'.data[g] = disk.data[g]
<1>1. Doing(c, "fill")
  BY DEF Fill
<1>2. /\ run[c].pc = "busy" /\ run[c].todo # <<>> /\ IsDisk(disk) /\ now \in Nat
      /\ Now(c).out \in DOMAIN disk.data /\ Now(c).in \in {0} \cup DOMAIN disk.data
  BY <1>1, TaskInHand, CallOf
<1>3. CASE Now(c).in = 0
  <2>1. Return(c, disk, "error")
    BY <1>3 DEF Fill
  <2>2. disk' = disk
    BY <2>1 DEF Return
  <2> QED BY <1>2, <2>1, <2>2, SameAllowed, ReturnIsStep
<1>4. CASE Now(c).in # 0
  <2> DEFINE new == [content |-> disk.data[Now(c).in].content, time |-> now]
             d == [disk EXCEPT !.data[Now(c).out] = new]
  <2>1. Continue(c, d, <<>>)
    BY <1>4 DEF Fill
  <2>2. new \in Content
    BY <1>2, <1>4, Written, OfContent
  <2> HIDE DEF new
  <2>3. /\ Follows(disk, d) /\ Quiet(disk, d)
        /\ \A g : g # Now(c).out /\ g \in DOMAIN disk.data => d.data[g] = disk.data[g]
    BY <1>2, <2>2, RefilledFollows
  <2> HIDE DEF d
  <2>4. disk' = d
    BY <2>1 DEF Continue
  <2>5. Allowed(c, d)
    BY <1>1, <2>3 DEF Allowed
  <2> QED BY <1>2, <2>1, <2>3, <2>4, <2>5, NoTasks, ContinueIsStep
<1> QED BY <1>3, <1>4

LEMMA MkdirIsStep ==
  ASSUME DiskInv, NEW c \in Callers, Mkdir(c)
  PROVE  StepOf(c)
<1> DEFINE result == MkdirAll(disk, Now(c).src)
<1>1. Doing(c, "mkdir") /\ ContinueOrFail(c, result, <<>>)
  BY DEF Mkdir
<1>2. run[c].pc = "busy" /\ run[c].todo # <<>> /\ Now(c).src \in Path /\ IsDisk(disk)
  BY <1>1, TaskInHand, CallOf
<1>3. Follows(disk, result.disk) /\ Allowed(c, result.disk)
  BY <1>2, MadeFollows DEF Allowed
<1> HIDE DEF result
<1> QED BY <1>1, <1>2, <1>3, NoTasks, ContinueOrFailIsStep

LEMMA RenameIsStep ==
  ASSUME DiskInv, NEW c \in Callers, Rename(c)
  PROVE  StepOf(c)
<1> DEFINE result == RenameOs(disk, Now(c).src, Now(c).dst)
<1>1. Doing(c, "rename") /\ ContinueOrFail(c, result, <<>>)
  BY DEF Rename
<1>2. /\ run[c].pc = "busy" /\ run[c].todo # <<>> /\ Now(c).src \in Path /\ Now(c).dst \in Path
      /\ IsDisk(disk) /\ run[c].op.op \in Namers
  BY <1>1, TaskInHand, CallOf DEF Namers
<1>3. Follows(disk, result.disk) /\ Allowed(c, result.disk)
  BY <1>2, RenamedFollows DEF Allowed
<1> HIDE DEF result
<1> QED BY <1>1, <1>2, <1>3, NoTasks, ContinueOrFailIsStep

LEMMA CreateHardLinkIsStep ==
  ASSUME DiskInv, NEW c \in Callers, CreateHardLink(c)
  PROVE  StepOf(c)
<1> DEFINE result == HardLink(disk, Now(c).src, Now(c).dst)
<1>1. Doing(c, "hardlink") /\ ContinueOrFail(c, result, <<>>)
  BY DEF CreateHardLink
<1>2. /\ run[c].pc = "busy" /\ run[c].todo # <<>> /\ Now(c).src \in Path /\ Now(c).dst \in Path
      /\ IsDisk(disk) /\ run[c].op.op \in Namers
  BY <1>1, TaskInHand, CallOf DEF Namers
<1>3. Follows(disk, result.disk) /\ Allowed(c, result.disk)
  BY <1>2, HardLinkedFollows DEF Allowed
<1> HIDE DEF result
<1> QED BY <1>1, <1>2, <1>3, NoTasks, ContinueOrFailIsStep

LEMMA CreateSymlinkIsStep ==
  ASSUME DiskInv, NEW c \in Callers, CreateSymlink(c)
  PROVE  StepOf(c)
<1> DEFINE result == Symlink(disk, Now(c).src, Now(c).dst)
<1>1. Doing(c, "symlink") /\ ContinueOrFail(c, result, <<>>)
  BY DEF CreateSymlink
<1>2. /\ run[c].pc = "busy" /\ run[c].todo # <<>> /\ Now(c).src \in Path /\ Now(c).dst \in Path
      /\ IsDisk(disk) /\ run[c].op.op \in Namers
  BY <1>1, TaskInHand, CallOf DEF Namers
<1>3. Follows(disk, result.disk) /\ Allowed(c, result.disk)
  BY <1>2, LinkedFollows DEF Allowed
<1> HIDE DEF result
<1> QED BY <1>1, <1>2, <1>3, NoTasks, ContinueOrFailIsStep

LEMMA ResizedIsContent ==
  ASSUME NEW content \in Seq(Texts), NEW size \in Nat
  PROVE  Resized(content, size) \in Seq(Texts)
<1>1. "zeros" \in Texts
  BY TextsAssumption
<1>2. ASSUME NEW i \in 1 .. size
      PROVE  (IF i <= Len(content) THEN content[i] ELSE "zeros") \in Texts
  BY <1>1
<1>3. Resized(content, size) \in [1 .. size -> Texts]
  BY <1>2 DEF Resized
<1> QED BY <1>3

LEMMA ResizeFileIsStep ==
  ASSUME DiskInv, NEW c \in Callers, ResizeFile(c)
  PROVE  StepOf(c)
<1> DEFINE f == Stat(disk, Now(c).src).file
           New(size) == [content |-> Resized(disk.data[f].content, size), time |-> now]
<1>1. Doing(c, "resize")
  BY DEF ResizeFile
<1>2. /\ run[c].pc = "busy" /\ run[c].todo # <<>> /\ IsDisk(disk) /\ now \in Nat
      /\ run[c].op.op # "copy"
  <2>1. "resize" \notin CopyDos
    BY DEF CopyDos
  <2> QED BY <1>1, <2>1, TaskInHand, CallOf
<1>3. PICK size \in Sizes :
        \/ Return(c, disk, "error")
        \/ /\ Stat(disk, Now(c).src).type = "file" /\ ~ (size < 0)
           /\ Continue(c, [disk EXCEPT !.data[f] =
                    [content |-> Resized(@.content, size), time |-> now]], <<>>)
  BY DEF ResizeFile
<1>4. CASE Return(c, disk, "error")
  BY <1>2, <1>4, SameAllowed, ReturnIsStep
<1>5. ASSUME Stat(disk, Now(c).src).type = "file", ~ (size < 0),
             Continue(c, [disk EXCEPT !.data[f] =
                    [content |-> Resized(@.content, size), time |-> now]], <<>>)
      PROVE  StepOf(c)
  <2> DEFINE new == New(size)
             d == [disk EXCEPT !.data[f] = new]
  <2>1. f \in DOMAIN disk.data /\ size \in Nat
    <3>1. size \in Int
      BY TextsAssumption
    <3>2. size \in Nat
      BY <1>5, <3>1
    <3> QED BY <1>2, <1>5, <3>2, Stats
  <2> HIDE DEF f
  <2>2. Continue(c, d, <<>>)
    BY <1>5
  <2>3. new \in Content
    BY <1>2, <2>1, Written, ResizedIsContent, OfContent
  <2> HIDE DEF new
  <2>4. Follows(disk, d) /\ Allowed(c, d)
    BY <1>2, <2>1, <2>3, RefilledFollows DEF Allowed
  <2> HIDE DEF d
  <2> QED BY <1>2, <2>2, <2>4, NoTasks, ContinueIsStep
<1> QED BY <1>3, <1>4, <1>5

LEMMA RemoveOneIsStep ==
  ASSUME DiskInv, NEW c \in Callers, RemoveOne(c)
  PROVE  StepOf(c)
<1> DEFINE result == RemoveOs(disk, Now(c).src)
<1>1. /\ Doing(c, "remove")
      /\ \/ Continue(c, disk, <<>>) \/ Return(c, disk, "error")
         \/ ContinueOrFail(c, result, <<>>)
  BY DEF RemoveOne
<1>2. run[c].pc = "busy" /\ run[c].todo # <<>> /\ Now(c).src \in Path /\ IsDisk(disk)
  BY <1>1, TaskInHand, CallOf
<1>3. Follows(disk, result.disk) /\ Allowed(c, result.disk)
  BY <1>2, RemovedFollows DEF Allowed
<1> HIDE DEF result
<1>4. CASE Continue(c, disk, <<>>)
  BY <1>2, <1>4, SameAllowed, NoTasks, ContinueIsStep
<1>5. CASE Return(c, disk, "error")
  BY <1>2, <1>5, SameAllowed, ReturnIsStep
<1>6. CASE ContinueOrFail(c, result, <<>>)
  BY <1>2, <1>3, <1>6, NoTasks, ContinueOrFailIsStep
<1> QED BY <1>1, <1>4, <1>5, <1>6

LEMMA RemoveAllIsStep ==
  ASSUME DiskInv, NEW c \in Callers, RemoveAll(c)
  PROVE  StepOf(c)
<1> DEFINE first == [Now(c) EXCEPT !.do = "visit"]
           second == [Now(c) EXCEPT !.do = "unlink"]
           tasks == <<first, second>>
<1>1. Doing(c, "removeAll") /\ Continue(c, disk, tasks)
  BY DEF RemoveAll
<1>2. run[c].pc = "busy" /\ run[c].todo # <<>> /\ Now(c) \in Tasks /\ run[c].op.op # "copy"
  <2>1. "removeAll" \notin CopyDos
    BY DEF CopyDos
  <2> QED BY <1>1, <2>1, TaskInHand
<1>3. first \in Tasks /\ first.do = "visit" /\ second \in Tasks /\ second.do = "unlink"
  BY <1>2 DEF Tasks, Dos
<1> HIDE DEF first, second
<1>4. /\ tasks \in Seq(Tasks) /\ DOMAIN tasks = {1, 2} /\ tasks # <<>>
      /\ tasks[1] = first /\ tasks[2] = second
  BY <1>3
<1> HIDE DEF tasks
<1>5. GoodTasks(run[c], disk, tasks)
  BY <1>2, <1>3, <1>4 DEF GoodTasks, Later, Namers
<1> QED BY <1>1, <1>2, <1>5, SameAllowed, ContinueIsStep

LEMMA VisitIsStep ==
  ASSUME DiskInv, NEW c \in Callers, Visit(c)
  PROVE  StepOf(c)
<1> DEFINE src == Now(c).src
           task == Task("walk", src, src)
<1>1. Doing(c, "visit")
  BY DEF Visit
<1>2. run[c].pc = "busy" /\ run[c].todo # <<>> /\ src \in Path /\ run[c].op.op # "copy"
  <2>1. "visit" \notin CopyDos
    BY DEF CopyDos
  <2> QED BY <1>1, <2>1, TaskInHand
<1>3. ASSUME NEW notExist, GiveUp(c, disk, notExist)
      PROVE  StepOf(c)
  BY <1>2, <1>3, SameAllowed, GiveUpIsStep
<1>4. CASE Continue(c, disk, <<task>>)
  <2>1. task \in Tasks /\ task.do = "walk"
    <3>1. "walk" \in Dos
      BY DEF Dos
    <3> HIDE DEF src
    <3> QED BY <1>2, <3>1, NewTask
  <2> HIDE DEF task
  <2>2. GoodTasks(run[c], disk, <<task>>)
    BY <1>2, <2>1, OneTask DEF Namers
  <2> QED BY <1>2, <1>4, <2>2, SameAllowed, ContinueIsStep
<1>5. CASE Count(c, <<>>)
  BY <1>2, <1>5, NoTasks, CountIsStep
<1>6. \/ GiveUp(c, disk, NotExist(disk, src, RealLink(disk, src)))
      \/ Continue(c, disk, <<task>>) \/ Count(c, <<>>)
  BY DEF Visit
<1> QED BY <1>3, <1>4, <1>5, <1>6

\* The tasks a walk makes of the entries of a directory.
WalkTasks(d, src) ==
    LET names == Listed(d, src) IN
    [i \in DOMAIN names |-> Task("visit", Append(src, names[i]), Append(src, names[i]))]

LEMMA TasksOfWalk ==
  ASSUME NEW d, NEW src \in Path
  PROVE  /\ WalkTasks(d, src) \in Seq(Tasks) /\ Len(WalkTasks(d, src)) = Len(Listed(d, src))
         /\ Len(Listed(d, src)) \in Nat
         /\ DOMAIN WalkTasks(d, src) = 1 .. Len(Listed(d, src))
         /\ \A i \in DOMAIN WalkTasks(d, src) :
              /\ WalkTasks(d, src)[i].do = "visit" /\ Listed(d, src)[i] \in Name
              /\ WalkTasks(d, src)[i].src = Append(src, Listed(d, src)[i])
<1> DEFINE names == Listed(d, src)
           T(i) == Task("visit", Append(src, names[i]), Append(src, names[i]))
           tasks == [i \in DOMAIN names |-> T(i)]
<1>1. names \in Seq(Name)
  BY ListedNames
<1>2. WalkTasks(d, src) = tasks
  BY DEF WalkTasks
<1> HIDE DEF names
<1>3. Len(names) \in Nat /\ DOMAIN names = 1 .. Len(names) /\ \A i \in DOMAIN names : names[i] \in Name
  BY <1>1
<1>4. ASSUME NEW i \in DOMAIN names
      PROVE  T(i) \in Tasks /\ T(i).do = "visit" /\ T(i).src = Append(src, names[i])
  <2>1. Append(src, names[i]) \in Path
    BY <1>3, AppendedPath DEF Path
  <2>2. "visit" \in Dos
    BY DEF Dos
  <2> QED BY <2>1, <2>2, NewTask DEF Task
<1> HIDE DEF T
<1>5. tasks \in [1 .. Len(names) -> Tasks] /\ \A i \in DOMAIN names : tasks[i] = T(i)
  BY <1>3, <1>4
<1>6. tasks \in Seq(Tasks) /\ Len(tasks) = Len(names) /\ DOMAIN tasks = 1 .. Len(names)
  BY <1>3, <1>5
<1> HIDE DEF tasks
<1>7. \A i \in DOMAIN tasks :
        tasks[i].do = "visit" /\ names[i] \in Name /\ tasks[i].src = Append(src, names[i])
  BY <1>3, <1>4, <1>5, <1>6
<1> QED BY <1>2, <1>3, <1>6, <1>7 DEF names

LEMMA WalkCases ==
  ASSUME NEW c \in Callers, Walk(c)
  PROVE  \/ /\ Stat(disk, Now(c).src).type # "dir"
            /\ GiveUp(c, disk, NotExist(disk, Now(c).src, Real(disk, Now(c).src)))
         \/ Stat(disk, Now(c).src).type = "dir" /\ Count(c, WalkTasks(disk, Now(c).src))
BY DEF Walk, WalkTasks

LEMMA WalkIsStep ==
  ASSUME DiskInv, NEW c \in Callers, Walk(c)
  PROVE  StepOf(c)
<1> DEFINE tasks == WalkTasks(disk, Now(c).src)
<1>1. Doing(c, "walk")
  BY DEF Walk
<1>2. run[c].pc = "busy" /\ run[c].todo # <<>> /\ Now(c).src \in Path /\ run[c].op.op # "copy"
  <2>1. "walk" \notin CopyDos
    BY DEF CopyDos
  <2> QED BY <1>1, <2>1, TaskInHand
<1>3. ASSUME NEW notExist, GiveUp(c, disk, notExist)
      PROVE  StepOf(c)
  BY <1>2, <1>3, SameAllowed, GiveUpIsStep
<1>4. CASE Count(c, tasks)
  <2>1. tasks \in Seq(Tasks) /\ \A i \in DOMAIN tasks : tasks[i].do = "visit"
    BY <1>2, TasksOfWalk
  <2> HIDE DEF tasks
  <2>2. tasks # <<>> => 1 \in DOMAIN tasks
    BY <2>1
  <2>3. GoodTasks(run[c], disk, tasks)
    BY <1>2, <2>1, <2>2 DEF GoodTasks, Later, Namers
  <2> QED BY <1>2, <1>4, <2>3, CountIsStep
<1> QED BY <1>3, <1>4, WalkCases

LEMMA UnlinkIsStep ==
  ASSUME DiskInv, NEW c \in Callers, Unlink(c)
  PROVE  StepOf(c)
<1> DEFINE below == Below(disk, RealLink(disk, Now(c).src))
<1>1. /\ Doing(c, "unlink")
      /\ \/ Continue(c, Without(disk, below), <<>>)
         \/ \E gone \in SUBSET below : IsClosed(disk, gone) /\ GiveUp(c, Without(disk, gone), FALSE)
  BY DEF Unlink
<1>2. run[c].pc = "busy" /\ run[c].todo # <<>> /\ Now(c).src \in Path /\ IsDisk(disk)
  BY <1>1, TaskInHand, CallOf
<1>3. below \in SUBSET Path /\ IsClosed(disk, below)
  BY <1>2, RealLinkIsPath, BelowIsClosed
<1> HIDE DEF below
<1>4. \A gone \in SUBSET below :
        IsClosed(disk, gone) => Follows(disk, Without(disk, gone)) /\ Allowed(c, Without(disk, gone))
  BY <1>2, <1>3, ClosedFollows DEF Allowed
<1>5. CASE Continue(c, Without(disk, below), <<>>)
  BY <1>2, <1>3, <1>4, <1>5, NoTasks, ContinueIsStep
<1>6. ASSUME NEW gone \in SUBSET below, IsClosed(disk, gone), GiveUp(c, Without(disk, gone), FALSE)
      PROVE  StepOf(c)
  BY <1>2, <1>4, <1>6, GiveUpIsStep
<1> QED BY <1>1, <1>5, <1>6

LEMMA ReadIsStep ==
  ASSUME DiskInv, NEW c \in Callers, Read(c)
  PROVE  StepOf(c)
<1>1. Doing(c, "read") /\ (Continue(c, disk, <<>>) \/ Return(c, disk, "error"))
  BY DEF Read
<1>2. run[c].pc = "busy" /\ run[c].todo # <<>> /\ IsDisk(disk)
  BY <1>1, TaskInHand, CallOf
<1>4. CASE Continue(c, disk, <<>>)
  BY <1>2, <1>4, SameAllowed, NoTasks, ContinueIsStep
<1>5. CASE Return(c, disk, "error")
  BY <1>2, <1>5, SameAllowed, ReturnIsStep
<1> QED BY <1>1, <1>4, <1>5

LEMMA WriteIsStep ==
  ASSUME DiskInv, NEW c \in Callers, Write(c)
  PROVE  StepOf(c)
<1> DEFINE opened == OpenForWriting(disk, Now(c).src, TRUE)
           task == [Now(c) EXCEPT !.do = "put", !.out = opened.file]
<1>1. Doing(c, "write") /\ ContinueOrFail(c, opened, <<task>>)
  BY DEF Write
<1>2. /\ run[c].pc = "busy" /\ run[c].todo # <<>> /\ Now(c) \in Tasks /\ Now(c).src \in Path
      /\ IsDisk(disk) /\ now \in Nat /\ run[c].op.op # "copy"
  <2>1. "write" \notin CopyDos
    BY DEF CopyDos
  <2> QED BY <1>1, <2>1, TaskInHand, CallOf
<1>3. /\ Follows(disk, opened.disk) /\ Allowed(c, opened.disk)
      /\ opened.ok => opened.file \in DOMAIN opened.disk.data
  BY <1>2, OpenedFollows DEF Allowed
<1> HIDE DEF opened
<1>4. ASSUME opened.ok
      PROVE  GoodTasks(run[c], opened.disk, <<task>>)
  <2>1. opened.file \in Nat
    <3>1. IsDisk(opened.disk)
      BY <1>3 DEF Follows
    <3> QED BY <1>3, <1>4, <3>1, LengthOfData
  <2>2. task \in Tasks /\ task.do = "put" /\ task.out = opened.file
    BY <1>2, <2>1 DEF Tasks, Dos
  <2> HIDE DEF task
  <2> QED BY <1>2, <1>3, <1>4, <2>2, OneTask DEF Namers
<1> HIDE DEF task
<1> QED BY <1>1, <1>2, <1>3, <1>4, ContinueOrFailIsStep

LEMMA PutContentIsStep ==
  ASSUME DiskInv, NEW c \in Callers, PutContent(c)
  PROVE  StepOf(c)
<1> DEFINE new == [content |-> <<"new">>, time |-> now]
           d == [disk EXCEPT !.data[Now(c).out] = new]
<1>1. Doing(c, "put") /\ Continue(c, d, <<>>)
  BY DEF PutContent
<1>2. /\ run[c].pc = "busy" /\ run[c].todo # <<>> /\ IsDisk(disk) /\ now \in Nat
      /\ Now(c).out \in DOMAIN disk.data /\ run[c].op.op # "copy"
  <2>1. "put" \notin CopyDos
    BY DEF CopyDos
  <2> QED BY <1>1, <2>1, TaskInHand, CallOf
<1>3. new \in Content
  <2>1. <<"new">> \in Seq(Texts)
    BY TextsAssumption
  <2> QED BY <1>2, <2>1, OfContent
<1> HIDE DEF new
<1>4. Follows(disk, d) /\ Allowed(c, d)
  BY <1>2, <1>3, RefilledFollows DEF Allowed
<1> HIDE DEF d
<1> QED BY <1>1, <1>2, <1>4, NoTasks, ContinueIsStep

LEMMA FollowsOn ==
  ASSUME NEW d, IsDisk(d), NEW e, Follows(d, e), Quiet(d, e), NEW f, Follows(e, f), Quiet(e, f)
  PROVE  Follows(d, f) /\ Quiet(d, f)
<1>1. IsDisk(e) /\ IsDisk(f) /\ Len(d.data) <= Len(e.data) /\ Len(e.data) <= Len(f.data)
  BY DEF Follows
<1>2. /\ Len(d.data) \in Nat /\ Len(e.data) \in Nat /\ Len(f.data) \in Nat
      /\ DOMAIN d.data = 1 .. Len(d.data) /\ DOMAIN e.data = 1 .. Len(e.data)
  BY <1>1, LengthOfData
<1>3. Follows(d, f) /\ DOMAIN d.data \subseteq DOMAIN e.data
  BY <1>1, <1>2 DEF Follows
<1>4. Quiet(d, f)
  BY <1>3 DEF Quiet
<1> QED BY <1>3, <1>4

LEMMA AppendToIsStep ==
  ASSUME DiskInv, NEW c \in Callers, AppendTo(c)
  PROVE  StepOf(c)
<1> DEFINE opened == OpenForWriting(disk, Now(c).src, FALSE)
<1>1. Doing(c, "append")
  BY DEF AppendTo
<1>2. /\ run[c].pc = "busy" /\ run[c].todo # <<>> /\ Now(c).src \in Path
      /\ IsDisk(disk) /\ now \in Nat /\ run[c].op.op # "copy"
  <2>1. "append" \notin CopyDos
    BY DEF CopyDos
  <2> QED BY <1>1, <2>1, TaskInHand, CallOf
<1>3. CASE ~ opened.ok
  <2>1. Return(c, disk, "error")
    BY <1>3 DEF AppendTo
  <2> QED BY <1>2, <2>1, SameAllowed, ReturnIsStep
<1>4. CASE opened.ok
  <2> DEFINE e == opened.disk
             f == opened.file
             text == Append(e.data[f].content, "more")
             new == [content |-> text, time |-> now]
             d == [e EXCEPT !.data[f] = new]
  <2>1. Continue(c, [e EXCEPT !.data[f] = [content |-> Append(@.content, "more"), time |-> now]], <<>>)
    BY <1>4 DEF AppendTo
  <2>2. Follows(disk, e) /\ Quiet(disk, e) /\ f \in DOMAIN e.data
    BY <1>2, <1>4, OpenedFollows
  <2> HIDE DEF opened, e, f
  <2>3. Continue(c, d, <<>>)
    BY <2>1
  <2>4. IsDisk(e)
    BY <2>2 DEF Follows
  <2>5. text \in Seq(Texts)
    <3>1. e.data[f].content \in Seq(Texts)
      BY <2>2, <2>4, Written
    <3>2. "more" \in Texts
      BY TextsAssumption
    <3> QED BY <3>1, <3>2, AppendProperties
  <2> HIDE DEF text
  <2>6. new \in Content
    BY <1>2, <2>5, OfContent
  <2> HIDE DEF new
  <2>7. Follows(e, d) /\ Quiet(e, d)
    BY <2>2, <2>4, <2>6, RefilledFollows
  <2> HIDE DEF d
  <2>8. Follows(disk, d) /\ Quiet(disk, d)
    BY <1>2, <2>2, <2>7, FollowsOn
  <2>9. Allowed(c, d)
    BY <1>2, <2>8 DEF Allowed
  <2> QED BY <1>2, <2>3, <2>8, <2>9, NoTasks, ContinueIsStep
<1> QED BY <1>3, <1>4

LEMMA RaiseIsStep ==
  ASSUME DiskInv, NEW c \in Callers, Raise(c)
  PROVE  StepOf(c)
<1>1. run[c].pc = "busy" /\ Return(c, disk, "error")
  BY DEF Raise, Doing
<1> QED BY <1>1, CallOf, SameAllowed, ReturnIsStep

LEMMA FinishIsStep ==
  ASSUME DiskInv, NEW c \in Callers, Finish(c)
  PROVE  StepOf(c)
<1>1. run[c].pc = "busy" /\ Return(c, disk, "ok")
  BY DEF Finish
<1> QED BY <1>1, CallOf, SameAllowed, ReturnIsStep

LEMMA StepIsStepOf ==
  ASSUME DiskInv, NEW c \in Callers, Step(c)
  PROVE  StepOf(c)
BY CopyLinkIsStep, CopyIsStep, CopyDirIsStep, ListDirIsStep, EntryIsStep, CopyFileIsStep,
   LookIsStep, CompareIsStep, AgainstIsStep, OpenBothIsStep, FillIsStep, MkdirIsStep,
   RenameIsStep, CreateHardLinkIsStep, CreateSymlinkIsStep, ResizeFileIsStep,
   RemoveOneIsStep, RemoveAllIsStep, VisitIsStep, WalkIsStep, UnlinkIsStep, ReadIsStep, WriteIsStep, PutContentIsStep, AppendToIsStep, RaiseIsStep,
   FinishIsStep, Zenon DEF Step

-----------------------------------------------------------------------------
(* A call that begins *)

\* What the exports are asked for.
IsAsked(call, op) ==
    /\ op = [op |-> op.op, src |-> op.src, dst |-> op.dst, flags |-> op.flags]
    /\ op.op \in Ops /\ op.src = call.src /\ op.dst = call.dst

LEMMA AskedOp ==
  ASSUME NEW do \in Ops, NEW call, NEW flags
  PROVE  IsAsked(call, Op(do, call, flags))
BY DEF IsAsked, Op

LEMMA AskedByLua ==
  ASSUME NEW call
  PROVE  /\ call.fn \in Basic => IsAsked(call, LuaBasic(call))
         /\ call.fn \in Moves => IsAsked(call, LuaMoves(call))
         /\ IsAsked(call, LuaLinks(call)) /\ IsAsked(call, LuaCopy(call))
<1> DEFINE do == {"raises", "mkdir", "copy", "remove", "removeAll", "rename", "hardlink", "symlink",
                  "resize", "read", "write", "append"}
<1>1. \A x \in do : \A flags : IsAsked(call, Op(x, call, flags))
  BY AskedOp DEF Ops, Namers
<1>2. call.fn \in Basic => \E x \in do : \E flags : LuaBasic(call) = Op(x, call, flags)
  BY DEF LuaBasic, Basic, Raises
<1>3. call.fn \in Moves => \E x \in do : \E flags : LuaMoves(call) = Op(x, call, flags)
  BY DEF LuaMoves, Moves
<1>5. \E x \in do : \E flags : LuaLinks(call) = Op(x, call, flags)
  BY DEF LuaLinks
<1>4. \E x \in do : \E flags : LuaCopy(call) = Op(x, call, flags)
  BY DEF LuaCopy
<1> HIDE DEF do
<1> QED BY <1>1, <1>2, <1>3, <1>4, <1>5

LEMMA AskedByTengo ==
  ASSUME NEW call
  PROVE  /\ call.fn \in Basic => IsAsked(call, TengoBasic(call))
         /\ call.fn \in Moves => IsAsked(call, TengoMoves(call))
         /\ IsAsked(call, TengoLinks(call)) /\ IsAsked(call, TengoCopy(call))
<1> DEFINE do == {"raises", "mkdir", "copy", "remove", "removeAll", "rename", "hardlink", "symlink",
                  "resize", "read", "write", "append"}
<1>1. \A x \in do : \A flags : IsAsked(call, Op(x, call, flags))
  BY AskedOp DEF Ops, Namers
<1>2. call.fn \in Basic => \E x \in do : \E flags : TengoBasic(call) = Op(x, call, flags)
  BY DEF TengoBasic, Basic
<1>3. call.fn \in Moves => \E x \in do : \E flags : TengoMoves(call) = Op(x, call, flags)
  BY DEF TengoMoves, Moves
<1>5. \E x \in do : \E flags : TengoLinks(call) = Op(x, call, flags)
  BY DEF TengoLinks
<1>4. \E x \in do : \E flags : TengoCopy(call) = Op(x, call, flags)
  BY DEF TengoCopy
<1> HIDE DEF do
<1> QED BY <1>1, <1>2, <1>3, <1>4, <1>5

LEMMA AskedIsOp ==
  ASSUME NEW call
  PROVE  IsAsked(call, Asked(call))
BY AskedByLua, AskedByTengo DEF Asked

\* A call that has just begun, and one that has a new rival.
Begun(op, found, rivals) ==
    [Idle EXCEPT !.pc = "busy", !.op = op, !.found = found,
                 !.todo = <<Task(op.op, op.src, op.dst)>>, !.rivals = rivals]
Joined(r, op) == [r EXCEPT !.rivals = @ \cup {op}]

LEMMA BegunRun ==
  ASSUME NEW op, NEW found, NEW rivals, NEW q, q = Begun(op, found, rivals)
  PROVE  /\ HasRunFields(q) /\ q.pc = "busy" /\ q.op = op /\ q.found = found /\ q.count = 0
         /\ q.todo = <<Task(op.op, op.src, op.dst)>> /\ q.rivals = rivals
BY DEF HasRunFields, Begun, Idle

LEMMA JoinedRun ==
  ASSUME NEW r, HasRunFields(r), NEW op, NEW q, q = Joined(r, op)
  PROVE  /\ HasRunFields(q) /\ q.pc = r.pc /\ q.op = r.op /\ q.found = r.found /\ q.count = r.count
         /\ q.todo = r.todo /\ q.rivals = r.rivals \cup {op}
BY DEF HasRunFields, Joined

\* What a step does in which c begins a call.
BeginOf(c, op) ==
    /\ run[c].pc = "idle" /\ disk' = disk /\ now' = now + 1
    /\ run' = [e \in Callers |-> run'[e]]
    /\ \A e \in Callers : IsRun(run[e])' /\ OpenAreThere(run[e])'
    /\ run'[c].pc = "busy" /\ run'[c].op = op /\ run'[c].found = disk /\ run'[c].count = 0
    /\ run'[c].todo = <<Task(op.op, op.src, op.dst)>>
    /\ op.op \in Ops /\ op.src \in Path /\ op.dst \in Path
    /\ \A e \in Busy : run[e].op.op \in run'[c].rivals
    /\ \A e \in Callers \ {c} :
        /\ run'[e].pc = run[e].pc /\ run'[e].op = run[e].op /\ run'[e].found = run[e].found
        /\ run'[e].todo = run[e].todo /\ run'[e].count = run[e].count
        /\ run[e].rivals \subseteq run'[e].rivals
        /\ e \in Busy => op.op \in run'[e].rivals

LEMMA BeginIsBeginOf ==
  ASSUME DiskInv, NEW c \in Callers, NEW call \in Calls[c], Begin(c, call)
  PROVE  BeginOf(c, Asked(call))
<1> DEFINE op == Asked(call)
           rivals == {run[e].op.op : e \in Busy}
           q == run'[c]
           task == Task(op.op, op.src, op.dst)
<1>1. /\ run[c].pc = "idle" /\ disk' = disk /\ now' = now + 1
      /\ run' = [d \in Callers |->
            IF d = c THEN [Idle EXCEPT !.pc = "busy", !.op = op, !.found = disk,
                                       !.todo = <<task>>, !.rivals = rivals]
            ELSE IF d \in Busy THEN [run[d] EXCEPT !.rivals = @ \cup {op.op}] ELSE run[d]]
  BY DEF Begin
<1>2. IsAsked(call, op) /\ call.src \in Path /\ call.dst \in Path
  BY AskedIsOp, CallsAssumption
<1> HIDE DEF op, rivals
<1>3. /\ run' = [e \in Callers |-> run'[e]]
      /\ q = Begun(op, disk, rivals)
      /\ \A e \in Callers \ {c} : run'[e] = IF e \in Busy THEN Joined(run[e], op.op) ELSE run[e]
  BY <1>1 DEF Begun, Joined
<1>4. /\ HasRunFields(q) /\ q.pc = "busy" /\ q.op = op /\ q.found = disk /\ q.count = 0
      /\ q.todo = <<task>> /\ q.rivals = rivals
  <2> HIDE DEF q
  <2> QED BY <1>3, BegunRun
<1>5. IsRun(run[c])' /\ OpenAreThere(run[c])'
  <2> HIDE DEF q
  <2>1. task \in Tasks /\ task.do = op.op
    BY <1>2, NewTask DEF IsAsked, Dos
  <2>2. op.op \in Ops /\ op = [op |-> op.op, src |-> op.src, dst |-> op.dst, flags |-> op.flags]
    BY <1>2 DEF IsAsked
  <2> HIDE DEF task
  <2>3. IsTodo(q)
    BY <1>4, <2>1, <2>2 DEF IsTodo, CopyDos, Ops, Namers
  <2>4. /\ HasRunFields(q)
        /\ q.pc \in {"idle", "busy", "done"} /\ (q.pc = "idle" => q = Idle)
        /\ (q.pc # "idle" => IsDisk(q.found) /\ Len(q.found.data) <= Len(disk'.data))
    <3>1. IsDisk(disk) /\ Len(disk.data) <= Len(disk.data)
      BY CallOf, LengthOfData
    <3> QED BY <1>1, <1>4, <3>1
  <2>5. IsRun(run[c])'
    BY <1>4, <2>2, <2>3, <2>4 DEF IsRun, q
  <2>6. q.todo[1].do \notin {"fill", "put"}
    BY <1>4, <2>1, <2>2 DEF Ops, Namers
  <2> QED BY <2>5, <2>6 DEF OpenAreThere, q
<1>6. ASSUME NEW e \in Callers \ {c}
      PROVE  /\ IsRun(run[e])' /\ OpenAreThere(run[e])'
             /\ run'[e].pc = run[e].pc /\ run'[e].op = run[e].op /\ run'[e].found = run[e].found
             /\ run'[e].todo = run[e].todo /\ run'[e].count = run[e].count
             /\ run[e].rivals \subseteq run'[e].rivals
             /\ e \in Busy => op.op \in run'[e].rivals
  <2> DEFINE r == run[e]
             s == run'[e]
  <2>1. IsRun(r) /\ OpenAreThere(r) /\ IsTodo(r)
    BY CallOf
  <2>2. s = IF e \in Busy THEN Joined(r, op.op) ELSE r
    BY <1>3
  <2>3. e \in Busy => r.pc = "busy"
    BY DEF Busy
  <2> HIDE DEF r, s
  <2>4. CASE e \in Busy
    <3>1. /\ HasRunFields(s) /\ s.pc = r.pc /\ s.op = r.op /\ s.found = r.found
          /\ s.count = r.count /\ s.todo = r.todo /\ s.rivals = r.rivals \cup {op.op}
      BY <2>1, <2>2, <2>4, JoinedRun DEF IsRun
    <3>2. IsTodo(s)
      BY <2>1, <3>1 DEF IsTodo
    <3>3. IsRun(run[e])'
      BY <1>1, <2>1, <2>3, <2>4, <3>1, <3>2 DEF IsRun, s
    <3>4. OpenAreThere(run[e])'
      BY <1>1, <2>1, <3>1 DEF OpenAreThere, s
    <3> QED BY <3>1, <3>3, <3>4 DEF r, s
  <2>5. CASE e \notin Busy
    <3>1. s = r
      BY <2>2, <2>5
    <3>2. IsRun(run[e])'
      BY <1>1, <2>1, <3>1 DEF IsRun, IsTodo, s
    <3>3. OpenAreThere(run[e])'
      BY <1>1, <2>1, <3>1 DEF OpenAreThere, s
    <3> QED BY <2>5, <3>1, <3>2, <3>3 DEF r, s
  <2> QED BY <2>4, <2>5
<1>7. /\ op.op \in Ops /\ op.src \in Path /\ op.dst \in Path
      /\ \A e \in Busy : run[e].op.op \in q.rivals
  BY <1>2, <1>4 DEF IsAsked, rivals
<1>8. BeginOf(c, op)
  <2> HIDE DEF task
  <2> QED BY <1>1, <1>3, <1>4, <1>5, <1>6, <1>7 DEF BeginOf, q, task
<1> QED BY <1>8 DEF op

-----------------------------------------------------------------------------
(* The invariant *)

LEMMA InitDiskInv ==
  ASSUME Init
  PROVE  DiskInv
<1>1. IsDisk(disk)
  BY DisksAssumption DEF Init
<1>2. HasRunFields(Idle) /\ Idle.pc = "idle" /\ Idle.todo = <<>> /\ Idle.op.op = "none"
      /\ Idle.op = [op |-> Idle.op.op, src |-> Idle.op.src, dst |-> Idle.op.dst, flags |-> Idle.op.flags]
  BY DEF HasRunFields, Idle, Op
<1>3. \A c \in Callers : run[c] = Idle
  BY DEF Init
<1>4. IsRun(Idle) /\ OpenAreThere(Idle)
  <2>1. IsTodo(Idle)
    BY <1>2 DEF IsTodo
  <2> QED BY <1>2, <2>1 DEF IsRun, OpenAreThere, Ops
<1>5. Busy = {}
  BY <1>2, <1>3 DEF Busy
<1>6. run = [c \in Callers |-> run[c]] /\ now \in Nat
  BY DEF Init
<1> QED BY <1>1, <1>3, <1>4, <1>5, <1>6 DEF DiskInv, DiskStaysATree, RunsOk, AreRivals

LEMMA StepKeepsDiskInv ==
  ASSUME DiskInv, NEW c \in Callers, StepOf(c)
  PROVE  DiskInv'
<1>1. /\ run[c].pc = "busy" /\ run' = [e \in Callers |-> IF e = c THEN run'[c] ELSE run[e]]
      /\ now' = now /\ Follows(disk, disk')
      /\ IsRun(run[c])' /\ OpenAreThere(run[c])' /\ run'[c].pc \in {"busy", "done"}
      /\ run'[c].op = run[c].op /\ run'[c].rivals = run[c].rivals
  BY DEF StepOf
<1> DEFINE q == run'[c]
<1> HIDE DEF q
<1>2. run' = [e \in Callers |-> run'[e]] /\ \A e \in Callers \ {c} : run'[e] = run[e]
  <2>1. run' = [e \in Callers |-> IF e = c THEN q ELSE run[e]]
    BY <1>1 DEF q
  <2> QED BY <2>1
<1>3. IsDisk(disk') /\ Len(disk.data) <= Len(disk'.data)
  BY <1>1 DEF Follows
<1>4. /\ Len(disk.data) \in Nat /\ Len(disk'.data) \in Nat
      /\ DOMAIN disk.data \subseteq DOMAIN disk'.data
  <2>1. IsDisk(disk)
    BY CallOf
  <2>2. /\ Len(disk.data) \in Nat /\ DOMAIN disk.data = 1 .. Len(disk.data)
        /\ Len(disk'.data) \in Nat /\ DOMAIN disk'.data = 1 .. Len(disk'.data)
    BY <1>3, <2>1, LengthOfData
  <2> QED BY <1>3, <2>2
<1>5. ASSUME NEW e \in Callers \ {c}
      PROVE  IsRun(run[e])' /\ OpenAreThere(run[e])'
  <2> DEFINE r == run[e]
             s == run'[e]
  <2>1. IsRun(r) /\ OpenAreThere(r) /\ s = r
    BY <1>2, CallOf
  <2> HIDE DEF r, s
  <2>2. r.pc # "idle" => Len(r.found.data) <= Len(disk'.data)
    <3>1. ASSUME r.pc # "idle" PROVE Len(r.found.data) <= Len(disk'.data)
      <4>1. IsDisk(r.found) /\ Len(r.found.data) <= Len(disk.data)
        BY <2>1, <3>1 DEF IsRun
      <4>2. Len(r.found.data) \in Nat
        BY <4>1, LengthOfData
      <4> QED BY <1>3, <1>4, <4>1, <4>2
    <3> QED BY <3>1
  <2>3. IsRun(run[e])'
    BY <2>1, <2>2 DEF IsRun, IsTodo, s
  <2>4. OpenAreThere(run[e])'
    BY <1>4, <2>1 DEF OpenAreThere, s
  <2> QED BY <2>3, <2>4
<1>6. RunsOk'
  <2>1. now' \in Nat
    BY <1>1, CallOf
  <2>2. \A e \in Callers : IsRun(run[e])' /\ OpenAreThere(run[e])'
    BY <1>1, <1>5
  <2> QED BY <1>2, <2>1, <2>2 DEF RunsOk
<1>7. AreRivals'
  <2>1. c \in Busy /\ \A e \in Callers : run'[e].pc = "busy" => e \in Busy
    BY <1>1, <1>2 DEF Busy
  <2>2. \A e \in Callers : run'[e].op = run[e].op /\ run'[e].rivals = run[e].rivals
    BY <1>1, <1>2
  <2>3. \A e \in Busy : \A f \in Busy \ {e} : run[f].op.op \in run[e].rivals
    BY DEF DiskInv, AreRivals
  <2>4. Busy' \subseteq Busy /\ Busy \subseteq Callers
    BY <2>1 DEF Busy
  <2> QED BY <2>2, <2>3, <2>4 DEF AreRivals
<1> QED BY <1>3, <1>6, <1>7 DEF DiskInv, DiskStaysATree

LEMMA BeginKeepsDiskInv ==
  ASSUME DiskInv, NEW c \in Callers, NEW op, BeginOf(c, op)
  PROVE  DiskInv'
<1>1. DiskStaysATree'
  BY DEF BeginOf, DiskInv, DiskStaysATree
<1>2. RunsOk'
  BY CallOf DEF BeginOf, RunsOk
<1>3. AreRivals'
  <2>1. \A e \in Busy : \A f \in Busy \ {e} : run[f].op.op \in run[e].rivals
    BY DEF DiskInv, AreRivals
  <2>2. /\ run'[c].op = op /\ c \notin Busy
        /\ \A e \in Busy : run[e].op.op \in run'[c].rivals
        /\ \A e \in Callers \ {c} :
              /\ run'[e].pc = run[e].pc /\ run'[e].op = run[e].op
              /\ run[e].rivals \subseteq run'[e].rivals
              /\ e \in Busy => op.op \in run'[e].rivals
    BY DEF BeginOf, Busy
  <2>3. Busy' \subseteq Busy \cup {c} /\ Busy \subseteq Callers
    BY <2>2 DEF Busy
  <2> QED BY <2>1, <2>2, <2>3 DEF AreRivals
<1> QED BY <1>1, <1>2, <1>3 DEF DiskInv

LEMMA NextKeepsDiskInv ==
  ASSUME DiskInv, [Next]_vars
  PROVE  DiskInv'
<1>1. ASSUME NEW c \in Callers, Step(c) PROVE DiskInv'
  BY <1>1, StepIsStepOf, StepKeepsDiskInv
<1>2. ASSUME NEW c \in Callers, NEW call \in Calls[c], Begin(c, call) PROVE DiskInv'
  BY <1>2, BeginIsBeginOf, BeginKeepsDiskInv
<1>3. CASE UNCHANGED vars
  BY <1>3 DEF vars, DiskInv, DiskStaysATree, RunsOk, AreRivals, Busy, IsRun, IsTodo, OpenAreThere
<1> QED BY <1>1, <1>2, <1>3 DEF Next

LEMMA DiskInvariant == Spec => []DiskInv
<1>1. Init => DiskInv
  BY InitDiskInv
<1>2. DiskInv /\ [Next]_vars => DiskInv'
  BY NextKeepsDiskInv
<1> QED BY <1>1, <1>2, PTL DEF Spec

-----------------------------------------------------------------------------
(* A copy keeps the files it found *)

\* The action of a step, by the task in hand.
LEMMA ActionOf ==
  ASSUME NEW c \in Callers, Step(c)
  PROVE  /\ Doing(c, "look") => Look(c)
         /\ Doing(c, "open") => OpenBoth(c)
         /\ Doing(c, "fill") => Fill(c)
         /\ Doing(c, "removeAll") => RemoveAll(c)
         /\ Doing(c, "visit") => Visit(c)
         /\ Doing(c, "walk") => Walk(c)
         /\ Doing(c, "unlink") => Unlink(c)
         /\ run[c].todo = <<>> => Finish(c)
<1>1. /\ CopyLink(c) => Doing(c, "copy")
      /\ Copy(c) => Doing(c, "copy")
      /\ CopyDir(c) => Doing(c, "dir")
      /\ ListDir(c) => Doing(c, "list")
      /\ CopyFile(c) => Doing(c, "file")
      /\ Look(c) => Doing(c, "look")
  BY DEF CopyLink, Copy, CopyDir, ListDir, CopyFile, Look
<1>2. /\ Compare(c) => Doing(c, "compare")
      /\ Against(c) => Doing(c, "against")
      /\ OpenBoth(c) => Doing(c, "open")
      /\ Fill(c) => Doing(c, "fill")
      /\ Mkdir(c) => Doing(c, "mkdir")
      /\ Rename(c) => Doing(c, "rename")
  BY DEF Compare, Against, OpenBoth, Fill, Mkdir, Rename
<1>3. /\ CreateHardLink(c) => Doing(c, "hardlink")
      /\ CreateSymlink(c) => Doing(c, "symlink")
      /\ ResizeFile(c) => Doing(c, "resize")
      /\ RemoveOne(c) => Doing(c, "remove")
      /\ RemoveAll(c) => Doing(c, "removeAll")
      /\ Visit(c) => Doing(c, "visit")
      /\ Walk(c) => Doing(c, "walk")
      /\ Unlink(c) => Doing(c, "unlink")
  BY DEF CreateHardLink, CreateSymlink, ResizeFile, RemoveOne, RemoveAll, Visit, Walk, Unlink
<1>4. /\ Read(c) => Doing(c, "read")
      /\ Write(c) => Doing(c, "write")
      /\ PutContent(c) => Doing(c, "put")
      /\ AppendTo(c) => Doing(c, "append")
      /\ Raise(c) => Doing(c, "raises")
      /\ Entry(c) => Doing(c, "subdir") \/ Doing(c, "entry")
      /\ Finish(c) => run[c].todo = <<>>
  BY DEF Read, Write, PutContent, AppendTo, Raise, Entry, Finish
<1> DEFINE do == Head(run[c].todo).do
<1>5. \A x : Doing(c, x) => run[c].todo # <<>> /\ do = x
  BY DEF Doing
<1> HIDE DEF do
<1> QED BY <1>1, <1>2, <1>3, <1>4, <1>5 DEF Step

\* The task a step leaves in hand.
LEMMA NextTask ==
  ASSUME DiskInv, NEW c \in Callers, NEW d, NEW task, Doing(c, task.do) \/ run[c].todo # <<>>,
         Continue(c, d, <<task>>)
  PROVE  run'[c].todo # <<>> /\ Head(run'[c].todo) = task /\ disk' = d
<1>1. run = [e \in Callers |-> run[e]] /\ IsTodo(run[c])
  BY CallOf
<1>2. run[c].todo # <<>>
  BY DEF Doing
<1>3. HasRunFields(run[c])
  BY CallOf DEF IsRun
<1> DEFINE tail == Tail(run[c].todo)
<1>4. tail \in Seq(Tasks)
  BY <1>1, <1>2, TailOfTodo
<1>5. disk' = d /\ run'[c] = [run[c] EXCEPT !.todo = <<task>> \o tail]
  <2>1. disk' = d /\ run' = [run EXCEPT ![c].todo = <<task>> \o Tail(@)]
    BY DEF Continue
  <2> QED BY <1>1, <2>1
<1> HIDE DEF tail
<1>6. run'[c].todo = <<task>> \o tail
  BY <1>3, <1>5 DEF HasRunFields
<1>7. (<<task>> \o tail) # <<>> /\ Head(<<task>> \o tail) = task
  BY <1>4
<1> QED BY <1>5, <1>6, <1>7

\* A file that the disk has got since the call began was not found by it.
LEMMA NewFiles ==
  ASSUME DiskInv, NEW c \in Busy
  PROVE  /\ DOMAIN run[c].found.data \subseteq DOMAIN disk.data
         /\ Len(disk.data) + 1 \notin DOMAIN run[c].found.data
<1>1. IsDisk(disk) /\ IsDisk(run[c].found) /\ Len(run[c].found.data) <= Len(disk.data)
  BY CallOf DEF Busy
<1>2. /\ Len(disk.data) \in Nat /\ DOMAIN disk.data = 1 .. Len(disk.data)
      /\ Len(run[c].found.data) \in Nat /\ DOMAIN run[c].found.data = 1 .. Len(run[c].found.data)
  BY <1>1, LengthOfData
<1> QED BY <1>1, <1>2

\* What KeepInv says of one call.
Keeps(c) ==
    MustKeep(c) /\ run[c].todo # <<>> =>
        /\ Now(c).do = "open" /\ Stat(disk, Now(c).dst).type = "file"
             => Stat(disk, Now(c).dst).file \notin DOMAIN run[c].found.data
        /\ Now(c).do = "fill" => Now(c).out \notin DOMAIN run[c].found.data

LEMMA OpenedIsNotFound ==
  ASSUME DiskInv, KeepInv, NEW c \in Busy, MustKeep(c), Doing(c, "open"),
         OpenForWriting(disk, Now(c).dst, TRUE).ok
  PROVE  /\ OpenForWriting(disk, Now(c).dst, TRUE).file \notin DOMAIN run[c].found.data
         /\ \A g \in DOMAIN run[c].found.data :
                OpenForWriting(disk, Now(c).dst, TRUE).disk.data[g] = disk.data[g]
<1> DEFINE r == OpenForWriting(disk, Now(c).dst, TRUE)
<1>1. c \in Callers /\ Now(c).dst \in Path /\ IsDisk(disk) /\ now \in Nat
      /\ run[c].todo # <<>> /\ Now(c).do = "open"
  BY TaskInHand, CallOf DEF Busy
<1>2. /\ \/ Stat(disk, Now(c).dst).type = "file" /\ r.file = Stat(disk, Now(c).dst).file
         \/ r.file = Len(disk.data) + 1
      /\ \A g \in DOMAIN disk.data : g # r.file => r.disk.data[g] = disk.data[g]
  BY <1>1, OpenedFollows
<1> HIDE DEF r
<1>3. r.file \notin DOMAIN run[c].found.data
  BY <1>1, <1>2, NewFiles DEF KeepInv
<1>4. \A g \in DOMAIN run[c].found.data : r.disk.data[g] = disk.data[g]
  BY <1>2, <1>3, NewFiles
<1> QED BY <1>3, <1>4 DEF r

\* A step of the call itself leaves what it found alone.
LEMMA StepKeepsFiles ==
  ASSUME DiskInv, KeepInv, NEW c \in Callers, Step(c), MustKeep(c)
  PROVE  \A g \in DOMAIN run[c].found.data : disk'.data[g] = disk.data[g]
<1>1. StepOf(c)
  BY StepIsStepOf
<1>2. c \in Busy /\ Allowed(c, disk') /\ run[c].op.op = "copy"
  BY <1>1 DEF StepOf, Busy, MustKeep
<1>3. CASE Doing(c, "open")
  <2> DEFINE created == OpenForWriting(disk, Now(c).dst, TRUE)
  <2>1. OpenBoth(c) /\ IsDisk(disk) /\ Now(c).dst \in Path /\ now \in Nat
    BY <1>3, ActionOf, TaskInHand, CallOf
  <2>2. disk' = disk \/ disk' = created.disk
    BY <2>1 DEF OpenBoth, ContinueOrFail, Continue, Return
  <2>3. ~ created.ok => created.disk = disk
    BY <2>1, OpenedFollows
  <2>4. created.ok => \A g \in DOMAIN run[c].found.data : created.disk.data[g] = disk.data[g]
    BY <1>2, <1>3, OpenedIsNotFound
  <2> HIDE DEF created
  <2> QED BY <2>2, <2>3, <2>4
<1>4. CASE Doing(c, "fill")
  <2>1. \A g \in DOMAIN disk.data : g # Now(c).out => disk'.data[g] = disk.data[g]
    BY <1>4, ActionOf, FillIsStep
  <2>2. Now(c).out \notin DOMAIN run[c].found.data
    BY <1>2, <1>4, TaskInHand DEF KeepInv
  <2> QED BY <1>2, <2>1, <2>2, NewFiles
<1>5. CASE ~ Doing(c, "open") /\ ~ Doing(c, "fill")
  BY <1>2, <1>5 DEF Allowed
<1> QED BY <1>3, <1>4, <1>5

\* The calls' flags and rivals, after a step of one of them.
LEMMA StillMustKeep ==
  ASSUME DiskInv, NEW c \in Callers, StepOf(c), NEW e \in Callers, MustKeep(e)'
  PROVE  MustKeep(e)
<1>1. run' = [f \in Callers |-> IF f = c THEN run'[c] ELSE run[f]]
      /\ run'[c].op = run[c].op /\ run'[c].rivals = run[c].rivals
  BY DEF StepOf
<1>2. \A f \in Callers : run'[f].op = run[f].op /\ run'[f].rivals = run[f].rivals
  <2> DEFINE q == run'[c]
  <2> HIDE DEF q
  <2>1. run' = [f \in Callers |-> IF f = c THEN q ELSE run[f]] /\ q.op = run[c].op /\ q.rivals = run[c].rivals
    BY <1>1 DEF q
  <2> QED BY <2>1
<1>3. MustKeep(e)' <=>
        /\ run'[e].op.op = "copy"
        /\ {"overwrite_existing", "update_existing"} \cap run'[e].op.flags = {}
        /\ Namers \cap run'[e].rivals = {}
        /\ \A f \in Callers \ {e} : "copy_symlinks" \notin run'[f].op.flags
  BY DEF MustKeep, Flags
<1> QED BY <1>2, <1>3 DEF MustKeep, Flags

\* The call that makes a step: what it is to open is free, what it is to fill
\* is new.
LEMMA StepKeepsItself ==
  ASSUME DiskInv, KeepInv, NEW c \in Callers, Step(c)
  PROVE  Keeps(c)'
<1> SUFFICES ASSUME MustKeep(c)', run'[c].todo # <<>>
             PROVE  (/\ Now(c).do = "open" /\ Stat(disk, Now(c).dst).type = "file"
                          => Stat(disk, Now(c).dst).file \notin DOMAIN run[c].found.data
                     /\ Now(c).do = "fill" => Now(c).out \notin DOMAIN run[c].found.data)'
  BY DEF Keeps
<1>1. StepOf(c)
  BY StepIsStepOf
<1>2. MustKeep(c) /\ c \in Busy /\ run'[c].found = run[c].found /\ IsTodo(run'[c])
  BY <1>1, StillMustKeep DEF StepOf, Busy, IsRun
<1>3. Now(c)' = run'[c].todo[1]
  BY <1>2, TailOfTodo DEF Now
<1>4. CASE run'[c].todo[1].do = "open"
  <2>1. Doing(c, "look") /\ Look(c)
    <3>1. Doing(c, "look") \/ Doing(c, "against")
      BY <1>1, <1>4 DEF StepOf
    <3>2. ~ Doing(c, "against")
      BY <1>2, TaskInHand DEF MustKeep
    <3> QED BY <3>1, <3>2, ActionOf
  <2>2. ASSUME Continue(c, disk, <<>>) PROVE FALSE
    <3>1. GoodTasks(run[c], disk, <<>>) /\ IsTodo(run[c]) /\ run[c].todo # <<>>
          /\ run = [e \in Callers |-> run[e]] /\ HasRunFields(run[c])
      BY <2>1, NoTasks, CallOf, TaskInHand DEF IsRun
    <3> DEFINE t == <<>> \o Tail(run[c].todo)
    <3>2. t = <<>> \o Tail(run[c].todo)
      OBVIOUS
    <3> HIDE DEF t
    <3>5. t # <<>> => t[1].do # "open"
      <4>1. GoodTodo(run[c], <<>>, t)
        BY <3>1, <3>2, TodoAfter
      <4> QED BY <4>1 DEF GoodTodo, Later
    <3>3. run'[c] = [run[c] EXCEPT !.todo = t]
      <4>1. run' = [run EXCEPT ![c].todo = <<>> \o Tail(@)]
        BY <2>2 DEF Continue
      <4> QED BY <3>1, <4>1 DEF t
    <3>4. run'[c].todo = t
      BY <3>1, <3>3 DEF HasRunFields
    <3> QED BY <1>4, <3>4, <3>5
  <2>3. ASSUME Return(c, disk, "error") PROVE FALSE
    <3>1. run = [e \in Callers |-> run[e]] /\ HasRunFields(run[c])
      BY CallOf DEF IsRun
    <3>2. run'[c] = [run[c] EXCEPT !.pc = "done", !.todo = <<>>, !.answer = "error"]
      BY <2>3, <3>1 DEF Return
    <3>3. run'[c].todo = <<>>
      BY <3>1, <3>2 DEF HasRunFields
    <3> QED BY <3>3
  <2> DEFINE dst == Now(c).dst
             task == Task("open", Now(c).src, dst)
  <2>4. Continue(c, disk, <<task>>) /\ Stat(disk, dst).type = "missing"
    BY <1>2, <2>1, <2>2, <2>3, LookCases DEF MustKeep
  <2>5. task.dst = dst
    BY DEF Task
  <2> HIDE DEF task, dst
  <2>6. Continue(c, disk, <<task>>) /\ run[c].todo # <<>>
    BY <2>1, <2>4 DEF Doing
  <2>7. Now(c)' = task /\ disk' = disk
    BY <2>6, NextTask DEF Now
  <2>8. (Stat(disk, Now(c).dst).type)' = "missing"
    <3>1. Stat(disk', Now(c)'.dst) = Stat(disk, dst)
      BY <2>5, <2>7
    <3>2. Stat(disk, Now(c).dst)' = Stat(disk', Now(c)'.dst)
      OBVIOUS
    <3> QED BY <2>4, <3>1, <3>2
  <2> QED BY <1>3, <1>4, <2>8
<1>5. CASE run'[c].todo[1].do = "fill"
  <2> DEFINE source == Stat(disk, Now(c).src)
             created == OpenForWriting(disk, Now(c).dst, TRUE)
             task == [Now(c) EXCEPT !.do = "fill", !.in = source.file, !.out = created.file]
  <2>1. Doing(c, "open") /\ OpenBoth(c)
    BY <1>1, <1>5, ActionOf DEF StepOf
  <2>2. run[c].todo # <<>> /\ Now(c) \in Tasks
    BY <2>1, TaskInHand
  <2>3. task.out = created.file
    BY <2>2 DEF Tasks
  <2>4. \A d : ~ Return(c, d, "error")
    <3>1. SUFFICES ASSUME NEW d, Return(c, d, "error") PROVE FALSE
      OBVIOUS
    <3>2. run = [e \in Callers |-> run[e]] /\ HasRunFields(run[c])
      BY CallOf DEF IsRun
    <3>3. run'[c] = [run[c] EXCEPT !.pc = "done", !.todo = <<>>, !.answer = "error"]
      BY <3>1, <3>2 DEF Return
    <3>4. run'[c].todo = <<>>
      BY <3>2, <3>3 DEF HasRunFields
    <3> QED BY <3>4
  <2>5. created.ok /\ Continue(c, created.disk, <<task>>)
    BY <2>1, <2>4 DEF OpenBoth, ContinueOrFail
  <2>6. created.file \notin DOMAIN run[c].found.data
    BY <1>2, <2>1, <2>5, OpenedIsNotFound
  <2> HIDE DEF task, created
  <2>7. Now(c)' = task
    BY <2>2, <2>5, NextTask DEF Now
  <2> QED BY <1>2, <1>3, <1>5, <2>3, <2>6, <2>7
<1> QED BY <1>3, <1>4, <1>5

\* A step of another call: it gives no file another name and makes no links, so
\* a path leads where it led, or to a new file.
LEMMA StepKeepsOthers ==
  ASSUME DiskInv, KeepInv, NEW c \in Callers, Step(c), NEW e \in Busy \ {c}
  PROVE  Keeps(e)'
<1> SUFFICES ASSUME MustKeep(e)', run'[e].todo # <<>>
             PROVE  (/\ Now(e).do = "open" /\ Stat(disk, Now(e).dst).type = "file"
                          => Stat(disk, Now(e).dst).file \notin DOMAIN run[e].found.data
                     /\ Now(e).do = "fill" => Now(e).out \notin DOMAIN run[e].found.data)'
  BY DEF Keeps
<1>1. StepOf(c) /\ e \in Callers
  BY StepIsStepOf DEF Busy
<1>2. run'[e] = run[e] /\ c \in Busy /\ Allowed(c, disk')
  <2> DEFINE q == run'[c]
  <2> HIDE DEF q
  <2>1. run' = [f \in Callers |-> IF f = c THEN q ELSE run[f]] /\ run[c].pc = "busy"
        /\ Allowed(c, disk')
    BY <1>1 DEF StepOf, q
  <2> QED BY <1>1, <2>1 DEF Busy
<1>3. MustKeep(e)
  BY <1>1, StillMustKeep
<1>4. Quiet(disk, disk')
  <2>1. run[c].op.op \in run[e].rivals
    BY <1>2 DEF DiskInv, AreRivals
  <2>2. run[c].op.op \notin Namers /\ "copy_symlinks" \notin Flags(c)
    BY <1>3, <2>1 DEF MustKeep
  <2> QED BY <1>2, <2>2 DEF Allowed
<1> DEFINE r == run[e]
           task == Now(e)
<1>5. Now(e)' = task /\ run'[e].found = r.found /\ r.todo # <<>>
  BY <1>2 DEF Now
<1>6. /\ task.do = "open" /\ Stat(disk, task.dst).type = "file"
           => Stat(disk, task.dst).file \notin DOMAIN r.found.data
      /\ task.do = "fill" => task.out \notin DOMAIN r.found.data
  BY <1>3, <1>5 DEF KeepInv
<1>7. task.dst \in Path
  <2>1. Doing(e, task.do)
    BY <1>5 DEF Doing, Now, Busy
  <2> QED BY <1>1, <2>1, TaskInHand
<1>8. DOMAIN r.found.data \subseteq DOMAIN disk.data
  BY NewFiles
<1> HIDE DEF r, task
<1>9. task.do = "open" /\ Stat(disk', task.dst).type = "file"
         => Stat(disk', task.dst).file \notin DOMAIN r.found.data
  BY <1>4, <1>6, <1>7, <1>8 DEF Quiet
<1> QED BY <1>5, <1>6, <1>9

LEMMA StepKeepsKeepInv ==
  ASSUME DiskInv, KeepInv, NEW c \in Callers, Step(c)
  PROVE  KeepInv'
<1>1. StepOf(c)
  BY StepIsStepOf
<1>2. Busy' \subseteq Busy
  <2> DEFINE q == run'[c]
  <2> HIDE DEF q
  <2>1. run' = [f \in Callers |-> IF f = c THEN q ELSE run[f]] /\ run[c].pc = "busy"
    BY <1>1 DEF StepOf, q
  <2> QED BY <2>1 DEF Busy
<1>3. \A e \in Busy : Keeps(e)'
  BY StepKeepsItself, StepKeepsOthers DEF Busy
<1> QED BY <1>2, <1>3 DEF KeepInv, Keeps

\* A call that begins opens nothing, and makes no other call keep more.
LEMMA BeginKeepsKeepInv ==
  ASSUME DiskInv, KeepInv, NEW c \in Callers, NEW op, BeginOf(c, op)
  PROVE  KeepInv'
<1>1. /\ run[c].pc = "idle" /\ disk' = disk
      /\ run'[c].op = op /\ run'[c].todo = <<Task(op.op, op.src, op.dst)>> /\ op.op \in Ops
      /\ \A e \in Callers \ {c} :
            /\ run'[e].pc = run[e].pc /\ run'[e].op = run[e].op /\ run'[e].found = run[e].found
            /\ run'[e].todo = run[e].todo /\ run[e].rivals \subseteq run'[e].rivals
  BY DEF BeginOf
<1>2. Now(c)'.do \notin {"open", "fill"}
  <2> DEFINE task == Task(op.op, op.src, op.dst)
  <2>1. task.do = op.op
    BY DEF Task
  <2> HIDE DEF task
  <2>2. Now(c)' = task
    BY <1>1 DEF Now, task
  <2> QED BY <1>1, <2>1, <2>2 DEF Ops, Namers
<1>3. ASSUME NEW e \in Callers \ {c}, run'[e].pc = "busy"
      PROVE  Keeps(e)'
  <2>1. e \in Busy /\ run'[e].op = run[e].op /\ run'[e].found = run[e].found
        /\ run'[e].todo = run[e].todo /\ run[e].rivals \subseteq run'[e].rivals
    BY <1>1, <1>3 DEF Busy
  <2>2. Flags(c) = {}
    <3>1. run[c] = Idle
      BY <1>1, CallOf DEF IsRun
    <3> QED BY <3>1 DEF Flags, Idle, Op
  <2>3. ASSUME MustKeep(e)' PROVE MustKeep(e)
    <3>1. /\ run'[e].op.op = "copy"
          /\ {"overwrite_existing", "update_existing"} \cap run'[e].op.flags = {}
          /\ Namers \cap run'[e].rivals = {}
          /\ \A f \in Callers \ {e} : "copy_symlinks" \notin run'[f].op.flags
      BY <2>3 DEF MustKeep, Flags
    <3>2. ASSUME NEW f \in Callers \ {e} PROVE "copy_symlinks" \notin Flags(f)
      BY <1>1, <2>2, <3>1 DEF Flags
    <3> QED BY <2>1, <3>1, <3>2 DEF MustKeep, Flags
  <2>4. Now(e)' = Now(e)
    BY <2>1 DEF Now
  <2>5. Keeps(e)
    BY <2>1 DEF KeepInv, Keeps
  <2>6. Stat(disk, Now(e).dst)' = Stat(disk, Now(e).dst)
    <3>1. Stat(disk, Now(e).dst)' = Stat(disk', Now(e)'.dst)
      OBVIOUS
    <3> QED BY <1>1, <2>4, <3>1
  <2> QED BY <2>1, <2>3, <2>4, <2>5, <2>6 DEF Keeps
<1>4. Keeps(c)'
  BY <1>2 DEF Keeps
<1> QED BY <1>3, <1>4 DEF KeepInv, Keeps, Busy

LEMMA KeepInvariant == Spec => []KeepInv
<1>1. Init => KeepInv
  BY DEF Init, KeepInv, Busy, Idle
<1>2. DiskInv /\ KeepInv /\ [Next]_vars => KeepInv'
  <2> SUFFICES ASSUME DiskInv, KeepInv, [Next]_vars PROVE KeepInv'
    OBVIOUS
  <2>1. ASSUME NEW c \in Callers, Step(c) PROVE KeepInv'
    BY <2>1, StepKeepsKeepInv
  <2>2. ASSUME NEW c \in Callers, NEW call \in Calls[c], Begin(c, call) PROVE KeepInv'
    BY <2>2, BeginIsBeginOf, BeginKeepsKeepInv
  <2>3. CASE UNCHANGED vars
    <3>1. \A p : Stat(disk, p)' = Stat(disk, p')
      BY <2>3 DEF vars
    <3> QED BY <2>3 DEF vars, KeepInv, MustKeep, Now, Flags, Busy
  <2> QED BY <2>1, <2>2, <2>3 DEF Next
<1> QED BY <1>1, <1>2, DiskInvariant, PTL DEF Spec

\* A copy that was not told to overwrite or update changes no file it found,
\* on any file system, beside any number of handlers that copy, write, append,
\* resize, make and remove: none of these puts a file the copy found under the
\* name its destination leads to between copyFile's look there and os.Create.
\* A rename, a hard link, a symbolic link and a copy of one can, so the theorem
\* does not speak of a copy that has one of these beside it.
THEOREM CopiesKeepFiles == Spec => KeepsWhatItFound
<1>1. DiskInv /\ KeepInv /\ [Next]_vars
        => [\A c \in Callers :
              run[c].pc = "busy" /\ run'[c] # run[c] /\ MustKeep(c)
                  => \A file \in DOMAIN run[c].found.data : disk'.data[file] = disk.data[file]]_vars
  <2> SUFFICES ASSUME DiskInv, KeepInv, Next,
                      NEW c \in Callers, run[c].pc = "busy", run'[c] # run[c], MustKeep(c),
                      NEW file \in DOMAIN run[c].found.data
               PROVE  disk'.data[file] = disk.data[file]
    BY DEF vars
  <2>1. ASSUME NEW e \in Callers, Step(e) PROVE e = c
    <3> DEFINE q == run'[e]
    <3> HIDE DEF q
    <3>1. run' = [f \in Callers |-> IF f = e THEN q ELSE run[f]]
      BY <2>1, StepIsStepOf DEF StepOf, q
    <3> QED BY <3>1
  <2>2. ASSUME NEW e \in Callers, Step(e) PROVE disk'.data[file] = disk.data[file]
    <3>1. Step(c)
      BY <2>1, <2>2
    <3> QED BY <3>1, StepKeepsFiles
  <2>3. ASSUME NEW e \in Callers, NEW call \in Calls[e], Begin(e, call)
        PROVE  disk'.data[file] = disk.data[file]
    BY <2>3 DEF Begin
  <2> QED BY <2>2, <2>3 DEF Next
<1> QED BY <1>1, DiskInvariant, KeepInvariant, PTL DEF Spec, KeepsWhatItFound

-----------------------------------------------------------------------------
(* remove_all counts what it removes *)

LEMMA ContinuedRun ==
  ASSUME DiskInv, NEW c \in Callers, NEW d, NEW tasks, Continue(c, d, tasks)
  PROVE  /\ disk' = d /\ run'[c].pc = run[c].pc /\ run'[c].op = run[c].op
         /\ run'[c].todo = tasks \o Tail(run[c].todo) /\ run'[c].count = run[c].count
         /\ run'[c].found = run[c].found /\ run'[c].rivals = run[c].rivals
<1>1. HasRunFields(run[c]) /\ run = [e \in Callers |-> run[e]]
  BY CallOf DEF IsRun
<1> DEFINE t == tasks \o Tail(run[c].todo)
<1>2. disk' = d /\ run'[c] = [run[c] EXCEPT !.todo = t]
  <2>1. disk' = d /\ run' = [run EXCEPT ![c].todo = tasks \o Tail(@)]
    BY DEF Continue
  <2> QED BY <1>1, <2>1
<1> HIDE DEF t
<1>3. /\ run'[c].pc = run[c].pc /\ run'[c].op = run[c].op
      /\ run'[c].todo = t /\ run'[c].count = run[c].count
      /\ run'[c].found = run[c].found /\ run'[c].rivals = run[c].rivals
  BY <1>1, <1>2 DEF HasRunFields
<1> QED BY <1>2, <1>3 DEF t

LEMMA ReturnedRun ==
  ASSUME DiskInv, NEW c \in Callers, NEW d, NEW answer, Return(c, d, answer)
  PROVE  /\ disk' = d /\ run'[c].pc = "done" /\ run'[c].answer = answer
         /\ run'[c].count = run[c].count
<1>1. HasRunFields(run[c]) /\ run = [e \in Callers |-> run[e]]
  BY CallOf DEF IsRun
<1>2. disk' = d /\ run'[c] = [run[c] EXCEPT !.pc = "done", !.todo = <<>>, !.answer = answer]
  BY <1>1 DEF Return
<1> QED BY <1>1, <1>2 DEF HasRunFields

\* What os.RemoveAll leaves: nothing at its path, and the rest of the tree.
LEMMA UnlinkedIsMissing ==
  ASSUME NEW d, IsDisk(d), NEW p \in Path
  PROVE  LET R == Below(d, RealLink(d, p))
             e == Without(d, R) IN
         /\ R = DOMAIN d.tree \ DOMAIN e.tree
         /\ Lstat(e, p).type = "missing"
<1> DEFINE R == Below(d, RealLink(d, p))
           e == Without(d, R)
<1>1. RealLink(d, p) \in Path /\ R \in SUBSET Path /\ IsClosed(d, R)
  BY RealLinkIsPath, BelowIsClosed
<1>2. R \subseteq DOMAIN d.tree
  BY DEF Below
<1>3. RealLink(d, p) \in DOMAIN d.tree => RealLink(d, p) \in R
  BY <1>1, PathIsItsPrefix DEF Below, Path
<1> HIDE DEF R
<1>4. /\ IsDisk(e) /\ DOMAIN e.tree = DOMAIN d.tree \ R
      /\ \A q : NodeAt(e, q) = IF q \in R THEN Missing ELSE NodeAt(d, q)
  BY <1>1, RemovedDisk
<1> HIDE DEF e
<1>5. NodeAt(e, RealLink(e, p)).type = "missing" \/ RealLink(e, p) = RealLink(d, p)
  BY <1>4, RealAfterRemoval
<1>6. NodeAt(e, RealLink(d, p)).type = "missing"
  <2>1. RealLink(d, p) # <<>> /\ RealLink(d, p) \notin DOMAIN e.tree
    BY <1>1, <1>3, <1>4 DEF Path
  <2> QED BY <2>1 DEF NodeAt, Missing
<1>7. Lstat(e, p).type = "missing"
  BY <1>5, <1>6 DEF Lstat, Missing
<1> QED BY <1>2, <1>4, <1>7 DEF R, e

\* A directory is the entry itself and what is below its entries; anything else
\* is one entry.
LEMMA BelowDirectory ==
  ASSUME NEW d, IsDisk(d), NEW R \in Path, NEW p \in Below(d, R), p # R
  PROVE  /\ NodeAt(d, R).type = "dir"
         /\ \E x \in Name : Append(R, x) \in DOMAIN d.tree /\ p \in Below(d, Append(R, x))
<1> DEFINE n == Len(R)
           y == Upto(p, n + 1)
<1>1. p \in DOMAIN d.tree /\ p \in Seq(Name) /\ IsPrefix(R, p) /\ R \in Seq(Name)
  BY DEF Below, IsDisk, Path
<1>2. n \in 0 .. Len(p) - 1 /\ R = Upto(p, n) /\ Len(p) \in Nat
  BY <1>1, PrefixOfPath
<1>3. n + 1 \in 1 .. Len(p) /\ n + 1 \in 0 .. Len(p) /\ (n + 1) - 1 = n
  BY <1>2
<1>4. y \in Seq(Name) /\ Len(y) = n + 1 /\ Parent(y) = Upto(p, n) /\ IsPrefix(y, p)
  <2>1. Parent(y) = Upto(p, (n + 1) - 1)
    BY <1>1, <1>3, ParentOfUpto
  <2> QED BY <1>1, <1>3, <2>1, UptoIsPath, PathIsItsPrefix
<1>5. NodeAt(d, R).type = "dir"
  BY <1>1, <1>2, Ancestors
<1> HIDE DEF n
<1>6. y # <<>>
  BY <1>2, <1>4
<1>7. y \in DOMAIN d.tree
  <2>1. CASE n + 1 = Len(p)
    <3>1. y = p
      BY <1>1, <2>1, UptoAll
    <3> QED BY <1>1, <3>1
  <2>2. CASE n + 1 # Len(p)
    <3>1. n + 1 \in 0 .. Len(p) - 1
      BY <1>2, <1>3, <2>2
    <3>2. NodeAt(d, y).type = "dir"
      BY <1>1, <3>1, Ancestors
    <3> QED BY <1>6, <3>2, Nodes
  <2> QED BY <2>1, <2>2
<1> HIDE DEF y
<1>8. Last(y) \in Name /\ y = Append(R, Last(y))
  BY <1>2, <1>4, <1>6, ParentIsPath
<1>9. p \in Below(d, y)
  BY <1>1, <1>4 DEF Below
<1> QED BY <1>5, <1>7, <1>8, <1>9

LEMMA EntriesApart ==
  ASSUME NEW d, IsDisk(d), NEW R \in Path, NEW x \in Name
  PROVE  /\ Append(R, x) \in Path /\ IsPrefix(R, Append(R, x))
         /\ Below(d, Append(R, x)) \subseteq Below(d, R) /\ R \notin Below(d, Append(R, x))
         /\ \A y \in Name : x # y => Below(d, Append(R, x)) \cap Below(d, Append(R, y)) = {}
<1> DEFINE X == Append(R, x)
<1>1. R \in Seq(Name) /\ Len(R) \in Nat
  BY DEF Path
<1>2. \A y \in Name : Append(R, y) \in Path /\ Append(R, y) \in Seq(Name)
                      /\ Len(Append(R, y)) = Len(R) + 1 /\ Last(Append(R, y)) = y
  BY <1>1, AppendedPath DEF Path
<1>3. IsPrefix(R, X)
  <2>1. X # <<>> /\ Parent(X) = R /\ X \in Seq(Name)
    BY <1>1, AppendedPath
  <2> HIDE DEF X
  <2> QED BY <2>1, PathIsItsPrefix
<1>4. \A p \in DOMAIN d.tree : p \in Seq(Name)
  BY DEF IsDisk, Path
<1>5. ASSUME NEW p \in Below(d, X) PROVE p \in Below(d, R) /\ p # R
  <2>1. p \in DOMAIN d.tree /\ p \in Seq(Name) /\ IsPrefix(X, p)
    BY <1>4 DEF Below
  <2>2. IsPrefix(R, p) /\ Len(X) \in 0 .. Len(p) /\ Len(p) \in Nat
    BY <1>1, <1>2, <1>3, <2>1, PrefixOfPath
  <2>3. Len(p) # Len(R)
    BY <1>1, <1>2, <2>2
  <2> QED BY <2>1, <2>2, <2>3 DEF Below
<1>6. ASSUME NEW y \in Name, NEW p, p \in Below(d, X), p \in Below(d, Append(R, y))
      PROVE  x = y
  <2> DEFINE Y == Append(R, y)
  <2>1. p \in Seq(Name) /\ IsPrefix(X, p) /\ IsPrefix(Y, p)
    BY <1>4, <1>6 DEF Below
  <2>2. X \in Seq(Name) /\ Y \in Seq(Name) /\ Len(X) = Len(Y) /\ Last(X) = x /\ Last(Y) = y
    BY <1>2
  <2> HIDE DEF X, Y
  <2>3. X = Upto(p, Len(X)) /\ Y = Upto(p, Len(Y))
    BY <2>1, <2>2, PrefixOfPath
  <2> QED BY <2>2, <2>3
<1> QED BY <1>2, <1>3, <1>5, <1>6

\* What a walk takes for a directory is listed where it is.
LEMMA RealDirectory ==
  ASSUME NEW d, IsDisk(d), NEW src \in Path, Lstat(d, src).type = "dir"
  PROVE  /\ Real(d, src) = RealLink(d, src) /\ Stat(d, src).type = "dir"
         /\ RealLink(d, src) \in DOMAIN d.tree
<1> DEFINE p == Parent(src)
           x == Last(src)
<1>1. src = Append(p, x) /\ p \in Seq(Name) /\ x \in Name
  BY ParentIsPath DEF Path
<1>2. RealLink(d, src) = Append(Real(d, p), x) /\ RealLink(d, src) \in Path
  BY RealLinkIsPath DEF RealLink, Path
<1>3. ~ TooLong(src) /\ NodeAt(d, RealLink(d, src)).type = "dir"
  BY DEF Lstat, Missing
<1>4. Real(d, Append(p, x)) = Append(Real(d, p), x)
  BY <1>1, <1>2, <1>3, RealAppended
<1>5. Real(d, src) = RealLink(d, src)
  BY <1>1, <1>2, <1>4
<1>6. RealLink(d, src) \in DOMAIN d.tree
  BY <1>2, <1>3, Nodes DEF Path
<1> QED BY <1>3, <1>5, <1>6 DEF Stat

\* What a task of a walk comes to is below the root of the walk.
LEMMA SpanBelowRoot ==
  ASSUME NEW d, IsDisk(d), NEW r, NEW task \in Tasks, r.op.src \in Path, IsAhead(r, d, task)
  PROVE  Span(d, task) \subseteq Below(d, RealLink(d, r.op.src))
<1>1. /\ RealLink(d, r.op.src) \in Seq(Name) /\ RealLink(d, task.src) \in Seq(Name)
      /\ IsPrefix(RealLink(d, r.op.src), RealLink(d, task.src))
  BY RealLinkIsPath DEF IsAhead, Path, Tasks
<1>2. \A p \in DOMAIN d.tree : p \in Seq(Name)
  BY DEF IsDisk, Path
<1> QED BY <1>1, <1>2, PrefixOfPath DEF Span, Below

-----------------------------------------------------------------------------
(* A walk goes on *)

\* The tasks and X make up what the task in hand had to come to.
Covers(r, d, tasks, X) ==
    /\ tasks \in Seq(Tasks)
    /\ \A i \in 1 .. Len(tasks) : IsAhead(r, d, tasks[i])
    /\ \A i, j \in 1 .. Len(tasks) : i # j => Span(d, tasks[i]) \cap Span(d, tasks[j]) = {}
    /\ Span(d, r.todo[1]) = X \cup UNION {Span(d, tasks[i]) : i \in 1 .. Len(tasks)}
    /\ X \cap UNION {Span(d, tasks[i]) : i \in 1 .. Len(tasks)} = {}

\* The tasks then: those of the step, and those that were behind the one in hand.
IsAfter(u, tasks, t) ==
    LET m == Len(tasks)
        n == Len(t) IN
    /\ Len(u) = m + n - 1
    /\ \A i \in 1 .. m : u[i] = tasks[i]
    /\ \A i \in 2 .. n : u[m + i - 1] = t[i]
    /\ \A i \in 1 .. Len(u) - 1 : i \in 1 .. m \/ \E j \in 2 .. n - 1 : i = m + j - 1
    /\ \A i \in 1 .. m : i \in 1 .. Len(u) - 1
    /\ \A j \in 2 .. n - 1 : m + j - 1 \in 1 .. Len(u) - 1

LEMMA TasksAfter ==
  ASSUME NEW t \in Seq(Tasks), Len(t) > 1, NEW tasks \in Seq(Tasks),
         NEW u, u = tasks \o Tail(t)
  PROVE  IsAfter(u, tasks, t)
<1> DEFINE m == Len(tasks)
           n == Len(t)
           v == Tail(t)
<1>1. m \in Nat /\ n \in Nat /\ n > 1
  OBVIOUS
<1>2. v \in Seq(Tasks) /\ Len(v) = n - 1 /\ \A i \in 1 .. n - 1 : v[i] = t[i + 1]
  <2>1. t # <<>>
    OBVIOUS
  <2> QED BY <2>1, HeadTailProperties
<1> HIDE DEF v
<1>3. /\ Len(u) = m + (n - 1)
      /\ \A i \in 1 .. m + (n - 1) : u[i] = IF i <= m THEN tasks[i] ELSE v[i - m]
  <2>1. u = tasks \o v
    BY DEF v
  <2>2. /\ Len(tasks \o v) = Len(tasks) + Len(v)
        /\ \A i \in 1 .. Len(tasks) + Len(v) :
              (tasks \o v)[i] = IF i <= Len(tasks) THEN tasks[i] ELSE v[i - Len(tasks)]
    BY <1>2, ConcatProperties
  <2> QED BY <1>2, <2>1, <2>2
<1> HIDE DEF m, n
<1>4. \A i \in 1 .. m : u[i] = tasks[i]
  <2>1. \A i \in 1 .. m : i \in 1 .. m + (n - 1) /\ i <= m
    BY <1>1
  <2> QED BY <1>3, <2>1
<1>5. ASSUME NEW i \in 2 .. n PROVE u[m + i - 1] = t[i]
  <2> DEFINE k == m + i - 1
  <2>1. k \in 1 .. m + (n - 1) /\ ~ (k <= m) /\ k - m = i - 1 /\ i - 1 \in 1 .. n - 1 /\ (i - 1) + 1 = i
    BY <1>1
  <2>2. v[i - 1] = t[(i - 1) + 1]
    BY <1>2, <2>1
  <2>3. u[k] = v[k - m]
    <3> HIDE DEF k
    <3> QED BY <1>3, <2>1
  <2> HIDE DEF k
  <2>4. u[k] = t[i]
    BY <2>1, <2>2, <2>3
  <2> QED BY <2>4 DEF k
<1>6. Len(u) = m + n - 1
  BY <1>1, <1>3
<1>7. /\ \A i \in 1 .. Len(u) - 1 : i \in 1 .. m \/ \E j \in 2 .. n - 1 : i = m + j - 1
      /\ \A i \in 1 .. m : i \in 1 .. Len(u) - 1
      /\ \A j \in 2 .. n - 1 : m + j - 1 \in 1 .. Len(u) - 1
  <2>1. ASSUME NEW i \in 1 .. Len(u) - 1, i \notin 1 .. m
        PROVE  \E j \in 2 .. n - 1 : i = m + j - 1
    <3>1. i - m + 1 \in 2 .. n - 1 /\ i = m + (i - m + 1) - 1
      BY <1>1, <1>6, <2>1
    <3> QED BY <3>1
  <2>2. \A i \in 1 .. m : i \in 1 .. Len(u) - 1
    BY <1>1, <1>6
  <2>3. \A j \in 2 .. n - 1 : m + j - 1 \in 1 .. Len(u) - 1
    BY <1>1, <1>6
  <2> QED BY <2>1, <2>2, <2>3
<1> QED BY <1>4, <1>5, <1>6, <1>7 DEF IsAfter, m, n

\* The walk counts X, and goes on with the tasks.
LEMMA WalkGoesOn ==
  ASSUME NEW d, IsDisk(d), NEW r, r.todo \in Seq(Tasks), IsWalk(r, d), r.todo[1].do # "unlink",
         NEW tasks, NEW X, Covers(r, d, tasks, X),
         NEW q, q.op = r.op, q.todo = tasks \o Tail(r.todo), q.count = r.count + Cardinality(X)
  PROVE  IsWalk(q, d)
<1> DEFINE t == r.todo
           u == q.todo
           m == Len(tasks)
           n == Len(t)
           root == Span(d, t[n])
           S(i) == Span(d, t[i])
           T(i) == Span(d, tasks[i])
           new == UNION {T(i) : i \in 1 .. m}
           old == UNION {S(i) : i \in 2 .. n - 1}
<1>1. n \in Nat /\ n > 1 /\ m \in Nat /\ DOMAIN t = 1 .. n /\ tasks \in Seq(Tasks)
      /\ DOMAIN tasks = 1 .. m
  <2>1. n \in Nat /\ n > 0 /\ t[n].do = "unlink" /\ DOMAIN t = 1 .. n
    BY DEF IsWalk
  <2>2. n # 1
    BY <2>1
  <2> QED BY <2>1, <2>2 DEF Covers
<1>2. IsAfter(u, tasks, t)
  BY <1>1, TasksAfter
<1>3. /\ t[n].do = "unlink" /\ t[n].src = r.op.src
      /\ \A i \in 1 .. n - 1 : IsAhead(r, d, t[i])
      /\ \A i, j \in 1 .. n - 1 : i # j => S(i) \cap S(j) = {}
      /\ r.count = Cardinality(root \ Pending(d, t))
  BY DEF IsWalk
<1>4. /\ \A i \in 1 .. m : IsAhead(r, d, tasks[i])
      /\ \A i, j \in 1 .. m : i # j => T(i) \cap T(j) = {}
      /\ S(1) = X \cup new /\ X \cap new = {}
  BY DEF Covers
<1>5. /\ \A i \in 1 .. m : Span(d, u[i]) = T(i) /\ IsAhead(r, d, u[i])
      /\ \A j \in 2 .. n - 1 : Span(d, u[m + j - 1]) = S(j) /\ IsAhead(r, d, u[m + j - 1])
      /\ Len(u) = m + n - 1 /\ u[Len(u)] = t[n]
  <2>1. /\ Len(u) = m + n - 1
        /\ \A i \in 1 .. m : u[i] = tasks[i]
        /\ \A i \in 2 .. n : u[m + i - 1] = t[i]
    BY <1>2 DEF IsAfter
  <2>2. n \in 2 .. n /\ \A j \in 2 .. n - 1 : j \in 2 .. n /\ j \in 1 .. n - 1
    BY <1>1
  <2> QED BY <1>3, <1>4, <2>1, <2>2
<1>6. /\ \A i \in 1 .. Len(u) - 1 : i \in 1 .. m \/ \E j \in 2 .. n - 1 : i = m + j - 1
      /\ \A i \in 1 .. m : i \in 1 .. Len(u) - 1
      /\ \A j \in 2 .. n - 1 : m + j - 1 \in 1 .. Len(u) - 1
  BY <1>2 DEF IsAfter
<1>7. /\ 1 \in 1 .. n - 1 /\ n \in DOMAIN t
      /\ \A j \in 2 .. n - 1 : j \in 1 .. n - 1 /\ j # 1 /\ j \in DOMAIN t
      /\ \A i, j \in 2 .. n - 1 : i # j => m + i - 1 # m + j - 1
      /\ \A i \in 1 .. n - 1 : i = 1 \/ i \in 2 .. n - 1
  BY <1>1
<1>8. /\ \A i \in 1 .. m : T(i) \subseteq S(1)
      /\ \A j \in 2 .. n - 1 : S(1) \cap S(j) = {}
      /\ \A i, j \in 2 .. n - 1 : i # j => S(i) \cap S(j) = {}
  <2>1. \A j \in 2 .. n - 1 : S(1) \cap S(j) = {}
    <3> HIDE DEF S
    <3> QED BY <1>3, <1>7
  <2>2. \A i, j \in 2 .. n - 1 : i # j => S(i) \cap S(j) = {}
    <3> HIDE DEF S
    <3> QED BY <1>3, <1>7
  <2>3. \A i \in 1 .. m : T(i) \subseteq S(1)
    <3> HIDE DEF S, T
    <3> QED BY <1>4
  <2> QED BY <2>1, <2>2, <2>3
<1>9. root = Below(d, RealLink(d, r.op.src)) /\ r.op.src \in Path
      /\ \A i \in 1 .. n - 1 : S(i) \subseteq root
  <2>1. t[n].src \in Path /\ \A i \in 1 .. n - 1 : t[i] \in Tasks
    <3>1. \A i \in DOMAIN t : t[i] \in Tasks
      <4> HIDE DEF t
      <4> QED BY DEF t
    <3>2. \A task \in Tasks : task.src \in Path
      BY DEF Tasks
    <3>3. n \in DOMAIN t /\ \A i \in 1 .. n - 1 : i \in DOMAIN t
      BY <1>1
    <3> HIDE DEF t, n
    <3> QED BY <3>1, <3>2, <3>3
  <2>2. root = Below(d, RealLink(d, r.op.src)) /\ r.op.src \in Path
    BY <1>3, <2>1 DEF Span
  <2> HIDE DEF root
  <2> QED BY <1>3, <2>1, <2>2, SpanBelowRoot
<1>10. Pending(d, t) = S(1) \cup old
  <2>1. Pending(d, t) = UNION {S(i) : i \in 1 .. n - 1}
    BY DEF Pending
  <2> HIDE DEF S
  <2> QED BY <1>7, <2>1
<1> DEFINE V(i) == Span(d, u[i])
<1>11. Pending(d, u) = new \cup old
  <2>1. Pending(d, u) = UNION {V(i) : i \in 1 .. Len(u) - 1}
    BY DEF Pending
  <2>2. (\A i \in 1 .. m : V(i) = T(i)) /\ \A j \in 2 .. n - 1 : V(m + j - 1) = S(j)
    BY <1>5
  <2> HIDE DEF S, T, V
  <2>3. \A x \in Pending(d, u) : x \in new \/ x \in old
    <3> SUFFICES ASSUME NEW i \in 1 .. Len(u) - 1, NEW x \in V(i) PROVE x \in new \/ x \in old
      BY <2>1
    <3>1. CASE i \in 1 .. m
      BY <2>2, <3>1
    <3>2. ASSUME NEW j \in 2 .. n - 1, i = m + j - 1 PROVE x \in old
      BY <2>2, <3>2
    <3> QED BY <1>6, <3>1, <3>2
  <2>4. \A x \in new : x \in Pending(d, u)
    BY <1>6, <2>1, <2>2
  <2>5. \A x \in old : x \in Pending(d, u)
    BY <1>6, <2>1, <2>2
  <2> QED BY <2>3, <2>4, <2>5
<1>12. new \cap old = {} /\ X \cap old = {} /\ X \subseteq root /\ old \subseteq root
       /\ new \subseteq root
  <2> HIDE DEF S, root
  <2>1. S(1) \cap old = {}
    BY <1>8
  <2>2. S(1) \subseteq root /\ old \subseteq root
    BY <1>7, <1>9
  <2> HIDE DEF old, new
  <2> QED BY <1>4, <2>1, <2>2
<1>13. q.count = Cardinality(root \ Pending(d, u))
  <2> DEFINE A == root \ Pending(d, t)
             B == root \ Pending(d, u)
  <2>1. B = A \cup X /\ A \cap X = {}
    <3> HIDE DEF S, T, new, old, root
    <3> QED BY <1>4, <1>10, <1>11, <1>12
  <2>2. IsFiniteSet(root)
    <3>1. root \subseteq DOMAIN d.tree /\ IsFiniteSet(DOMAIN d.tree)
      BY <1>9 DEF Below, IsDisk
    <3> QED BY <3>1, FS_Subset
  <2>3. IsFiniteSet(A) /\ IsFiniteSet(X)
    <3>1. A \subseteq root /\ X \subseteq root
      BY <1>12
    <3> QED BY <2>2, <3>1, FS_Subset
  <2> HIDE DEF A, B
  <2>4. Cardinality(A \cup X) = Cardinality(A) + Cardinality(X) - Cardinality(A \cap X)
    BY <2>3, FS_Union
  <2>5. Cardinality(A \cap X) = 0 /\ Cardinality(A) \in Nat /\ Cardinality(X) \in Nat
    BY <2>1, <2>3, FS_EmptySet, FS_CardinalityType
  <2>6. q.count = Cardinality(A) + Cardinality(X)
    BY <1>3 DEF A
  <2>7. Cardinality(B) = Cardinality(A) + Cardinality(X)
    <3>1. Cardinality(B) = Cardinality(A) + Cardinality(X) - Cardinality(A \cap X)
      BY <2>1, <2>4
    <3> QED BY <2>5, <3>1
  <2>8. q.count = Cardinality(B)
    BY <2>6, <2>7
  <2> QED BY <2>8 DEF B
<1>14. \A i \in 1 .. Len(u) - 1 : IsAhead(q, d, u[i])
  <2>1. \A task : IsAhead(q, d, task) <=> IsAhead(r, d, task)
    BY DEF IsAhead
  <2> QED BY <1>5, <1>6, <2>1
<1>15. \A i, j \in 1 .. Len(u) - 1 : i # j => V(i) \cap V(j) = {}
  <2>1. (\A i \in 1 .. m : V(i) = T(i)) /\ \A j \in 2 .. n - 1 : V(m + j - 1) = S(j)
    BY <1>5
  <2> HIDE DEF S, T, V
  <2>2. ASSUME NEW i \in 1 .. m, NEW j \in 2 .. n - 1 PROVE V(i) \cap V(m + j - 1) = {}
    <3>1. V(i) \subseteq S(1) /\ S(1) \cap S(j) = {}
      BY <1>8, <2>1
    <3>2. V(m + j - 1) = S(j)
      BY <2>1
    <3> QED BY <3>1, <3>2
  <2> SUFFICES ASSUME NEW i \in 1 .. Len(u) - 1, NEW j \in 1 .. Len(u) - 1, i # j
               PROVE  V(i) \cap V(j) = {}
    OBVIOUS
  <2>3. CASE i \in 1 .. m /\ j \in 1 .. m
    BY <1>4, <2>1, <2>3
  <2>4. ASSUME i \in 1 .. m, NEW b \in 2 .. n - 1, j = m + b - 1 PROVE V(i) \cap V(j) = {}
    BY <2>2, <2>4
  <2>5. ASSUME j \in 1 .. m, NEW a \in 2 .. n - 1, i = m + a - 1 PROVE V(i) \cap V(j) = {}
    BY <2>2, <2>5
  <2>6. ASSUME NEW a \in 2 .. n - 1, NEW b \in 2 .. n - 1, i = m + a - 1, j = m + b - 1
        PROVE  V(i) \cap V(j) = {}
    BY <1>8, <2>1, <2>6
  <2> QED BY <1>6, <2>3, <2>4, <2>5, <2>6
<1>16. Len(u) > 0 /\ u[Len(u)] = t[n] /\ Span(d, u[Len(u)]) = root
  BY <1>1, <1>5
<1> HIDE DEF root, t, u
<1>17. Len(u) > 0 /\ u[Len(u)].do = "unlink" /\ u[Len(u)].src = q.op.src
  BY <1>3, <1>16
<1> QED BY <1>13, <1>14, <1>15, <1>16, <1>17 DEF IsWalk, u

\* What a walk does with a directory, and with anything else it comes to.
LEMMA WalkCovers ==
  ASSUME NEW d, IsDisk(d), NEW r, r.op.src \in Path, r.todo[1].src \in Path,
         IsAhead(r, d, r.todo[1]), Lstat(d, r.todo[1].src).type = "dir"
  PROVE  Covers(r, d, WalkTasks(d, r.todo[1].src), {RealLink(d, r.todo[1].src)})
<1> DEFINE src == r.todo[1].src
           R == RealLink(d, src)
           Root == RealLink(d, r.op.src)
           names == Listed(d, src)
           tasks == WalkTasks(d, src)
<1>1. src \in Path /\ src \in Seq(Name) /\ R \in Path /\ R \in Seq(Name) /\ Root \in Seq(Name)
  BY RealLinkIsPath DEF Path
<1>2. Real(d, src) = R /\ R \in DOMAIN d.tree /\ IsPrefix(Root, R)
  BY <1>1, RealDirectory DEF IsAhead
<1>3. /\ tasks \in Seq(Tasks) /\ Len(tasks) \in Nat
      /\ DOMAIN tasks = 1 .. Len(tasks) /\ Len(tasks) = Len(names)
      /\ \A i \in 1 .. Len(tasks) :
            /\ tasks[i].do = "visit" /\ names[i] \in Name
            /\ tasks[i].src = Append(src, names[i])
  <2>1. src \in Path
    BY <1>1
  <2> HIDE DEF src, names, tasks
  <2>2. /\ WalkTasks(d, src) \in Seq(Tasks) /\ Len(WalkTasks(d, src)) = Len(Listed(d, src))
        /\ Len(Listed(d, src)) \in Nat
        /\ DOMAIN WalkTasks(d, src) = 1 .. Len(Listed(d, src))
        /\ \A i \in DOMAIN WalkTasks(d, src) :
             /\ WalkTasks(d, src)[i].do = "visit" /\ Listed(d, src)[i] \in Name
             /\ WalkTasks(d, src)[i].src = Append(src, Listed(d, src)[i])
    BY <2>1, TasksOfWalk
  <2>3. tasks = WalkTasks(d, src) /\ names = Listed(d, src)
    BY DEF tasks, names
  <2> QED BY <2>2, <2>3
<1>4. /\ names \in Seq(Name) /\ DOMAIN names = 1 .. Len(names)
      /\ \A x \in Name : (\E i \in DOMAIN names : names[i] = x) <=> Append(R, x) \in DOMAIN d.tree
      /\ \A i, j \in DOMAIN names : names[i] = names[j] => i = j
  BY <1>2, ListedNames
<1>5. Span(d, r.todo[1]) = Below(d, R)
  BY DEF Span
<1> HIDE DEF src, R, Root, names, tasks
<1>6. ASSUME NEW i \in 1 .. Len(tasks)
      PROVE  /\ RealLink(d, tasks[i].src) = Append(R, names[i])
             /\ Span(d, tasks[i]) = Below(d, Append(R, names[i]))
             /\ names[i] \in Name /\ Append(R, names[i]) \in DOMAIN d.tree
  <2>1. names[i] \in Name /\ tasks[i].src = Append(src, names[i]) /\ i \in DOMAIN names
    BY <1>3, <1>4
  <2>2. RealLink(d, Append(src, names[i])) = Append(R, names[i])
    BY <1>1, <1>2, <2>1, AppendedPath DEF RealLink
  <2>3. Append(R, names[i]) \in DOMAIN d.tree
    BY <1>4, <2>1
  <2> QED BY <2>1, <2>2, <2>3 DEF Span
<1>7. ASSUME NEW i \in 1 .. Len(tasks) PROVE IsAhead(r, d, tasks[i])
  <2> DEFINE X == Append(R, names[i])
  <2>1. X \in Seq(Name) /\ IsPrefix(R, X)
    BY <1>1, <1>6, EntriesApart DEF Path
  <2> HIDE DEF X
  <2>2. IsPrefix(Root, X)
    BY <1>1, <1>2, <2>1, PrefixOfPath
  <2> QED BY <1>3, <1>6, <2>2 DEF IsAhead, Root, X
<1>8. ASSUME NEW i \in 1 .. Len(tasks), NEW j \in 1 .. Len(tasks), i # j
      PROVE  Span(d, tasks[i]) \cap Span(d, tasks[j]) = {}
  <2>1. names[i] # names[j]
    BY <1>3, <1>4, <1>8
  <2> QED BY <1>1, <1>6, <2>1, EntriesApart
<1> DEFINE spans == UNION {Span(d, tasks[i]) : i \in 1 .. Len(tasks)}
<1>9. ASSUME NEW p \in Below(d, R), p # R PROVE p \in spans
  <2>1. PICK x \in Name : Append(R, x) \in DOMAIN d.tree /\ p \in Below(d, Append(R, x))
    BY <1>1, <1>9, BelowDirectory
  <2>2. PICK i \in DOMAIN names : names[i] = x
    BY <1>4, <2>1
  <2>3. i \in 1 .. Len(tasks)
    BY <1>3, <1>4
  <2> QED BY <1>6, <2>1, <2>2, <2>3
<1>10. R \in Below(d, R)
  BY <1>1, <1>2, PathIsItsPrefix DEF Below
<1>11. \A i \in 1 .. Len(tasks) : Span(d, tasks[i]) \subseteq Below(d, R) /\ R \notin Span(d, tasks[i])
  <2> SUFFICES ASSUME NEW i \in 1 .. Len(tasks)
               PROVE  Span(d, tasks[i]) \subseteq Below(d, R) /\ R \notin Span(d, tasks[i])
    OBVIOUS
  <2>1. names[i] \in Name /\ Span(d, tasks[i]) = Below(d, Append(R, names[i]))
    BY <1>6
  <2> QED BY <1>1, <2>1, EntriesApart
<1>12. Span(d, r.todo[1]) = {R} \cup spans /\ {R} \cap spans = {}
  BY <1>5, <1>9, <1>10, <1>11
<1> QED BY <1>3, <1>7, <1>8, <1>12 DEF Covers, src, R, tasks

LEMMA VisitCovers ==
  ASSUME NEW d, IsDisk(d), NEW r, r.todo[1].src \in Path, IsAhead(r, d, r.todo[1])
  PROVE  LET src == r.todo[1].src IN
         /\ Lstat(d, src).type = "dir" => Covers(r, d, <<Task("walk", src, src)>>, {})
         /\ Lstat(d, src).type \notin {"dir", "missing"} => Covers(r, d, <<>>, {RealLink(d, src)})
<1> DEFINE src == r.todo[1].src
           R == RealLink(d, src)
           task == Task("walk", src, src)
<1>1. CASE Lstat(d, src).type = "dir"
  <2>1. task \in Tasks /\ task.do = "walk" /\ task.src = src
    <3>1. "walk" \in Dos
      BY DEF Dos
    <3> QED BY <3>1 DEF Task, Tasks
  <2>2. IsAhead(r, d, task) /\ Span(d, task) = Span(d, r.todo[1])
    BY <1>1, <2>1 DEF IsAhead, Span
  <2> HIDE DEF task
  <2>3. <<task>> \in Seq(Tasks) /\ Len(<<task>>) = 1 /\ <<task>>[1] = task
    BY <2>1
  <2> DEFINE u == <<task>>
  <2> HIDE DEF u
  <2>4. u \in Seq(Tasks) /\ Len(u) = 1 /\ u[1] = task /\ \A i \in 1 .. Len(u) : i = 1
    BY <2>3 DEF u
  <2>5. UNION {Span(d, u[i]) : i \in 1 .. Len(u)} = Span(d, task)
    BY <2>4
  <2>6. Covers(r, d, u, {})
    BY <2>2, <2>4, <2>5 DEF Covers
  <2> QED BY <1>1, <2>6 DEF u, task
<1>2. CASE Lstat(d, src).type \notin {"dir", "missing"}
  <2>1. NodeAt(d, R).type \notin {"dir", "missing"}
    BY <1>2 DEF Lstat, Missing
  <2>2. R \in Path /\ R \in Seq(Name) /\ R \in DOMAIN d.tree
    BY <2>1, RealLinkIsPath, Nodes DEF Path
  <2>3. R \in Below(d, R)
    BY <2>2, PathIsItsPrefix DEF Below
  <2>4. Span(d, r.todo[1]) = Below(d, R)
    BY DEF Span
  <2> HIDE DEF R
  <2>5. Span(d, r.todo[1]) = {R}
    BY <2>1, <2>2, <2>3, <2>4, BelowDirectory
  <2> DEFINE u == <<>>
  <2>6. u \in Seq(Tasks) /\ Len(u) = 0
    OBVIOUS
  <2> HIDE DEF u
  <2>7. 1 .. Len(u) = {}
    BY <2>6
  <2>8. Covers(r, d, u, {R})
    BY <2>5, <2>6, <2>7 DEF Covers
  <2> QED BY <1>2, <2>8 DEF u, R
<1> QED BY <1>1, <1>2

-----------------------------------------------------------------------------
(* The steps of a remove_all that nothing disturbs *)

LEMMA CountedRun ==
  ASSUME DiskInv, NEW c \in Callers, NEW tasks, Count(c, tasks)
  PROVE  /\ disk' = disk /\ run'[c].pc = run[c].pc /\ run'[c].op = run[c].op
         /\ run'[c].todo = tasks \o Tail(run[c].todo) /\ run'[c].count = run[c].count + 1
         /\ run'[c].found = run[c].found /\ run'[c].rivals = run[c].rivals
<1>1. HasRunFields(run[c]) /\ run = [e \in Callers |-> run[e]]
  BY CallOf DEF IsRun
<1> DEFINE t == tasks \o Tail(run[c].todo)
           n == run[c].count + 1
<1>2. disk' = disk /\ run'[c] = [run[c] EXCEPT !.todo = t, !.count = n]
  <2>1. disk' = disk /\ run' = [run EXCEPT ![c].todo = tasks \o Tail(@), ![c].count = @ + 1]
    BY DEF Count
  <2> QED BY <1>1, <2>1
<1> HIDE DEF t, n
<1>3. /\ run'[c].pc = run[c].pc /\ run'[c].op = run[c].op
      /\ run'[c].todo = t /\ run'[c].count = n
      /\ run'[c].found = run[c].found /\ run'[c].rivals = run[c].rivals
  BY <1>1, <1>2 DEF HasRunFields
<1> QED BY <1>2, <1>3 DEF t, n

LEMMA GivenUpRun ==
  ASSUME DiskInv, NEW c \in Callers, NEW d, NEW notExist, GiveUp(c, d, notExist)
  PROVE  /\ disk' = d /\ run'[c].pc = "done" /\ run'[c].count = 0
         /\ run'[c].answer = IF notExist THEN "ok" ELSE "error"
<1> DEFINE answer == IF notExist THEN "ok" ELSE "error"
<1>1. HasRunFields(run[c]) /\ run = [e \in Callers |-> run[e]]
  BY CallOf DEF IsRun
<1>2. disk' = d /\ run'[c] = [run[c] EXCEPT !.pc = "done", !.todo = <<>>, !.count = 0, !.answer = answer]
  BY <1>1 DEF GiveUp
<1> HIDE DEF answer
<1>3. run'[c].pc = "done" /\ run'[c].count = 0 /\ run'[c].answer = answer
  BY <1>1, <1>2 DEF HasRunFields
<1> QED BY <1>2, <1>3 DEF answer

\* A remove_all of c that no other call disturbs, and what it answers.
IsCounting(c) == Alone(c) /\ run[c].op.op = "removeAll"
AnswersRight(c) ==
    run'[c].answer = "ok" =>
        /\ run'[c].count = Cardinality(DOMAIN run[c].found.tree \ DOMAIN disk'.tree)
        /\ Lstat(disk', run[c].op.src).type = "missing"
CountsOn(c) ==
    /\ run'[c].pc = "busy" => Counts(c)'
    /\ run'[c].pc = "done" => AnswersRight(c)

\* It has yet to walk, walks, removes what it has counted, or is done.
LEMMA Moments ==
  ASSUME DiskInv, CountInv, NEW c \in Callers, Step(c), IsCounting(c)
  PROVE  /\ run[c].pc = "busy"
         /\ \/ /\ RemoveAll(c) /\ Now(c).src = run[c].op.src /\ disk = run[c].found
               /\ run[c].count = 0 /\ Tail(run[c].todo) = <<>>
            \/ /\ Visit(c) \/ Walk(c)
               /\ disk = run[c].found /\ IsWalk(run[c], disk) /\ Now(c).do # "unlink"
               /\ Now(c) = run[c].todo[1] /\ Now(c).src \in Path
               /\ IsAhead(run[c], disk, Now(c)) /\ run[c].op.src \in Path
            \/ /\ Unlink(c) /\ Now(c).src = run[c].op.src /\ disk = run[c].found
               /\ run[c].count = Cardinality(Below(disk, RealLink(disk, run[c].op.src)))
               /\ Tail(run[c].todo) = <<>>
            \/ /\ Finish(c) /\ run[c].count = Cardinality(DOMAIN run[c].found.tree \ DOMAIN disk.tree)
               /\ Lstat(disk, run[c].op.src).type = "missing"
<1> DEFINE r == run[c]
           t == r.todo
           n == Len(t)
<1>1. c \in Busy /\ r.pc = "busy" /\ IsTodo(r) /\ t \in Seq(Tasks)
  BY StepIsStepOf, CallOf DEF StepOf, Busy, IsTodo
<1>2. n \in Nat /\ DOMAIN t = 1 .. n /\ \A i \in 1 .. n : t[i] \in Tasks
  BY <1>1
<1>3. \/ n = 1 /\ t[1].do = "removeAll" /\ t[1].src = r.op.src /\ disk = r.found /\ r.count = 0
      \/ disk = r.found /\ IsWalk(r, disk)
      \/ /\ t = <<>> /\ r.count = Cardinality(DOMAIN r.found.tree \ DOMAIN disk.tree)
         /\ Lstat(disk, r.op.src).type = "missing"
  BY <1>1 DEF CountInv, Counts, IsCounting
<1> HIDE DEF r
<1>4. t # <<>> => /\ Now(c) = t[1] /\ Len(Tail(t)) = n - 1 /\ Tail(t) \in Seq(Tasks)
                  /\ \A do : t[1].do = do => Doing(c, do)
  <2>1. t # <<>> => Head(t) = t[1] /\ Len(Tail(t)) = n - 1 /\ Tail(t) \in Seq(Tasks)
    BY <1>1, TailOfTodo
  <2> QED BY <1>1, <2>1 DEF Now, Doing, r
<1>5. n = 1 => t # <<>> /\ Tail(t) = <<>>
  <2> SUFFICES ASSUME n = 1 PROVE t # <<>> /\ Tail(t) = <<>>
    OBVIOUS
  <2>1. t # <<>>
    BY <1>2
  <2>2. Tail(t) \in Seq(Tasks) /\ Len(Tail(t)) = n - 1
    BY <1>4, <2>1
  <2>3. Len(Tail(t)) = 0
    BY <2>2
  <2> DEFINE v == Tail(t)
  <2> HIDE DEF v
  <2>4. v \in Seq(Tasks) /\ Len(v) = 0
    BY <2>2, <2>3 DEF v
  <2>5. v = <<>>
    BY <2>4
  <2> QED BY <2>1, <2>5 DEF v
<1>6. CASE n = 1 /\ t[1].do = "removeAll" /\ t[1].src = r.op.src /\ disk = r.found /\ r.count = 0
  <2>1. RemoveAll(c)
    BY <1>4, <1>5, <1>6, ActionOf
  <2> QED BY <1>1, <1>4, <1>5, <1>6, <2>1 DEF r
<1>7. CASE disk = r.found /\ IsWalk(r, disk)
  <2>1. /\ n > 0 /\ t[n].do = "unlink" /\ t[n].src = r.op.src
        /\ \A i \in 1 .. (n - 1) : IsAhead(r, disk, t[i])
        /\ r.count = Cardinality(Span(disk, t[n]) \ Pending(disk, t))
    BY <1>7 DEF IsWalk
  <2>2. r.op.src \in Path
    BY <1>2, <2>1 DEF Tasks
  <2>3. t # <<>>
    BY <1>2, <2>1
  <2>4. CASE n = 1
    <3>1. Unlink(c)
      BY <1>4, <2>1, <2>3, <2>4, ActionOf
    <3>2. Pending(disk, t) = {}
      <4>1. 1 .. (Len(t) - 1) = {}
        BY <2>4
      <4> QED BY <4>1 DEF Pending
    <3>3. r.count = Cardinality(Below(disk, RealLink(disk, r.op.src)))
      BY <2>1, <2>4, <3>2 DEF Span
    <3> QED BY <1>1, <1>4, <1>5, <1>7, <2>1, <2>3, <2>4, <3>1, <3>3 DEF r
  <2>5. CASE n # 1
    <3>1. 1 \in 1 .. (n - 1)
      <4>1. n \in Nat /\ n > 0 /\ n # 1
        BY <1>2, <2>1, <2>5
      <4> HIDE DEF n
      <4> QED BY <4>1
    <3>2. IsAhead(r, disk, t[1])
      BY <2>1, <3>1
    <3>3. t[1].do \in {"visit", "walk"}
      BY <3>2 DEF IsAhead
    <3>4. Visit(c) \/ Walk(c)
      BY <1>4, <2>3, <3>3, ActionOf
    <3>5. t[1].src \in Path
      <4>1. t[1] \in Tasks
        BY <1>2, <3>1
      <4> QED BY <4>1 DEF Tasks
    <3> QED BY <1>1, <1>4, <1>7, <2>2, <2>3, <3>2, <3>3, <3>4, <3>5 DEF r
  <2> QED BY <2>4, <2>5
<1>8. CASE /\ t = <<>> /\ r.count = Cardinality(DOMAIN r.found.tree \ DOMAIN disk.tree)
           /\ Lstat(disk, r.op.src).type = "missing"
  <2>1. Finish(c)
    BY <1>8, ActionOf DEF r
  <2> QED BY <1>1, <1>8, <2>1 DEF r
<1> QED BY <1>3, <1>6, <1>7, <1>8

LEMMA RemoveAllCounts ==
  ASSUME DiskInv, NEW c \in Callers, IsCounting(c), RemoveAll(c), run[c].pc = "busy",
         Now(c).src = run[c].op.src, disk = run[c].found, run[c].count = 0,
         Tail(run[c].todo) = <<>>
  PROVE  CountsOn(c)
<1> DEFINE first == [Now(c) EXCEPT !.do = "visit"]
           second == [Now(c) EXCEPT !.do = "unlink"]
           u == <<first, second>>
           q == run'[c]
           src == run[c].op.src
<1>1. Doing(c, "removeAll") /\ Continue(c, disk, u)
  BY DEF RemoveAll
<1>2. Now(c) \in Tasks /\ src \in Path /\ IsDisk(disk)
  BY <1>1, TaskInHand, CallOf
<1>3. first.do = "visit" /\ first.src = src /\ second.do = "unlink" /\ second.src = src
  BY <1>2 DEF Tasks
<1> HIDE DEF first, second
<1>4. Len(u) = 2 /\ u[1] = first /\ u[2] = second /\ u \o <<>> = u
  OBVIOUS
<1> HIDE DEF u
<1>5. /\ disk' = disk /\ q.pc = "busy" /\ q.op = run[c].op /\ q.todo = u /\ q.count = 0
      /\ q.found = disk
  BY <1>1, <1>4, ContinuedRun
<1> HIDE DEF q
<1>6. IsAhead(q, disk, u[1])
  <2>1. RealLink(disk, src) \in Seq(Name)
    BY <1>2, RealLinkIsPath DEF Path
  <2>2. IsPrefix(RealLink(disk, src), RealLink(disk, src))
    BY <2>1, PathIsItsPrefix
  <2> QED BY <1>3, <1>4, <1>5, <2>2 DEF IsAhead
<1>7. Span(disk, u[1]) = Span(disk, u[2])
  BY <1>3, <1>4 DEF Span
<1>8. Pending(disk, u) = Span(disk, u[1])
  <2>1. 1 .. (Len(u) - 1) = {1}
    BY <1>4
  <2> QED BY <2>1 DEF Pending
<1>9. Cardinality(Span(disk, u[2]) \ Pending(disk, u)) = 0
  <2>1. Span(disk, u[2]) \ Pending(disk, u) = {}
    BY <1>7, <1>8
  <2> QED BY <2>1, FS_EmptySet
<1>10. \A i \in 1 .. (Len(u) - 1) : i = 1
  BY <1>4
<1>11. IsWalk(q, disk)
  <2>1. Len(u) > 0 /\ u[Len(u)].do = "unlink" /\ u[Len(u)].src = q.op.src
    BY <1>3, <1>4, <1>5
  <2>2. \A i, j \in 1 .. (Len(u) - 1) : i # j => Span(disk, u[i]) \cap Span(disk, u[j]) = {}
    BY <1>10
  <2>3. q.count = Cardinality(Span(disk, u[Len(u)]) \ Pending(disk, u))
    BY <1>4, <1>5, <1>9
  <2>4. \A i \in 1 .. (Len(u) - 1) : IsAhead(q, disk, u[i])
    BY <1>6, <1>10
  <2> QED BY <1>5, <2>1, <2>2, <2>3, <2>4 DEF IsWalk
<1> QED BY <1>5, <1>11 DEF CountsOn, Counts, q

\* A walk that gives up has found nothing at its root, or answers an error.
LEMMA GivingUpCounts ==
  ASSUME DiskInv, NEW c \in Callers, disk = run[c].found,
         run[c].op.op = "removeAll", NEW notExist, GiveUp(c, disk, notExist),
         notExist => Lstat(disk, run[c].op.src).type = "missing"
  PROVE  CountsOn(c)
<1>1. /\ disk' = disk /\ run'[c].pc = "done" /\ run'[c].count = 0
      /\ run'[c].answer = IF notExist THEN "ok" ELSE "error"
  BY GivenUpRun
<1>2. run'[c].answer = "ok" => Lstat(disk', run[c].op.src).type = "missing"
  BY <1>1
<1>3. Cardinality(DOMAIN run[c].found.tree \ DOMAIN disk'.tree) = 0
  <2>1. DOMAIN run[c].found.tree \ DOMAIN disk'.tree = {}
    BY <1>1
  <2> QED BY <2>1, FS_EmptySet
<1> QED BY <1>1, <1>2, <1>3 DEF CountsOn, AnswersRight

\* A walk that counts X, and goes on with the tasks.
LEMMA WalkingCounts ==
  ASSUME DiskInv, NEW c \in Callers, run[c].pc = "busy", disk = run[c].found,
         IsWalk(run[c], disk), run[c].todo[1].do # "unlink",
         NEW tasks, NEW X, Covers(run[c], disk, tasks, X),
         disk' = disk, run'[c].pc = run[c].pc, run'[c].op = run[c].op,
         run'[c].found = run[c].found,
         run'[c].todo = tasks \o Tail(run[c].todo),
         run'[c].count = run[c].count + Cardinality(X)
  PROVE  CountsOn(c)
<1> DEFINE r == run[c]
           q == run'[c]
<1>1. IsDisk(disk) /\ r.todo \in Seq(Tasks)
  BY CallOf DEF IsTodo
<1>2. /\ IsWalk(r, disk) /\ r.todo[1].do # "unlink" /\ Covers(r, disk, tasks, X)
      /\ q.op = r.op /\ q.todo = tasks \o Tail(r.todo) /\ q.count = r.count + Cardinality(X)
      /\ q.pc = "busy" /\ disk' = q.found
  OBVIOUS
<1> HIDE DEF r, q
<1>3. IsWalk(q, disk)
  BY <1>1, <1>2, WalkGoesOn
<1> QED BY <1>2, <1>3 DEF CountsOn, Counts, q

LEMMA VisitCounts ==
  ASSUME DiskInv, NEW c \in Callers, IsCounting(c), Visit(c), run[c].pc = "busy",
         disk = run[c].found, IsWalk(run[c], disk), Now(c).do # "unlink",
         Now(c) = run[c].todo[1], Now(c).src \in Path, IsAhead(run[c], disk, Now(c))
  PROVE  CountsOn(c)
<1> DEFINE src == Now(c).src
           R == RealLink(disk, src)
           node == Lstat(disk, src)
           task == Task("walk", src, src)
<1>1. IsDisk(disk)
  BY CallOf
<1>2. /\ node.type = "dir" => Covers(run[c], disk, <<task>>, {})
      /\ node.type \notin {"dir", "missing"} => Covers(run[c], disk, <<>>, {R})
  BY <1>1, VisitCovers
<1>3. \/ node.type = "missing" /\ GiveUp(c, disk, NotExist(disk, src, R))
      \/ node.type = "dir" /\ Continue(c, disk, <<task>>)
      \/ node.type \notin {"dir", "missing"} /\ Count(c, <<>>)
  BY DEF Visit
<1>4. CASE node.type = "missing" /\ GiveUp(c, disk, NotExist(disk, src, R))
  <2>1. NotExist(disk, src, R) => src = run[c].op.src
    <3>1. src = run[c].op.src \/ R \in DOMAIN disk.tree
      BY DEF IsAhead
    <3>2. NotExist(disk, src, R) => NodeAt(disk, R).type = "missing"
      BY DEF NotExist
    <3> HIDE DEF R
    <3>3. NodeAt(disk, R).type = "missing" => R \notin DOMAIN disk.tree
      BY <1>1, Nodes
    <3> QED BY <3>1, <3>2, <3>3
  <2>2. NotExist(disk, src, R) => Lstat(disk, run[c].op.src).type = "missing"
    BY <1>4, <2>1
  <2> DEFINE notExist == NotExist(disk, src, R)
  <2>3. GiveUp(c, disk, notExist)
    BY <1>4
  <2> HIDE DEF notExist
  <2>4. notExist => Lstat(disk, run[c].op.src).type = "missing"
    BY <2>2 DEF notExist
  <2> QED BY <2>3, <2>4, GivingUpCounts DEF IsCounting
<1>5. CASE node.type = "dir" /\ Continue(c, disk, <<task>>)
  <2>1. Covers(run[c], disk, <<task>>, {})
    BY <1>2, <1>5
  <2> HIDE DEF task
  <2> DEFINE tasks == <<task>>
  <2>2. Covers(run[c], disk, tasks, {}) /\ Continue(c, disk, tasks)
    BY <1>5, <2>1
  <2> HIDE DEF tasks
  <2>3. /\ disk' = disk /\ run'[c].pc = run[c].pc /\ run'[c].op = run[c].op
        /\ run'[c].found = run[c].found /\ run'[c].todo = tasks \o Tail(run[c].todo)
        /\ run'[c].count = run[c].count
    BY <2>2, ContinuedRun
  <2>4. run'[c].count = run[c].count + Cardinality({})
    <3>1. run[c].count \in Nat
      <4> DEFINE counted == Span(disk, run[c].todo[Len(run[c].todo)]) \ Pending(disk, run[c].todo)
      <4>1. counted \subseteq DOMAIN disk.tree
        BY DEF Span, Below
      <4>2. run[c].count = Cardinality(counted)
        BY DEF IsWalk
      <4>3. IsFiniteSet(DOMAIN disk.tree)
        BY <1>1 DEF IsDisk
      <4> HIDE DEF counted
      <4>4. Cardinality(counted) \in Nat
        BY <4>1, <4>3, FS_Subset, FS_CardinalityType
      <4> QED BY <4>2, <4>4
    <3>2. Cardinality({}) = 0
      BY FS_EmptySet
    <3> QED BY <2>3, <3>1, <3>2
  <2>5. run[c].todo[1].do # "unlink"
    OBVIOUS
  <2> QED BY <2>2, <2>3, <2>4, <2>5, WalkingCounts
<1>6. CASE node.type \notin {"dir", "missing"} /\ Count(c, <<>>)
  <2> DEFINE tasks == <<>>
  <2>1. Covers(run[c], disk, tasks, {R}) /\ Count(c, tasks)
    BY <1>2, <1>6
  <2> HIDE DEF tasks, R
  <2>2. /\ disk' = disk /\ run'[c].pc = run[c].pc /\ run'[c].op = run[c].op
        /\ run'[c].found = run[c].found /\ run'[c].todo = tasks \o Tail(run[c].todo)
        /\ run'[c].count = run[c].count + 1
    BY <2>1, CountedRun
  <2>3. Cardinality({R}) = 1
    BY FS_Singleton
  <2>4. run'[c].count = run[c].count + Cardinality({R}) /\ run[c].todo[1].do # "unlink"
    BY <2>2, <2>3
  <2> QED BY <2>1, <2>2, <2>4, WalkingCounts
<1> QED BY <1>3, <1>4, <1>5, <1>6

LEMMA WalkCounts ==
  ASSUME DiskInv, NEW c \in Callers, Walk(c), run[c].pc = "busy",
         disk = run[c].found, IsWalk(run[c], disk), Now(c).do # "unlink",
         Now(c) = run[c].todo[1], Now(c).src \in Path, run[c].op.src \in Path,
         IsAhead(run[c], disk, Now(c))
  PROVE  CountsOn(c)
<1> DEFINE src == Now(c).src
           R == RealLink(disk, src)
           tasks == WalkTasks(disk, src)
<1>1. IsDisk(disk) /\ Doing(c, "walk")
  BY CallOf DEF Walk
<1>2. Lstat(disk, src).type = "dir"
  BY <1>1 DEF IsAhead, Doing, Now
<1>3. Stat(disk, src).type = "dir"
  BY <1>1, <1>2, RealDirectory
<1>4. Count(c, tasks)
  BY <1>3, WalkCases
<1>5. Covers(run[c], disk, tasks, {R})
  BY <1>1, <1>2, WalkCovers
<1> HIDE DEF tasks, R
<1>6. /\ disk' = disk /\ run'[c].pc = run[c].pc /\ run'[c].op = run[c].op
      /\ run'[c].found = run[c].found /\ run'[c].todo = tasks \o Tail(run[c].todo)
      /\ run'[c].count = run[c].count + 1
  BY <1>4, CountedRun
<1>7. Cardinality({R}) = 1
  BY FS_Singleton
<1>8. run'[c].count = run[c].count + Cardinality({R}) /\ run[c].todo[1].do # "unlink"
  BY <1>6, <1>7
<1> QED BY <1>5, <1>6, <1>8, WalkingCounts

LEMMA UnlinkCounts ==
  ASSUME DiskInv, NEW c \in Callers, Unlink(c), run[c].pc = "busy",
         run[c].op.op = "removeAll", Now(c).src = run[c].op.src, disk = run[c].found,
         run[c].count = Cardinality(Below(disk, RealLink(disk, run[c].op.src))),
         Tail(run[c].todo) = <<>>
  PROVE  CountsOn(c)
<1> DEFINE src == run[c].op.src
           R == Below(disk, RealLink(disk, src))
           e == Without(disk, R)
<1>1. src \in Path /\ IsDisk(disk)
  BY TaskInHand, CallOf DEF Unlink
<1>2. R = DOMAIN disk.tree \ DOMAIN e.tree /\ Lstat(e, src).type = "missing"
  BY <1>1, UnlinkedIsMissing
<1>3. Continue(c, e, <<>>) \/ \E gone \in SUBSET R : GiveUp(c, Without(disk, gone), FALSE)
  BY DEF Unlink
<1>4. CASE Continue(c, e, <<>>)
  <2> HIDE DEF e
  <2>1. /\ disk' = e /\ run'[c].pc = "busy" /\ run'[c].op = run[c].op
        /\ run'[c].found = disk /\ run'[c].todo = <<>> \o <<>>
        /\ run'[c].count = Cardinality(R)
    BY <1>4, ContinuedRun
  <2>2. run'[c].todo = <<>>
    BY <2>1
  <2>3. run'[c].count = Cardinality(DOMAIN run'[c].found.tree \ DOMAIN disk'.tree)
    BY <1>2, <2>1
  <2> QED BY <1>2, <2>1, <2>2, <2>3 DEF CountsOn, Counts
<1>5. ASSUME NEW gone, GiveUp(c, Without(disk, gone), FALSE) PROVE CountsOn(c)
  <2>1. run'[c].pc = "done" /\ run'[c].answer = "error"
    BY <1>5, GivenUpRun
  <2> QED BY <2>1 DEF CountsOn, AnswersRight
<1> QED BY <1>3, <1>4, <1>5

LEMMA FinishCounts ==
  ASSUME DiskInv, NEW c \in Callers, Finish(c),
         run[c].count = Cardinality(DOMAIN run[c].found.tree \ DOMAIN disk.tree),
         Lstat(disk, run[c].op.src).type = "missing"
  PROVE  CountsOn(c)
<1>1. disk' = disk /\ run'[c].pc = "done" /\ run'[c].count = run[c].count
  BY ReturnedRun DEF Finish
<1>2. AnswersRight(c)
  BY <1>1 DEF AnswersRight
<1> QED BY <1>1, <1>2 DEF CountsOn

LEMMA StepCounts ==
  ASSUME DiskInv, CountInv, NEW c \in Callers, Step(c), IsCounting(c)
  PROVE  CountsOn(c)
<1>1. run[c].op.op = "removeAll"
  BY DEF IsCounting
<1> QED BY <1>1, Moments, RemoveAllCounts, VisitCounts, WalkCounts, UnlinkCounts, FinishCounts

LEMMA NextKeepsCountInv ==
  ASSUME DiskInv, CountInv, [Next]_vars
  PROVE  CountInv'
<1>1. ASSUME NEW c \in Callers, Step(c) PROVE CountInv'
  <2> DEFINE q == run'[c]
  <2> HIDE DEF q
  <2>1. /\ run' = [f \in Callers |-> IF f = c THEN q ELSE run[f]] /\ c \in Busy
        /\ run'[c].op = run[c].op /\ run'[c].rivals = run[c].rivals
    BY <1>1, StepIsStepOf DEF StepOf, q, Busy
  <2>2. ASSUME NEW e \in Busy', e # c PROVE Counts(e)'
    <3>1. e \in Busy /\ run'[e] = run[e]
      BY <2>1, <2>2 DEF Busy
    <3>2. run[c].op.op \in run[e].rivals
      BY <2>1, <2>2, <3>1 DEF DiskInv, AreRivals
    <3> QED BY <3>1, <3>2 DEF Counts, Alone
  <2>3. c \in Busy' => Counts(c)'
    <3>1. CASE IsCounting(c)
      BY <1>1, <3>1, StepCounts DEF Busy, CountsOn
    <3>2. CASE ~ IsCounting(c)
      BY <2>1, <3>2 DEF Counts, IsCounting, Alone
    <3> QED BY <3>1, <3>2
  <2>4. \A e \in Busy' : Counts(e)'
    BY <2>2, <2>3
  <2> QED BY <2>4 DEF CountInv
<1>2. ASSUME NEW c \in Callers, NEW op, BeginOf(c, op) PROVE CountInv'
  <2>1. ASSUME NEW e \in Busy', e # c PROVE Counts(e)'
    <3>1. op.op \in run'[e].rivals
      BY <1>2, <2>1 DEF BeginOf, Busy
    <3> QED BY <3>1 DEF Counts, Alone
  <2>2. Counts(c)'
    <3> DEFINE task == Task(op.op, op.src, op.dst)
    <3>1. task.do = op.op /\ task.src = op.src
      BY DEF Task
    <3> HIDE DEF task
    <3>2. /\ run'[c].op = op /\ run'[c].todo = <<task>> /\ run'[c].count = 0
          /\ disk' = run'[c].found
      BY <1>2 DEF BeginOf, task
    <3>3. Len(run'[c].todo) = 1 /\ run'[c].todo[1] = task
      BY <3>2
    <3> QED BY <3>1, <3>2, <3>3 DEF Counts
  <2>3. \A e \in Busy' : Counts(e)'
    BY <2>1, <2>2
  <2> QED BY <2>3 DEF CountInv
<1>3. ASSUME NEW c \in Callers, NEW call \in Calls[c], Begin(c, call) PROVE CountInv'
  BY <1>2, <1>3, BeginIsBeginOf
<1>4. CASE UNCHANGED vars
  <2>1. disk' = disk /\ run' = run
    BY <1>4 DEF vars
  <2>2. \A e \in Callers : Counts(e) => Counts(e)'
    BY <2>1 DEF Counts, Alone
  <2>3. Busy' = Busy
    BY <2>1 DEF Busy
  <2> QED BY <2>2, <2>3 DEF CountInv, Busy
<1> QED BY <1>1, <1>3, <1>4 DEF Next

LEMMA CountInvariant == Spec => []CountInv
<1>1. Init => CountInv
  BY DEF Init, CountInv, Busy, Idle
<1>2. DiskInv /\ CountInv /\ [Next]_vars => CountInv'
  BY NextKeepsCountInv
<1> QED BY <1>1, <1>2, DiskInvariant, PTL DEF Spec

\* A remove_all that no other call disturbed answers the number of entries
\* that are gone, and leaves none at its path, for every tree it is given: also
\* where a link on the path is itself removed (RemoveAll, exports/fs/fs.go:
\* 177-200).
THEOREM CountsAreRight == Spec => RemovedAreCounted
<1>1. DiskInv /\ CountInv /\ [Next]_vars
        => [\A c \in Callers :
              Returns(c) /\ Alone(c) /\ run'[c].answer = "ok" /\ run[c].op.op = "removeAll" =>
                  /\ run'[c].count = Cardinality(DOMAIN run[c].found.tree \ DOMAIN disk'.tree)
                  /\ Lstat(disk', run[c].op.src).type = "missing"]_vars
  <2> SUFFICES ASSUME DiskInv, CountInv, Next, NEW c \in Callers,
                      Returns(c), Alone(c), run'[c].answer = "ok", run[c].op.op = "removeAll"
               PROVE  /\ run'[c].count = Cardinality(DOMAIN run[c].found.tree \ DOMAIN disk'.tree)
                      /\ Lstat(disk', run[c].op.src).type = "missing"
    BY DEF vars
  <2>1. run[c].pc = "busy" /\ run'[c].pc = "done"
    BY DEF Returns
  <2>2. Step(c)
    <3>1. ASSUME NEW e \in Callers, Step(e) PROVE e = c
      <4> DEFINE q == run'[e]
      <4> HIDE DEF q
      <4>1. run' = [f \in Callers |-> IF f = e THEN q ELSE run[f]]
        BY <3>1, StepIsStepOf DEF StepOf, q
      <4> QED BY <2>1, <4>1
    <3>2. ASSUME NEW e \in Callers, NEW call \in Calls[e], Begin(e, call) PROVE FALSE
      <4>1. BeginOf(e, Asked(call))
        BY <3>2, BeginIsBeginOf
      <4> QED BY <2>1, <4>1 DEF BeginOf
    <3> QED BY <3>1, <3>2 DEF Next
  <2>3. IsCounting(c)
    BY DEF IsCounting
  <2> QED BY <2>1, <2>2, <2>3, StepCounts DEF CountsOn, AnswersRight
<1> QED BY <1>1, DiskInvariant, CountInvariant, PTL DEF Spec, RemovedAreCounted
=============================================================================
