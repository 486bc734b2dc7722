----------------------------- MODULE FilesProofs -----------------------------
(***************************************************************************)
(* The file system and the descriptors, for any image that is well formed,  *)
(* any sizes of the reads and any number of processes and descriptors.      *)
(***************************************************************************)
EXTENDS Files, SequenceTheorems, WellFoundedInduction, TLAPS

(* What can be read: bytes and names. *)
Read == {blocks[b][k] : b \in DOMAIN blocks, k \in 1 .. BLOCK_SIZE}
Listed == {direntries[i].name : i \in DOMAIN direntries}
Items == Read \cup Listed \cup {"garbage"}

Desc == [ops : Tables, inode : DOMAIN inodes, pos : Nat, flags : {Free, Busy}]

(* s is the first n elements of t. *)
First(s, t, n) == n <= Len(t) /\ Len(s) = n /\ \A k \in 1 .. n : s[k] = t[k]

(* The number of bytes of a file. *)
Size(inode) == inodes[inode].length

LEMMA Numbers ==
    /\ MAX_FILES \in Nat /\ MAX_FILES >= 2 /\ Pids \subseteq Nat
    /\ BLOCK_SIZE \in Nat /\ BLOCK_SIZE > 0
    /\ INT_MAX \in Nat /\ FILENAME_LEN \in Nat
    /\ Sizes \subseteq -INT_MAX - 1 .. INT_MAX
  <1>1. MAX_FILES \in Nat /\ MAX_FILES >= 2 /\ Pids \subseteq Nat
    BY FilesAssumption, Zenon
  <1>2. BLOCK_SIZE \in Nat \ {0}
    BY FilesAssumption, Zenon
  <1>3. INT_MAX \in Nat /\ FILENAME_LEN \in Nat /\ Sizes \subseteq -INT_MAX - 1 .. INT_MAX
    BY FilesAssumption, Zenon
  <1> QED
    BY <1>1, <1>2, <1>3

(* A set of numbers that is not empty has a least one, on which descent and  *)
(* choice both rest.                                                         *)
LEMMA LeastNat ==
    ASSUME NEW T, T \subseteq Nat, T # {}
    PROVE  \E m \in T : \A n \in T : m <= n
  <1> DEFINE R == OpToRel(<, Nat)
  <1>1. IsWellFoundedOn(R, Nat)
    BY NatLessThanWellFounded
  <1>2. \A m, n \in Nat : m < n => <<m, n>> \in R
    BY DEF OpToRel
  <1> HIDE DEF R
  <1>3. PICK m \in T : \A n \in T : <<n, m>> \notin R
    BY <1>1, WFMin
  <1>4. m \in Nat /\ \A n \in T : n \in Nat
    OBVIOUS
  <1>5. \A n \in T : ~(n < m)
    BY <1>2, <1>3, <1>4, Zenon
  <1>6. \A n \in T : m <= n
    BY <1>4, <1>5
  <1> QED
    BY <1>6

-----------------------------------------------------------------------------
(* read_data(): the walk over the blocks is division and remainder.          *)

LEMMA Divides ==
    ASSUME NEW k \in Nat
    PROVE  k \div BLOCK_SIZE \in Nat /\ k % BLOCK_SIZE \in 0 .. BLOCK_SIZE - 1
  BY Numbers

LEMMA NextPlace ==
    ASSUME NEW k \in Nat
    PROVE  NextByte(<<k \div BLOCK_SIZE, k % BLOCK_SIZE>>) =
             <<(k + 1) \div BLOCK_SIZE, (k + 1) % BLOCK_SIZE>>
  <1>1. BLOCK_SIZE \in Nat /\ BLOCK_SIZE > 0
    BY Numbers
  <1>2. CASE (k % BLOCK_SIZE) + 1 >= BLOCK_SIZE
    <2>1. /\ (k + 1) \div BLOCK_SIZE = (k \div BLOCK_SIZE) + 1
          /\ (k + 1) % BLOCK_SIZE = 0
      BY <1>1, <1>2
    <2> QED
      BY <1>2, <2>1, Zenon DEF NextByte
  <1>3. CASE (k % BLOCK_SIZE) + 1 < BLOCK_SIZE
    <2>1. /\ (k + 1) \div BLOCK_SIZE = k \div BLOCK_SIZE
          /\ (k + 1) % BLOCK_SIZE = (k % BLOCK_SIZE) + 1
          /\ ~((k % BLOCK_SIZE) + 1 >= BLOCK_SIZE)
      BY <1>1, <1>3
    <2> QED
      BY <2>1, Zenon DEF NextByte
  <1> QED
    BY <1>1, <1>2, <1>3, Divides

Place(k) == <<k \div BLOCK_SIZE, k % BLOCK_SIZE>>

LEMMA WalkIs ==
    ASSUME NEW offset \in Nat, NEW n \in Nat, NEW i \in 0 .. n
    PROVE  Walk(offset, n)[i] = Place(offset + i)
  <1> DEFINE g == [j \in 0 .. n |-> Place(offset + j)]
             w == Walk(offset, n)
  <1>1. \A j \in 0 .. n : j = 0 \/ (j - 1 \in 0 .. n /\ offset + j = (offset + (j - 1)) + 1
                                    /\ offset + (j - 1) \in Nat)
    OBVIOUS
  <1>2. \A j \in 0 .. n :
           g[j] = IF j = 0 THEN <<offset \div BLOCK_SIZE, offset % BLOCK_SIZE>>
                  ELSE NextByte(g[j - 1])
    <2> SUFFICES ASSUME NEW j \in 0 .. n
                 PROVE  g[j] = IF j = 0 THEN <<offset \div BLOCK_SIZE, offset % BLOCK_SIZE>>
                               ELSE NextByte(g[j - 1])
      OBVIOUS
    <2>1. CASE j = 0
      <3>1. offset + 0 = offset
        OBVIOUS
      <3> QED
        BY <2>1, <3>1, Zenon DEF Place
    <2>2. CASE j # 0
      <3>1. /\ j - 1 \in 0 .. n /\ offset + j = (offset + (j - 1)) + 1
            /\ offset + (j - 1) \in Nat
        BY <1>1, <2>2
      <3>2. g[j] = Place(offset + j) /\ g[j - 1] = Place(offset + (j - 1))
        BY <3>1
      <3>3. NextByte(g[j - 1]) = Place(offset + j)
        BY <3>1, <3>2, NextPlace, Zenon DEF Place
      <3> QED
        BY <2>2, <3>2, <3>3, Zenon
    <2> QED
      BY <2>1, <2>2
  <1>3. g = [j \in 0 .. n |->
               IF j = 0 THEN <<offset \div BLOCK_SIZE, offset % BLOCK_SIZE>>
               ELSE NextByte(g[j - 1])]
    <2>1. g = [j \in 0 .. n |-> g[j]]
      OBVIOUS
    <2> HIDE DEF g
    <2> QED
      BY <1>2, <2>1, Zenon
  <1> HIDE DEF g
  <1>4. w = [j \in 0 .. n |->
               IF j = 0 THEN <<offset \div BLOCK_SIZE, offset % BLOCK_SIZE>>
               ELSE NextByte(w[j - 1])]
    BY <1>3, Zenon DEF Walk
  <1> HIDE DEF w
  <1>5. \A j \in 0 .. n :
           w[j] = IF j = 0 THEN <<offset \div BLOCK_SIZE, offset % BLOCK_SIZE>>
                  ELSE NextByte(w[j - 1])
    BY <1>4, Zenon
  <1> DEFINE T == {j \in 0 .. n : w[j] # g[j]}
  <1>6. T = {}
    <2> SUFFICES ASSUME T # {} PROVE FALSE
      OBVIOUS
    <2>1. PICK m \in T : \A j \in T : m <= j
      <3>1. T \subseteq Nat
        OBVIOUS
      <3> HIDE DEF T
      <3> QED
        BY <3>1, LeastNat
    <2>2. m \in 0 .. n /\ w[m] # g[m]
      OBVIOUS
    <2>3. m # 0
      BY <1>2, <1>5, <2>2, Zenon
    <2>4. m - 1 \in 0 .. n /\ ~(m <= m - 1)
      BY <2>2, <2>3
    <2>5. w[m - 1] = g[m - 1]
      BY <2>1, <2>4, Zenon
    <2> QED
      BY <1>2, <1>5, <2>2, <2>3, <2>5, Zenon
  <1>7. w[i] = g[i]
    BY <1>6, Zenon
  <1> QED
    BY <1>7, Zenon DEF w, g

(* The byte at a place inside the file. *)
LEMMA ByteIs ==
    ASSUME NEW inode \in DOMAIN inodes, NEW k \in 1 .. Size(inode)
    PROVE  /\ ByteAt(inode, Place(k - 1)) = Contents(inode)[k]
           /\ Contents(inode)[k] \in Items
  <1> DEFINE q == (k - 1) \div BLOCK_SIZE
             r == (k - 1) % BLOCK_SIZE
             num == inodes[inode].data_block_num
  <1>1. Size(inode) \in 0 .. INT_MAX
    BY FilesAssumption, Zenon DEF Size
  <1>2. k - 1 \in Nat /\ k - 1 \in 0 .. Size(inode) - 1
    BY <1>1, Numbers
  <1>3. q \in Nat /\ r \in 0 .. BLOCK_SIZE - 1
    BY <1>2, Divides
  <1>4. q + 1 \in DOMAIN num /\ num[q + 1] \in DOMAIN blocks
    BY <1>2, FilesAssumption, Zenon DEF Size
  <1>5. r + 1 \in 1 .. BLOCK_SIZE
    BY <1>3, Numbers
  <1>6. DOMAIN blocks[num[q + 1]] = 1 .. BLOCK_SIZE
    BY <1>4, FilesAssumption, Zenon
  <1>7. Contents(inode)[k] = blocks[num[q + 1]][r + 1]
    BY DEF Contents, Size
  <1>8. Place(k - 1)[1] = q /\ Place(k - 1)[2] = r
    BY DEF Place
  <1> HIDE DEF q, r, num
  <1>9. ByteAt(inode, Place(k - 1)) = blocks[num[q + 1]][r + 1]
    BY <1>4, <1>5, <1>6, <1>8, Zenon DEF ByteAt, num
  <1>10. blocks[num[q + 1]][r + 1] \in Items
    <2>1. blocks[num[q + 1]][r + 1] \in Read
      BY <1>4, <1>5 DEF Read
    <2> QED
      BY <2>1, Zenon DEF Items
  <1> QED
    BY <1>7, <1>9, <1>10, Zenon

LEMMA ContentsType ==
    ASSUME NEW inode \in DOMAIN inodes
    PROVE  Contents(inode) \in Seq(Items) /\ Len(Contents(inode)) = Size(inode)
           /\ Size(inode) \in 0 .. INT_MAX
  <1>1. Size(inode) \in 0 .. INT_MAX
    BY FilesAssumption, Zenon DEF Size
  <1>2. \A k \in 1 .. Size(inode) : Contents(inode)[k] \in Items
    BY ByteIs
  <1>3. Contents(inode) = [k \in 1 .. Size(inode) |-> Contents(inode)[k]]
    BY Zenon DEF Contents, Size
  <1>4. Contents(inode) \in [1 .. Size(inode) -> Items]
    BY <1>2, <1>3
  <1> QED
    BY <1>1, <1>4, Numbers

LEMMA Unsigned ==
    ASSUME NEW n \in 0 .. INT_MAX, NEW m \in 0 .. INT_MAX
    PROVE  n % UINTS = n /\ (n + m) % UINTS = n + m
  <1>1. UINTS \in Nat /\ n \in 0 .. UINTS - 1 /\ n + m \in 0 .. UINTS - 1
    BY Numbers DEF UINTS
  <1> QED
    BY <1>1

(* What a read of n bytes at pos gives: the bytes of the file from there on, *)
(* and none only at its end.                                                 *)
LEMMA ReadData ==
    ASSUME NEW inode \in DOMAIN inodes, NEW pos \in 0 .. Size(inode), NEW n \in 0 .. INT_MAX,
           NEW bytes, bytes = read_data(inode, pos, n)
    PROVE  /\ bytes \in Seq(Items) /\ Len(bytes) \in Nat /\ pos + Len(bytes) <= Size(inode)
           /\ \A k \in 1 .. Len(bytes) : bytes[k] = Contents(inode)[pos + k]
           /\ n > 0 /\ Len(bytes) = 0 => pos = Size(inode)
  <1>1. Size(inode) \in 0 .. INT_MAX /\ INT_MAX \in Nat
    BY ContentsType, Numbers
  <1>2. CASE pos >= Size(inode)
    <2>1. bytes = <<>>
      BY <1>2, Zenon DEF read_data, Size
    <2> QED
      BY <1>1, <1>2, <2>1
  <1>3. CASE pos < Size(inode)
    <2> DEFINE m == Clipped(inode, pos, n)
    <2>1. (n + pos) % UINTS = n + pos
      BY <1>1, Unsigned
    <2>2. m = IF n + pos > Size(inode) THEN Size(inode) - pos ELSE n
      BY <2>1, Zenon DEF Clipped, Size
    <2>3. m \in Nat /\ pos + m <= Size(inode) /\ (n > 0 => m > 0)
      BY <1>1, <1>3, <2>2
    <2> HIDE DEF m
    <2>4. bytes = [i \in 1 .. m |-> ByteAt(inode, Walk(pos, m)[i - 1])]
      <3>1. ~(pos >= Size(inode))
        BY <1>1, <1>3
      <3> QED
        BY <3>1, Zenon DEF read_data, Size, m
    <2>5. ASSUME NEW k \in 1 .. m
          PROVE  bytes[k] = Contents(inode)[pos + k] /\ bytes[k] \in Items
      <3>1. /\ k - 1 \in 0 .. m /\ pos + k \in 1 .. Size(inode)
            /\ (pos + k) - 1 = pos + (k - 1) /\ pos \in Nat
        BY <1>1, <2>3
      <3>2. bytes[k] = ByteAt(inode, Walk(pos, m)[k - 1])
        BY <2>4
      <3>3. Walk(pos, m)[k - 1] = Place((pos + k) - 1)
        BY <2>3, <3>1, WalkIs
      <3> QED
        BY <3>1, <3>2, <3>3, ByteIs, Zenon
    <2>6. bytes \in [1 .. m -> Items]
      BY <2>4, <2>5
    <2>7. bytes \in Seq(Items) /\ Len(bytes) = m
      BY <2>3, <2>6
    <2> QED
      BY <1>1, <1>3, <2>3, <2>5, <2>7
  <1> QED
    BY <1>1, <1>2, <1>3

LEMMA FirstIsPrefix ==
    ASSUME NEW s \in Seq(Items), NEW t \in Seq(Items), NEW n, First(s, t, n)
    PROVE  IsPrefix(s, t)
  <1>1. n = Len(s) /\ Len(s) \in Nat /\ Len(t) \in Nat /\ Len(s) <= Len(t)
        /\ \A k \in 1 .. Len(s) : s[k] = t[k]
    BY DEF First
  <1>2. /\ SubSeq(s, 1, Len(s)) \in Seq(Items) /\ SubSeq(t, 1, Len(s)) \in Seq(Items)
        /\ Len(SubSeq(s, 1, Len(s))) = Len(s) /\ Len(SubSeq(t, 1, Len(s))) = Len(s)
    BY <1>1
  <1>3. \A k \in 1 .. Len(s) : SubSeq(s, 1, Len(s))[k] = s[k] /\ SubSeq(t, 1, Len(s))[k] = t[k]
    BY <1>1
  <1>4. SubSeq(s, 1, Len(s)) = SubSeq(t, 1, Len(s))
    BY <1>1, <1>2, <1>3, SeqEqual
  <1> QED
    BY <1>1, <1>4, Zenon DEF IsPrefix

(* Reading on. *)
LEMMA FirstThen ==
    ASSUME NEW s \in Seq(Items), NEW t \in Seq(Items), NEW n \in Nat, First(s, t, n),
           NEW u \in Seq(Items), n + Len(u) <= Len(t),
           \A k \in 1 .. Len(u) : u[k] = t[n + k]
    PROVE  s \o u \in Seq(Items) /\ First(s \o u, t, n + Len(u))
  <1>1. Len(s) = n /\ Len(u) \in Nat /\ \A k \in 1 .. n : s[k] = t[k]
    BY DEF First
  <1>2. /\ s \o u \in Seq(Items) /\ Len(s \o u) = Len(s) + Len(u)
        /\ \A k \in 1 .. Len(s) + Len(u) :
              (s \o u)[k] = IF k <= Len(s) THEN s[k] ELSE u[k - Len(s)]
    BY ConcatProperties
  <1>3. ASSUME NEW k \in 1 .. n + Len(u) PROVE (s \o u)[k] = t[k]
    <2>1. CASE k <= n
      <3>1. k \in 1 .. n
        BY <2>1
      <3> QED
        BY <1>1, <1>2, <2>1, <3>1, Zenon
    <2>2. CASE ~(k <= n)
      <3>1. k - n \in 1 .. Len(u) /\ n + (k - n) = k
        BY <1>1, <2>2
      <3>2. u[k - n] = t[k]
        BY <3>1, Zenon
      <3> QED
        BY <1>1, <1>2, <2>2, <3>2, Zenon
    <2> QED
      BY <2>1, <2>2
  <1> QED
    BY <1>1, <1>2, <1>3, Zenon DEF First

LEMMA ListingType ==
    /\ DOMAIN direntries = 1 .. Len(direntries) /\ Len(direntries) \in Nat
    /\ Listing \in Seq(Items) /\ Len(Listing) = Len(direntries)
    /\ \A i \in DOMAIN direntries : Listing[i] = direntries[i].name /\ direntries[i].name \in Items
  <1>1. direntries \in Seq(Range(direntries))
    BY FilesAssumption, Zenon
  <1>2. DOMAIN direntries = 1 .. Len(direntries) /\ Len(direntries) \in Nat
    BY <1>1, LenProperties
  <1>3. \A i \in DOMAIN direntries : direntries[i].name \in Items
    BY Zenon DEF Items, Listed
  <1>4. Listing \in [1 .. Len(direntries) -> Items]
    BY <1>2, <1>3 DEF Listing
  <1>5. Listing \in Seq(Items) /\ Len(Listing) = Len(direntries)
    BY <1>2, <1>4
  <1> QED
    BY <1>2, <1>3, <1>5, Zenon DEF Listing

-----------------------------------------------------------------------------
(* The inductive invariant.                                                  *)

Sequenced == chain \in Seq(Pids) /\ IsInjective(chain)

Typed ==
    /\ fd_arr \in [Pids -> [Fds -> Desc]]
    /\ arg_buf \in [Pids -> {"none", "short", "long"}]
    /\ got \in [Pids -> [Fds -> Seq(Items)]]
    /\ status \in {"ok", "wild"}

LastTyped ==
    last \in [op : {"none", "read", "write", "close", "other"}, fd : -1 .. MAX_FILES + 1,
              n : Int, result : Int, written : Nat]

(* open() is in progress on a descriptor that it has set to the beginning.   *)
Opens ==
    \/ opening = Idle
    \/ /\ opening.stage = "busy" /\ chain # <<>>
       /\ opening.fd \in Fds /\ opening.fd # 0 /\ opening.fd # 1
       /\ opening.entry \in DOMAIN direntries
       /\ fd_arr[cur][opening.fd].pos = 0

(* Of each pid, free or taken. *)
Closed(p) == \A fd \in Fds : fd_arr[p][fd].flags = Free
Started(p) ==
    /\ fd_arr[p][0].flags = Busy /\ fd_arr[p][0].ops = "stdin"
    /\ fd_arr[p][1].flags = Busy /\ fd_arr[p][1].ops = "stdout"
Standards == \A p \in Pids : IF p \in Taken THEN Started(p) ELSE Closed(p)

(* What has been read through a descriptor, as far as its position. *)
BeingOpened(p, fd) == opening.stage = "busy" /\ p = cur /\ fd = opening.fd
Gone(d, s) ==
    /\ d.ops = "file" => First(s, Contents(d.inode), d.pos)
    /\ d.ops = "dir" => First(s, Listing, d.pos)
InOrder ==
    \A p \in Taken, fd \in Fds :
        fd_arr[p][fd].flags = Busy /\ ~BeingOpened(p, fd) => Gone(fd_arr[p][fd], got[p][fd])

Inv == Sequenced /\ Typed /\ LastTyped /\ (status = "ok" => Opens /\ Standards /\ InOrder)

-----------------------------------------------------------------------------
(* The chain of processes.                                                   *)

LEMMA Current ==
    ASSUME Sequenced, chain # <<>>
    PROVE  /\ cur \in Pids /\ cur \in Taken /\ Taken \subseteq Pids
           /\ Len(chain) \in Nat /\ Len(chain) > 0 /\ DOMAIN chain = 1 .. Len(chain)
  <1>1. Len(chain) \in Nat /\ Len(chain) > 0 /\ DOMAIN chain = 1 .. Len(chain)
    BY EmptySeq, LenProperties DEF Sequenced
  <1>2. Len(chain) \in DOMAIN chain /\ Taken \subseteq Pids
    BY <1>1, ElementOfSeq DEF Sequenced, Taken
  <1>3. cur \in Taken
    BY <1>2 DEF cur, Taken
  <1> QED
    BY <1>1, <1>2, <1>3

LEMMA TakenType ==
    ASSUME Sequenced
    PROVE  Taken \subseteq Pids /\ DOMAIN chain = 1 .. Len(chain) /\ Len(chain) \in Nat
  BY DEF Sequenced, Taken

LEMMA Grows ==
    ASSUME Sequenced, NEW p \in Pids \ Taken, chain' = Append(chain, p)
    PROVE  Sequenced' /\ Taken' = Taken \cup {p} /\ cur' = p /\ chain' # <<>>
  <1> DEFINE n == Len(chain)
  <1>1. /\ chain \in Seq(Pids) /\ n \in Nat /\ DOMAIN chain = 1 .. n
        /\ \A a \in 1 .. n : chain[a] # p
        /\ \A a, b \in 1 .. n : chain[a] = chain[b] => a = b
    BY DEF Sequenced, Taken, IsInjective
  <1>2. /\ chain' \in Seq(Pids) /\ Len(chain') = n + 1 /\ DOMAIN chain' = 1 .. n + 1
        /\ \A a \in 1 .. n : chain'[a] = chain[a]
        /\ chain'[n + 1] = p
    BY <1>1
  <1> HIDE DEF n
  <1>3. \A a \in 1 .. n + 1 : a \in 1 .. n \/ a = n + 1
    BY <1>1
  <1>4. 1 .. n \subseteq 1 .. n + 1 /\ n + 1 \in 1 .. n + 1
    BY <1>1
  <1>5. IsInjective(chain')
    <2>1. ASSUME NEW a \in 1 .. n + 1, NEW b \in 1 .. n + 1, chain'[a] = chain'[b]
          PROVE  a = b
      BY <1>1, <1>2, <1>3, <2>1
    <2> QED
      BY <1>2, <2>1 DEF IsInjective
  <1>6. Taken' = Taken \cup {p}
    <2>1. Taken' = {chain'[a] : a \in 1 .. n + 1}
      BY <1>2, Zenon DEF Taken
    <2>2. Taken = {chain[a] : a \in 1 .. n}
      BY <1>1, Zenon DEF Taken
    <2> QED
      BY <1>2, <1>3, <1>4, <2>1, <2>2
  <1>7. chain' # <<>>
    BY <1>1, <1>2
  <1> QED
    <2>1. cur' = p
      BY <1>2, Zenon DEF cur
    <2> QED
      BY <1>2, <1>5, <1>6, <1>7, <2>1, Zenon DEF Sequenced

LEMMA Shrinks ==
    ASSUME Sequenced, chain # <<>>, chain' = Front(chain)
    PROVE  Sequenced' /\ Taken' = Taken \ {cur}
  <1> DEFINE n == Len(chain) - 1
  <1>1. /\ chain \in Seq(Pids) /\ n \in Nat /\ n <= Len(chain) /\ Len(chain) = n + 1
        /\ DOMAIN chain = 1 .. n + 1
        /\ \A a, b \in 1 .. n + 1 : chain[a] = chain[b] => a = b
    BY Current DEF Sequenced, IsInjective
  <1>2. chain' = SubSeq(chain, 1, n)
    BY Zenon DEF Front
  <1> HIDE DEF n
  <1>3. chain' \in Seq(Pids)
    BY <1>1, <1>2
  <1>4. Len(chain') = n
    BY <1>1, <1>2
  <1>5. \A a \in 1 .. n : chain'[a] = chain[a]
    BY <1>1, <1>2
  <1>6. DOMAIN chain' = 1 .. n
    BY <1>3, <1>4
  <1>7. /\ \A a \in 1 .. n + 1 : a \in 1 .. n \/ a = n + 1
        /\ 1 .. n \subseteq 1 .. n + 1 /\ n + 1 \in 1 .. n + 1 /\ n + 1 \notin 1 .. n
    BY <1>1
  <1>8. IsInjective(chain')
    <2>1. ASSUME NEW a \in 1 .. n, NEW b \in 1 .. n, chain'[a] = chain'[b]
          PROVE  a = b
      BY <1>1, <1>5, <1>7, <2>1
    <2> QED
      BY <1>6, <2>1 DEF IsInjective
  <1>9. Taken' = Taken \ {cur}
    <2>1. Taken' = {chain'[a] : a \in 1 .. n}
      BY <1>6, Zenon DEF Taken
    <2>2. Taken = {chain[a] : a \in 1 .. n + 1}
      BY <1>1, Zenon DEF Taken
    <2>3. cur = chain[n + 1]
      BY <1>1, Zenon DEF cur
    <2>4. \A a \in 1 .. n : chain[a] # chain[n + 1]
      BY <1>1, <1>7, Zenon
    <2> HIDE DEF cur
    <2> QED
      BY <1>5, <1>7, <2>1, <2>2, <2>3, <2>4
  <1> QED
    BY <1>3, <1>8, <1>9, Zenon DEF Sequenced

LEMMA Stays ==
    ASSUME UNCHANGED chain
    PROVE  cur' = cur /\ Taken' = Taken /\ (Sequenced => Sequenced')
  BY DEF cur, Taken, Sequenced

-----------------------------------------------------------------------------
(* The descriptors.                                                          *)

LEMMA FlagsDiffer == Free # Busy /\ Free \in {Free, Busy} /\ Busy \in {Free, Busy}
  BY DEF Free, Busy

LEMMA DescIs ==
    ASSUME NEW d \in Desc
    PROVE  /\ d.ops \in Tables /\ d.inode \in DOMAIN inodes /\ d.pos \in Nat
           /\ d.flags \in {Free, Busy}
  BY DEF Desc

LEMMA FdsAre == 0 \in Fds /\ 1 \in Fds /\ \A fd \in Fds : fd \in Nat /\ fd < MAX_FILES
  BY Numbers DEF Fds

(* One descriptor changes. *)
LEMMA OneChanges ==
    ASSUME NEW table \in [Pids -> [Fds -> Desc]], NEW p \in Pids, NEW fd \in Fds, NEW d \in Desc
    PROVE  /\ [table EXCEPT ![p][fd] = d] \in [Pids -> [Fds -> Desc]]
           /\ [table EXCEPT ![p][fd] = d][p][fd] = d
           /\ \A q \in Pids, f \in Fds : q # p \/ f # fd =>
                 [table EXCEPT ![p][fd] = d][q][f] = table[q][f]
  OBVIOUS

-----------------------------------------------------------------------------
(* The steps.                                                                *)

LEMMA AnswerType ==
    ASSUME NEW op \in {"none", "read", "write", "close", "other"},
           NEW fd \in -1 .. MAX_FILES + 1, NEW n \in Int, NEW r \in Int, NEW written \in Nat,
           AnswerTo(op, fd, n, r, written)
    PROVE  LastTyped'
  BY DEF LastTyped, AnswerTo

LEMMA OtherType ==
    ASSUME NEW r \in Int, Answer(r)
    PROVE  LastTyped'
  <1>1. 0 \in -1 .. MAX_FILES + 1 /\ 0 \in Int /\ 0 \in Nat
    BY Numbers
  <1>2. "other" \in {"none", "read", "write", "close", "other"}
    OBVIOUS
  <1> QED
    BY <1>1, <1>2, AnswerType, Zenon DEF Answer

LEMMA Others ==
    ASSUME Answer(0) \/ Answer(-1)
    PROVE  LastTyped'
  <1>1. 0 \in Int /\ -1 \in Int
    OBVIOUS
  <1> QED
    BY <1>1, OtherType, Zenon

LEMMA IdleIs == Idle.stage # "busy"
  <1>1. Idle.stage = "none"
    BY DEF Idle
  <1> QED
    BY <1>1

(* A call that only answers. *)
LEMMA Answers ==
    ASSUME Inv, UNCHANGED <<chain, fd_arr, arg_buf, opening, got, status>>, LastTyped'
    PROVE  Inv'
  <1>1. Sequenced' /\ cur' = cur /\ Taken' = Taken
    BY Stays, Zenon DEF Inv
  <1>2. Typed'
    BY Zenon DEF Inv, Typed
  <1>3. ASSUME status = "ok" PROVE Opens' /\ Standards' /\ InOrder'
    <2>1. Opens /\ Standards /\ InOrder
      BY <1>3, Zenon DEF Inv
    <2>2. Opens'
      BY <1>1, <2>1, Zenon DEF Opens
    <2>3. Standards'
      BY <1>1, <2>1, Zenon DEF Standards, Started, Closed
    <2>4. InOrder'
      BY <1>1, <2>1, Zenon DEF InOrder, BeingOpened, Gone
    <2> QED
      BY <2>2, <2>3, <2>4
  <1> QED
    BY <1>1, <1>2, <1>3, Zenon DEF Inv

(* The kernel is lost: nothing is said of the descriptors. *)
LEMMA GoesWild ==
    ASSUME Inv, UNCHANGED <<chain, fd_arr, arg_buf, got>>, status' = "wild", LastTyped'
    PROVE  Inv'
  <1>1. Sequenced'
    BY Stays, Zenon DEF Inv
  <1>2. Typed'
    BY Zenon DEF Inv, Typed
  <1>3. status' # "ok"
    OBVIOUS
  <1> QED
    BY <1>1, <1>2, <1>3, Zenon DEF Inv

(* A call changes one descriptor of the process that makes it. *)
LEMMA ChangeKeeps ==
    ASSUME Inv, status = "ok", chain # <<>>,
           UNCHANGED <<chain, arg_buf, status>>, LastTyped', Opens',
           NEW fd \in Fds, NEW d \in Desc, NEW s \in Seq(Items),
           fd_arr' = [fd_arr EXCEPT ![cur][fd] = d],
           got' = [got EXCEPT ![cur][fd] = s],
           fd = 0 \/ fd = 1 => d.flags = Busy /\ d.ops = fd_arr[cur][fd].ops,
           opening = Idle \/ opening.fd = fd,
           d.flags = Busy => Gone(d, s) \/ (opening'.stage = "busy" /\ fd = opening'.fd)
    PROVE  Inv'
  <1>1. Sequenced /\ Typed /\ Standards /\ InOrder
    BY Zenon DEF Inv
  <1>2. Sequenced' /\ cur' = cur /\ Taken' = Taken /\ cur \in Taken /\ cur \in Pids
    BY <1>1, Stays, Current
  <1> HIDE DEF cur
  <1>3. fd_arr \in [Pids -> [Fds -> Desc]]
    BY <1>1, Zenon DEF Typed
  <1>4. /\ fd_arr' \in [Pids -> [Fds -> Desc]] /\ fd_arr'[cur][fd] = d
        /\ \A q \in Pids, f \in Fds : q # cur \/ f # fd => fd_arr'[q][f] = fd_arr[q][f]
    BY <1>2, <1>3, OneChanges
  <1>5. /\ got' \in [Pids -> [Fds -> Seq(Items)]] /\ got'[cur][fd] = s
        /\ \A q \in Pids, f \in Fds : q # cur \/ f # fd => got'[q][f] = got[q][f]
    <2>1. got \in [Pids -> [Fds -> Seq(Items)]]
      BY <1>1, Zenon DEF Typed
    <2> DEFINE S == Seq(Items)
    <2>2. got \in [Pids -> [Fds -> S]] /\ s \in S
      BY <2>1
    <2> HIDE DEF S
    <2>3. /\ got' \in [Pids -> [Fds -> S]] /\ got'[cur][fd] = s
          /\ \A q \in Pids, f \in Fds : q # cur \/ f # fd => got'[q][f] = got[q][f]
      BY <1>2, <2>2
    <2> QED
      BY <2>3, Zenon DEF S
  <1>6. Typed'
    BY <1>1, <1>4, <1>5, Zenon DEF Typed
  <1>7. Standards'
    <2> SUFFICES ASSUME NEW p \in Pids
                 PROVE  (IF p \in Taken THEN Started(p) ELSE Closed(p))'
      BY Zenon DEF Standards
    <2>1. CASE p \in Taken
      <3>1. Started(p)
        BY <1>1, <2>1, Zenon DEF Standards
      <3>2. /\ fd_arr'[p][0].flags = Busy /\ fd_arr'[p][0].ops = fd_arr[p][0].ops
            /\ fd_arr'[p][1].flags = Busy /\ fd_arr'[p][1].ops = fd_arr[p][1].ops
        BY <1>4, <3>1, FdsAre, Zenon DEF Started
      <3>3. Started(p)'
        BY <3>1, <3>2, Zenon DEF Started
      <3> QED
        BY <1>2, <2>1, <3>3, Zenon
    <2>2. CASE p \notin Taken
      <3>1. Closed(p) /\ p # cur
        BY <1>1, <1>2, <2>2, Zenon DEF Standards
      <3>2. Closed(p)'
        BY <1>4, <3>1, Zenon DEF Closed
      <3> QED
        BY <1>2, <2>2, <3>2, Zenon
    <2> QED
      BY <2>1, <2>2
  <1>8. InOrder'
    <2> SUFFICES ASSUME NEW p \in Taken, NEW f \in Fds,
                        fd_arr'[p][f].flags = Busy, ~BeingOpened(p, f)'
                 PROVE  Gone(fd_arr'[p][f], got'[p][f])
      BY <1>2, Zenon DEF InOrder, Gone
    <2>1. p \in Pids
      BY <1>1, TakenType
    <2>2. CASE p = cur /\ f = fd
      BY <1>2, <1>4, <1>5, <2>2, Zenon DEF BeingOpened
    <2>3. CASE p # cur \/ f # fd
      <3>1. fd_arr'[p][f] = fd_arr[p][f] /\ got'[p][f] = got[p][f]
        BY <1>4, <1>5, <2>1, <2>3, Zenon
      <3>2. ~BeingOpened(p, f)
        BY <2>3, IdleIs, Zenon DEF BeingOpened
      <3> QED
        BY <1>1, <3>1, <3>2, Zenon DEF InOrder
    <2> QED
      BY <2>2, <2>3, Zenon
  <1> QED
    BY <1>2, <1>6, <1>7, <1>8, Zenon DEF Inv

(* The same when nothing is read. *)
LEMMA ChangeOnly ==
    ASSUME Inv, status = "ok", chain # <<>>,
           UNCHANGED <<chain, arg_buf, got, status>>, LastTyped', Opens',
           NEW fd \in Fds, NEW d \in Desc,
           fd_arr' = [fd_arr EXCEPT ![cur][fd] = d],
           fd = 0 \/ fd = 1 => d.flags = Busy /\ d.ops = fd_arr[cur][fd].ops,
           opening = Idle \/ opening.fd = fd,
           d.flags = Busy => opening'.stage = "busy" /\ fd = opening'.fd
    PROVE  Inv'
  <1>1. cur \in Pids /\ got \in [Pids -> [Fds -> Seq(Items)]]
    BY Current, Zenon DEF Inv, Typed
  <1> DEFINE S == Seq(Items)
             s == got[cur][fd]
  <1> HIDE DEF S, cur
  <1>2. s \in S /\ got = [got EXCEPT ![cur][fd] = s]
    <2>1. got \in [Pids -> [Fds -> S]]
      BY <1>1, Zenon DEF S
    <2>2. [got[cur] EXCEPT ![fd] = s] = got[cur]
      BY <1>1, <2>1
    <2>3. [got EXCEPT ![cur] = got[cur]] = got
      BY <1>1, <2>1
    <2> QED
      BY <1>1, <2>1, <2>2, <2>3
  <1> HIDE DEF s
  <1>3. s \in Seq(Items) /\ got' = [got EXCEPT ![cur][fd] = s]
    BY <1>2, Zenon DEF S
  <1> QED
    BY <1>3, ChangeKeeps, Zenon

LEMMA UserIs ==
    ASSUME Inv, InUser
    PROVE  /\ status = "ok" /\ chain # <<>> /\ opening = Idle
           /\ Sequenced /\ Typed /\ Opens /\ Standards /\ InOrder
           /\ cur \in Pids /\ cur \in Taken
           /\ \A fd \in Fds : fd_arr[cur][fd] \in Desc /\ got[cur][fd] \in Seq(Items)
  <1>1. status = "ok" /\ chain # <<>> /\ opening = Idle
    BY Zenon DEF InUser
  <1>2. Sequenced /\ Typed /\ Opens /\ Standards /\ InOrder
    BY <1>1, Zenon DEF Inv
  <1>3. cur \in Pids /\ cur \in Taken
    BY <1>1, <1>2, Current
  <1>4. \A fd \in Fds : fd_arr[cur][fd] \in Desc /\ got[cur][fd] \in Seq(Items)
    BY <1>2, <1>3, Zenon DEF Typed
  <1> QED
    BY <1>1, <1>2, <1>3, <1>4

LEMMA LeastIs ==
    ASSUME NEW S, S \subseteq Nat, S # {}
    PROVE  (CHOOSE m \in S : \A n \in S : m <= n) \in S
  BY LeastNat, Zenon

LEMMA StandardIs ==
    ASSUME NEW table \in [Fds -> Desc]
    PROVE  /\ Standard(table) \in [Fds -> Desc]
           /\ Standard(table)[0].flags = Busy /\ Standard(table)[0].ops = "stdin"
           /\ Standard(table)[1].flags = Busy /\ Standard(table)[1].ops = "stdout"
           /\ \A fd \in Fds : fd # 0 /\ fd # 1 => Standard(table)[fd] = table[fd]
  <1> DEFINE in == [ops |-> "stdin", inode |-> 0, pos |-> 0, flags |-> Busy]
             out == [ops |-> "stdout", inode |-> 0, pos |-> 0, flags |-> Busy]
  <1>1. 0 \in DOMAIN inodes
    BY FilesAssumption, Zenon
  <1>2. in \in Desc /\ out \in Desc
    <2>1. "stdin" \in Tables /\ "stdout" \in Tables
      BY DEF Tables
    <2>2. 0 \in Nat
      OBVIOUS
    <2> QED
      BY <1>1, <2>1, <2>2, FlagsDiffer DEF Desc
  <1>3. in.flags = Busy /\ in.ops = "stdin" /\ out.flags = Busy /\ out.ops = "stdout"
    OBVIOUS
  <1>4. Standard(table) = [fd \in Fds |-> IF fd = 0 THEN in ELSE IF fd = 1 THEN out ELSE table[fd]]
    BY Zenon DEF Standard
  <1> HIDE DEF in, out
  <1>5. Standard(table) \in [Fds -> Desc]
    BY <1>2, <1>4
  <1>6. Standard(table)[0] = in /\ Standard(table)[1] = out
    BY <1>4, FdsAre
  <1>7. \A fd \in Fds : fd # 0 /\ fd # 1 => Standard(table)[fd] = table[fd]
    BY <1>4
  <1> QED
    BY <1>3, <1>5, <1>6, <1>7, Zenon

LEMMA ExecuteStep ==
    ASSUME Inv, NEW i \in DOMAIN direntries, NEW args \in {"none", "short", "long"},
           Execute(i, args)
    PROVE  Inv'
  <1> DEFINE pid == CHOOSE p \in Pids \ Taken : \A q \in Pids \ Taken : p <= q
  <1>1. /\ chain' = Append(chain, pid)
        /\ fd_arr' = [fd_arr EXCEPT ![pid] = Standard(fd_arr[pid])]
        /\ arg_buf' = [arg_buf EXCEPT ![pid] = args]
        /\ got' = [got EXCEPT ![pid] = [fd \in Fds |-> <<>>]]
        /\ Answer(0) /\ opening' = opening /\ status' = status /\ Taken # Pids
        /\ status = "ok" /\ (opening = Idle \/ chain = <<>>)
    BY Zenon DEF Execute, InUser
  <1>2. Sequenced /\ Typed /\ Opens /\ Standards /\ InOrder /\ opening = Idle
    BY <1>1, Zenon DEF Inv, Opens
  <1>3. pid \in Pids \ Taken
    <2>1. Pids \ Taken # {} /\ Pids \ Taken \subseteq Nat
      BY <1>1, <1>2, TakenType, Numbers
    <2> QED
      BY <2>1, LeastIs, Zenon
  <1> HIDE DEF pid
  <1>4. Sequenced' /\ Taken' = Taken \cup {pid} /\ cur' = pid /\ chain' # <<>>
    BY <1>1, <1>2, <1>3, Grows, Zenon
  <1>5. fd_arr \in [Pids -> [Fds -> Desc]] /\ fd_arr[pid] \in [Fds -> Desc]
    BY <1>2, <1>3, Zenon DEF Typed
  <1> DEFINE t == Standard(fd_arr[pid])
  <1>6. /\ t \in [Fds -> Desc] /\ t[0].flags = Busy /\ t[0].ops = "stdin"
        /\ t[1].flags = Busy /\ t[1].ops = "stdout"
        /\ \A fd \in Fds : fd # 0 /\ fd # 1 => t[fd] = fd_arr[pid][fd]
    BY <1>5, StandardIs, Zenon
  <1> HIDE DEF t
  <1>7. /\ fd_arr' \in [Pids -> [Fds -> Desc]] /\ fd_arr'[pid] = t
        /\ \A q \in Pids : q # pid => fd_arr'[q] = fd_arr[q]
    <2>1. fd_arr' = [fd_arr EXCEPT ![pid] = t]
      BY <1>1, Zenon DEF t
    <2> QED
      BY <1>3, <1>5, <1>6, <2>1
  <1>8. /\ got' \in [Pids -> [Fds -> Seq(Items)]]
        /\ \A q \in Pids : q # pid => got'[q] = got[q]
    <2> DEFINE S == Seq(Items)
    <2>1. [fd \in Fds |-> <<>>] \in [Fds -> S] /\ got \in [Pids -> [Fds -> S]]
      BY <1>2, EmptySeq DEF Typed
    <2> HIDE DEF S
    <2>2. got' \in [Pids -> [Fds -> S]] /\ \A q \in Pids : q # pid => got'[q] = got[q]
      BY <1>1, <1>3, <2>1
    <2> QED
      BY <2>2, Zenon DEF S
  <1>9. Typed'
    <2>1. arg_buf' \in [Pids -> {"none", "short", "long"}]
      BY <1>1, <1>2 DEF Typed
    <2> QED
      BY <1>1, <1>7, <1>8, <2>1, Zenon DEF Typed
  <1>10. LastTyped'
    BY <1>1, Others, Zenon
  <1>11. Opens'
    BY <1>1, <1>2, Zenon DEF Opens
  <1>12. Standards'
    <2> SUFFICES ASSUME NEW p \in Pids
                 PROVE  (IF p \in Taken THEN Started(p) ELSE Closed(p))'
      BY Zenon DEF Standards
    <2>1. CASE p = pid
      <3>1. Started(p)'
        BY <1>6, <1>7, <2>1, Zenon DEF Started
      <3>2. p \in Taken'
        BY <1>4, <2>1
      <3> QED
        BY <3>1, <3>2, Zenon
    <2>2. CASE p # pid
      <3>1. (IF p \in Taken THEN Started(p) ELSE Closed(p)) /\ fd_arr'[p] = fd_arr[p]
        BY <1>2, <1>7, <2>2, Zenon DEF Standards
      <3>2. p \in Taken' <=> p \in Taken
        BY <1>4, <2>2
      <3> QED
        BY <3>1, <3>2, Zenon DEF Started, Closed
    <2> QED
      BY <2>1, <2>2
  <1>13. InOrder'
    <2> SUFFICES ASSUME NEW p \in Taken', NEW f \in Fds, fd_arr'[p][f].flags = Busy
                 PROVE  Gone(fd_arr'[p][f], got'[p][f])
      BY Zenon DEF InOrder, Gone
    <2>1. CASE p = pid
      <3>1. f = 0 \/ f = 1
        <4>1. fd_arr[pid][f].flags = Free
          BY <1>2, <1>3, Zenon DEF Standards, Closed
        <4> QED
          BY <1>6, <1>7, <2>1, <4>1, FlagsDiffer, Zenon
      <3>2. fd_arr'[p][f].ops \in {"stdin", "stdout"}
        BY <1>6, <1>7, <2>1, <3>1, Zenon
      <3>3. fd_arr'[p][f].ops # "file" /\ fd_arr'[p][f].ops # "dir"
        BY <3>2
      <3> QED
        BY <3>3, Zenon DEF Gone
    <2>2. CASE p # pid
      <3>1. p \in Taken /\ p \in Pids
        BY <1>2, <1>4, <2>2, TakenType
      <3>2. fd_arr'[p][f] = fd_arr[p][f] /\ got'[p][f] = got[p][f]
        BY <1>7, <1>8, <2>2, <3>1, Zenon
      <3>3. ~BeingOpened(p, f)
        BY <1>2, IdleIs, Zenon DEF BeingOpened
      <3> QED
        BY <1>2, <3>1, <3>2, <3>3, Zenon DEF InOrder
    <2> QED
      BY <2>1, <2>2
  <1> QED
    BY <1>1, <1>4, <1>9, <1>10, <1>11, <1>12, <1>13, Zenon DEF Inv

(* halt(), or the end of the process by a fault. *)
LEMMA EndKeeps ==
    ASSUME Inv, status = "ok", chain # <<>>, End, opening' = Idle,
           UNCHANGED <<arg_buf, got>>, LastTyped'
    PROVE  Inv'
  <1>1. Sequenced /\ Typed /\ Opens /\ Standards /\ InOrder
    BY Zenon DEF Inv
  <1>2. CASE ~Closable(fd_arr[cur])
    <2>1. status' = "wild" /\ UNCHANGED <<fd_arr, chain>>
      BY <1>2, Zenon DEF End
    <2> QED
      BY <2>1, GoesWild, Zenon
  <1>3. CASE Closable(fd_arr[cur])
    <2>1. /\ fd_arr' = [fd_arr EXCEPT ![cur] = ClosedAtHalt(fd_arr[cur])]
          /\ chain' = Front(chain) /\ status' = status
      BY <1>3, Zenon DEF End
    <2>2. /\ Sequenced' /\ Taken' = Taken \ {cur} /\ cur \in Pids
          /\ cur \in Taken /\ Taken \subseteq Pids
      BY <1>1, <2>1, Shrinks, Current, Zenon
    <2> DEFINE c == cur
               t == ClosedAtHalt(fd_arr[c])
    <2>3. fd_arr \in [Pids -> [Fds -> Desc]] /\ fd_arr[c] \in [Fds -> Desc] /\ c \in Pids
      BY <1>1, <2>2, Zenon DEF Typed
    <2>4. fd_arr' = [fd_arr EXCEPT ![c] = t]
      BY <2>1, Zenon
    <2>5. Taken' = Taken \ {c}
      BY <2>2, Zenon
    <2> HIDE DEF c
    <2>6. t \in [Fds -> Desc] /\ \A fd \in Fds : t[fd].flags = Free
      <3>1. ASSUME NEW d \in Desc
            PROVE  [d EXCEPT !.flags = Free] \in Desc /\ [d EXCEPT !.flags = Free].flags = Free
        BY FlagsDiffer DEF Desc
      <3> QED
        BY <2>3, <3>1 DEF ClosedAtHalt
    <2> HIDE DEF t
    <2>7. /\ fd_arr' \in [Pids -> [Fds -> Desc]] /\ fd_arr'[c] = t
          /\ \A q \in Pids : q # c => fd_arr'[q] = fd_arr[q]
      BY <2>3, <2>4, <2>6
    <2>8. Typed'
      BY <1>1, <2>1, <2>7, Zenon DEF Typed
    <2>9. Standards'
      <3> SUFFICES ASSUME NEW p \in Pids
                   PROVE  (IF p \in Taken THEN Started(p) ELSE Closed(p))'
        BY Zenon DEF Standards
      <3>1. CASE p = c
        <4>1. Closed(p)'
          BY <2>6, <2>7, <3>1, Zenon DEF Closed
        <4>2. p \notin Taken'
          BY <2>5, <3>1
        <4> QED
          BY <4>1, <4>2, Zenon
      <3>2. CASE p # c
        <4>1. (IF p \in Taken THEN Started(p) ELSE Closed(p)) /\ fd_arr'[p] = fd_arr[p]
          BY <1>1, <2>7, <3>2, Zenon DEF Standards
        <4>2. p \in Taken' <=> p \in Taken
          BY <2>5, <3>2
        <4> QED
          BY <4>1, <4>2, Zenon DEF Started, Closed
      <3> QED
        BY <3>1, <3>2
    <2>10. InOrder'
      <3> SUFFICES ASSUME NEW p \in Taken', NEW f \in Fds, fd_arr'[p][f].flags = Busy
                   PROVE  Gone(fd_arr'[p][f], got'[p][f])
        BY Zenon DEF InOrder, Gone
      <3>1. p \in Taken /\ p # c /\ p \in Pids
        BY <1>1, <2>5, TakenType
      <3>2. fd_arr'[p][f] = fd_arr[p][f] /\ got'[p][f] = got[p][f]
        BY <2>7, <3>1, Zenon
      <3>3. ~BeingOpened(p, f)
        BY <3>1, Zenon DEF BeingOpened, c
      <3> QED
        BY <1>1, <3>1, <3>2, <3>3, Zenon DEF InOrder
    <2>11. Opens'
      BY Zenon DEF Opens
    <2> QED
      BY <2>1, <2>2, <2>8, <2>9, <2>10, <2>11, Zenon DEF Inv
  <1> QED
    BY <1>2, <1>3

LEMMA HaltStep ==
    ASSUME Inv, Halt
    PROVE  Inv'
  <1>1. /\ status = "ok" /\ chain # <<>> /\ End /\ opening' = Idle
        /\ UNCHANGED <<arg_buf, got>> /\ Answer(0)
    BY Zenon DEF Halt
  <1>2. LastTyped'
    BY <1>1, Others, Zenon
  <1> QED
    BY <1>1, <1>2, EndKeeps, Zenon

LEMMA VidmapStep ==
    ASSUME Inv, NEW where \in {"null", "kernel", "program", "above"}, Vidmap(where)
    PROVE  Inv'
  <1>1. InUser /\ UNCHANGED <<arg_buf, opening, got>>
    BY Zenon DEF Vidmap
  <1>2. CASE where \in {"null", "kernel", "program"}
    <2>1. (Answer(0) \/ Answer(-1)) /\ UNCHANGED <<chain, fd_arr, status>>
      BY <1>2 DEF Vidmap
    <2> QED
      BY <1>1, <2>1, Others, Answers, Zenon
  <1>3. CASE where = "above"
    <2>1. Answer(0) /\ End
      BY <1>3 DEF Vidmap
    <2>2. status = "ok" /\ chain # <<>> /\ opening = Idle
      BY <1>1, UserIs, Zenon
    <2> QED
      BY <1>1, <2>1, <2>2, Others, EndKeeps, Zenon
  <1> QED
    BY <1>2, <1>3

(* The calls that only answer. *)
LEMMA OtherSteps ==
    ASSUME Inv,
           \/ \E i \in DOMAIN direntries : ExecuteFails(i)
           \/ \E name \in Names : OpenFails(name)
           \/ \E n \in Sizes, ok \in BOOLEAN : GetArgs(n, ok)
           \/ InvalidCall
    PROVE  Inv'
  <1>1. /\ UNCHANGED <<chain, fd_arr, arg_buf, opening, got, status>>
        /\ Answer(0) \/ Answer(-1)
    BY Zenon DEF ExecuteFails, OpenFails, GetArgs, InvalidCall
  <1> QED
    BY <1>1, Others, Answers, Zenon

(* The numbers and operations of an answer to read(), write() and close(). *)
LEMMA CallType ==
    ASSUME NEW fd \in -1 .. MAX_FILES + 1, NEW n \in Sizes
    PROVE  /\ n \in Int /\ 0 \in Int /\ -1 \in Int /\ 0 \in Nat
           /\ "read" \in {"none", "read", "write", "close", "other"}
           /\ "write" \in {"none", "read", "write", "close", "other"}
           /\ "close" \in {"none", "read", "write", "close", "other"}
           /\ 0 .. n \subseteq Int
  <1>1. n \in Int
    BY Numbers
  <1>2. 0 .. n \subseteq Int
    BY <1>1
  <1> QED
    BY <1>1, <1>2

LEMMA RefusedStep ==
    ASSUME Inv, NEW fd \in -1 .. MAX_FILES + 1, NEW n \in Sizes, Refused(fd, n)
    PROVE  Inv'
  <1>1. PICK op \in {"read", "write"} : AnswerTo(op, fd, n, -1, 0)
    BY Zenon DEF Refused
  <1>2. op \in {"none", "read", "write", "close", "other"}
    OBVIOUS
  <1>3. LastTyped'
    BY <1>1, <1>2, CallType, AnswerType, Zenon
  <1> QED
    BY <1>3, Answers, Zenon DEF Refused

LEMMA DeviceStep ==
    ASSUME Inv, NEW fd \in -1 .. MAX_FILES + 1, NEW n \in Sizes,
           ReadDevice(fd, n) \/ Write(fd, n)
    PROVE  Inv'
  <1>1. \/ \E k \in 0 .. n : AnswerTo("read", fd, n, k, 0)
        \/ \E r \in {0, -1, n} : AnswerTo("read", fd, n, r, 0) \/ AnswerTo("write", fd, n, r, 0)
    BY Zenon DEF ReadDevice, Write
  <1>2. 0 .. n \subseteq Int /\ {0, -1, n} \subseteq Int
    BY CallType
  <1>3. PICK r \in Int : AnswerTo("read", fd, n, r, 0) \/ AnswerTo("write", fd, n, r, 0)
    BY <1>1, <1>2, Zenon
  <1>4. LastTyped'
    BY <1>3, CallType, AnswerType, Zenon
  <1>5. UNCHANGED <<chain, fd_arr, arg_buf, opening, got, status>>
    BY Zenon DEF ReadDevice, Write
  <1> QED
    BY <1>4, <1>5, Answers, Zenon

LEMMA OverrunStep ==
    ASSUME Inv, NEW fd \in -1 .. MAX_FILES + 1, NEW n \in Sizes, Overrun(fd, n)
    PROVE  Inv'
  BY Others, GoesWild, Zenon DEF Overrun

(* Where a field of one descriptor changes, the whole descriptor does. *)
LEMMA PosChanges ==
    ASSUME NEW table \in [Pids -> [Fds -> Desc]], NEW p \in Pids, NEW fd \in Fds, NEW v \in Nat
    PROVE  /\ [table EXCEPT ![p][fd].pos = v]
                = [table EXCEPT ![p][fd] = [table[p][fd] EXCEPT !.pos = v]]
           /\ [table[p][fd] EXCEPT !.pos = v] \in Desc
           /\ [table[p][fd] EXCEPT !.pos = v].pos = v
           /\ [table[p][fd] EXCEPT !.pos = v].flags = table[p][fd].flags
           /\ [table[p][fd] EXCEPT !.pos = v].ops = table[p][fd].ops
           /\ [table[p][fd] EXCEPT !.pos = v].inode = table[p][fd].inode
  <1>1. table[p][fd] \in Desc
    OBVIOUS
  <1> QED
    BY <1>1 DEF Desc

LEMMA FlagsChange ==
    ASSUME NEW table \in [Pids -> [Fds -> Desc]], NEW p \in Pids, NEW fd \in Fds,
           NEW v \in {Free, Busy}
    PROVE  /\ [table EXCEPT ![p][fd].flags = v]
                = [table EXCEPT ![p][fd] = [table[p][fd] EXCEPT !.flags = v]]
           /\ [table[p][fd] EXCEPT !.flags = v] \in Desc
           /\ [table[p][fd] EXCEPT !.flags = v].flags = v
           /\ [table[p][fd] EXCEPT !.flags = v].pos = table[p][fd].pos
  <1>1. table[p][fd] \in Desc
    OBVIOUS
  <1> QED
    BY <1>1 DEF Desc

(* Two changes of the same descriptor. *)
LEMMA Twice ==
    ASSUME NEW table \in [Pids -> [Fds -> Desc]], NEW p \in Pids, NEW fd \in Fds,
           NEW d \in Desc, NEW e \in Desc
    PROVE  [[table EXCEPT ![p][fd] = d] EXCEPT ![p][fd] = e] = [table EXCEPT ![p][fd] = e]
  OBVIOUS

Cell(table, p, fd, d) == [table EXCEPT ![p][fd] = d]
Reopened(table, p, fd) == [table EXCEPT ![p][fd].pos = 0, ![p][fd].flags = Busy]

LEMMA OpenChanges ==
    ASSUME NEW table \in [Pids -> [Fds -> Desc]], NEW p \in Pids, NEW fd \in Fds
    PROVE  \E d \in Desc : /\ Reopened(table, p, fd) = Cell(table, p, fd, d)
                           /\ d.pos = 0 /\ d.flags = Busy
  <1> DEFINE z == 0
             f == Busy
             new == Reopened(table, p, fd)
  <1>0. z \in Nat /\ f \in {Free, Busy} /\ new = [table EXCEPT ![p][fd].pos = z, ![p][fd].flags = f]
    BY FlagsDiffer DEF Reopened
  <1> HIDE DEF z, f, new
  <1> DEFINE u == [table EXCEPT ![p][fd].pos = z]
             a == [table[p][fd] EXCEPT !.pos = z]
             d == [a EXCEPT !.flags = f]
  <1>1. new = [u EXCEPT ![p][fd].flags = f]
    BY <1>0
  <1>2. u = [table EXCEPT ![p][fd] = a] /\ a \in Desc /\ a.pos = z
    <2>1. u = [table EXCEPT ![p][fd] = a]
      OBVIOUS
    <2>2. a \in Desc /\ a.pos = z
      BY <1>0, SMTT(30) DEF Desc
    <2> QED
      BY <2>1, <2>2
  <1> HIDE DEF u, a
  <1>3. u \in [Pids -> [Fds -> Desc]] /\ u[p][fd] = a
    BY <1>2
  <1>4. [u EXCEPT ![p][fd].flags = f] = [u EXCEPT ![p][fd] = d] /\ d \in Desc
        /\ d.flags = f /\ d.pos = z
    BY <1>0, <1>2, <1>3, FlagsChange, ZenonT(40)
  <1> HIDE DEF d
  <1>5. [u EXCEPT ![p][fd] = d] = [table EXCEPT ![p][fd] = d]
    BY <1>2, <1>4
  <1> QED
    BY <1>1, <1>4, <1>5, Zenon DEF new, z, f, Cell

LEMMA CloseStep ==
    ASSUME Inv, NEW fd \in -1 .. MAX_FILES + 1, Close(fd)
    PROVE  Inv'
  <1>1. InUser /\ UNCHANGED <<chain, arg_buf, opening, got, status>>
        /\ (AnswerTo("close", fd, 0, 0, 0) \/ AnswerTo("close", fd, 0, -1, 0))
    BY Zenon DEF Close
  <1>2. LastTyped'
    <2>1. 0 \in Int /\ -1 \in Int /\ 0 \in Nat
      OBVIOUS
    <2>2. "close" \in {"none", "read", "write", "close", "other"}
      OBVIOUS
    <2> QED
      BY <1>1, <2>1, <2>2, AnswerType, Zenon
  <1>3. CASE ~(ClosableByCall(fd) /\ fd_arr[cur][fd].flags = Busy)
    <2>1. UNCHANGED fd_arr
      BY <1>3, Zenon DEF Close
    <2> QED
      BY <1>1, <1>2, <2>1, Answers, Zenon
  <1>4. CASE ClosableByCall(fd) /\ fd_arr[cur][fd].flags = Busy
    <2>1. fd \in Fds /\ fd # 0 /\ fd # 1
      BY <1>4, Numbers DEF ClosableByCall, Fds
    <2>2. fd_arr' = [fd_arr EXCEPT ![cur][fd].flags = Free]
      BY <1>4, Zenon DEF Close
    <2>3. /\ status = "ok" /\ chain # <<>> /\ opening = Idle /\ cur \in Pids
          /\ fd_arr \in [Pids -> [Fds -> Desc]]
      BY <1>1, UserIs, Zenon DEF Typed
    <2> DEFINE d == [fd_arr[cur][fd] EXCEPT !.flags = Free]
    <2>4. fd_arr' = [fd_arr EXCEPT ![cur][fd] = d] /\ d \in Desc /\ d.flags # Busy
      BY <2>1, <2>2, <2>3, FlagsChange, FlagsDiffer, Zenon
    <2> HIDE DEF d
    <2>5. Opens'
      BY <1>1, <2>3, Zenon DEF Opens
    <2> QED
      BY <1>1, <1>2, <2>1, <2>3, <2>4, <2>5, ChangeOnly, Zenon
  <1> QED
    BY <1>3, <1>4

LEMMA OpenBeginStep ==
    ASSUME Inv, NEW name \in Names, OpenBegin(name)
    PROVE  Inv'
  <1> DEFINE i == CHOOSE j \in Lookup(name) : \A k \in Lookup(name) : j <= k
             fd == CHOOSE f \in Slot(cur) : \A g \in Slot(cur) : f <= g
  <1>1. /\ InUser /\ Lookup(name) # {} /\ Slot(cur) # {}
        /\ opening' = [stage |-> "busy", fd |-> fd, entry |-> i]
        /\ fd_arr' = [fd_arr EXCEPT ![cur][fd].pos = 0, ![cur][fd].flags = Busy]
        /\ Answer(0) /\ UNCHANGED <<chain, arg_buf, got, status>>
    BY Zenon DEF OpenBegin
  <1>2. /\ status = "ok" /\ chain # <<>> /\ opening = Idle /\ cur \in Pids /\ Started(cur)
        /\ fd_arr \in [Pids -> [Fds -> Desc]]
    BY <1>1, UserIs, Zenon DEF Typed, Standards
  <1>3. i \in Lookup(name) /\ i \in DOMAIN direntries
    <2>1. Lookup(name) \subseteq DOMAIN direntries
      BY DEF Lookup
    <2>2. DOMAIN direntries \subseteq Nat
      BY ListingType
    <2>3. i \in Lookup(name)
      <3>1. Lookup(name) \subseteq Nat
        BY <2>1, <2>2
      <3> QED
        BY <1>1, <3>1, LeastIs, Zenon
    <2> HIDE DEF i
    <2> QED
      BY <2>1, <2>3
  <1>4. fd \in Slot(cur)
    <2>1. Slot(cur) \subseteq Nat
      BY FdsAre DEF Slot
    <2> QED
      BY <1>1, <2>1, LeastIs, Zenon
  <1> HIDE DEF i, fd
  <1>5. fd \in Fds /\ fd_arr[cur][fd].flags = Free
    BY <1>4, Zenon DEF Slot
  <1>6. fd # 0 /\ fd # 1
    BY <1>2, <1>5, FlagsDiffer, Zenon DEF Started
  <1>7. PICK d \in Desc : /\ fd_arr' = [fd_arr EXCEPT ![cur][fd] = d]
                          /\ d.pos = 0 /\ d.flags = Busy
    <2>1. /\ 0 \in Nat /\ cur \in Pids /\ fd_arr \in [Pids -> [Fds -> Desc]] /\ fd \in Fds
          /\ fd_arr' = [fd_arr EXCEPT ![cur][fd].pos = 0, ![cur][fd].flags = Busy]
      BY <1>1, <1>2, <1>5
    <2>2. fd_arr' = Reopened(fd_arr, cur, fd)
      BY <2>1, Zenon DEF Reopened
    <2>3. PICK d \in Desc : /\ Reopened(fd_arr, cur, fd) = Cell(fd_arr, cur, fd, d)
                            /\ d.pos = 0 /\ d.flags = Busy
      BY <2>1, OpenChanges, Zenon
    <2> QED
      BY <2>2, <2>3, Zenon DEF Cell
  <1>8. opening'.stage = "busy" /\ opening'.fd = fd /\ opening'.entry = i
    BY <1>1
  <1>9. cur' = cur
    BY <1>1, Stays, Zenon
  <1>10. fd_arr'[cur][fd] = d
    BY <1>2, <1>5, <1>7
  <1>11. Opens'
    BY <1>1, <1>2, <1>3, <1>5, <1>6, <1>7, <1>8, <1>9, <1>10, Zenon DEF Opens
  <1>12. LastTyped'
    BY <1>1, Others, Zenon
  <1> QED
    BY <1>1, <1>2, <1>5, <1>6, <1>7, <1>8, <1>11, <1>12, ChangeOnly, Zenon

(* What open() leaves in the descriptor. *)
LEMMA SetupIs ==
    ASSUME NEW d \in Desc, NEW i \in DOMAIN direntries
    PROVE  /\ Setup(d, i) \in Desc /\ Setup(d, i).pos = d.pos /\ Setup(d, i).flags = d.flags
  <1> DEFINE o == IF direntries[i].filetype = RTC_TYPE THEN "rtc"
                  ELSE IF direntries[i].filetype = DIR_TYPE THEN "dir" ELSE "file"
             n == direntries[i].inode
  <1>1. o \in Tables
    BY DEF Tables
  <1>2. n \in DOMAIN inodes
    BY FilesAssumption, Zenon
  <1>3. Setup(d, i) = [d EXCEPT !.inode = n, !.ops = o]
    BY Zenon DEF Setup
  <1> HIDE DEF o, n
  <1> DEFINE u == [d EXCEPT !.inode = n]
  <1>4. u \in Desc /\ u.pos = d.pos /\ u.flags = d.flags
    BY <1>2 DEF Desc
  <1>5. Setup(d, i) = [u EXCEPT !.ops = o]
    BY <1>3
  <1> HIDE DEF u
  <1>6. [u EXCEPT !.ops = o] \in Desc /\ [u EXCEPT !.ops = o].pos = u.pos
        /\ [u EXCEPT !.ops = o].flags = u.flags
    BY <1>1, <1>4 DEF Desc
  <1> QED
    BY <1>4, <1>5, <1>6, Zenon

(* Nothing has been read at the beginning. *)
LEMMA GoneNone ==
    ASSUME NEW d \in Desc, d.pos = 0
    PROVE  Gone(d, <<>>) /\ <<>> \in Seq(Items)
  <1>1. \A t \in Seq(Items) : First(<<>>, t, 0)
    BY DEF First
  <1>2. First(<<>>, Contents(d.inode), 0) /\ First(<<>>, Listing, 0)
    BY <1>1, DescIs, ContentsType, ListingType, Zenon
  <1> QED
    BY <1>2, EmptySeq, Zenon DEF Gone

LEMMA OpenEndStep ==
    ASSUME Inv, OpenEnd
    PROVE  Inv'
  <1> DEFINE fd == opening.fd
             d == Setup(fd_arr[cur][fd], opening.entry)
  <1>1. /\ status = "ok" /\ opening.stage = "busy" /\ opening' = Idle
        /\ fd_arr' = [fd_arr EXCEPT ![cur][fd] = d]
        /\ got' = [got EXCEPT ![cur][fd] = <<>>]
        /\ Answer(fd) /\ UNCHANGED <<chain, arg_buf, status>>
    BY Zenon DEF OpenEnd
  <1>2. Sequenced /\ Typed /\ Opens
    BY <1>1, Zenon DEF Inv
  <1>3. /\ chain # <<>> /\ fd \in Fds /\ fd # 0 /\ fd # 1
        /\ opening.entry \in DOMAIN direntries /\ fd_arr[cur][fd].pos = 0
    BY <1>1, <1>2, IdleIs, Zenon DEF Opens
  <1>4. cur \in Pids
    BY <1>2, <1>3, Current, Zenon
  <1>5. fd_arr[cur][fd] \in Desc
    BY <1>2, <1>3, <1>4, Zenon DEF Typed
  <1>6. d \in Desc /\ d.pos = 0
    BY <1>3, <1>5, SetupIs, Zenon
  <1>7. Gone(d, <<>>) /\ <<>> \in Seq(Items)
    BY <1>6, GoneNone, Zenon
  <1>8. LastTyped'
    <2>1. fd \in Int
      BY <1>3, FdsAre
    <2> QED
      BY <1>1, <2>1, OtherType, Zenon
  <1>9. Opens'
    BY <1>1, Zenon DEF Opens
  <1> HIDE DEF d
  <1> QED
    BY <1>1, <1>3, <1>6, <1>7, <1>8, <1>9, ChangeKeeps, Zenon

(* A read or write that goes through the descriptor's table. *)
LEMMA AcceptedIs ==
    ASSUME Inv, NEW fd \in -1 .. MAX_FILES + 1, NEW n \in Sizes, NEW ops, Accepted(fd, n, ops)
    PROVE  /\ InUser /\ fd \in Fds /\ n \in 0 .. INT_MAX
           /\ fd_arr[cur][fd].flags = Busy /\ fd_arr[cur][fd].ops = ops
           /\ Gone(fd_arr[cur][fd], got[cur][fd])
  <1>1. InUser /\ InRange(fd, n) /\ InUse(fd) /\ fd < MAX_FILES /\ fd_arr[cur][fd].ops = ops
    BY Zenon DEF Accepted
  <1>2. fd \in Fds /\ n \in 0 .. INT_MAX /\ fd # MAX_FILES
    BY <1>1, Numbers DEF InRange, Fds
  <1>3. fd_arr[cur][fd].flags # Free
    BY <1>1, <1>2, Zenon DEF InUse
  <1>4. cur \in Taken /\ InOrder /\ opening = Idle /\ fd_arr[cur][fd] \in Desc
    BY <1>1, <1>2, UserIs, Zenon
  <1>5. fd_arr[cur][fd].flags = Busy
    <2>1. fd_arr[cur][fd].flags \in {Free, Busy}
      BY <1>4, DescIs, Zenon
    <2> QED
      BY <1>3, <2>1, Zenon
  <1>6. ~BeingOpened(cur, fd)
    BY <1>4, IdleIs, Zenon DEF BeingOpened
  <1>7. Gone(fd_arr[cur][fd], got[cur][fd])
    BY <1>2, <1>4, <1>5, <1>6, Zenon DEF InOrder
  <1> QED
    BY <1>1, <1>2, <1>5, <1>7, Zenon

LEMMA TablesDiffer == "file" # "dir" /\ "stdin" # "file" /\ "stdout" # "file"
  OBVIOUS

(* A descriptor moves on. *)
LEMMA Moves ==
    ASSUME NEW d \in Desc, NEW v \in Nat
    PROVE  /\ [d EXCEPT !.pos = v] \in Desc
           /\ [d EXCEPT !.pos = v].pos = v
           /\ [d EXCEPT !.pos = v].flags = d.flags
           /\ [d EXCEPT !.pos = v].ops = d.ops
           /\ [d EXCEPT !.pos = v].inode = d.inode
  BY DEF Desc

(* What a read of a file gives. *)
LEMMA FileGoesOn ==
    ASSUME NEW d \in Desc, NEW s \in Seq(Items), First(s, Contents(d.inode), d.pos),
           NEW n \in 0 .. INT_MAX
    PROVE  LET bytes == read_data(d.inode, d.pos, n % UINTS)
           IN  /\ Len(bytes) \in Nat /\ s \o bytes \in Seq(Items)
               /\ First(s \o bytes, Contents(d.inode), d.pos + Len(bytes))
               /\ (n > 0 /\ Len(bytes) = 0 => d.pos = Size(d.inode))
  <1> DEFINE inode == d.inode
             pos == d.pos
             t == Contents(inode)
             bytes == read_data(inode, pos, n)
  <1>1. inode \in DOMAIN inodes /\ pos \in Nat
    BY DescIs, Zenon
  <1>2. t \in Seq(Items) /\ Len(t) = Size(inode) /\ Size(inode) \in 0 .. INT_MAX
    BY <1>1, ContentsType, Zenon
  <1>3. First(s, t, pos)
    BY Zenon
  <1> HIDE DEF inode, pos, t
  <1>4. pos \in 0 .. Size(inode)
    BY <1>1, <1>2, <1>3 DEF First
  <1>5. n % UINTS = n
    <2>1. 0 \in 0 .. INT_MAX
      BY Numbers
    <2> QED
      BY <2>1, Unsigned, Zenon
  <1>6. bytes = read_data(inode, pos, n)
    OBVIOUS
  <1>7. read_data(d.inode, d.pos, n % UINTS) = bytes
    BY <1>5, Zenon DEF inode, pos
  <1> HIDE DEF bytes
  <1>8. /\ bytes \in Seq(Items) /\ Len(bytes) \in Nat /\ pos + Len(bytes) <= Size(inode)
        /\ \A k \in 1 .. Len(bytes) : bytes[k] = Contents(inode)[pos + k]
        /\ n > 0 /\ Len(bytes) = 0 => pos = Size(inode)
    BY <1>1, <1>4, <1>6, ReadData, Zenon
  <1>9. pos + Len(bytes) <= Len(t) /\ \A k \in 1 .. Len(bytes) : bytes[k] = t[pos + k]
    BY <1>2, <1>8, Zenon DEF t
  <1>10. s \o bytes \in Seq(Items) /\ First(s \o bytes, t, pos + Len(bytes))
    BY <1>1, <1>2, <1>3, <1>8, <1>9, FirstThen, Zenon
  <1> QED
    BY <1>7, <1>8, <1>10, Zenon DEF inode, pos, t

LEMMA FileGives ==
    ASSUME Inv, NEW fd \in -1 .. MAX_FILES + 1, NEW n \in Sizes, Accepted(fd, n, "file")
    PROVE  /\ fd_arr[cur][fd] \in Desc /\ got[cur][fd] \in Seq(Items)
           /\ First(got[cur][fd], Contents(fd_arr[cur][fd].inode), fd_arr[cur][fd].pos)
           /\ n \in 0 .. INT_MAX
  <1>1. /\ InUser /\ fd \in Fds /\ n \in 0 .. INT_MAX
        /\ fd_arr[cur][fd].ops = "file" /\ Gone(fd_arr[cur][fd], got[cur][fd])
    BY AcceptedIs, Zenon
  <1> QED
    BY <1>1, UserIs, Zenon DEF Gone

LEMMA ReadFileStep ==
    ASSUME Inv, NEW fd \in -1 .. MAX_FILES + 1, NEW n \in Sizes, ReadFile(fd, n)
    PROVE  Inv'
  <1> DEFINE d == fd_arr[cur][fd]
             bytes == read_data(d.inode, d.pos, n % UINTS)
             m == Len(bytes)
             e == [d EXCEPT !.pos = d.pos + m]
             s == got[cur][fd] \o bytes
  <1>1. /\ Accepted(fd, n, "file") /\ AnswerTo("read", fd, n, m, m)
        /\ fd_arr' = [fd_arr EXCEPT ![cur][fd].pos = d.pos + m]
        /\ got' = [got EXCEPT ![cur][fd] = s]
        /\ UNCHANGED <<chain, arg_buf, opening, status>>
    BY Zenon DEF ReadFile, Advance
  <1>2. /\ InUser /\ fd \in Fds /\ n \in 0 .. INT_MAX
        /\ d.flags = Busy /\ d.ops = "file" /\ Gone(d, got[cur][fd])
    BY <1>1, AcceptedIs, Zenon
  <1>3. /\ d \in Desc /\ m \in Nat /\ s \in Seq(Items)
        /\ First(s, Contents(d.inode), d.pos + m)
    BY <1>1, FileGives, FileGoesOn, Zenon
  <1>4. /\ status = "ok" /\ chain # <<>> /\ opening = Idle /\ cur \in Pids
        /\ fd_arr \in [Pids -> [Fds -> Desc]]
    BY <1>2, UserIs, Zenon DEF Typed
  <1> HIDE DEF s, m
  <1>5. d.pos + m \in Nat
    BY <1>3, DescIs
  <1>6. /\ fd_arr' = [fd_arr EXCEPT ![cur][fd] = e]
        /\ e \in Desc /\ e.pos = d.pos + m /\ e.flags = d.flags /\ e.ops = d.ops
        /\ e.inode = d.inode
    <2>1. [fd_arr EXCEPT ![cur][fd].pos = d.pos + m] = [fd_arr EXCEPT ![cur][fd] = e]
      OBVIOUS
    <2>2. fd_arr' = [fd_arr EXCEPT ![cur][fd] = e]
      BY <1>1, <2>1, Zenon
    <2> QED
      BY <1>3, <1>5, <2>2, Moves, Zenon
  <1>7. Gone(e, s)
    BY <1>2, <1>3, <1>6, TablesDiffer, Zenon DEF Gone
  <1>8. LastTyped'
    <2>1. m \in Int
      BY <1>3
    <2> QED
      BY <1>1, <1>3, <2>1, CallType, AnswerType, Zenon
  <1>9. Opens'
    BY <1>1, <1>4, Zenon DEF Opens
  <1> HIDE DEF e
  <1> QED
    BY <1>1, <1>2, <1>3, <1>4, <1>6, <1>7, <1>8, <1>9, ChangeKeeps, Zenon

(* A directory entry and the name that is made of it. *)
LEMMA NameIs ==
    ASSUME NEW i \in DOMAIN direntries
    PROVE  LET e == direntries[i] IN
           /\ ReturnedLength(e) \in 0 .. FILENAME_LEN
           /\ NameWritten(e) \in Nat /\ NameWritten(e) <= FILENAME_LEN + 1
           /\ ReturnedLength(e) \in Int
  <1> DEFINE e == direntries[i]
             c == e.len = FILENAME_LEN /\ e.filetype # 0
  <1>1. e.len \in 0 .. FILENAME_LEN /\ FILENAME_LEN \in Nat
    BY FilesAssumption, Zenon
  <1>2. StrLen(e) = e.len + (IF c THEN 1 ELSE 0)
    BY Zenon DEF StrLen
  <1> HIDE DEF c
  <1>3. StrLen(e) \in Nat
    BY <1>1, <1>2
  <1>4. ReturnedLength(e) \in 0 .. FILENAME_LEN
    BY <1>1, <1>3 DEF ReturnedLength
  <1>5. NameWritten(e) = ReturnedLength(e) + 1
    BY Zenon DEF NameWritten
  <1> QED
    BY <1>1, <1>4, <1>5

LEMMA ReadDirStep ==
    ASSUME Inv, NEW fd \in -1 .. MAX_FILES + 1, NEW n \in Sizes, ReadDir(fd, n)
    PROVE  Inv'
  <1> DEFINE d == fd_arr[cur][fd]
             s == got[cur][fd]
  <1>1. /\ Accepted(fd, n, "dir") /\ UNCHANGED <<chain, arg_buf, opening, status>>
        /\ \/ AnswerTo("read", fd, n, 0, 0) /\ UNCHANGED <<fd_arr, got>>
           \/ \E dentry \in EntryAt(d.pos) :
                /\ fd_arr' = [fd_arr EXCEPT ![cur][fd].pos = d.pos + 1]
                /\ got' = [got EXCEPT ![cur][fd] = Append(s, dentry.name)]
                /\ AnswerTo("read", fd, n, ReturnedLength(dentry), NameWritten(dentry))
    BY Zenon DEF ReadDir
  <1>2. CASE AnswerTo("read", fd, n, 0, 0) /\ UNCHANGED <<fd_arr, got>>
    <2>1. LastTyped'
      BY <1>2, CallType, AnswerType, Zenon
    <2> QED
      BY <1>1, <1>2, <2>1, Answers, Zenon
  <1>3. ASSUME NEW dentry \in EntryAt(d.pos),
               fd_arr' = [fd_arr EXCEPT ![cur][fd].pos = d.pos + 1],
               got' = [got EXCEPT ![cur][fd] = Append(s, dentry.name)],
               AnswerTo("read", fd, n, ReturnedLength(dentry), NameWritten(dentry))
        PROVE  Inv'
    <2>1. /\ InUser /\ fd \in Fds /\ d.flags = Busy /\ d.ops = "dir" /\ Gone(d, s)
      BY <1>1, AcceptedIs, Zenon
    <2>2. /\ status = "ok" /\ chain # <<>> /\ opening = Idle /\ cur \in Pids
          /\ fd_arr \in [Pids -> [Fds -> Desc]] /\ d \in Desc /\ s \in Seq(Items)
      BY <2>1, UserIs, Zenon DEF Typed
    <2>3. d.pos + 1 \in DOMAIN direntries /\ dentry = direntries[d.pos + 1]
      BY Zenon DEF EntryAt
    <2> DEFINE x == dentry.name
               t == Append(s, x)
               e == [d EXCEPT !.pos = d.pos + 1]
    <2>4. d.pos \in Nat /\ d.pos + 1 \in Nat
      BY <2>2, DescIs
    <2>5. x \in Items /\ x = Listing[d.pos + 1] /\ d.pos + 1 <= Len(Listing)
          /\ Listing \in Seq(Items)
      <3>1. x \in Items /\ x = Listing[d.pos + 1]
        BY <2>3, ListingType, Zenon
      <3> QED
        BY <2>3, <2>4, <3>1, ListingType
    <2>6. First(s, Listing, d.pos)
      BY <2>1, Zenon DEF Gone
    <2> HIDE DEF x, s
    <2>7. t \in Seq(Items) /\ First(t, Listing, d.pos + 1)
      <3> DEFINE p == d.pos
      <3>1. /\ p \in Nat /\ p <= Len(Listing) /\ Len(s) = p /\ \A k \in 1 .. p : s[k] = Listing[k]
        BY <2>4, <2>6, Zenon DEF First
      <3> HIDE DEF p
      <3>2. t \in Seq(Items) /\ Len(t) = Len(s) + 1
            /\ (\A k \in 1 .. Len(s) : t[k] = s[k]) /\ t[Len(s) + 1] = x
        BY <2>2, <2>5, AppendProperties
      <3>3. \A k \in 1 .. p + 1 : k \in 1 .. p \/ k = p + 1
        BY <3>1
      <3>4. x = Listing[p + 1] /\ p + 1 <= Len(Listing)
        BY <2>5, Zenon DEF p
      <3> HIDE DEF t
      <3>5. \A k \in 1 .. p + 1 : t[k] = Listing[k]
        BY <3>1, <3>2, <3>3, <3>4, Zenon
      <3> QED
        BY <3>1, <3>2, <3>4, <3>5, Zenon DEF First, p
    <2>8. /\ fd_arr' = [fd_arr EXCEPT ![cur][fd] = e]
          /\ e \in Desc /\ e.pos = d.pos + 1 /\ e.flags = d.flags /\ e.ops = d.ops
          /\ e.inode = d.inode
      <3>1. [fd_arr EXCEPT ![cur][fd].pos = d.pos + 1] = [fd_arr EXCEPT ![cur][fd] = e]
        OBVIOUS
      <3>2. fd_arr' = [fd_arr EXCEPT ![cur][fd] = e]
        BY <1>3, <3>1, Zenon
      <3> QED
        BY <2>2, <2>4, <3>2, Moves, Zenon
    <2> HIDE DEF e, t
    <2>9. Gone(e, t)
      BY <2>1, <2>7, <2>8, TablesDiffer, Zenon DEF Gone
    <2>10. LastTyped'
      <3>1. ReturnedLength(dentry) \in Int /\ NameWritten(dentry) \in Nat
        BY <2>3, NameIs, Zenon
      <3> QED
        BY <1>3, <3>1, CallType, AnswerType, Zenon
    <2>11. Opens'
      BY <1>1, <2>2, Zenon DEF Opens
    <2>12. got' = [got EXCEPT ![cur][fd] = t]
      BY <1>3, Zenon DEF t, x
    <2> QED
      BY <1>1, <2>1, <2>2, <2>7, <2>8, <2>9, <2>10, <2>11, <2>12, ChangeKeeps, Zenon
  <1> QED
    BY <1>1, <1>2, <1>3, Zenon

LEMMA InvInit == Init => Inv
  <1> SUFFICES ASSUME Init PROVE Inv
    OBVIOUS
  <1>1. chain = <<>> /\ opening = Idle /\ status = "ok"
    BY Zenon DEF Init
  <1>2. Sequenced /\ Taken = {}
    <2>1. chain \in Seq(Pids) /\ DOMAIN chain = {}
      BY <1>1
    <2> QED
      BY <2>1 DEF Sequenced, IsInjective, Taken
  <1>3. fd_arr \in [Pids -> [Fds -> Desc]] /\ \A p \in Pids : Closed(p)
    <2>1. Unused \in Desc /\ Unused.flags = Free
      <3>1. 0 \in DOMAIN inodes
        BY FilesAssumption, Zenon
      <3> QED
        BY <3>1, FlagsDiffer DEF Unused, Desc, Tables
    <2>2. fd_arr = [p \in Pids |-> [fd \in Fds |-> Unused]]
      BY Zenon DEF Init
    <2> QED
      BY <2>1, <2>2 DEF Closed
  <1>4. got \in [Pids -> [Fds -> Seq(Items)]]
    <2> DEFINE S == Seq(Items)
    <2>1. <<>> \in S
      BY EmptySeq
    <2> HIDE DEF S
    <2>2. got = [p \in Pids |-> [fd \in Fds |-> <<>>]]
      BY Zenon DEF Init
    <2>3. got \in [Pids -> [Fds -> S]]
      BY <2>1, <2>2
    <2> QED
      BY <2>3, Zenon DEF S
  <1>5. arg_buf \in [Pids -> {"none", "short", "long"}] /\ status \in {"ok", "wild"}
    BY DEF Init
  <1>6. LastTyped
    <2>1. 0 \in -1 .. MAX_FILES + 1
      BY Numbers
    <2> QED
      BY <2>1 DEF Init, LastTyped
  <1>7. Opens /\ Standards /\ InOrder
    BY <1>1, <1>2, <1>3, Zenon DEF Opens, Standards, InOrder
  <1> QED
    BY <1>2, <1>3, <1>4, <1>5, <1>6, <1>7, Zenon DEF Inv, Typed

LEMMA InvNext == Inv /\ [Next]_vars => Inv'
  <1> SUFFICES ASSUME Inv, [Next]_vars PROVE Inv'
    OBVIOUS
  <1>1. CASE \E i \in DOMAIN direntries : \E args \in {"none", "short", "long"} : Execute(i, args)
    BY <1>1, ExecuteStep, Zenon
  <1>2. CASE \/ \E i \in DOMAIN direntries : ExecuteFails(i)
             \/ \E name \in Names : OpenFails(name)
             \/ \E n \in Sizes, ok \in BOOLEAN : GetArgs(n, ok)
             \/ InvalidCall
    BY <1>2, OtherSteps, Zenon
  <1>3. CASE Halt
    BY <1>3, HaltStep
  <1>4. CASE \E name \in Names : OpenBegin(name)
    BY <1>4, OpenBeginStep, Zenon
  <1>5. CASE OpenEnd
    BY <1>5, OpenEndStep
  <1>6. ASSUME NEW fd \in -1 .. MAX_FILES + 1,
               \/ Close(fd)
               \/ \E n \in Sizes :
                     \/ Refused(fd, n) \/ Overrun(fd, n)
                     \/ ReadFile(fd, n) \/ ReadDir(fd, n) \/ ReadDevice(fd, n) \/ Write(fd, n)
        PROVE  Inv'
    BY <1>6, CloseStep, RefusedStep, OverrunStep, ReadFileStep, ReadDirStep, DeviceStep, Zenon
  <1>7. CASE \E where \in {"null", "kernel", "program", "above"} : Vidmap(where)
    BY <1>7, VidmapStep, Zenon
  <1>8. CASE WildStep \/ UNCHANGED vars
    <2>1. UNCHANGED <<chain, fd_arr, arg_buf, opening, got, status>> /\ last' = last
      BY <1>8, Zenon DEF WildStep, vars
    <2>2. LastTyped'
      BY <2>1, Zenon DEF Inv, LastTyped
    <2> QED
      BY <2>1, <2>2, Answers, Zenon
  <1> QED
    BY <1>1, <1>2, <1>3, <1>4, <1>5, <1>6, <1>7, <1>8, Zenon DEF Next

(* The stage of open(), after a wild call too. *)
Staged == opening.stage \in {"none", "busy"}

LEMMA StagedKept ==
    /\ Init => Staged
    /\ Staged /\ [Next]_vars => Staged'
  <1>1. Idle.stage \in {"none", "busy"}
    BY DEF Idle
  <1>2. \A fd, i : [stage |-> "busy", fd |-> fd, entry |-> i].stage \in {"none", "busy"}
    OBVIOUS
  <1>3. Init => Staged
    BY <1>1, Zenon DEF Init, Staged
  <1>4. ASSUME Next
        PROVE  \/ opening' = opening \/ opening' = Idle
               \/ \E fd, i : opening' = [stage |-> "busy", fd |-> fd, entry |-> i]
    BY <1>4, Zenon DEF Next, Execute, ExecuteFails, Halt, OpenFails, OpenBegin, OpenEnd, Close,
       Refused, Overrun, ReadFile, ReadDir, ReadDevice, Write, GetArgs, Vidmap, InvalidCall,
       WildStep, vars
  <1>5. ASSUME Staged, [Next]_vars PROVE Staged'
    <2>1. CASE opening' = opening \/ opening' = Idle
      BY <1>1, <1>5, <2>1, Zenon DEF Staged
    <2>2. CASE \E fd, i : opening' = [stage |-> "busy", fd |-> fd, entry |-> i]
      BY <1>2, <2>2, Zenon DEF Staged
    <2> QED
      BY <1>4, <1>5, <2>1, <2>2, Zenon DEF vars
  <1> QED
    BY <1>3, <1>5, Zenon

-----------------------------------------------------------------------------
(* What the runs check, for any image, sizes, processes and descriptors.     *)

(* The blocks and descriptors of the processes, the open() in progress and   *)
(* what has been read always agree (syscall.c 24-480, filesys.c 102-244).    *)
THEOREM FilesInv == Spec => [](Inv /\ Staged)
  BY InvInit, InvNext, StagedKept, PTL DEF Spec

LEMMA InvClosed == Inv /\ Staged => FreePidsClosed
  <1> SUFFICES ASSUME Inv, Staged PROVE FreePidsClosed
    OBVIOUS
  <1>1. TypeOK
    BY Zenon DEF TypeOK, Inv, Staged, Sequenced, Typed, LastTyped, Desc
  <1>2. ASSUME status = "ok"
        PROVE  /\ \A p \in Pids \ Taken, fd \in Fds : fd_arr[p][fd].flags = Free
               /\ \A p \in Taken : \A fd \in {0, 1} :
                     /\ fd_arr[p][fd].flags = Busy
                     /\ fd_arr[p][fd].ops = IF fd = 0 THEN "stdin" ELSE "stdout"
    <2>1. Standards /\ Taken \subseteq Pids
      BY <1>2, TakenType, Zenon DEF Inv
    <2>2. \A p \in Pids \ Taken : Closed(p)
      BY <2>1, Zenon DEF Standards
    <2>3. \A p \in Taken : Started(p)
      BY <2>1, Zenon DEF Standards
    <2>4. 0 # 1
      OBVIOUS
    <2>5. ASSUME NEW p \in Taken, NEW fd \in {0, 1}
          PROVE  /\ fd_arr[p][fd].flags = Busy
                 /\ fd_arr[p][fd].ops = IF fd = 0 THEN "stdin" ELSE "stdout"
      BY <2>3, <2>4, Zenon DEF Started
    <2> QED
      BY <2>2, <2>5, Zenon DEF Closed
  <1> QED
    BY <1>1, <1>2, Zenon DEF FreePidsClosed

(* A process starts with the two standard descriptors and no other, although *)
(* execute() resets only those two and whoever had the pid before may have   *)
(* been ended anywhere (syscall.c 43-50, 172-186).                           *)
THEOREM FreePids == Spec => []FreePidsClosed
  BY FilesInv, InvClosed, PTL

LEMMA InvBytes == Inv => BytesInOrder
  <1> SUFFICES ASSUME Inv, status = "ok", NEW p \in Taken, NEW fd \in Fds,
                      fd_arr[p][fd].flags = Busy,
                      ~(p = cur /\ opening.stage = "busy" /\ opening.fd = fd)
               PROVE  /\ fd_arr[p][fd].ops = "file" =>
                            IsPrefix(got[p][fd], Contents(fd_arr[p][fd].inode))
                      /\ fd_arr[p][fd].ops = "dir" => IsPrefix(got[p][fd], Listing)
    BY Zenon DEF BytesInOrder
  <1>1. Sequenced /\ Typed /\ InOrder
    BY Zenon DEF Inv
  <1>2. Gone(fd_arr[p][fd], got[p][fd])
    BY <1>1, Zenon DEF InOrder, BeingOpened
  <1>3. p \in Pids
    BY <1>1, TakenType
  <1>4. fd_arr[p][fd] \in Desc /\ got[p][fd] \in Seq(Items)
    BY <1>1, <1>3, Zenon DEF Typed
  <1>5. Contents(fd_arr[p][fd].inode) \in Seq(Items) /\ Listing \in Seq(Items)
    BY <1>4, DescIs, ContentsType, ListingType, Zenon
  <1> QED
    BY <1>2, <1>4, <1>5, FirstIsPrefix, Zenon DEF Gone

(* The bytes read through a descriptor are the first bytes of its file, and  *)
(* the names the first names of the directory, whatever the sizes of the     *)
(* reads (filesys.c 102-146, 181-192, 232-244).                              *)
THEOREM ReadsInOrder == Spec => []BytesInOrder
  BY FilesInv, InvBytes, PTL

-----------------------------------------------------------------------------
(* What an answer tells.                                                     *)

(* Any answer but those of read_file() and read_dir(): nothing is written to *)
(* the caller's buffer, and no file says that it has ended.                  *)
Quiet ==
    /\ last'.written = 0 /\ last'.result \in Int /\ last'.result >= -1
    /\ ~(last'.op = "read" /\ last'.result = 0 /\ fd_arr[cur][last'.fd].ops = "file")

LEMMA LastIs ==
    ASSUME NEW op, NEW fd, NEW n, NEW r, NEW w, AnswerTo(op, fd, n, r, w)
    PROVE  last'.op = op /\ last'.fd = fd /\ last'.n = n /\ last'.result = r /\ last'.written = w
  BY DEF AnswerTo

LEMMA ReadIs ==
    ASSUME NEW fd, NEW n, NEW r, NEW w, AnswerTo("read", fd, n, r, w)
    PROVE  last'.fd = fd /\ last'.n = n /\ last'.result = r /\ last'.written = w
  BY DEF AnswerTo

LEMMA QuietAnswer ==
    ASSUME NEW op, NEW fd, NEW n, NEW r \in Int, r >= -1, AnswerTo(op, fd, n, r, 0),
           op # "read" \/ r # 0 \/ fd_arr[cur][fd].ops # "file"
    PROVE  Quiet
  <1>1. last'.op = op /\ last'.fd = fd /\ last'.result = r /\ last'.written = 0
    BY LastIs, Zenon
  <1> QED
    BY <1>1, Zenon DEF Quiet

LEMMA QuietOther ==
    ASSUME NEW r \in Int, r >= -1, Answer(r)
    PROVE  Quiet
  <1>1. "other" # "read"
    OBVIOUS
  <1> QED
    BY <1>1, QuietAnswer, Zenon DEF Answer

LEMMA QuietSimple ==
    ASSUME Answer(0) \/ Answer(-1)
    PROVE  Quiet
  <1>1. 0 \in Int /\ -1 \in Int /\ 0 >= -1 /\ -1 >= -1
    OBVIOUS
  <1> QED
    BY <1>1, QuietOther, Zenon

LEMMA QuietCalls ==
    ASSUME Inv, NEW fd \in -1 .. MAX_FILES + 1,
           \/ Close(fd)
           \/ \E n \in Sizes :
                 Refused(fd, n) \/ Overrun(fd, n) \/ ReadDevice(fd, n) \/ Write(fd, n)
    PROVE  Quiet
  <1>0. /\ 0 \in Int /\ -1 \in Int /\ 0 >= -1 /\ -1 >= -1 /\ -1 # 0
        /\ "close" # "read" /\ "write" # "read" /\ "rtc" # "file" /\ "stdin" # "file"
    OBVIOUS
  <1>1. CASE Close(fd)
    <2>1. AnswerTo("close", fd, 0, 0, 0) \/ AnswerTo("close", fd, 0, -1, 0)
      BY <1>1, Zenon DEF Close
    <2> QED
      BY <1>0, <2>1, QuietAnswer, Zenon
  <1>2. ASSUME NEW n \in Sizes, Refused(fd, n) PROVE Quiet
    <2>1. PICK op \in {"read", "write"} : AnswerTo(op, fd, n, -1, 0)
      BY <1>2, Zenon DEF Refused
    <2> QED
      BY <1>0, <2>1, QuietAnswer, Zenon
  <1>3. ASSUME NEW n \in Sizes, Overrun(fd, n) PROVE Quiet
    BY <1>3, QuietSimple, Zenon DEF Overrun
  <1>4. ASSUME NEW n \in Sizes, ReadDevice(fd, n) PROVE Quiet
    <2>1. CASE Accepted(fd, n, "rtc") /\ AnswerTo("read", fd, n, 0, 0)
      <3>1. fd_arr[cur][fd].ops # "file"
        BY <1>0, <2>1, Zenon DEF Accepted
      <3> QED
        BY <1>0, <2>1, <3>1, QuietAnswer, Zenon
    <2>2. ASSUME NEW k \in 0 .. n, Accepted(fd, n, "stdin"), AnswerTo("read", fd, n, k, 0)
          PROVE  Quiet
      <3>1. fd_arr[cur][fd].ops # "file"
        BY <1>0, <2>2, Zenon DEF Accepted
      <3>2. k \in Int /\ k >= -1
        BY CallType
      <3> QED
        BY <2>2, <3>1, <3>2, QuietAnswer, Zenon
    <2>3. CASE AnswerTo("read", fd, n, -1, 0)
      BY <1>0, <2>3, QuietAnswer, Zenon
    <2> QED
      BY <1>4, <2>1, <2>2, <2>3, Zenon DEF ReadDevice
  <1>5. ASSUME NEW n \in Sizes, Write(fd, n) PROVE Quiet
    <2>1. PICK ops : Accepted(fd, n, ops)
      BY <1>5, Zenon DEF Write
    <2>2. n \in Int /\ n >= -1
      <3>1. n \in 0 .. INT_MAX
        BY <2>1, AcceptedIs, Zenon
      <3> QED
        BY <3>1, Numbers
    <2>3. \E r \in {0, -1, n} : AnswerTo("write", fd, n, r, 0)
      BY <1>5, Zenon DEF Write
    <2> QED
      BY <1>0, <2>2, <2>3, QuietAnswer, Zenon
  <1> QED
    BY <1>1, <1>2, <1>3, <1>4, <1>5, Zenon

LEMMA Told ==
    ASSUME Inv, Next
    PROVE  \/ UNCHANGED vars
           \/ Quiet
           \/ \E fd \in -1 .. MAX_FILES + 1, n \in Sizes : ReadFile(fd, n) \/ ReadDir(fd, n)
  <1>1. CASE \E i \in DOMAIN direntries : \E args \in {"none", "short", "long"} : Execute(i, args)
    BY <1>1, QuietSimple, Zenon DEF Execute
  <1>2. CASE \/ \E i \in DOMAIN direntries : ExecuteFails(i)
             \/ \E name \in Names : OpenFails(name)
             \/ \E n \in Sizes, ok \in BOOLEAN : GetArgs(n, ok)
             \/ InvalidCall
    BY <1>2, QuietSimple, Zenon DEF ExecuteFails, OpenFails, GetArgs, InvalidCall
  <1>3. CASE Halt
    BY <1>3, QuietSimple, Zenon DEF Halt
  <1>4. CASE \E name \in Names : OpenBegin(name)
    BY <1>4, QuietSimple, Zenon DEF OpenBegin
  <1>5. CASE OpenEnd
    <2>1. status = "ok" /\ opening.stage = "busy" /\ Answer(opening.fd)
      BY <1>5, Zenon DEF OpenEnd
    <2>2. opening.fd \in Fds
      BY <2>1, IdleIs, Zenon DEF Inv, Opens
    <2>3. opening.fd \in Int /\ opening.fd >= -1
      BY <2>2, FdsAre
    <2> QED
      BY <2>1, <2>3, QuietOther, Zenon
  <1>6. ASSUME NEW fd \in -1 .. MAX_FILES + 1,
               \/ Close(fd)
               \/ \E n \in Sizes :
                     \/ Refused(fd, n) \/ Overrun(fd, n)
                     \/ ReadFile(fd, n) \/ ReadDir(fd, n) \/ ReadDevice(fd, n) \/ Write(fd, n)
        PROVE  Quiet \/ \E n \in Sizes : ReadFile(fd, n) \/ ReadDir(fd, n)
    BY <1>6, QuietCalls, Zenon
  <1>7. CASE \E where \in {"null", "kernel", "program", "above"} : Vidmap(where)
    <2>1. Answer(0) \/ Answer(-1)
      BY <1>7 DEF Vidmap
    <2> QED
      BY <2>1, QuietSimple, Zenon
  <1>8. CASE WildStep
    BY <1>8, Zenon DEF WildStep
  <1> QED
    BY <1>1, <1>2, <1>3, <1>4, <1>5, <1>6, <1>7, <1>8, Zenon DEF Next

(* What read_file() and read_dir() tell. *)
LEMMA FileTells ==
    ASSUME Inv, NEW fd \in -1 .. MAX_FILES + 1, NEW n \in Sizes, ReadFile(fd, n)
    PROVE  /\ last'.fd = fd /\ last'.n = n /\ last'.written = last'.result
           /\ last'.result \in Nat
           /\ n > 0 /\ last'.result = 0 => got[cur][fd] = Contents(fd_arr[cur][fd].inode)
  <1> DEFINE d == fd_arr[cur][fd]
             s == got[cur][fd]
             t == Contents(d.inode)
             m == Len(read_data(d.inode, d.pos, n % UINTS))
  <1>1. Accepted(fd, n, "file") /\ AnswerTo("read", fd, n, m, m)
    BY Zenon DEF ReadFile
  <1> HIDE DEF m
  <1>2. last'.fd = fd /\ last'.n = n /\ last'.written = m /\ last'.result = m
    BY <1>1, ReadIs, Zenon
  <1>3. d \in Desc /\ s \in Seq(Items) /\ First(s, t, d.pos) /\ n \in 0 .. INT_MAX
    BY <1>1, FileGives, Zenon
  <1>4. m \in Nat /\ (n > 0 /\ m = 0 => d.pos = Size(d.inode))
    BY <1>3, FileGoesOn, Zenon DEF m
  <1>5. t \in Seq(Items) /\ Len(t) = Size(d.inode)
    BY <1>3, DescIs, ContentsType, Zenon
  <1>6. ASSUME n > 0, m = 0 PROVE s = t
    <2>1. Len(s) = Len(t) /\ \A k \in 1 .. Len(s) : s[k] = t[k]
      BY <1>3, <1>4, <1>5, <1>6, Zenon DEF First
    <2> HIDE DEF s, t
    <2> QED
      BY <1>3, <1>5, <2>1, SeqEqual, Zenon
  <1> QED
    BY <1>2, <1>4, <1>6, Zenon

LEMMA DirTells ==
    ASSUME Inv, NEW fd \in -1 .. MAX_FILES + 1, NEW n \in Sizes, ReadDir(fd, n)
    PROVE  /\ last'.fd = fd /\ fd_arr[cur][fd].ops = "dir"
           /\ last'.written \in Nat /\ last'.written <= FILENAME_LEN + 1
           /\ last'.result \in 0 .. FILENAME_LEN
  <1>1. fd_arr[cur][fd].ops = "dir"
    BY Zenon DEF ReadDir, Accepted
  <1>2. CASE AnswerTo("read", fd, n, 0, 0)
    <2>1. last'.fd = fd /\ last'.written = 0 /\ last'.result = 0
      BY <1>2, ReadIs
    <2> QED
      BY <1>1, <2>1, Numbers
  <1>3. ASSUME NEW dentry \in EntryAt(fd_arr[cur][fd].pos),
               AnswerTo("read", fd, n, ReturnedLength(dentry), NameWritten(dentry))
        PROVE  /\ last'.fd = fd /\ last'.written \in Nat /\ last'.written <= FILENAME_LEN + 1
               /\ last'.result \in 0 .. FILENAME_LEN
    <2>1. PICK i \in DOMAIN direntries : dentry = direntries[i]
      BY Zenon DEF EntryAt
    <2>2. last'.fd = fd /\ last'.result = ReturnedLength(dentry)
          /\ last'.written = NameWritten(dentry)
      BY <1>3, ReadIs
    <2> QED
      BY <2>1, <2>2, NameIs, Zenon
  <1> QED
    BY <1>1, <1>2, <1>3, Zenon DEF ReadDir

LEMMA EofStep ==
    ASSUME Inv, [Next]_vars
    PROVE  \/ UNCHANGED vars
           \/ (last'.op = "read" /\ last'.n > 0 /\ last'.result = 0
                  /\ fd_arr[cur][last'.fd].ops = "file"
                 => got[cur][last'.fd] = Contents(fd_arr[cur][last'.fd].inode))
  <1>1. ASSUME NEW fd \in -1 .. MAX_FILES + 1, NEW n \in Sizes, ReadDir(fd, n)
        PROVE  fd_arr[cur][last'.fd].ops # "file"
    BY <1>1, DirTells, TablesDiffer, Zenon
  <1>2. ASSUME NEW fd \in -1 .. MAX_FILES + 1, NEW n \in Sizes, ReadFile(fd, n),
               last'.n > 0, last'.result = 0
        PROVE  got[cur][last'.fd] = Contents(fd_arr[cur][last'.fd].inode)
    BY <1>2, FileTells, Zenon
  <1> QED
    BY <1>1, <1>2, Told, Zenon DEF Quiet

(* A program that reads until it is given 0 bytes has read the whole file    *)
(* (filesys.c 181-192, read_data() 102-146).                                 *)
THEOREM EofIsAll == Spec => EofMeansAll
  <1>1. Inv /\ [Next]_vars =>
           [LET d == fd_arr[cur][last'.fd]
            IN last'.op = "read" /\ last'.n > 0 /\ last'.result = 0 /\ d.ops = "file" =>
                  got[cur][last'.fd] = Contents(d.inode)]_vars
    BY EofStep, Zenon
  <1> QED
    BY <1>1, FilesInv, PTL DEF Spec, EofMeansAll

LEMMA NameStep ==
    ASSUME Inv, [Next]_vars
    PROVE  \/ UNCHANGED vars
           \/ (last'.written > last'.result =>
                 last'.written <= FILENAME_LEN + 1 /\ last'.result <= FILENAME_LEN)
  <1>0. FILENAME_LEN \in Nat
    BY Numbers
  <1>1. ASSUME NEW fd \in -1 .. MAX_FILES + 1, NEW n \in Sizes, ReadDir(fd, n)
        PROVE  last'.written <= FILENAME_LEN + 1 /\ last'.result <= FILENAME_LEN
    <2>1. last'.written <= FILENAME_LEN + 1 /\ last'.result \in 0 .. FILENAME_LEN
      BY <1>1, DirTells, Zenon
    <2> DEFINE r == last'.result
    <2>2. r \in 0 .. FILENAME_LEN
      BY <2>1, Zenon
    <2> HIDE DEF r
    <2>3. r <= FILENAME_LEN
      BY <1>0, <2>2
    <2> QED
      BY <2>1, <2>3, Zenon DEF r
  <1>2. ASSUME NEW fd \in -1 .. MAX_FILES + 1, NEW n \in Sizes, ReadFile(fd, n)
        PROVE  ~(last'.written > last'.result)
    <2> DEFINE r == last'.result
               w == last'.written
    <2>1. r \in Nat /\ w = r
      BY <1>2, FileTells, Zenon
    <2> HIDE DEF r, w
    <2>2. ~(w > r)
      BY <2>1
    <2> QED
      BY <2>2, Zenon DEF r, w
  <1>3. ASSUME Quiet, last'.written > last'.result
        PROVE  last'.written <= FILENAME_LEN + 1 /\ last'.result <= FILENAME_LEN
    <2> DEFINE r == last'.result
               w == last'.written
    <2>1. w = 0 /\ r \in Int /\ w > r
      BY <1>3, Zenon DEF Quiet
    <2> HIDE DEF r, w
    <2>2. w <= FILENAME_LEN + 1 /\ r <= FILENAME_LEN
      BY <1>0, <2>1
    <2> QED
      BY <2>2, Zenon DEF r, w
  <1> QED
    BY <1>1, <1>2, <1>3, Told, Zenon

(* A name of any length and its terminator fit the 33 bytes that ls and grep *)
(* provide, and the newline they add goes inside (filesys.c 231-244, lib.c 461-471). *)
THEOREM NamesFit == Spec => NameFits
  <1>1. Inv /\ [Next]_vars =>
           [last'.written > last'.result =>
              last'.written <= FILENAME_LEN + 1 /\ last'.result <= FILENAME_LEN]_vars
    BY NameStep, Zenon
  <1> QED
    BY <1>1, FilesInv, PTL DEF Spec, NameFits
=============================================================================
