----------------------------- MODULE PartsProofs ------------------------------
(***************************************************************************)
(* Parts that stand alone: the lengths that IOFile tells, the trophy files  *)
(* that TRP::Extract writes, the renames of the package pane, the log file  *)
(* and the list of the LRU cache, for any objects, paths, files, packages,  *)
(* names, messages and items.                                               *)
(***************************************************************************)
EXTENDS IoFile, TrophyFiles, PackagePane, LogBackend, LruCache, FiniteSetTheorems,
        SequenceTheorems, WellFoundedInduction, TLAPS

(***************************************************************************)
(* The lengths of files.                                                    *)
(***************************************************************************)
\* The types of the streams and of the objects.
Streams == [name : IoPaths \cup {""}, inode : 0 .. MaxIo, pos : Nat, held : Nat, append : BOOLEAN]
Files == [path : IoPaths \cup {""}, mode : Modes \cup {"none"}, stream : 0 .. MaxIo]

\* A stream with bytes of an inode that are not on the disk.
HoldsBytes(st, i, k) == st[i].inode = k /\ st[i].held > 0

\* No two streams hold bytes of the inode, and the length counts those held.
Counted(sz, st, len, mx, k) ==
  k \notin mx =>
    /\ \A i, j \in Inodes : HoldsBytes(st, i, k) /\ HoldsBytes(st, j, k) => i = j
    /\ \A i \in Inodes : HoldsBytes(st, i, k) => len[k] = Flushed(sz, st[i])[k]
    /\ (\A i \in Inodes : ~HoldsBytes(st, i, k)) => len[k] = sz[k]

\* The types.
IoTyped ==
  /\ names \in [IoPaths -> 0 .. MaxIo] /\ sizes \in [Inodes -> Nat] /\ length \in [Inodes -> Nat]
  /\ streams \in [Inodes -> Streams] /\ obj \in [Objects -> Files] /\ ioCalls \in 0 .. MaxIo

\* The stream of an object is its own, and was opened at its path; a number
\* that no call has had yet is no stream's that holds bytes.
Owned ==
  /\ \A o \in Objects : IsOpen(o) =>
       /\ obj[o].stream <= ioCalls /\ obj[o].path \in IoPaths
       /\ StreamOf(o).inode \in Inodes /\ StreamOf(o).name = obj[o].path
  /\ \A o, p \in Objects : IsOpen(o) /\ obj[o].stream = obj[p].stream => o = p
  /\ \A i \in Inodes : streams[i].held > 0 => i <= ioCalls

\* The inductive invariant.  An answer is right when it is given because at any time
\* the length on disk and the bytes held by the one stream that may hold some make
\* up the length.
IoInv ==
  /\ IoTyped /\ Owned
  /\ \A k \in Inodes : Counted(sizes, streams, length, mixed, k)
  /\ SizeCountsTheWritten

-----------------------------------------------------------------------------
\* What a flush does to the length of one inode.
LEMMA FlushedAt ==
  ASSUME NEW sz \in [Inodes -> Nat], NEW s \in Streams, NEW k \in Inodes
  PROVE  /\ Flushed(sz, s) \in [Inodes -> Nat]
         /\ s.inode # k \/ s.held = 0 => Flushed(sz, s)[k] = sz[k]
         /\ s.inode = k /\ s.held > 0 =>
              Flushed(sz, s)[k] = IF s.append THEN sz[k] + s.held ELSE Most(sz[k], s.pos)
<1>1. s.held \in Nat /\ s.pos \in Nat /\ s.append \in BOOLEAN
  BY DEF Streams
<1>2. CASE s.held = 0
  BY <1>1, <1>2 DEF Flushed
<1>3. CASE s.held > 0 /\ s.append
  <2>1. Flushed(sz, s) = [sz EXCEPT ![s.inode] = @ + s.held]
    BY <1>1, <1>3 DEF Flushed
  <2> DEFINE x == s.inode
             h == s.held
             f == [sz EXCEPT ![x] = @ + h]
  <2>2. \A n \in Nat : n + h \in Nat
    BY <1>1
  <2> HIDE DEF x, h
  <2>3. f \in [Inodes -> Nat] /\ (x = k => f[k] = sz[k] + h) /\ (x # k => f[k] = sz[k])
    BY <2>2
  <2>4. Flushed(sz, s) = f
    BY <2>1 DEF x, h
  <2> HIDE DEF f
  <2> QED
    BY <1>3, <2>3, <2>4 DEF x, h
<1>4. CASE s.held > 0 /\ ~s.append
  <2>1. Flushed(sz, s) = [sz EXCEPT ![s.inode] = Most(@, s.pos)]
    BY <1>1, <1>4 DEF Flushed
  <2> DEFINE x == s.inode
             h == s.pos
             f == [sz EXCEPT ![x] = Most(@, h)]
  <2>2. \A n \in Nat : Most(n, h) \in Nat
    BY <1>1 DEF Most
  <2> HIDE DEF x, h
  <2>3. f \in [Inodes -> Nat] /\ (x = k => f[k] = Most(sz[k], h)) /\ (x # k => f[k] = sz[k])
    BY <2>2
  <2>4. Flushed(sz, s) = f
    BY <2>1 DEF x, h
  <2> HIDE DEF f
  <2> QED
    BY <1>4, <2>3, <2>4 DEF x, h
<1> QED
  BY <1>1, <1>2, <1>3, <1>4

LEMMA SameFlush ==
  ASSUME NEW sz \in [Inodes -> Nat], NEW sz2 \in [Inodes -> Nat], NEW s \in Streams,
         NEW k \in Inodes, s.inode = k, s.held > 0, sz2[k] = sz[k]
  PROVE  Flushed(sz2, s)[k] = Flushed(sz, s)[k]
<1>1. Flushed(sz, s)[k] = IF s.append THEN sz[k] + s.held ELSE Most(sz[k], s.pos)
  BY FlushedAt
<1>2. Flushed(sz2, s)[k] = IF s.append THEN sz2[k] + s.held ELSE Most(sz2[k], s.pos)
  BY FlushedAt
<1> QED
  BY <1>1, <1>2

\* A flush counts the bytes that a stream gives up, whatever becomes of it.
LEMMA FlushCounts ==
  ASSUME NEW sz \in [Inodes -> Nat], NEW st \in [Inodes -> Streams], NEW len, NEW mx,
         NEW i \in Inodes, NEW e \in Streams, e.held = 0,
         NEW k \in Inodes, Counted(sz, st, len, mx, k)
  PROVE  Counted(Flushed(sz, st[i]), [st EXCEPT ![i] = e], len, mx, k)
<1> DEFINE s2 == Flushed(sz, st[i])
           t2 == [st EXCEPT ![i] = e]
<1>1. /\ s2 \in [Inodes -> Nat]
      /\ ~HoldsBytes(st, i, k) => s2[k] = sz[k]
  <2>1. st[i] \in Streams /\ st[i].held \in Nat
    BY DEF Streams
  <2> QED
    BY <2>1, FlushedAt DEF HoldsBytes
<1>2. \A j \in Inodes \ {i} : t2[j] = st[j] /\ (HoldsBytes(t2, j, k) <=> HoldsBytes(st, j, k))
  BY DEF HoldsBytes
<1>3. ~HoldsBytes(t2, i, k)
  BY DEF HoldsBytes
<1> SUFFICES ASSUME k \notin mx PROVE
    /\ \A a, b \in Inodes : HoldsBytes(t2, a, k) /\ HoldsBytes(t2, b, k) => a = b
    /\ \A a \in Inodes : HoldsBytes(t2, a, k) => len[k] = Flushed(s2, t2[a])[k]
    /\ (\A a \in Inodes : ~HoldsBytes(t2, a, k)) => len[k] = s2[k]
  BY DEF Counted
<1> HIDE DEF s2, t2
<1>4. /\ \A a, b \in Inodes : HoldsBytes(st, a, k) /\ HoldsBytes(st, b, k) => a = b
      /\ \A a \in Inodes : HoldsBytes(st, a, k) => len[k] = Flushed(sz, st[a])[k]
      /\ (\A a \in Inodes : ~HoldsBytes(st, a, k)) => len[k] = sz[k]
  BY DEF Counted
<1>5. CASE HoldsBytes(st, i, k)
  BY <1>2, <1>3, <1>4, <1>5 DEF s2
<1>6. CASE ~HoldsBytes(st, i, k)
  <2>1. ASSUME NEW a \in Inodes, HoldsBytes(t2, a, k)
        PROVE  len[k] = Flushed(s2, t2[a])[k]
    <3>1. a # i /\ t2[a] = st[a] /\ HoldsBytes(st, a, k) /\ st[a] \in Streams
      BY <1>2, <1>3, <2>1
    <3>2. len[k] = Flushed(sz, st[a])[k]
      BY <1>4, <3>1
    <3>3. Flushed(s2, st[a])[k] = Flushed(sz, st[a])[k]
      BY <1>1, <1>6, <3>1, SameFlush DEF HoldsBytes
    <3> QED
      BY <3>1, <3>2, <3>3
  <2> QED
    BY <1>1, <1>2, <1>3, <1>4, <1>6, <2>1
<1> QED
  BY <1>5, <1>6

\* A stream that holds nothing may come, or go, or be moved.
LEMMA NothingHeld ==
  ASSUME NEW sz \in [Inodes -> Nat], NEW st \in [Inodes -> Streams], NEW len, NEW mx,
         NEW i \in Inodes, NEW e \in Streams, e.held = 0, st[i].held = 0,
         NEW k \in Inodes, Counted(sz, st, len, mx, k)
  PROVE  Counted(sz, [st EXCEPT ![i] = e], len, mx, k)
<1>1. Flushed(sz, st[i]) = sz
  BY DEF Flushed
<1>2. Counted(Flushed(sz, st[i]), [st EXCEPT ![i] = e], len, mx, k)
  BY FlushCounts
<1> QED
  BY <1>1, <1>2

\* Bytes of the inode that are overtaken end its account.
LEMMA OvertakenIs ==
  ASSUME IoTyped, NEW k, NEW this
  PROVE  /\ mixed \subseteq Overtaken(k, this) /\ Overtaken(k, this) \subseteq mixed \cup {k}
         /\ k \notin Overtaken(k, this) => \A i \in Inodes \ {this} : ~HoldsBytes(streams, i, k)
BY DEF Overtaken, HoldsBytes

\* The account of the other inodes does not change.
LEMMA OtherInode ==
  ASSUME NEW sz \in [Inodes -> Nat], NEW st \in [Inodes -> Streams], NEW len, NEW mx,
         NEW sz2 \in [Inodes -> Nat], NEW st2 \in [Inodes -> Streams], NEW len2, NEW mx2,
         NEW k \in Inodes, mx \subseteq mx2,
         sz2[k] = sz[k], len2[k] = len[k],
         \A i \in Inodes : st2[i] = st[i] \/ (~HoldsBytes(st, i, k) /\ ~HoldsBytes(st2, i, k)),
         Counted(sz, st, len, mx, k)
  PROVE  Counted(sz2, st2, len2, mx2, k)
<1> SUFFICES ASSUME k \notin mx2 PROVE
    /\ \A a, b \in Inodes : HoldsBytes(st2, a, k) /\ HoldsBytes(st2, b, k) => a = b
    /\ \A a \in Inodes : HoldsBytes(st2, a, k) => len2[k] = Flushed(sz2, st2[a])[k]
    /\ (\A a \in Inodes : ~HoldsBytes(st2, a, k)) => len2[k] = sz2[k]
  BY DEF Counted
<1>1. \A a \in Inodes : HoldsBytes(st2, a, k) => HoldsBytes(st, a, k) /\ st2[a] = st[a]
  BY DEF HoldsBytes
<1>2. \A a \in Inodes : HoldsBytes(st, a, k) => HoldsBytes(st2, a, k)
  BY DEF HoldsBytes
<1>3. /\ \A a, b \in Inodes : HoldsBytes(st, a, k) /\ HoldsBytes(st, b, k) => a = b
      /\ \A a \in Inodes : HoldsBytes(st, a, k) => len[k] = Flushed(sz, st[a])[k]
      /\ (\A a \in Inodes : ~HoldsBytes(st, a, k)) => len[k] = sz[k]
  BY DEF Counted
<1>4. ASSUME NEW a \in Inodes, HoldsBytes(st2, a, k)
      PROVE  len2[k] = Flushed(sz2, st2[a])[k]
  <2>1. st2[a] = st[a] /\ st[a] \in Streams /\ HoldsBytes(st, a, k)
    BY <1>1, <1>4
  <2>2. Flushed(sz2, st[a])[k] = Flushed(sz, st[a])[k]
    BY <2>1, SameFlush DEF HoldsBytes
  <2> QED
    BY <1>3, <2>1, <2>2
<1> QED
  BY <1>1, <1>2, <1>3, <1>4

\* The stream without what was lost of it, and the stream after that.
Rid(s, n) == [Less(s, n) EXCEPT !.held = 0]
LEMMA LessIs ==
  ASSUME NEW s \in Streams, NEW n \in 0 .. s.held
  PROVE  /\ Less(s, n) \in Streams /\ Less(s, n).inode = s.inode /\ Less(s, n).name = s.name
         /\ n = 0 => /\ Less(s, n).held = s.held /\ Less(s, n).pos = s.pos
                     /\ Less(s, n).append = s.append
         /\ Rid(s, n) \in Streams /\ Rid(s, n).inode = s.inode /\ Rid(s, n).name = s.name
         /\ Rid(s, n).held = 0
<1>1. s.held \in Nat /\ s.pos \in Nat /\ s.append \in BOOLEAN
  BY DEF Streams
<1> DEFINE h == s.held - n
           p == IF s.append THEN s.pos ELSE Most(s.pos - n, 0)
<1>2. h \in Nat /\ p \in Nat
  BY <1>1 DEF Most
<1>3. n = 0 => h = s.held /\ p = s.pos
  BY <1>1 DEF Most
<1>4. Less(s, n) = [s EXCEPT !.held = h, !.pos = p]
  BY DEF Less
<1> HIDE DEF h, p
<1>5. /\ Less(s, n) \in Streams /\ Less(s, n).inode = s.inode /\ Less(s, n).name = s.name
      /\ Less(s, n).held = h /\ Less(s, n).pos = p /\ Less(s, n).append = s.append
  BY <1>2, <1>4 DEF Streams
<1>6. PICK t : t = Less(s, n)
  OBVIOUS
<1>7. Rid(s, n) = [t EXCEPT !.held = 0] /\ t \in Streams /\ t.inode = s.inode /\ t.name = s.name
  BY <1>5, <1>6 DEF Rid
<1>8. /\ Rid(s, n) \in Streams /\ Rid(s, n).inode = s.inode /\ Rid(s, n).name = s.name
      /\ Rid(s, n).held = 0
  <2> DEFINE g == [t EXCEPT !.held = 0]
  <2>1. g \in Streams /\ g.inode = t.inode /\ g.name = t.name /\ g.held = 0
    BY <1>7 DEF Streams
  <2> HIDE DEF g
  <2>2. Rid(s, n) = g
    BY <1>7 DEF g
  <2> QED
    BY <1>7, <2>1, <2>2
<1> QED
  BY <1>3, <1>5, <1>8

\* Without a loss it is the flush of the stream.
LEMMA NoLoss ==
  ASSUME NEW s \in Streams, NEW sz
  PROVE  Flushed(sz, Less(s, 0)) = Flushed(sz, s)
<1>1. 0 \in 0 .. s.held
  <2>1. s.held \in Nat
    BY DEF Streams
  <2> QED
    BY <2>1
<1>2. PICK n : n = 0
  OBVIOUS
<1>3. /\ Less(s, n).held = s.held /\ Less(s, n).pos = s.pos
      /\ Less(s, n).append = s.append /\ Less(s, n).inode = s.inode
  BY <1>1, <1>2, LessIs
<1> QED
  BY <1>2, <1>3 DEF Flushed

\* A flush that loses bytes ends the account of their inode.
LEMMA LossCounts ==
  ASSUME NEW sz \in [Inodes -> Nat], NEW st \in [Inodes -> Streams], NEW len, NEW mx, NEW mx2,
         NEW i \in Inodes, NEW e \in Streams, e.held = 0, NEW n \in 0 .. st[i].held,
         mx2 = IF n = 0 THEN mx ELSE mx \cup {st[i].inode},
         NEW k \in Inodes, Counted(sz, st, len, mx, k)
  PROVE  Counted(Flushed(sz, Less(st[i], n)), [st EXCEPT ![i] = e], len, mx2, k)
<1>1. st[i] \in Streams
  OBVIOUS
<1>2. CASE n = 0
  <2>1. Flushed(sz, Less(st[i], n)) = Flushed(sz, st[i]) /\ mx2 = mx
    BY <1>1, <1>2, NoLoss
  <2> QED
    BY <2>1, FlushCounts
<1>3. CASE n # 0 /\ k = st[i].inode
  BY <1>3 DEF Counted
<1>4. CASE n # 0 /\ k # st[i].inode
  <2> DEFINE s2 == Flushed(sz, Less(st[i], n))
             t2 == [st EXCEPT ![i] = e]
  <2>1. Less(st[i], n) \in Streams /\ Less(st[i], n).inode = st[i].inode
    BY <1>1, LessIs
  <2>2. s2 \in [Inodes -> Nat] /\ s2[k] = sz[k]
    BY <1>4, <2>1, FlushedAt
  <2>3. t2 \in [Inodes -> Streams]
        /\ \A j \in Inodes : t2[j] = st[j] \/ (~HoldsBytes(st, j, k) /\ ~HoldsBytes(t2, j, k))
    BY <1>4 DEF HoldsBytes
  <2> HIDE DEF s2, t2
  <2>4. Counted(s2, t2, len, mx2, k)
    BY <1>4, <2>2, <2>3, OtherInode
  <2> QED
    BY <2>4 DEF s2, t2
<1> QED
  BY <1>2, <1>3, <1>4

-----------------------------------------------------------------------------
\* An open object has a stream of its own.
LEMMA OwnStream ==
  ASSUME IoInv, NEW o \in Objects, IsOpen(o)
  PROVE  /\ obj[o].stream \in Inodes /\ StreamOf(o) = streams[obj[o].stream]
         /\ StreamOf(o) \in Streams /\ StreamOf(o).inode \in Inodes
         /\ obj[o].path \in IoPaths /\ StreamOf(o).name = obj[o].path
         /\ obj[o].stream <= ioCalls
<1>1. obj[o] \in Files /\ MaxIo \in Nat
  BY IoAssumption DEF IoInv, IoTyped
<1>2. obj[o].stream \in Inodes
  <2>1. obj[o].stream \in 0 .. MaxIo /\ obj[o].stream # 0
    BY <1>1 DEF Files, IsOpen
  <2> QED
    BY <1>1, <2>1 DEF Inodes
<1> QED
  BY <1>2 DEF StreamOf, IoInv, IoTyped, Owned

LEMMA CallCounted ==
  ASSUME IoInv, IoCall
  PROVE  ioCalls' \in Inodes /\ ioCalls' \in 0 .. MaxIo /\ ioCalls' = ioCalls + 1
BY IoAssumption DEF IoInv, IoTyped, IoCall, Inodes

LEMMA Later ==
  ASSUME IoInv, IoCall, NEW i \in Inodes, i <= ioCalls
  PROVE  i <= ioCalls'
<1>1. ioCalls' = ioCalls + 1
  BY CallCounted
<1>2. i \in Int /\ ioCalls \in Int
  BY IoAssumption DEF Inodes, IoInv, IoTyped
<1> QED
  BY <1>1, <1>2

\* Streams that keep their names and inodes stay with their objects.
LEMMA StillOwned ==
  ASSUME IoInv, IoCall, obj' = obj,
         \A i \in Inodes :
           /\ streams'[i].name = streams[i].name /\ streams'[i].inode = streams[i].inode
           /\ streams'[i] = streams[i] \/ i <= ioCalls
  PROVE  Owned'
<1>1. ASSUME NEW o \in Objects, IsOpen(o)'
      PROVE  /\ obj[o].stream <= ioCalls' /\ obj[o].path \in IoPaths
             /\ StreamOf(o)'.inode \in Inodes /\ StreamOf(o)'.name = obj[o].path
  <2>1. IsOpen(o)
    BY <1>1 DEF IsOpen
  <2>2. obj[o].stream \in Inodes /\ StreamOf(o)' = streams'[obj[o].stream]
        /\ StreamOf(o) = streams[obj[o].stream] /\ obj[o].stream <= ioCalls
    BY <2>1, OwnStream DEF StreamOf, IoInv, Owned
  <2>3. obj[o].stream <= ioCalls'
    BY <2>2, Later
  <2> QED
    BY <2>1, <2>2, <2>3, OwnStream
<1>2. \A o, p \in Objects : IsOpen(o)' /\ obj[o].stream = obj[p].stream => o = p
  BY DEF IsOpen, IoInv, Owned
<1>3. \A i \in Inodes : streams'[i].held > 0 => i <= ioCalls'
  <2>1. \A i \in Inodes : streams'[i].held > 0 => i <= ioCalls
    BY DEF IoInv, Owned
  <2> QED
    BY <2>1, Later
<1> QED
  BY <1>1, <1>2, <1>3 DEF Owned, Inodes

\* The stream of an object gives up its bytes and keeps its file.
LEMMA FlushStep ==
  ASSUME IoInv, NEW o \in Objects, IoCall, IsOpen(o), NEW e \in Streams,
         e.name = StreamOf(o).name, e.inode = StreamOf(o).inode, e.held = 0,
         NEW n \in Losses(o), Flush(o, n), streams' = [streams EXCEPT ![obj[o].stream] = e],
         UNCHANGED <<names, obj, length>>
  PROVE  /\ IoTyped' /\ Owned'
         /\ \A k \in Inodes : Counted(sizes, streams, length, mixed, k)'
<1> DEFINE i == obj[o].stream
<1>1. i \in Inodes /\ StreamOf(o) = streams[i] /\ streams[i] \in Streams
      /\ sizes \in [Inodes -> Nat] /\ streams \in [Inodes -> Streams] /\ i <= ioCalls
  BY OwnStream DEF IoInv, IoTyped
<1> HIDE DEF i
<1>2. /\ streams' = [streams EXCEPT ![i] = e] /\ sizes' = Flushed(sizes, Less(streams[i], n))
      /\ mixed' = (IF n = 0 THEN mixed ELSE mixed \cup {streams[i].inode})
      /\ n \in 0 .. streams[i].held
  BY <1>1 DEF i, Flush, MixedBy, Losses
<1>3. sizes' \in [Inodes -> Nat]
  <2>1. Less(streams[i], n) \in Streams
    BY <1>1, <1>2, LessIs
  <2> QED
    BY <1>1, <1>2, <2>1, FlushedAt
<1>4. streams' \in [Inodes -> Streams]
  BY <1>1, <1>2
<1>5. IoTyped'
  BY <1>3, <1>4, CallCounted DEF IoInv, IoTyped
<1>6. Owned'
  BY <1>1, <1>2, StillOwned
<1>7. \A k \in Inodes : Counted(sizes', streams', length', mixed', k)
  <2>1. ASSUME NEW k \in Inodes
        PROVE  Counted(Flushed(sizes, Less(streams[i], n)), [streams EXCEPT ![i] = e], length,
                       mixed', k)
    <3>1. Counted(sizes, streams, length, mixed, k)
      BY DEF IoInv
    <3> QED
      BY <1>1, <1>2, <3>1, LossCounts
  <2> QED
    BY <1>2, <2>1
<1>8. \A k \in Inodes : Counted(sizes, streams, length, mixed, k)'
  BY <1>7 DEF Counted, HoldsBytes, Flushed, Inodes, Most
<1> QED
  BY <1>5, <1>6, <1>8

\* A stream that was flushed, and one that was moved after it.
LEMMA EmptiedIs ==
  ASSUME IoInv, NEW o \in Objects, IsOpen(o), NEW n \in Losses(o)
  PROVE  \E e \in Streams :
           /\ e.name = StreamOf(o).name /\ e.inode = StreamOf(o).inode /\ e.held = 0
           /\ Emptied(o, n) = [streams EXCEPT ![obj[o].stream] = e]
<1> DEFINE i == obj[o].stream
           e == Rid(streams[i], n)
<1>1. i \in Inodes /\ StreamOf(o) = streams[i] /\ streams[i] \in Streams
      /\ streams \in [Inodes -> Streams]
  BY OwnStream DEF IoInv, IoTyped
<1>2. n \in 0 .. streams[i].held
  BY <1>1 DEF Losses
<1> HIDE DEF i
<1>3. e \in Streams /\ e.name = streams[i].name /\ e.inode = streams[i].inode /\ e.held = 0
  BY <1>1, <1>2, LessIs
<1>4. Emptied(o, n) = [streams EXCEPT ![i] = e]
  BY <1>1 DEF Emptied, i, Rid
<1> HIDE DEF e
<1> QED
  BY <1>1, <1>3, <1>4 DEF i

Placed(o, n, to) == [Emptied(o, n) EXCEPT ![obj[o].stream].pos = to]
LEMMA SoughtIs ==
  ASSUME IoInv, NEW o \in Objects, IsOpen(o), NEW to \in Nat, NEW n \in Losses(o), NEW st,
         st = Placed(o, n, to)
  PROVE  \E e \in Streams :
           /\ e.name = StreamOf(o).name /\ e.inode = StreamOf(o).inode /\ e.held = 0
           /\ st = [streams EXCEPT ![obj[o].stream] = e]
<1> DEFINE i == obj[o].stream
<1>1. i \in Inodes /\ streams \in [Inodes -> Streams]
  BY OwnStream DEF IoInv, IoTyped
<1>2. PICK e \in Streams : e.name = StreamOf(o).name /\ e.inode = StreamOf(o).inode /\ e.held = 0
                           /\ Emptied(o, n) = [streams EXCEPT ![i] = e]
  BY EmptiedIs
<1> DEFINE g == [e EXCEPT !.pos = to]
<1>3. g \in Streams /\ g.name = e.name /\ g.inode = e.inode /\ g.held = 0
  BY <1>2 DEF Streams
<1> HIDE DEF i
<1>4. [Emptied(o, n) EXCEPT ![i].pos = to] = [streams EXCEPT ![i] = g]
  BY <1>1, <1>2
<1>5. st = [Emptied(o, n) EXCEPT ![i].pos = to]
  BY DEF Placed, i
<1> HIDE DEF g
<1> QED
  BY <1>2, <1>3, <1>4, <1>5 DEF i

\* The steps, one by one.
LEMMA FlushFileStep ==
  ASSUME IoInv, NEW o \in Objects, FlushFile(o)
  PROVE  IoInv'
<1>1. IoCall /\ IsOpen(o) /\ told' = <<>> /\ UNCHANGED <<names, obj, length>>
  BY DEF FlushFile
<1>2. PICK n \in Losses(o) : Flush(o, n) /\ streams' = Emptied(o, n)
  BY DEF FlushFile
<1>3. PICK e \in Streams : e.name = StreamOf(o).name /\ e.inode = StreamOf(o).inode /\ e.held = 0
                           /\ Emptied(o, n) = [streams EXCEPT ![obj[o].stream] = e]
  BY <1>1, EmptiedIs
<1>4. /\ IoTyped' /\ Owned'
      /\ \A k \in Inodes : Counted(sizes, streams, length, mixed, k)'
  BY <1>1, <1>2, <1>3, FlushStep
<1> QED
  BY <1>1, <1>4 DEF IoInv, SizeCountsTheWritten, Inodes

LEMMA SeekFileStep ==
  ASSUME IoInv, NEW o \in Objects, SeekFile(o)
  PROVE  IoInv'
<1>1. IoCall /\ IsOpen(o) /\ told' = <<>> /\ UNCHANGED <<names, obj, length>>
  BY DEF SeekFile
<1>2. PICK n \in Losses(o) :
        /\ Flush(o, n)
        /\ \/ streams' = Emptied(o, n)
           \/ \E to \in {0, sizes'[StreamOf(o).inode]} :
                streams' = [Emptied(o, n) EXCEPT ![obj[o].stream].pos = to]
  BY DEF SeekFile
<1>3. sizes'[StreamOf(o).inode] \in Nat
  <2>1. StreamOf(o) \in Streams /\ StreamOf(o).inode \in Inodes /\ n \in 0 .. StreamOf(o).held
        /\ sizes \in [Inodes -> Nat]
    BY <1>1, OwnStream DEF IoInv, IoTyped, Losses
  <2>2. Less(StreamOf(o), n) \in Streams
    BY <2>1, LessIs
  <2>3. sizes' \in [Inodes -> Nat]
    BY <1>2, <2>1, <2>2, FlushedAt DEF Flush
  <2> QED
    BY <2>1, <2>3
<1>4. PICK e \in Streams : e.name = StreamOf(o).name /\ e.inode = StreamOf(o).inode /\ e.held = 0
                           /\ streams' = [streams EXCEPT ![obj[o].stream] = e]
  <2>1. CASE streams' = Emptied(o, n)
    BY <1>1, <2>1, EmptiedIs
  <2>2. ASSUME NEW to \in {0, sizes'[StreamOf(o).inode]},
               streams' = [Emptied(o, n) EXCEPT ![obj[o].stream].pos = to]
        PROVE  \E e \in Streams : e.name = StreamOf(o).name /\ e.inode = StreamOf(o).inode
                           /\ e.held = 0 /\ streams' = [streams EXCEPT ![obj[o].stream] = e]
    <3>1. IsOpen(o) /\ to \in Nat
      BY <1>1, <1>3
    <3>2. PICK st : st = streams'
      OBVIOUS
    <3>3. st = Placed(o, n, to)
      BY <2>2, <3>2 DEF Placed
    <3>4. \E e \in Streams :
            /\ e.name = StreamOf(o).name /\ e.inode = StreamOf(o).inode /\ e.held = 0
            /\ st = [streams EXCEPT ![obj[o].stream] = e]
      BY <3>1, <3>3, SoughtIs
    <3> QED
      BY <3>2, <3>4
  <2> QED
    BY <1>2, <2>1, <2>2
<1>5. /\ IoTyped' /\ Owned'
      /\ \A k \in Inodes : Counted(sizes, streams, length, mixed, k)'
  BY <1>1, <1>2, <1>4, FlushStep
<1> QED
  BY <1>1, <1>5 DEF IoInv, SizeCountsTheWritten, Inodes

\* The answer is asked of the path, after the flush.
LEMMA GetSizeStep ==
  ASSUME IoInv, NEW o \in Objects, GetSize(o)
  PROVE  IoInv'
<1> DEFINE k == InodeAt(obj[o].path)
           s == StreamOf(o)
<1>1. IoCall /\ IsOpen(o) /\ UNCHANGED <<names, obj, length>>
      /\ \E ok \in BOOLEAN : told' = <<o, IF ok /\ k # 0 THEN sizes'[k] ELSE 0, ok>>
  BY DEF GetSize
<1>9. PICK n \in Losses(o) : Flush(o, n) /\ streams' = Emptied(o, n)
  BY DEF GetSize
<1>2. PICK e \in Streams : e.name = s.name /\ e.inode = s.inode /\ e.held = 0
                           /\ Emptied(o, n) = [streams EXCEPT ![obj[o].stream] = e]
  <2>1. IsOpen(o)
    BY <1>1
  <2> HIDE DEF s
  <2> QED
    BY <2>1, EmptiedIs DEF s
<1>3. /\ IoTyped' /\ Owned'
      /\ \A i \in Inodes : Counted(sizes, streams, length, mixed, i)'
  BY <1>1, <1>2, <1>9, FlushStep
<1>4. s.inode \in Inodes /\ s.name = obj[o].path /\ obj[o].path \in IoPaths /\ 0 \notin Inodes
      /\ obj[o].stream \in Inodes
  BY <1>1, OwnStream, IoAssumption DEF Inodes
<1>5. StreamOf(o)' = e
  BY <1>1, <1>2, <1>4, <1>9 DEF StreamOf, IoInv, IoTyped
<1>6. ASSUME names'[e.name] = e.inode, e.inode \notin mixed', told'[3],
             ~(\E i \in Inodes : streams'[i].inode = e.inode /\ streams'[i].held > 0)
      PROVE  told'[2] = length'[e.inode]
  <2>1. k = e.inode
    BY <1>1, <1>2, <1>4, <1>6 DEF InodeAt
  <2>2. told'[2] = sizes'[e.inode]
    <3>1. PICK ok \in BOOLEAN : told' = <<o, IF ok /\ k # 0 THEN sizes'[k] ELSE 0, ok>>
      BY <1>1
    <3>2. told'[3] = ok /\ told'[2] = IF ok /\ k # 0 THEN sizes'[k] ELSE 0
      BY <3>1
    <3>3. k # 0
      BY <1>2, <1>4, <2>1
    <3> QED
      BY <1>6, <2>1, <3>2, <3>3
  <2>3. Counted(sizes', streams', length', mixed', e.inode)
    BY <1>2, <1>3, <1>4 DEF Counted, HoldsBytes, Flushed, Inodes, Most
  <2> QED
    BY <1>6, <2>2, <2>3 DEF Counted, HoldsBytes
<1>7. told'[1] = o
  BY <1>1
<1>8. SizeCountsTheWritten'
  BY <1>5, <1>6, <1>7 DEF SizeCountsTheWritten, StreamOf, Inodes
<1> QED
  BY <1>3, <1>8 DEF IoInv, Inodes

LEMMA CloseFileStep ==
  ASSUME IoInv, NEW o \in Objects, CloseFile(o)
  PROVE  IoInv'
<1> DEFINE i == obj[o].stream
<1>1. IoCall /\ IsOpen(o)
      /\ streams' = [streams EXCEPT ![i] = NoStream]
      /\ obj' = [obj EXCEPT ![o].stream = 0]
      /\ told' = <<>> /\ UNCHANGED <<names, length>>
  BY DEF CloseFile, NoMore
<1>10. PICK n \in 0 .. streams[i].held :
         /\ sizes' = Flushed(sizes, Less(streams[i], n))
         /\ mixed' = IF n = 0 THEN mixed ELSE mixed \cup {streams[i].inode}
  BY DEF CloseFile, AfterClose, MixedByClose, MixedBy, Losses, StreamOf
<1>2. i \in Inodes /\ streams[i] \in Streams /\ sizes \in [Inodes -> Nat]
      /\ streams \in [Inodes -> Streams] /\ obj \in [Objects -> Files]
  BY <1>1, OwnStream DEF IoInv, IoTyped
<1>3. NoStream \in Streams /\ NoStream.held = 0
  BY IoAssumption DEF NoStream, Streams
<1>4. sizes' \in [Inodes -> Nat] /\ streams' \in [Inodes -> Streams]
  <2>1. Less(streams[i], n) \in Streams
    BY <1>2, <1>10, LessIs
  <2> QED
    BY <1>1, <1>2, <1>3, <1>10, <2>1, FlushedAt
<1>5. obj' \in [Objects -> Files] /\ obj'[o].stream = 0 /\ \A p \in Objects \ {o} : obj'[p] = obj[p]
  <2> DEFINE c == [obj[o] EXCEPT !.stream = 0]
  <2>1. c \in Files /\ c.stream = 0
    <3>1. obj[o] \in Files /\ 0 \in 0 .. MaxIo
      BY <1>2, IoAssumption
    <3> QED
      BY <3>1 DEF Files
  <2>2. obj' = [obj EXCEPT ![o] = c]
    BY <1>1, <1>2
  <2> HIDE DEF c
  <2> QED
    BY <1>2, <2>1, <2>2
<1>6. IoTyped'
  BY <1>1, <1>4, <1>5, CallCounted DEF IoInv, IoTyped
<1>7. Owned'
  <2>1. ASSUME NEW p \in Objects, IsOpen(p)'
        PROVE  /\ p # o /\ IsOpen(p) /\ obj'[p] = obj[p] /\ obj[p].stream # i
               /\ obj[p].stream <= ioCalls' /\ StreamOf(p)' = StreamOf(p)
    <3>1. p # o /\ obj'[p] = obj[p] /\ IsOpen(p)
      BY <1>5, <2>1 DEF IsOpen
    <3>2. obj[p].stream # i
      BY <1>1, <3>1 DEF IoInv, Owned
    <3>3. obj[p].stream \in Inodes
      BY <3>1, OwnStream
    <3>4. obj[p].stream <= ioCalls'
      BY <1>1, <3>1, <3>3, OwnStream, Later
    <3>5. StreamOf(p)' = StreamOf(p)
      BY <1>1, <1>2, <3>1, <3>2, <3>3 DEF StreamOf
    <3> QED
      BY <3>1, <3>2, <3>4, <3>5
  <2>2. ASSUME NEW p \in Objects, NEW q \in Objects, IsOpen(p)', obj'[p].stream = obj'[q].stream
        PROVE  p = q
    <3>1. IsOpen(q)'
      BY <2>2 DEF IsOpen
    <3> QED
      BY <2>1, <2>2, <3>1 DEF IoInv, Owned
  <2>3. \A p \in Objects : IsOpen(p)' =>
          /\ obj'[p].stream <= ioCalls' /\ obj'[p].path \in IoPaths
          /\ StreamOf(p)'.inode \in Inodes /\ StreamOf(p)'.name = obj'[p].path
    BY <2>1, OwnStream
  <2>4. \A a \in Inodes : streams'[a].held > 0 => a <= ioCalls'
    <3>1. \A a \in Inodes : streams'[a].held > 0 => a <= ioCalls
      BY <1>1, <1>2, <1>3 DEF IoInv, Owned
    <3> QED
      BY <1>1, <3>1, Later
  <2> QED
    BY <2>2, <2>3, <2>4 DEF Owned, Inodes
<1>8. \A k \in Inodes : Counted(sizes', streams', length', mixed', k)
  <2>1. ASSUME NEW k \in Inodes
        PROVE  Counted(Flushed(sizes, Less(streams[i], n)), [streams EXCEPT ![i] = NoStream],
                       length, mixed', k)
    <3>1. Counted(sizes, streams, length, mixed, k)
      BY DEF IoInv
    <3> QED
      BY <1>2, <1>3, <1>10, <3>1, LossCounts
  <2> QED
    BY <1>1, <1>10, <2>1
<1>9. \A k \in Inodes : Counted(sizes, streams, length, mixed, k)'
  BY <1>8 DEF Counted, HoldsBytes, Flushed, Inodes, Most
<1> QED
  BY <1>1, <1>6, <1>7, <1>9 DEF IoInv, SizeCountsTheWritten, Inodes

LEMMA MoveStep ==
  ASSUME IoInv, NEW o \in Objects, NEW p \in Objects, Move(o, p)
  PROVE  IoInv'
<1>1. /\ IoCall /\ o # p /\ obj' = [obj EXCEPT ![o] = obj[p], ![p] = obj[o]] /\ told' = <<>>
      /\ UNCHANGED <<names, sizes, streams, length, mixed>>
  BY DEF Move, Swapped
<1>2. obj \in [Objects -> Files]
  BY DEF IoInv, IoTyped
<1>3. /\ obj' \in [Objects -> Files] /\ obj'[o] = obj[p] /\ obj'[p] = obj[o]
      /\ \A q \in Objects \ {o, p} : obj'[q] = obj[q]
  BY <1>1, <1>2
<1>4. IoTyped'
  BY <1>1, <1>3, CallCounted DEF IoInv, IoTyped
<1> DEFINE Was(q) == IF q = o THEN p ELSE IF q = p THEN o ELSE q
<1>5. \A q \in Objects : Was(q) \in Objects /\ obj'[q] = obj[Was(q)]
  BY <1>3
<1>6. \A q, r \in Objects : Was(q) = Was(r) => q = r
  BY <1>1
<1> HIDE DEF Was
<1>7. ASSUME NEW q \in Objects, IsOpen(q)'
      PROVE  /\ obj'[q].stream <= ioCalls' /\ obj'[q].path \in IoPaths
             /\ StreamOf(q)'.inode \in Inodes /\ StreamOf(q)'.name = obj'[q].path
  <2>1. IsOpen(Was(q)) /\ Was(q) \in Objects /\ obj'[q] = obj[Was(q)]
    BY <1>5, <1>7 DEF IsOpen
  <2>2. StreamOf(q)' = StreamOf(Was(q))
    BY <1>1, <2>1 DEF StreamOf
  <2>3. obj[Was(q)].stream \in Inodes /\ obj[Was(q)].stream <= ioCalls
    BY <2>1, OwnStream DEF IoInv, Owned
  <2>4. obj[Was(q)].stream <= ioCalls'
    BY <1>1, <2>3, Later
  <2> QED
    BY <2>1, <2>2, <2>4, OwnStream
<1>8. ASSUME NEW q \in Objects, NEW r \in Objects, IsOpen(q)', obj'[q].stream = obj'[r].stream
      PROVE  q = r
  <2>1. IsOpen(Was(q)) /\ obj[Was(q)].stream = obj[Was(r)].stream
    BY <1>5, <1>8 DEF IsOpen
  <2>2. Was(q) = Was(r)
    BY <1>5, <2>1 DEF IoInv, Owned
  <2> QED
    BY <1>6, <2>2
<1>9. Owned'
  <2>1. \A a \in Inodes : streams'[a].held > 0 => a <= ioCalls
    BY <1>1 DEF IoInv, Owned
  <2>2. \A a \in Inodes : streams'[a].held > 0 => a <= ioCalls'
    BY <1>1, <2>1, Later
  <2> QED
    BY <1>7, <1>8, <2>2 DEF Owned, Inodes
<1>10. \A k \in Inodes : Counted(sizes, streams, length, mixed, k)'
  BY <1>1 DEF IoInv, Counted, HoldsBytes, Flushed, Inodes, Most
<1> QED
  BY <1>1, <1>4, <1>9, <1>10 DEF IoInv, SizeCountsTheWritten, Inodes

LEMMA UnlinkStep ==
  ASSUME IoInv, NEW o \in Objects, Unlink(o)
  PROVE  IoInv'
<1>1. /\ IoCall /\ told' = <<>> /\ UNCHANGED <<sizes, streams, obj, length, mixed>>
      /\ names' = [p \in IoPaths |-> IF p = obj[o].path THEN 0 ELSE names[p]]
  BY DEF Unlink
<1>2. names' \in [IoPaths -> 0 .. MaxIo]
  BY <1>1, IoAssumption DEF IoInv, IoTyped
<1>3. IoTyped'
  BY <1>1, <1>2, CallCounted DEF IoInv, IoTyped
<1>4. Owned'
  BY <1>1, StillOwned
<1>5. \A k \in Inodes : Counted(sizes, streams, length, mixed, k)'
  BY <1>1 DEF IoInv, Counted, HoldsBytes, Flushed, Inodes, Most
<1> QED
  BY <1>1, <1>3, <1>4, <1>5 DEF IoInv, SizeCountsTheWritten, Inodes

\* The file below the stream is cut; bytes still in a buffer end its account.
LEMMA SetSizeStep ==
  ASSUME IoInv, NEW o \in Objects, SetSize(o)
  PROVE  IoInv'
<1> DEFINE i == StreamOf(o).inode
<1>1. IoCall /\ IsOpen(o) /\ told' = <<>> /\ UNCHANGED <<names, streams, obj>>
  BY DEF SetSize
<1>10. CASE UNCHANGED <<sizes, length, mixed>>
  <2>1. IoTyped'
    BY <1>1, <1>10, CallCounted DEF IoInv, IoTyped
  <2>2. Owned'
    BY <1>1, StillOwned
  <2>3. \A k \in Inodes : Counted(sizes, streams, length, mixed, k)'
    BY <1>1, <1>10 DEF IoInv, Counted, HoldsBytes, Flushed, Inodes, Most
  <2> QED
    BY <1>1, <2>1, <2>2, <2>3 DEF IoInv, SizeCountsTheWritten, Inodes
<1>11. SUFFICES ASSUME NEW n \in 0 .. 2, sizes' = [sizes EXCEPT ![i] = n],
                       length' = [length EXCEPT ![i] = n], mixed' = Overtaken(i, 0)
                PROVE  IoInv'
  BY <1>10 DEF SetSize
<1>2. /\ n \in 0 .. 2 /\ mixed' = Overtaken(i, 0)
      /\ sizes' = [sizes EXCEPT ![i] = n] /\ length' = [length EXCEPT ![i] = n]
  BY <1>11
<1>3. i \in Inodes
  BY <1>1, OwnStream
<1> HIDE DEF i
<1>4. /\ sizes \in [Inodes -> Nat] /\ length \in [Inodes -> Nat] /\ IoTyped
      /\ streams \in [Inodes -> Streams]
  BY DEF IoInv, IoTyped
<1>5. sizes' \in [Inodes -> Nat] /\ length' \in [Inodes -> Nat]
  <2>1. n \in Nat
    OBVIOUS
  <2> QED
    BY <1>2, <1>4, <2>1
<1>6. IoTyped'
  BY <1>1, <1>5, CallCounted DEF IoInv, IoTyped
<1>7. Owned'
  BY <1>1, StillOwned
<1>8. ASSUME NEW k \in Inodes
      PROVE  Counted(sizes', streams', length', mixed', k)
  <2>1. CASE k = i
    <3>1. k \notin mixed' => \A a \in Inodes : ~HoldsBytes(streams', a, k)
      <4>1. 0 \notin Inodes
        BY IoAssumption DEF Inodes
      <4> QED
        BY <1>1, <1>2, <1>4, <2>1, <4>1, OvertakenIs
    <3>2. length'[k] = sizes'[k]
      BY <1>2, <1>3, <1>4, <2>1
    <3> QED
      BY <3>1, <3>2 DEF Counted
  <2>2. CASE k # i
    <3>1. sizes'[k] = sizes[k] /\ length'[k] = length[k] /\ mixed \subseteq mixed'
      BY <1>1, <1>2, <1>4, <2>2, OvertakenIs
    <3>2. Counted(sizes, streams, length, mixed, k)
      BY DEF IoInv
    <3>3. Counted(sizes', streams, length', mixed', k)
      BY <1>4, <1>5, <3>1, <3>2, OtherInode
    <3> QED
      BY <1>1, <3>3
  <2> QED
    BY <2>1, <2>2
<1>9. \A k \in Inodes : Counted(sizes, streams, length, mixed, k)'
  BY <1>8 DEF Counted, HoldsBytes, Flushed, Inodes, Most
<1> QED
  BY <1>1, <1>6, <1>7, <1>9 DEF IoInv, SizeCountsTheWritten, Inodes

\* A write is counted whether it is kept in the buffer or goes to the disk; what
\* its flush loses ends the account of the inode.
LEMMA WriteFileStep ==
  ASSUME IoInv, NEW o \in Objects, NEW raw \in BOOLEAN, WriteFile(o, raw)
  PROVE  IoInv'
<1> DEFINE i == obj[o].stream
           s == streams[i]
           k == s.inode
           to == IF s.append THEN length[k] + 1 ELSE s.pos + 1
           h == s.held + 1
           new == [s EXCEPT !.pos = to, !.held = h]
           e(n) == IF raw THEN Rid(new, n) ELSE new
<1>1. IoCall /\ IsOpen(o) /\ told' = <<>> /\ UNCHANGED <<names, obj>>
  BY DEF WriteFile
<1>2. /\ i \in Inodes /\ s \in Streams /\ k \in Inodes /\ sizes \in [Inodes -> Nat]
      /\ length \in [Inodes -> Nat] /\ streams \in [Inodes -> Streams] /\ IoTyped
  BY <1>1, OwnStream DEF IoInv, IoTyped
<1>20. 0 \in 0 .. new.held
  <2>1. s.held \in Nat
    BY <1>2 DEF Streams
  <2>2. h \in Nat /\ new.held = h
    <3>1. h \in Nat
      BY <2>1
    <3> HIDE DEF to, s, h
    <3> QED
      BY <1>2, <3>1 DEF Streams
  <2> QED
    BY <2>2
<1>3. PICK n \in 0 .. new.held :
      /\ length' = [length EXCEPT ![k] = Most(@, to)]
      /\ streams' = [streams EXCEPT ![i] = e(n)]
      /\ sizes' = IF raw THEN Flushed(sizes, Less(new, n)) ELSE sizes
      /\ Overtaken(k, i) \subseteq mixed'
      /\ raw /\ n # 0 => k \in mixed'
  <2>1. /\ length' = [length EXCEPT ![k] = Most(@, to)]
        /\ \/ /\ ~raw /\ streams' = [streams EXCEPT ![i] = new] /\ sizes' = sizes
              /\ mixed' = Overtaken(k, i)
           \/ \E n \in 0 .. new.held :
                /\ raw /\ streams' = [streams EXCEPT ![i] = [Less(new, n) EXCEPT !.held = 0]]
                /\ mixed' = Overtaken(k, i) \cup MixedBy(k, n)
                /\ sizes' = Flushed(sizes, Less(new, n))
    BY DEF WriteFile, StreamOf
  <2> HIDE DEF new, s, i, k, to, h
  <2>2. CASE raw
    <3>1. PICK n \in 0 .. new.held :
                /\ streams' = [streams EXCEPT ![i] = [Less(new, n) EXCEPT !.held = 0]]
                /\ mixed' = Overtaken(k, i) \cup MixedBy(k, n)
                /\ sizes' = Flushed(sizes, Less(new, n))
      BY <2>1, <2>2
    <3>2. e(n) = [Less(new, n) EXCEPT !.held = 0]
      BY <2>2 DEF Rid
    <3>3. Overtaken(k, i) \subseteq mixed' /\ (n # 0 => k \in mixed')
      BY <3>1 DEF MixedBy
    <3> QED
      BY <2>1, <2>2, <3>1, <3>2, <3>3
  <2>3. CASE ~raw
    BY <1>20, <2>1, <2>3
  <2> QED
    BY <2>2, <2>3
<1>4. s.held \in Nat /\ s.pos \in Nat /\ s.append \in BOOLEAN /\ length[k] \in Nat /\ sizes[k] \in Nat
  BY <1>2 DEF Streams
<1>5. to \in Nat /\ h \in Nat /\ h > 0
  BY <1>4
<1>6. new \in Streams /\ new.pos = to /\ new.held = h /\ new.inode = k /\ new.append = s.append
      /\ new.name = s.name
  <2> HIDE DEF to, h, s, i
  <2> QED
    BY <1>2, <1>5 DEF Streams
<1>7. e(n) \in Streams /\ e(n).inode = k /\ e(n).name = s.name
  <2> HIDE DEF new, s, i
  <2>1. Rid(new, n) \in Streams /\ Rid(new, n).inode = k /\ Rid(new, n).name = s.name
    BY <1>3, <1>6, LessIs
  <2> QED
    BY <1>6, <2>1
<1>8. raw => e(n).held = 0
  <2> HIDE DEF new
  <2> QED
    BY <1>3, <1>6, LessIs
<1>18. Less(new, n) \in Streams /\ Less(new, n).inode = k
  <2> HIDE DEF new
  <2> QED
    BY <1>3, <1>6, LessIs
<1>19. n = 0 => Flushed(sizes, Less(new, n)) = Flushed(sizes, new)
  <2> HIDE DEF new
  <2> QED
    BY <1>6, NoLoss
<1> HIDE DEF i, s, e, new
<1>9. sizes' \in [Inodes -> Nat]
  BY <1>2, <1>3, <1>18, FlushedAt
<1>10. length' \in [Inodes -> Nat] /\ length'[k] = Most(length[k], to)
       /\ \A a \in Inodes \ {k} : length'[a] = length[a]
  <2>1. Most(length[k], to) \in Nat
    BY <1>4, <1>5 DEF Most
  <2> HIDE DEF k, to
  <2> QED
    BY <1>2, <1>3, <2>1
<1>11. streams' \in [Inodes -> Streams] /\ streams'[i] = e(n)
       /\ \A a \in Inodes \ {i} : streams'[a] = streams[a]
  BY <1>2, <1>3, <1>7
<1>12. IoTyped'
  BY <1>1, <1>9, <1>10, <1>11, CallCounted DEF IoInv, IoTyped
<1>13. Owned'
  <2>1. i <= ioCalls
    BY <1>1, OwnStream DEF i
  <2>2. \A a \in Inodes :
          /\ streams'[a].name = streams[a].name /\ streams'[a].inode = streams[a].inode
          /\ streams'[a] = streams[a] \/ a <= ioCalls
    BY <1>7, <1>11, <2>1 DEF s
  <2> QED
    BY <1>1, <2>2, StillOwned
\* The inode that is written to.
<1>14. Counted(sizes', streams', length', mixed', k)
  <2> SUFFICES ASSUME k \notin mixed' PROVE Counted(sizes', streams', length', mixed', k)
    BY DEF Counted
  <2>1. k \notin mixed /\ \A a \in Inodes \ {i} : ~HoldsBytes(streams', a, k)
    <3>1. \A a \in Inodes \ {i} : ~HoldsBytes(streams, a, k)
      BY <1>2, <1>3, OvertakenIs
    <3>2. k \notin mixed
      BY <1>2, <1>3, OvertakenIs
    <3> QED
      BY <1>11, <3>1, <3>2 DEF HoldsBytes
  <2>2. \A a \in Inodes \ {i} : ~HoldsBytes(streams, a, k)
    BY <1>11, <2>1 DEF HoldsBytes
  <2>3. Counted(sizes, streams, length, mixed, k)
    BY <1>2 DEF IoInv
  <2>4. HoldsBytes(streams, i, k) <=> s.held > 0
    BY DEF HoldsBytes, s
  <2>7. ASSUME Flushed(sizes, new)[k] = length'[k]
        PROVE  Counted(sizes', streams', length', mixed', k)
    <3>1. CASE raw
      <4>1. sizes'[k] = length'[k]
        BY <1>3, <1>19, <2>7, <3>1
      <4>2. \A a \in Inodes : ~HoldsBytes(streams', a, k)
        <5>1. ~HoldsBytes(streams', i, k)
          BY <1>8, <1>11, <3>1 DEF HoldsBytes
        <5> QED
          BY <2>1, <5>1
      <4> QED
        BY <4>1, <4>2 DEF Counted
    <3>2. CASE ~raw
      <4>1. sizes' = sizes /\ streams'[i] = new
        BY <1>3, <1>11, <3>2 DEF e
      <4>2. HoldsBytes(streams', i, k)
        BY <1>5, <1>6, <4>1 DEF HoldsBytes
      <4> QED
        BY <1>2, <2>1, <2>7, <4>1, <4>2 DEF Counted
    <3> QED
      BY <3>1, <3>2
  <2>5. CASE s.append
    <3>1. length[k] = sizes[k] + s.held
      <4>1. CASE s.held > 0
        <5>1. length[k] = Flushed(sizes, s)[k]
          BY <1>2, <2>1, <2>3, <2>4, <4>1 DEF Counted, s
        <5> QED
          BY <1>2, <2>5, <4>1, <5>1, FlushedAt
      <4>2. CASE s.held = 0
        <5>1. length[k] = sizes[k]
          BY <1>4, <2>1, <2>2, <2>3, <2>4, <4>2 DEF Counted
        <5> QED
          BY <1>4, <4>2, <5>1
      <4> QED
        BY <1>4, <4>1, <4>2
    <3>2. length'[k] = sizes[k] + h
      BY <1>4, <1>10, <2>5, <3>1 DEF Most
    <3>3. Flushed(sizes, new)[k] = length'[k]
      <4>1. new \in Streams /\ new.inode = k /\ new.held > 0 /\ new.append /\ new.held = h
        BY <1>5, <1>6, <2>5
      <4>2. Flushed(sizes, new)[k] = sizes[k] + new.held
        BY <1>2, <4>1, FlushedAt
      <4> QED
        BY <3>2, <4>1, <4>2
    <3> QED
      BY <2>7, <3>3
  <2>6. CASE ~s.append
    <3>1. length[k] = IF s.held > 0 THEN Most(sizes[k], s.pos) ELSE sizes[k]
      <4>1. CASE s.held > 0
        <5>1. length[k] = Flushed(sizes, s)[k]
          BY <1>2, <2>1, <2>3, <2>4, <4>1 DEF Counted, s
        <5> QED
          BY <1>2, <2>6, <4>1, <5>1, FlushedAt
      <4>2. CASE s.held = 0
        <5>1. length[k] = sizes[k]
          BY <1>4, <2>1, <2>2, <2>3, <2>4, <4>2 DEF Counted
        <5> QED
          BY <1>4, <4>2, <5>1
      <4> QED
        BY <1>4, <4>1, <4>2
    <3>2. length'[k] = Most(sizes[k], to)
      BY <1>4, <1>10, <2>6, <3>1 DEF Most
    <3>3. Flushed(sizes, new)[k] = length'[k]
      <4>1. new \in Streams /\ new.inode = k /\ new.held > 0 /\ ~new.append /\ new.pos = to
        BY <1>5, <1>6, <2>6
      <4>2. Flushed(sizes, new)[k] = Most(sizes[k], new.pos)
        BY <1>2, <4>1, FlushedAt
      <4> QED
        BY <3>2, <4>1, <4>2
    <3> QED
      BY <2>7, <3>3
  <2> QED
    BY <2>5, <2>6
<1>15. ASSUME NEW a \in Inodes, a # k
       PROVE  Counted(sizes', streams', length', mixed', a)
  <2>1. sizes'[a] = sizes[a]
    BY <1>2, <1>3, <1>15, <1>18, FlushedAt
  <2>2. length'[a] = length[a] /\ mixed \subseteq mixed'
    BY <1>2, <1>3, <1>10, <1>15, OvertakenIs
  <2>3. \A b \in Inodes : streams'[b] = streams[b]
                           \/ (~HoldsBytes(streams, b, a) /\ ~HoldsBytes(streams', b, a))
    BY <1>7, <1>11, <1>15 DEF HoldsBytes, s
  <2>4. Counted(sizes, streams, length, mixed, a)
    BY DEF IoInv
  <2> QED
    BY <1>2, <1>9, <1>11, <2>1, <2>2, <2>3, <2>4, OtherInode
<1>16. \A a \in Inodes : Counted(sizes, streams, length, mixed, a)'
  BY <1>14, <1>15 DEF Counted, HoldsBytes, Flushed, Inodes, Most
<1> QED
  BY <1>1, <1>12, <1>13, <1>16 DEF IoInv, SizeCountsTheWritten, Inodes

\* Opening: what the object had is closed, and the file found, emptied or made.
LEMMA OpenFileStep ==
  ASSUME IoInv, NEW o \in Objects, OpenFile(o)
  PROVE  IoInv'
<1> DEFINE i == obj[o].stream
           k == ioCalls'
           left == NoMore(o)
<1>1. IoCall /\ told' = <<>> /\ k \in Inodes /\ k = ioCalls + 1 /\ 0 \notin Inodes
  BY CallCounted, IoAssumption DEF OpenFile, Inodes
<1>2. PICK p \in IoPaths, mode \in Modes, n \in Losses(o) :
        LET there == names[p] # 0
            creates == ~there /\ mode \notin {"Read", "ReadWrite"}
            inode == IF there THEN names[p] ELSE ioCalls'
            empties == mode = "Write"
            closed == AfterClose(o, n) IN
        \/ /\ there \/ creates
           /\ names' = [names EXCEPT ![p] = inode]
           /\ sizes' = IF empties THEN [closed EXCEPT ![inode] = 0] ELSE closed
           /\ length' = IF empties THEN [length EXCEPT ![inode] = 0] ELSE length
           /\ mixed' = MixedByClose(o, n) \cup (IF empties THEN Overtaken(inode, 0) ELSE {})
           /\ streams' = [left EXCEPT ![k] =
                [name |-> p, inode |-> inode, pos |-> 0, held |-> 0,
                 append |-> mode \in {"Append", "ReadAppend"}]]
           /\ obj' = [obj EXCEPT ![o] = [path |-> p, mode |-> mode, stream |-> k]]
        \/ /\ sizes' = closed /\ streams' = left /\ mixed' = MixedByClose(o, n)
           /\ obj' = [obj EXCEPT ![o] = [path |-> p, mode |-> mode, stream |-> 0]]
           /\ UNCHANGED <<names, length>>
  BY DEF OpenFile
<1> DEFINE closed == AfterClose(o, n)
           mx == MixedByClose(o, n)
<1>3. /\ sizes \in [Inodes -> Nat] /\ length \in [Inodes -> Nat] /\ IoTyped
      /\ streams \in [Inodes -> Streams] /\ names \in [IoPaths -> 0 .. MaxIo]
      /\ obj \in [Objects -> Files] /\ MaxIo \in Nat
  BY IoAssumption DEF IoInv, IoTyped
<1>4. NoStream \in Streams /\ NoStream.held = 0
  BY IoAssumption DEF NoStream, Streams
\* The close.
<1>5. /\ closed \in [Inodes -> Nat] /\ left \in [Inodes -> Streams]
      /\ \A a \in Inodes : left[a] = IF IsOpen(o) /\ a = i THEN NoStream ELSE streams[a]
      /\ \A a \in Inodes : Counted(closed, left, length, mx, a)
      /\ mixed \subseteq mx
  <2>1. CASE IsOpen(o)
    <3>1. /\ i \in Inodes /\ n \in 0 .. streams[i].held
          /\ closed = Flushed(sizes, Less(streams[i], n))
          /\ left = [streams EXCEPT ![i] = NoStream]
          /\ mx = IF n = 0 THEN mixed ELSE mixed \cup {streams[i].inode}
      BY <1>2, <2>1, OwnStream DEF AfterClose, MixedByClose, MixedBy, Losses, NoMore, StreamOf
    <3> HIDE DEF closed, left, i, mx
    <3>2. closed \in [Inodes -> Nat]
      <4>1. Less(streams[i], n) \in Streams
        BY <1>3, <3>1, LessIs
      <4> QED
        BY <1>3, <3>1, <4>1, FlushedAt
    <3>3. ASSUME NEW a \in Inodes
          PROVE  Counted(closed, left, length, mx, a)
      <4>1. Counted(sizes, streams, length, mixed, a)
        BY DEF IoInv
      <4>2. Counted(Flushed(sizes, Less(streams[i], n)), [streams EXCEPT ![i] = NoStream],
                    length, mx, a)
        BY <1>3, <1>4, <3>1, <4>1, LossCounts
      <4> QED
        BY <3>1, <4>2
    <3>4. left \in [Inodes -> Streams] /\ \A a \in Inodes : left[a] = IF a = i THEN NoStream ELSE streams[a]
      BY <1>3, <1>4, <3>1
    <3>5. mixed \subseteq mx
      BY <3>1
    <3> QED
      BY <2>1, <3>2, <3>3, <3>4, <3>5
  <2>2. CASE ~IsOpen(o)
    BY <1>3, <2>2 DEF AfterClose, MixedByClose, NoMore, IoInv
  <2> QED
    BY <2>1, <2>2
\* The other objects keep their streams.
<1>6. ASSUME NEW q \in Objects, q # o, IsOpen(q)
      PROVE  /\ obj[q].stream \in Inodes /\ obj[q].stream # k /\ obj[q].stream <= k
             /\ obj[q].path \in IoPaths
             /\ left[obj[q].stream].inode \in Inodes /\ left[obj[q].stream].name = obj[q].path
  <2>1. obj[q].stream \in Inodes /\ StreamOf(q) = streams[obj[q].stream]
        /\ StreamOf(q).inode \in Inodes /\ obj[q].path \in IoPaths /\ StreamOf(q).name = obj[q].path
    BY <1>6, OwnStream
  <2>2. ~(IsOpen(o) /\ obj[q].stream = i)
    BY <1>6 DEF IoInv, Owned
  <2>3. obj[q].stream <= ioCalls
    BY <1>6 DEF IoInv, Owned
  <2>4. obj[q].stream # k /\ obj[q].stream <= k
    <3>1. obj[q].stream \in Nat /\ ioCalls \in Nat
      BY <1>3, <2>1 DEF Inodes, IoTyped
    <3> QED
      BY <1>1, <2>3, <3>1
  <2> HIDE DEF left, k, i
  <2> QED
    BY <1>5, <2>1, <2>2, <2>4
\* What it had, and no other number, may have held bytes.
<1>10. \A a \in Inodes : left[a].held > 0 => a <= ioCalls' /\ a # k
  <2>1. \A a \in Inodes : left[a].held > 0 => streams[a].held > 0
    <3> HIDE DEF left, k, i
    <3> QED
      BY <1>4, <1>5
  <2>2. \A a \in Inodes : streams[a].held > 0 => a <= ioCalls
    BY DEF IoInv, Owned
  <2>3. \A a \in Inodes : left[a].held > 0 => a <= ioCalls
    BY <2>1, <2>2
  <2>4. ioCalls \in Nat /\ \A a \in Inodes : a \in Nat
    BY <1>3 DEF Inodes, IoTyped
  <2>5. ioCalls' = ioCalls + 1 /\ k = ioCalls'
    BY <1>1
  <2> HIDE DEF left, k
  <2>6. \A a \in Inodes : a <= ioCalls => a <= ioCalls' /\ a # k
    BY <2>4, <2>5
  <2> QED
    BY <2>3, <2>6
<1> HIDE DEF i, k, closed, left, mx
<1>7. CASE /\ sizes' = closed /\ streams' = left /\ mixed' = mx
           /\ obj' = [obj EXCEPT ![o] = [path |-> p, mode |-> mode, stream |-> 0]]
           /\ UNCHANGED <<names, length>>
  <2> DEFINE f == [path |-> p, mode |-> mode, stream |-> 0]
  <2>1. f \in Files /\ f.stream = 0
    <3>1. 0 \in 0 .. MaxIo
      BY <1>3
    <3> QED
      BY <3>1 DEF Files
  <2> HIDE DEF f
  <2>2. obj' \in [Objects -> Files] /\ obj'[o] = f /\ \A q \in Objects \ {o} : obj'[q] = obj[q]
    BY <1>3, <1>7, <2>1 DEF f
  <2>3. IoTyped'
    BY <1>1, <1>5, <1>7, <2>2, CallCounted DEF IoInv, IoTyped, k
  <2>4. ASSUME NEW q \in Objects, IsOpen(q)'
        PROVE  /\ q # o /\ IsOpen(q) /\ obj'[q] = obj[q]
               /\ obj'[q].stream <= ioCalls' /\ obj'[q].path \in IoPaths
               /\ StreamOf(q)'.inode \in Inodes /\ StreamOf(q)'.name = obj'[q].path
    <3>1. q # o /\ IsOpen(q) /\ obj'[q] = obj[q]
      BY <2>1, <2>2, <2>4 DEF IsOpen
    <3>2. StreamOf(q)' = left[obj[q].stream]
      BY <1>7, <3>1 DEF StreamOf
    <3> QED
      BY <1>6, <3>1, <3>2 DEF k
  <2>5. ASSUME NEW q \in Objects, NEW r \in Objects, IsOpen(q)', obj'[q].stream = obj'[r].stream
        PROVE  q = r
    <3>1. IsOpen(r)'
      BY <2>5 DEF IsOpen
    <3> QED
      BY <2>4, <2>5, <3>1 DEF IoInv, Owned
  <2>6. Owned'
    BY <1>10, <1>7, <2>4, <2>5 DEF Owned, Inodes
  <2>7. \A a \in Inodes : Counted(sizes, streams, length, mixed, a)'
    BY <1>5, <1>7 DEF Counted, HoldsBytes, Flushed, Inodes, Most
  <2> QED
    BY <1>1, <2>3, <2>6, <2>7 DEF IoInv, SizeCountsTheWritten, Inodes
<1> DEFINE inode == IF names[p] # 0 THEN names[p] ELSE ioCalls'
           e == [name |-> p, inode |-> inode, pos |-> 0, held |-> 0,
                 append |-> mode \in {"Append", "ReadAppend"}]
           f == [path |-> p, mode |-> mode, stream |-> k]
<1>8. CASE /\ names' = [names EXCEPT ![p] = inode]
           /\ sizes' = IF mode = "Write" THEN [closed EXCEPT ![inode] = 0] ELSE closed
           /\ length' = IF mode = "Write" THEN [length EXCEPT ![inode] = 0] ELSE length
           /\ mixed' = mx \cup (IF mode = "Write" THEN Overtaken(inode, 0) ELSE {})
           /\ streams' = [left EXCEPT ![k] = e]
           /\ obj' = [obj EXCEPT ![o] = f]
  <2>1. inode \in Inodes
    <3>1. names[p] \in 0 .. MaxIo
      BY <1>3
    <3>2. names[p] # 0 => names[p] \in Inodes
      BY <1>3, <3>1 DEF Inodes
    <3> QED
      BY <1>1, <3>2 DEF k
  <2>2. k \in 0 .. MaxIo /\ inode \in 0 .. MaxIo
    BY <1>1, <1>3, <2>1 DEF Inodes
  <2> HIDE DEF inode
  <2>3. e \in Streams /\ e.held = 0 /\ e.name = p /\ e.inode = inode
    <3>1. p \in IoPaths \cup {""} /\ 0 \in Nat
      BY <1>2
    <3>2. (mode \in {"Append", "ReadAppend"}) \in BOOLEAN
      OBVIOUS
    <3> QED
      BY <2>2, <3>1, <3>2 DEF Streams
  <2>4. f \in Files /\ f.stream = k /\ f.path = p
    BY <2>2 DEF Files
  <2> HIDE DEF e, f
  <2>5. obj' \in [Objects -> Files] /\ obj'[o] = f /\ \A q \in Objects \ {o} : obj'[q] = obj[q]
    BY <1>3, <1>8, <2>4
  <2>6. streams' \in [Inodes -> Streams] /\ streams'[k] = e /\ \A a \in Inodes \ {k} : streams'[a] = left[a]
    BY <1>1, <1>5, <1>8, <2>3
  <2>7. sizes' \in [Inodes -> Nat] /\ length' \in [Inodes -> Nat] /\ names' \in [IoPaths -> 0 .. MaxIo]
    BY <1>3, <1>5, <1>8, <2>2
  <2>8. IoTyped'
    BY <1>1, <2>5, <2>6, <2>7, CallCounted DEF IoInv, IoTyped
  <2>9. ASSUME NEW q \in Objects, IsOpen(q)'
        PROVE  /\ obj'[q].stream <= ioCalls' /\ obj'[q].path \in IoPaths
               /\ StreamOf(q)'.inode \in Inodes /\ StreamOf(q)'.name = obj'[q].path
    <3>1. CASE q = o
      <4>1. StreamOf(q)' = e /\ obj'[q] = f
        BY <2>4, <2>5, <2>6, <3>1 DEF StreamOf
      <4>2. k <= ioCalls'
        BY <1>1 DEF Inodes, k
      <4> QED
        BY <2>1, <2>3, <2>4, <4>1, <4>2
    <3>2. CASE q # o
      <4>1. IsOpen(q) /\ obj'[q] = obj[q]
        BY <2>5, <2>9, <3>2 DEF IsOpen
      <4>2. StreamOf(q)' = left[obj[q].stream]
        BY <1>6, <2>6, <3>2, <4>1 DEF StreamOf
      <4> QED
        BY <1>6, <3>2, <4>1, <4>2 DEF k
    <3> QED
      BY <3>1, <3>2
  <2>10. ASSUME NEW q \in Objects, NEW r \in Objects, IsOpen(q)', obj'[q].stream = obj'[r].stream
         PROVE  q = r
    <3>1. IsOpen(r)'
      BY <2>10 DEF IsOpen
    <3>2. \A u \in Objects \ {o} : IsOpen(u)' => IsOpen(u) /\ obj'[u] = obj[u] /\ obj[u].stream # k
      BY <1>6, <2>5 DEF IsOpen
    <3>3. CASE q = o
      BY <2>4, <2>5, <2>10, <3>1, <3>2, <3>3
    <3>4. CASE r = o
      BY <2>4, <2>5, <2>10, <3>1, <3>2, <3>4
    <3>5. CASE q # o /\ r # o
      BY <2>10, <3>1, <3>2, <3>5 DEF IoInv, Owned
    <3> QED
      BY <3>3, <3>4, <3>5
  <2>11. Owned'
    <3>1. \A a \in Inodes : streams'[a].held > 0 => a <= ioCalls'
      BY <1>10, <2>3, <2>6
    <3> QED
      BY <2>9, <2>10, <3>1 DEF Owned, Inodes
\* The new stream holds nothing; the number was free.
  <2>12. ASSUME NEW a \in Inodes
         PROVE  Counted(closed, streams', length, mx, a)
    <3>1. Counted(closed, left, length, mx, a)
      BY <1>5
    <3>2. left[k].held = 0
      <4>1. ~(left[k].held > 0)
        BY <1>1, <1>10
      <4>2. left[k].held \in Nat
        BY <1>1, <1>5 DEF Streams
      <4> QED
        BY <4>1, <4>2
    <3>3. Counted(closed, [left EXCEPT ![k] = e], length, mx, a)
      BY <1>1, <1>5, <2>3, <3>1, <3>2, NothingHeld
    <3> QED
      BY <1>8, <3>3
\* Emptying the file ends the account of what others still hold for it.
  <2>13. ASSUME NEW a \in Inodes
         PROVE  Counted(sizes', streams', length', mixed', a)
    <3>1. CASE mode # "Write"
      <4>1. mixed' = mx /\ sizes' = closed /\ length' = length
        BY <1>8, <3>1
      <4> QED
        BY <2>12, <4>1
    <3>2. CASE mode = "Write" /\ a = inode
      <4>1. sizes'[a] = 0 /\ length'[a] = 0
        BY <1>3, <1>5, <1>8, <3>2
      <4>2. Overtaken(a, 0) \subseteq mixed'
        BY <1>8, <3>2
      <4>3. a \notin mixed' => \A b \in Inodes : ~HoldsBytes(streams, b, a)
        BY <1>1, <1>3, <4>2, OvertakenIs
      <4>4. \A b \in Inodes : HoldsBytes(streams', b, a) => HoldsBytes(streams, b, a)
        <5>1. \A b \in Inodes : HoldsBytes(streams', b, a) => b # k /\ streams'[b] = left[b]
          BY <2>3, <2>6 DEF HoldsBytes
        <5>2. \A b \in Inodes : left[b].held > 0 => left[b] = streams[b]
          BY <1>4, <1>5
        <5> QED
          BY <5>1, <5>2 DEF HoldsBytes
      <4> QED
        BY <4>1, <4>3, <4>4 DEF Counted
    <3>3. CASE mode = "Write" /\ a # inode
      <4>1. sizes'[a] = closed[a] /\ length'[a] = length[a] /\ mx \subseteq mixed'
        BY <1>3, <1>5, <1>8, <3>3
      <4>2. Counted(closed, streams', length, mx, a)
        BY <2>12
      <4> QED
        BY <1>5, <2>6, <2>7, <4>1, <4>2, OtherInode
    <3> QED
      BY <3>1, <3>2, <3>3
  <2>14. \A a \in Inodes : Counted(sizes, streams, length, mixed, a)'
    BY <2>13 DEF Counted, HoldsBytes, Flushed, Inodes, Most
  <2> QED
    BY <1>1, <2>8, <2>11, <2>14 DEF IoInv, SizeCountsTheWritten, Inodes
<1> QED
  BY <1>2, <1>7, <1>8 DEF closed, mx

-----------------------------------------------------------------------------
LEMMA IoInvHolds == IoSpec => []IoInv
<1>1. IoInit => IoInv
  <2> SUFFICES ASSUME IoInit PROVE IoInv
    OBVIOUS
  <2>1. MaxIo \in Nat
    BY IoAssumption
  <2>2. NoStream \in Streams /\ NoStream.held = 0
    BY <2>1 DEF NoStream, Streams
  <2>3. ClosedFile \in Files /\ ClosedFile.stream = 0
    BY <2>1 DEF ClosedFile, Files
  <2>4. \A o \in Objects : obj[o] = ClosedFile
    BY DEF IoInit
  <2>5. \A i \in Inodes : streams[i] = NoStream /\ sizes[i] = 0 /\ length[i] = 0
    BY DEF IoInit
  <2>6. IoTyped
    BY <2>1, <2>2, <2>3 DEF IoInit, IoTyped
  <2>7. Owned
    BY <2>2, <2>3, <2>4, <2>5 DEF Owned, IsOpen
  <2>8. \A k \in Inodes : Counted(sizes, streams, length, mixed, k)
    <3>1. \A i, k \in Inodes : ~HoldsBytes(streams, i, k)
      BY <2>2, <2>5 DEF HoldsBytes
    <3> QED
      BY <2>5, <3>1 DEF Counted
  <2>9. SizeCountsTheWritten
    BY DEF IoInit, SizeCountsTheWritten
  <2> QED
    BY <2>6, <2>7, <2>8, <2>9 DEF IoInv
<1>2. IoInv /\ [IoNext]_ioVars => IoInv'
  <2>1. ASSUME IoInv, NEW o \in Objects,
               \/ OpenFile(o) \/ CloseFile(o) \/ FlushFile(o) \/ SeekFile(o) \/ SetSize(o)
               \/ GetSize(o) \/ Unlink(o)
               \/ \E p \in Objects : Move(o, p)
               \/ \E raw \in BOOLEAN : WriteFile(o, raw)
        PROVE  IoInv'
    BY <2>1, OpenFileStep, CloseFileStep, FlushFileStep, SeekFileStep, SetSizeStep,
       GetSizeStep, UnlinkStep, MoveStep, WriteFileStep
  <2>2. ASSUME IoInv, UNCHANGED ioVars
        PROVE  IoInv'
    <3>1. /\ IoTyped' /\ Owned' /\ SizeCountsTheWritten'
      BY <2>2 DEF ioVars, IoInv, IoTyped, Owned, SizeCountsTheWritten, IsOpen, StreamOf, Inodes
    <3>2. \A k \in Inodes : Counted(sizes, streams, length, mixed, k)'
      BY <2>2 DEF ioVars, IoInv, Counted, HoldsBytes, Flushed, Inodes, Most
    <3> QED
      BY <3>1, <3>2 DEF IoInv, Inodes
  <2> QED
    BY <2>1, <2>2 DEF IoNext
<1> QED
  BY <1>1, <1>2, PTL DEF IoSpec

\* GetSize counts every byte that this object accepted, through whatever opens,
\* moves, seeks and removals, as long as the path still leads to its file, the
\* file system knows its size, no other stream holds bytes of it, and nothing
\* overtook bytes in a buffer.  Where a flush lost bytes that a write accepted, it
\* says nothing: there GetSize, which ignores how its flush went, tells less.
THEOREM SizeCountsHolds == IoSpec => []SizeCountsTheWritten
<1>1. IoInv => SizeCountsTheWritten
  BY DEF IoInv
<1> QED
  BY <1>1, IoInvHolds, PTL
-----------------------------------------------------------------------------
(***************************************************************************)
(* The trophy files.                                                        *)
(***************************************************************************)
\* What the property says of one entry.
EntryRight(k, n) ==
  /\ trophies[k].entries[n] = "png" => IdsOf(k, n) = {"none"}
  /\ trophies[k].entries[n] = "esfm" /\ k <= Len(bound) /\ k \notin unread =>
       IdsOf(k, n) = Under(bound[k])
\* And of two XML files of one file.
SameIds(k, n, m) ==
  trophies[k].entries[n] = "esfm" /\ trophies[k].entries[m] = "esfm" => IdsOf(k, n) = IdsOf(k, m)

\* What Extract has come past.
Past(k, n) == outcome = "true" \/ k < place \/ (k = place /\ n < trpEntry)

\* The types.
TrpTyped ==
  /\ trophies \in Seq(TrpFiles) /\ bound \in Seq(STRING)
  /\ \A k \in DOMAIN trophies : trophies[k].file \/ trophies[k].entries = <<>>
  /\ place \in Nat /\ trpEntry \in Nat
  /\ \A x \in made \cup missed : x.at \in Nat /\ x.entry \in Nat

\* Where Extract is, and under which id.
Walk ==
  /\ place # 0 => outcome = "none"
  /\ trpEntry # 0 => place \in DOMAIN trophies /\ trophies[place].file
  /\ trpEntry # 0 /\ place <= Len(bound) /\ place \notin unread => npId = bound[place]

\* Nothing is handled before its turn.
Ahead ==
  \A x \in made \cup missed :
    place # 0 => x.at < place \/ (x.at = place /\ x.entry < trpEntry)

\* Of what is come past the property holds.
EntriesRight ==
  \A k \in DOMAIN trophies : \A n \in DOMAIN trophies[k].entries :
    Past(k, n) => EntryRight(k, n)
EntriesAgree ==
  \A k \in DOMAIN trophies : \A n, m \in DOMAIN trophies[k].entries :
    Past(k, n) /\ Past(k, m) => SameIds(k, n, m)

\* The id that Extract holds is the one the XML of this file went out under.
HeldId ==
  trpEntry # 0 =>
    \A n \in DOMAIN trophies[place].entries :
      n < trpEntry /\ trophies[place].entries[n] = "esfm" => IdsOf(place, n) = Under(npId)

\* The inductive invariant.  The property speaks of the end; what carries it there
\* is that nothing is handled before its turn, under the id of its file.
TrpInv == TrpTyped /\ Walk /\ Ahead /\ EntriesRight /\ EntriesAgree /\ HeldId

-----------------------------------------------------------------------------
\* Where nothing is written nothing changes.
LEMMA SameEntries ==
  ASSUME UNCHANGED <<trophies, bound, made, missed>>, unread \subseteq unread', NEW k, NEW n, NEW m
  PROVE  /\ EntryRight(k, n) => EntryRight(k, n)'
         /\ SameIds(k, n, m)' <=> SameIds(k, n, m)
         /\ IdsOf(k, n)' = IdsOf(k, n)
BY DEF EntryRight, SameIds, IdsOf, Handled

\* The numbers of a directory's entries, and of a file's.
LEMMA TrophyPlaces ==
  ASSUME TrpInv
  PROVE  /\ \A k \in DOMAIN trophies : k \in Nat /\ k >= 1 /\ k <= Len(trophies)
                                       /\ trophies[k] \in TrpFiles
         /\ Len(trophies) \in Nat /\ DOMAIN trophies = 1 .. Len(trophies)
         /\ \A k \in DOMAIN trophies :
              /\ Len(trophies[k].entries) \in Nat
              /\ DOMAIN trophies[k].entries = 1 .. Len(trophies[k].entries)
<1>1. trophies \in Seq(TrpFiles)
  BY DEF TrpInv, TrpTyped
<1>2. Len(trophies) \in Nat /\ DOMAIN trophies = 1 .. Len(trophies)
  BY <1>1
<1>3. \A k \in DOMAIN trophies : trophies[k] \in TrpFiles
  BY <1>1
<1>4. \A k \in DOMAIN trophies : trophies[k].entries \in Seq({"png", "esfm", "short", "lost", "other"})
  BY <1>3 DEF TrpFiles
<1>5. \A k \in DOMAIN trophies :
        /\ Len(trophies[k].entries) \in Nat
        /\ DOMAIN trophies[k].entries = 1 .. Len(trophies[k].entries)
  BY <1>4
<1> QED
  BY <1>2, <1>3, <1>5

\* A call begins with nothing made.
LEMMA ExtractTrophiesStep ==
  ASSUME TrpInv, ExtractTrophies
  PROVE  TrpInv'
<1>1. /\ place = 0 /\ made' = {} /\ missed' = {} /\ bound' \in Bindings /\ trpEntry' = trpEntry
      /\ trophies' \in TrophyDirs
      /\ \/ place' = 1 /\ outcome' = "none"
         \/ place' = 0 /\ outcome' = "false"
  BY DEF ExtractTrophies, Pending
<1>2. trpEntry = 0
  <2>1. 0 \notin DOMAIN trophies
    BY TrophyPlaces
  <2> QED
    BY <1>1, <2>1 DEF TrpInv, Walk
<1>3. TrpTyped'
  BY <1>1, <1>2, TrophyAssumption DEF TrpTyped
<1>4. Walk' /\ Ahead' /\ HeldId'
  BY <1>1, <1>2 DEF Walk, Ahead, HeldId
<1>5. ASSUME NEW k \in DOMAIN trophies', NEW n \in DOMAIN trophies'[k].entries, Past(k, n)'
      PROVE  FALSE
  <2>1. k \in Nat /\ k >= 1 /\ n \in Nat /\ n >= 1
    <3>1. trophies' \in Seq(TrpFiles)
      BY <1>3 DEF TrpTyped
    <3>2. k \in 1 .. Len(trophies') /\ Len(trophies') \in Nat /\ trophies'[k] \in TrpFiles
      BY <3>1
    <3>3. trophies'[k].entries \in Seq({"png", "esfm", "short", "lost", "other"})
      BY <3>2 DEF TrpFiles
    <3>4. n \in 1 .. Len(trophies'[k].entries) /\ Len(trophies'[k].entries) \in Nat
      BY <3>3
    <3> QED
      BY <3>2, <3>4
  <2> QED
    BY <1>1, <1>2, <1>5, <2>1 DEF Past
<1> QED
  BY <1>3, <1>4, <1>5 DEF TrpInv, EntriesRight, EntriesAgree

\* What is not come past further, whatever ends the call but a "true".
LEMMA NothingPassed ==
  ASSUME TrpInv, UNCHANGED <<trophies, bound, made, missed>>, unread \subseteq unread',
         \A k \in DOMAIN trophies : \A n \in DOMAIN trophies[k].entries : Past(k, n)' => Past(k, n)
  PROVE  EntriesRight' /\ EntriesAgree'
<1>1. ASSUME NEW k \in DOMAIN trophies, NEW n \in DOMAIN trophies[k].entries, Past(k, n)'
      PROVE  EntryRight(k, n)'
  BY <1>1, SameEntries DEF TrpInv, EntriesRight
<1>2. ASSUME NEW k \in DOMAIN trophies, NEW n \in DOMAIN trophies[k].entries,
             NEW m \in DOMAIN trophies[k].entries, Past(k, n)', Past(k, m)'
      PROVE  SameIds(k, n, m)'
  BY <1>2, SameEntries DEF TrpInv, EntriesAgree
<1> QED
  BY <1>1, <1>2 DEF EntriesRight, EntriesAgree

\* The steps, one by one.
LEMMA NoFileStep ==
  ASSUME TrpInv, NoFileHere
  PROVE  TrpInv'
<1>1. /\ place # 0 /\ place <= Len(trophies) /\ ~trophies[place].file /\ place' = place + 1
      /\ UNCHANGED <<trophies, bound, npId, unread, trpEntry, made, missed, outcome>>
  BY DEF NoFileHere, Pending, Here
<1>2. place \in Nat /\ trpEntry \in Nat /\ place \in DOMAIN trophies
  BY <1>1, TrophyPlaces DEF TrpInv, TrpTyped
<1>3. trophies[place].entries = <<>>
  BY <1>1, <1>2 DEF TrpInv, TrpTyped
<1>4. TrpTyped'
  BY <1>1, <1>2 DEF TrpInv, TrpTyped
<1>5. trpEntry = 0
  BY <1>1 DEF TrpInv, Walk
<1>6. Walk'
  BY <1>1, <1>2, <1>5 DEF TrpInv, Walk
<1>7. Ahead'
  BY <1>1, <1>2, <1>5 DEF TrpInv, TrpTyped, Ahead
<1>8. ASSUME NEW k \in DOMAIN trophies, NEW n \in DOMAIN trophies[k].entries, Past(k, n)'
      PROVE  Past(k, n)
  <2>1. k # place /\ k \in Nat /\ n \in Nat /\ n >= 1
    BY <1>3, TrophyPlaces
  <2> QED
    BY <1>1, <1>2, <1>5, <1>8, <2>1 DEF Past
<1>9. EntriesRight' /\ EntriesAgree'
  BY <1>1, <1>8, NothingPassed
<1>10. HeldId'
  BY <1>1, <1>5 DEF HeldId
<1> QED
  BY <1>4, <1>6, <1>7, <1>9, <1>10 DEF TrpInv

LEMMA EndsStep ==
  ASSUME TrpInv, NEW how, how # "true", Ends(how), UNCHANGED <<trophies, bound, made, missed>>,
         unread \subseteq unread'
  PROVE  TrpInv'
<1>1. outcome' = how /\ place' = 0 /\ trpEntry' = 0
  BY DEF Ends
<1>2. TrpTyped' /\ Walk' /\ Ahead' /\ HeldId'
  BY <1>1 DEF TrpInv, TrpTyped, Walk, Ahead, HeldId
<1>3. ASSUME NEW k \in DOMAIN trophies, NEW n \in DOMAIN trophies[k].entries
      PROVE  ~Past(k, n)'
  <2>1. k \in Nat /\ n \in Nat /\ k >= 1
    BY TrophyPlaces
  <2> QED
    BY <1>1, <2>1 DEF Past
<1> QED
  BY <1>2, <1>3, NothingPassed DEF TrpInv

\* The id is the one of this file from here on.
LEMMA OpenTrophyStep ==
  ASSUME TrpInv, OpenTrophy
  PROVE  TrpInv'
<1>1. /\ place # 0 /\ place <= Len(trophies) /\ trophies[place].file /\ trpEntry = 0
      /\ UNCHANGED <<trophies, bound, made, missed>>
      /\ \/ trpEntry' = 1 /\ UNCHANGED <<place, outcome>>
         \/ Ends("false") \/ Ends("thrown")
  BY DEF OpenTrophy, Pending, Here
<1>4. /\ unread \subseteq unread'
      /\ place \notin unread' => place \in DOMAIN bound /\ npId' = bound[place]
  <2>1. PICK read \in NpIdAt(place) : npId' = read[1] /\ unread' = unread \cup read[2]
    BY DEF OpenTrophy
  <2>2. read[2] = {place} \/ (place \in DOMAIN bound /\ read[1] = bound[place])
    BY <2>1 DEF NpIdAt
  <2> QED
    BY <2>1, <2>2
<1>2. CASE Ends("false") \/ Ends("thrown")
  BY <1>1, <1>2, <1>4, EndsStep
<1>3. CASE trpEntry' = 1 /\ UNCHANGED <<place, outcome>>
  <2>1. place \in Nat /\ place \in DOMAIN trophies
    BY <1>1, TrophyPlaces DEF TrpInv, TrpTyped
  <2>3. Walk'
    BY <1>1, <1>3, <1>4, <2>1 DEF TrpInv, Walk
  <2>4. TrpTyped' /\ Ahead'
    BY <1>1, <1>3 DEF TrpInv, TrpTyped, Ahead
  <2>2. HeldId'
    <3>1. \A n \in DOMAIN trophies[place].entries : n \in Nat /\ n >= 1
      BY <2>1, TrophyPlaces
    <3> QED
      BY <1>1, <1>3, <3>1 DEF HeldId
  <2>5. ASSUME NEW k \in DOMAIN trophies, NEW n \in DOMAIN trophies[k].entries, Past(k, n)'
        PROVE  Past(k, n)
    <3>1. n \in Nat /\ n >= 1
      BY TrophyPlaces
    <3> QED
      BY <1>3, <2>5, <3>1 DEF Past
  <2> QED
    BY <1>1, <1>4, <2>2, <2>3, <2>4, <2>5, NothingPassed DEF TrpInv
<1> QED
  BY <1>1, <1>2, <1>3

\* At the last entry of a file all of them are past; at the last file all files.
LEMMA TrophyDoneStep ==
  ASSUME TrpInv, TrophyDone
  PROVE  TrpInv'
<1>1. place # 0 /\ UNCHANGED <<trophies, bound, npId, unread, made, missed>>
  BY DEF TrophyDone, Pending
<1>2. place \in Nat /\ trpEntry \in Nat
  BY DEF TrpInv, TrpTyped
<1>3. CASE /\ trpEntry # 0 /\ trpEntry > Len(trophies[place].entries)
           /\ place' = place + 1 /\ trpEntry' = 0 /\ UNCHANGED outcome
  <2>1. TrpTyped' /\ Walk' /\ HeldId'
    BY <1>1, <1>2, <1>3 DEF TrpInv, TrpTyped, Walk, HeldId
  <2>2. Ahead'
    BY <1>1, <1>2, <1>3 DEF TrpInv, TrpTyped, Ahead
  <2>3. ASSUME NEW k \in DOMAIN trophies, NEW n \in DOMAIN trophies[k].entries, Past(k, n)'
        PROVE  Past(k, n)
    <3>1. k \in Nat /\ n \in Nat /\ n <= Len(trophies[k].entries) /\ n >= 1
          /\ Len(trophies[k].entries) \in Nat
      BY TrophyPlaces
    <3>2. CASE k = place
      <4>1. n < trpEntry
        BY <1>2, <1>3, <3>1, <3>2
      <4> QED
        BY <3>2, <4>1 DEF Past
    <3>3. CASE k # place
      BY <1>2, <1>3, <2>3, <3>1, <3>3 DEF Past
    <3> QED
      BY <3>2, <3>3
  <2> QED
    BY <1>1, <2>1, <2>2, <2>3, NothingPassed DEF TrpInv
<1>4. CASE place > Len(trophies) /\ Ends("true")
  <2>1. TrpTyped' /\ Walk' /\ Ahead' /\ HeldId'
    BY <1>1, <1>4 DEF TrpInv, TrpTyped, Walk, Ahead, HeldId, Ends
  <2>2. ASSUME NEW k \in DOMAIN trophies, NEW n \in DOMAIN trophies[k].entries
        PROVE  Past(k, n)
    <3>1. k \in Nat /\ k <= Len(trophies) /\ Len(trophies) \in Nat
      BY TrophyPlaces
    <3> QED
      BY <1>2, <1>4, <3>1 DEF Past
  <2> QED
    BY <1>1, <2>1, <2>2, NothingPassed DEF TrpInv
<1> QED
  BY <1>3, <1>4 DEF TrophyDone, Here

\* What is written is written once, when its entry is come to.
LEMMA TrophyEntryStep ==
  ASSUME TrpInv, TrophyEntry
  PROVE  TrpInv'
<1> DEFINE entries == trophies[place].entries
           kind == entries[trpEntry]
<1>1. /\ place # 0 /\ trpEntry # 0 /\ trpEntry <= Len(entries)
      /\ UNCHANGED <<trophies, bound, npId, unread>>
      /\ CASE kind = "lost" -> Ends("false") /\ UNCHANGED <<made, missed>>
           [] kind = "short" /\ XmlDue("short") -> Ends("thrown") /\ UNCHANGED <<made, missed>>
           [] OTHER -> WriteItem /\ trpEntry' = trpEntry + 1 /\ UNCHANGED <<place, outcome>>
  BY DEF TrophyEntry, Pending, Here
<1>2. CASE (Ends("false") \/ Ends("thrown")) /\ UNCHANGED <<made, missed>>
  BY <1>1, <1>2, EndsStep
<1>3. CASE /\ kind # "lost" /\ ~(kind = "short" /\ XmlDue("short"))
           /\ WriteItem /\ trpEntry' = trpEntry + 1 /\ UNCHANGED <<place, outcome>>
  <2>1. place \in Nat /\ trpEntry \in Nat /\ place \in DOMAIN trophies
    BY <1>1 DEF TrpInv, TrpTyped, Walk
  <2>2. Item.at = place /\ Item.entry = trpEntry /\ Item.id = IF kind = "png" THEN "none" ELSE npId
    BY DEF Item, Here
  <2> DEFINE due == kind = "png" \/ XmlDue(kind)
  <2>3. made' \cup missed' = (made \cup missed) \cup (IF due THEN {Item} ELSE {})
    BY <1>3 DEF WriteItem, Here
  <2> HIDE DEF due
  <2>4. TrpTyped'
    <3>1. \A x \in made' \cup missed' : x.at \in Nat /\ x.entry \in Nat
      BY <2>1, <2>2, <2>3 DEF TrpInv, TrpTyped
    <3>2. trpEntry' \in Nat
      BY <1>3, <2>1
    <3> QED
      BY <1>1, <1>3, <3>1, <3>2 DEF TrpInv, TrpTyped
  <2>5. Walk'
    BY <1>1, <1>3 DEF TrpInv, Walk
  <2>6. Ahead'
    <3>1. ASSUME NEW x \in made' \cup missed'
          PROVE  x.at < place \/ (x.at = place /\ x.entry < trpEntry + 1)
      <4>1. CASE x \in made \cup missed
        BY <1>1, <2>1, <4>1 DEF TrpInv, Ahead, TrpTyped
      <4>2. CASE x = Item
        BY <2>1, <2>2, <4>2
      <4> QED
        BY <2>3, <4>1, <4>2
    <3> QED
      BY <1>3, <3>1 DEF Ahead
  <2>10. ASSUME NEW k, NEW n, k # place \/ n # trpEntry
         PROVE  IdsOf(k, n)' = IdsOf(k, n)
    <3>1. Handled(k, n)' = Handled(k, n)
      BY <2>2, <2>3, <2>10 DEF Handled
    <3> QED
      BY <3>1 DEF IdsOf
  <2>7. ASSUME NEW k \in DOMAIN trophies, NEW n \in DOMAIN trophies[k].entries, Past(k, n)'
        PROVE  EntryRight(k, n)'
    <3>1. k \in Nat /\ n \in Nat
      BY TrophyPlaces
    <3>2. CASE k # place \/ n # trpEntry
      <4>1. Past(k, n)
        BY <1>3, <2>1, <2>7, <3>1, <3>2 DEF Past
      <4>2. IdsOf(k, n)' = IdsOf(k, n)
        BY <2>10, <3>2
      <4>3. EntryRight(k, n)
        BY <4>1 DEF TrpInv, EntriesRight
      <4> QED
        BY <1>1, <4>2, <4>3 DEF EntryRight, Under
    <3>3. CASE k = place /\ n = trpEntry
      <4>1. \A x \in made \cup missed : ~(x.at = k /\ x.entry = n)
        BY <1>1, <2>1, <3>3 DEF TrpInv, Ahead, TrpTyped
      <4>2. Handled(k, n)' = IF due THEN {Item} ELSE {}
        BY <2>2, <2>3, <3>3, <4>1 DEF Handled
      <4>3. IdsOf(k, n)' = IF due THEN {Item.id} ELSE {}
        BY <4>2 DEF IdsOf
      <4>4. kind = "png" => IdsOf(k, n)' = {"none"}
        BY <2>2, <4>3 DEF due
      <4>5. kind = "esfm" => IdsOf(k, n)' = Under(npId)
        BY <2>2, <4>3 DEF due, XmlDue, Under
      <4>6. kind = "esfm" /\ k <= Len(bound) /\ k \notin unread => npId = bound[k]
        BY <1>1, <3>3 DEF TrpInv, Walk
      <4> QED
        BY <1>1, <3>3, <4>4, <4>5, <4>6 DEF EntryRight, Under
    <3> QED
      BY <3>2, <3>3
  <2>8. EntriesRight'
    BY <1>1, <2>7 DEF EntriesRight
\* This entry goes out under the id that those before it went out under.
  <2>9. HeldId'
    <3> SUFFICES ASSUME NEW n \in DOMAIN entries, n < trpEntry + 1, entries[n] = "esfm"
                 PROVE  IdsOf(place, n)' = Under(npId)
      BY <1>1, <1>3 DEF HeldId, Under, IsNp
    <3>1. n \in Nat
      BY <2>1, TrophyPlaces
    <3>2. CASE n # trpEntry
      <4>1. n < trpEntry
        BY <2>1, <3>1, <3>2
      <4>2. IdsOf(place, n) = Under(npId)
        BY <1>1, <4>1 DEF TrpInv, HeldId
      <4>3. \A k : IdsOf(k, n)' = IdsOf(k, n)
        BY <2>10, <3>2
      <4>4. IdsOf(place, n)' = IdsOf(place, n)
        BY <1>3, <4>3 DEF IdsOf, Handled
      <4> QED
        BY <4>2, <4>4
    <3>3. CASE n = trpEntry
      <4>1. \A x \in made \cup missed : ~(x.at = place /\ x.entry = n)
        BY <1>1, <2>1, <3>3 DEF TrpInv, Ahead, TrpTyped
      <4>2. Handled(place, n)' = IF due THEN {Item} ELSE {}
        BY <1>1, <1>3, <2>2, <2>3, <3>3, <4>1 DEF Handled
      <4>3. IdsOf(place, n)' = IF due THEN {Item.id} ELSE {}
        BY <1>3, <4>2 DEF IdsOf
      <4> QED
        BY <2>2, <3>3, <4>3 DEF due, XmlDue, Under
    <3> QED
      BY <3>2, <3>3
  <2>11. EntriesAgree'
    <3> SUFFICES ASSUME NEW k \in DOMAIN trophies, NEW n \in DOMAIN trophies[k].entries,
                        NEW m \in DOMAIN trophies[k].entries, Past(k, n)', Past(k, m)'
                 PROVE  SameIds(k, n, m)'
      BY <1>1 DEF EntriesAgree
    <3>1. k \in Nat /\ n \in Nat /\ m \in Nat
      BY TrophyPlaces
    <3>2. CASE k = place
      <4>1. n < trpEntry + 1 /\ m < trpEntry + 1
        BY <1>1, <1>3, <2>1, <3>1, <3>2 DEF Past, TrpInv, Walk
      <4> QED
        BY <1>1, <1>3, <2>1, <2>9, <3>2, <4>1 DEF HeldId, SameIds
    <3>3. CASE k # place
      <4>1. Past(k, n) /\ Past(k, m)
        BY <1>3, <2>1, <3>1, <3>3 DEF Past
      <4>2. IdsOf(k, n)' = IdsOf(k, n) /\ IdsOf(k, m)' = IdsOf(k, m)
        BY <2>10, <3>3
      <4> QED
        BY <1>1, <4>1, <4>2 DEF SameIds, TrpInv, EntriesAgree
    <3> QED
      BY <3>2, <3>3
  <2> QED
    BY <2>4, <2>5, <2>6, <2>8, <2>9, <2>11 DEF TrpInv
<1> QED
  BY <1>1, <1>2, <1>3

LEMMA TrpInvHolds == TrpSpec => []TrpInv
<1>1. TrpInit => TrpInv
  BY DEF TrpInit, TrpInv, TrpTyped, Walk, Ahead, EntriesRight, EntriesAgree, HeldId
<1>2. TrpInv /\ [TrpNext]_trpVars => TrpInv'
  <2> SUFFICES ASSUME TrpInv, [TrpNext]_trpVars PROVE TrpInv'
    OBVIOUS
  <2>1. CASE UNCHANGED trpVars
    <3>1. TrpTyped' /\ Walk' /\ Ahead'
          /\ UNCHANGED <<trophies, bound, npId, unread, made, missed, place, trpEntry, outcome>>
      BY <2>1 DEF trpVars, TrpInv, TrpTyped, Walk, Ahead
    <3>3. HeldId'
      BY <3>1, SameEntries DEF TrpInv, HeldId, Under, IsNp
    <3>2. EntriesRight' /\ EntriesAgree'
      BY <3>1, NothingPassed DEF Past
    <3> QED
      BY <3>1, <3>2, <3>3 DEF TrpInv
  <2> QED
    BY <2>1, ExtractTrophiesStep, NoFileStep, OpenTrophyStep, TrophyEntryStep, TrophyDoneStep
       DEF TrpNext
<1> QED
  BY <1>1, <1>2, PTL DEF TrpSpec

\* When Extract returns true, every icon of every file was written or its write
\* failed; all the XML files of one file went out under one id, or none did; and
\* where npbind.dat has an id for the place of a file and it could be read, that is
\* the id, whatever an earlier file or call left in the object.
THEOREM TrophiesTheorem == TrpSpec => []TrophiesAccounted
<1>1. TrpInv => TrophiesAccounted
  <2> SUFFICES ASSUME TrpInv, outcome = "true",
                      NEW k \in DOMAIN trophies, NEW n \in DOMAIN trophies[k].entries
               PROVE  /\ EntryRight(k, n)
                      /\ \A m \in DOMAIN trophies[k].entries : SameIds(k, n, m)
    BY DEF TrophiesAccounted, EntryRight, SameIds
  <2> QED
    BY DEF TrpInv, EntriesRight, EntriesAgree, Past
<1> QED
  BY <1>1, TrpInvHolds, PTL
-----------------------------------------------------------------------------
(***************************************************************************)
(* The rename and the preview of the package pane.                          *)
(***************************************************************************)
Occupants == Dumps \cup {NoDump}

\* What a rename past its checks knows: two different names, the new one free
\* unless another program took it meanwhile.
RenameInHand ==
  renaming # <<>> =>
    \E from, to \in PanePaths :
      renaming = <<from, to>> /\ from # to /\ (raced \/ dir[to] = NoDump)

Typed ==
  /\ dir \in [PanePaths -> Occupants]
  /\ label = [pkg |-> label.pkg, loaded |-> label.loaded, out |-> label.out]
  /\ raced \in BOOLEAN /\ calm \in BOOLEAN

\* The inductive invariant: the second part is what makes the third inductive.
PaneInv == Typed /\ RenameInHand /\ RenameLosesNothing /\ PreviewIsOfThePackage

\* A path with a file is one of the model's, and opening tells true or false.
LEMMA FilesHavePaths ==
  ASSUME Typed, NEW p
  PROVE  /\ DumpAt(p) \in Occupants /\ Opens(p) \in BOOLEAN
         /\ DumpAt(p) # NoDump => p \in PanePaths /\ DumpAt(p) \in Dumps /\ DumpAt(p) = dir[p]
<1>1. /\ DumpAt(p) \in Occupants
      /\ DumpAt(p) # NoDump => p \in PanePaths /\ DumpAt(p) \in Dumps /\ DumpAt(p) = dir[p]
  BY DEF Typed, DumpAt, Occupants
<1>2. NoDump.ok \in BOOLEAN
  BY DEF NoDump
<1> QED
  BY <1>1, <1>2, DumpsAssumption DEF Opens, Occupants

\* The pane begins with files under free names only, and shows nothing.
LEMMA PaneInitInv == PaneInit => PaneInv
<1> SUFFICES ASSUME PaneInit PROVE PaneInv
  OBVIOUS
<1>1. dir \in [PanePaths -> Occupants]
  BY DEF PaneInit, Occupants
<1> QED
  BY <1>1 DEF PaneInit, PaneInv, Typed, RenameInHand, RenameLosesNothing,
              PreviewIsOfThePackage

\* A preview shows the package it opened, or none.
LEMMA ChoosePreserves == PaneInv /\ ChoosePkg => PaneInv'
<1> SUFFICES ASSUME PaneInv, ChoosePkg PROVE PaneInv'
  OBVIOUS
<1> PICK p \in PanePaths : DumpAt(p) # NoDump /\ field' = p /\ UpdateSfoPreview(p)
  BY DEF ChoosePkg
<1>1. /\ DumpAt(p)' = DumpAt(p) /\ Opens(p) \in BOOLEAN
      /\ UNCHANGED <<dir, renaming, lost, raced>>
  BY FilesHavePaths DEF PaneInv, ChoosePkg, DumpAt
<1>2. Typed' /\ RenameInHand' /\ RenameLosesNothing'
  BY <1>1 DEF PaneInv, Typed, RenameInHand, RenameLosesNothing, UpdateSfoPreview
<1>3. PreviewIsOfThePackage'
  BY <1>1 DEF PreviewIsOfThePackage, UpdateSfoPreview
<1> QED
  BY <1>2, <1>3 DEF PaneInv

\* The checks of a rename: the new name is one of the model's, another one than
\* the old, and free.
LEMMA ChecksPreserve == PaneInv /\ RenameChecks => PaneInv'
<1> SUFFICES ASSUME PaneInv, RenameChecks PROVE PaneInv'
  OBVIOUS
<1> DEFINE to == Target(DumpAt(field))
<1>1. field \in PanePaths /\ DumpAt(field) \in Dumps
  BY FilesHavePaths DEF PaneInv, RenameChecks
<1>2. to \in PanePaths /\ to # field /\ dir[to] = NoDump
  BY <1>1 DEF RenameChecks, NameIsFree, DumpAt, PanePaths
<1>3. renaming' = <<field, to>> /\ UNCHANGED <<dir, label, view, lost, raced, calm>>
  BY DEF RenameChecks
<1> QED
  BY <1>1, <1>2, <1>3 DEF PaneInv, Typed, RenameInHand, RenameLosesNothing,
                          PreviewIsOfThePackage, DumpAt

\* The rename: the file keeps its package, the icon follows it.
LEMMA RenamePreserves == PaneInv /\ RenameFile => PaneInv'
<1> SUFFICES ASSUME PaneInv, RenameFile PROVE PaneInv'
  OBVIOUS
<1> PICK from \in PanePaths, to \in PanePaths :
      renaming = <<from, to>> /\ from # to /\ (raced \/ dir[to] = NoDump)
  BY DEF PaneInv, RenameInHand, RenameFile
<1>0. /\ renaming[1] = from /\ renaming[2] = to
      /\ UNCHANGED <<view, raced>> /\ renaming' = <<>>
      /\ DumpAt(from) = dir[from] /\ DumpAt(to) = dir[to]
  BY DEF RenameFile, DumpAt
<1>1. CASE UNCHANGED <<dir, lost, field, label, calm>>
  BY <1>0, <1>1 DEF PaneInv, Typed, RenameInHand, RenameLosesNothing,
                    PreviewIsOfThePackage, DumpAt
<1>2. CASE /\ dir' = [dir EXCEPT ![to] = dir[from], ![from] = NoDump]
           /\ lost' = lost \cup ({DumpAt(to)} \ {NoDump})
           /\ NowAt(to) /\ calm' = (calm /\ label.pkg = from)
  <2>1. /\ dir' \in [PanePaths -> Occupants] /\ dir'[to] = dir[from]
    BY <1>2 DEF PaneInv, Typed, Occupants
  <2>2. /\ label'.pkg = to /\ label'.out = label.out
        /\ label' = [pkg |-> label'.pkg, loaded |-> label'.loaded, out |-> label'.out]
    BY <1>2 DEF PaneInv, Typed, NowAt
  <2>3. Typed' /\ RenameInHand'
    BY <1>0, <1>2, <2>1, <2>2 DEF PaneInv, Typed, RenameInHand
  <2>4. RenameLosesNothing'
    BY <1>0, <1>2 DEF PaneInv, RenameLosesNothing
  <2>5. PreviewIsOfThePackage'
    BY <1>0, <1>2, <2>1, <2>2 DEF PaneInv, PreviewIsOfThePackage, DumpAt
  <2> QED
    BY <2>3, <2>4, <2>5 DEF PaneInv
<1> QED
  BY <1>0, <1>1, <1>2 DEF RenameFile

\* Other programs: inside a rename they make a race of it.
LEMMA OthersPreserve == PaneInv /\ Others => PaneInv'
<1> SUFFICES ASSUME PaneInv, Others PROVE PaneInv'
  OBVIOUS
<1>1. UNCHANGED <<label, view, lost, renaming>> /\ raced' = (raced \/ renaming # <<>>)
      /\ calm' = FALSE
  BY DEF Others
<1>2. dir' \in [PanePaths -> Occupants]
  <2> PICK p \in PanePaths, q \in PanePaths :
        dir' \in {[dir EXCEPT ![q] = dir[p], ![p] = NoDump], [dir EXCEPT ![q] = dir[p]]}
    BY DEF Others
  <2> QED
    BY DEF PaneInv, Typed, Occupants
<1>3. RenameInHand' /\ RenameLosesNothing'
  BY <1>1 DEF PaneInv, Typed, RenameInHand, RenameLosesNothing
<1> QED
  BY <1>1, <1>2, <1>3 DEF PaneInv, Typed, PreviewIsOfThePackage

\* The other steps leave the files, the icon's path and the preview alone.
LEMMA RestPreserves ==
  PaneInv /\ UNCHANGED <<dir, label, view, renaming, lost, raced, calm>> => PaneInv'
<1> SUFFICES ASSUME PaneInv, UNCHANGED <<dir, label, view, renaming, lost, raced, calm>>
             PROVE  PaneInv'
  OBVIOUS
<1>1. Typed' /\ RenameInHand' /\ RenameLosesNothing'
  BY DEF PaneInv, Typed, RenameInHand, RenameLosesNothing
<1>2. PreviewIsOfThePackage'
  BY DEF PaneInv, PreviewIsOfThePackage, DumpAt
<1> QED
  BY <1>1, <1>2 DEF PaneInv

LEMMA PaneStepInv == PaneInv /\ [PaneNext]_paneVars => PaneInv'
<1> SUFFICES ASSUME PaneInv, [PaneNext]_paneVars PROVE PaneInv'
  OBVIOUS
<1>1. CASE ChoosePkg
  BY <1>1, ChoosePreserves
<1>2. CASE RenameChecks
  BY <1>2, ChecksPreserve
<1>3. CASE RenameFile
  BY <1>3, RenamePreserves
<1>4. CASE Others
  BY <1>4, OthersPreserve
<1>5. CASE TypePath \/ BrowseOutput \/ ClickIcon \/ CloseViewer \/ Extracted
  BY <1>5, RestPreserves DEF TypePath, BrowseOutput, ClickIcon, CloseViewer, Extracted
<1>6. CASE UNCHANGED paneVars
  BY <1>6, RestPreserves DEF paneVars
<1> QED
  BY <1>1, <1>2, <1>3, <1>4, <1>5, <1>6 DEF PaneNext

\* The inductive invariant holds in every behaviour of the pane.
THEOREM PaneInvariant == PaneSpec => []PaneInv
<1>1. PaneInit => PaneInv
  BY PaneInitInv
<1>2. PaneInv /\ [PaneNext]_paneVars => PaneInv'
  BY PaneStepInv
<1> QED
  BY <1>1, <1>2, PTL DEF PaneSpec

\* onRenamePkgToContentId replaces a file only when another program put it there
\* between the check of the name and the rename, whatever packages there are and
\* however often users rename.
THEOREM RenamesKeepFiles == PaneSpec => []RenameLosesNothing
<1>1. PaneInv => RenameLosesNothing
  BY DEF PaneInv
<1> QED
  BY <1>1, PaneInvariant, PTL

\* After any number of renames of the previewed package, the icon's path leads to
\* the package whose text and icon the pane shows.
THEOREM PreviewFollowsRenames == PaneSpec => []PreviewIsOfThePackage
<1>1. PaneInv => PreviewIsOfThePackage
  BY DEF PaneInv
<1> QED
  BY <1>1, PaneInvariant, PTL

(***************************************************************************)
(* The log: what the log thread and the threads that log bring to the file. *)
(***************************************************************************)
\* A set of numbers that lacks one lacks a first one.
LEMMA FirstMissing ==
  ASSUME NEW n \in Nat, NEW S, NEW k \in 0 .. n, k \notin S
  PROVE  \E b \in 0 .. n : b \notin S /\ \A a \in 0 .. n : a < b => a \in S
<1> DEFINE bad == {b \in Nat : b <= n /\ b \notin S}
<1>1. bad \subseteq Nat /\ bad # {}
  OBVIOUS
<1>2. PICK b \in bad : \A a \in bad : ~(<<a, b>> \in OpToRel(<, Nat))
  BY <1>1, NatLessThanWellFounded, WFMin
<1>3. b \in bad /\ \A a \in bad : ~(a < b)
  BY <1>1, <1>2 DEF OpToRel
<1>4. b \in 0 .. n /\ b \notin S
  BY <1>3
<1>5. ASSUME NEW a \in 0 .. n, a < b PROVE a \in S
  <2>1. a \notin bad
    BY <1>3, <1>5
  <2> QED
    BY <2>1
<1> QED
  BY <1>4, <1>5

\* What is true of 0 and passes from each number to the next one up to n.
LEMMA CountingUp ==
  ASSUME NEW n \in Nat, NEW S, 0 \in S, \A k \in 1 .. n : k - 1 \in S => k \in S
  PROVE  \A k \in 0 .. n : k \in S
<1> SUFFICES ASSUME NEW k \in 0 .. n, k \notin S PROVE FALSE
  OBVIOUS
<1>1. PICK b \in 0 .. n : b \notin S /\ \A a \in 0 .. n : a < b => a \in S
  BY FirstMissing
<1>2. b # 0
  BY <1>1
<1>3. b \in 1 .. n /\ b - 1 \in 0 .. n /\ b - 1 < b
  BY <1>2
<1> QED
  BY <1>1, <1>3

\* The levels of all classes.
ClassLevels == [Classes -> Levels]

\* One rule leaves a level to each class.
LEMMA RuleKeepsTypes ==
  ASSUME NEW levels \in ClassLevels, NEW rule \in Rules
  PROVE  ParseFilterRule(levels, rule) \in ClassLevels
BY DEF ClassLevels, ParseFilterRule, ResetAll, SetClassLevel, Rules, Levels

\* The levels after each rule are what the recursion says.
LEMMA ParsedIs ==
  ASSUME NEW r \in Seq(Rules)
  PROVE  /\ ParsedUpTo(r)[0] = ResetAll(Info)
         /\ \A k \in 1 .. Len(r) :
              ParsedUpTo(r)[k] = ParseFilterRule(ParsedUpTo(r)[k - 1], r[k])
<1> DEFINE n == Len(r)
           Upto(g, k) == /\ g[0] = ResetAll(Info)
                         /\ \A j \in 1 .. k : g[j] = ParseFilterRule(g[j - 1], r[j])
           S == {k \in 0 .. n : \E g \in [0 .. k -> ClassLevels] : Upto(g, k)}
<1>1. n \in Nat /\ \A j \in 1 .. n : r[j] \in Rules
  OBVIOUS
<1>2. 0 \in S
  <2>1. ResetAll(Info) \in ClassLevels
    BY DEF ResetAll, ClassLevels, Info, Levels, Trace, Critical
  <2>2. [j \in 0 .. 0 |-> ResetAll(Info)] \in [0 .. 0 -> ClassLevels]
    BY <2>1
  <2>3. Upto([j \in 0 .. 0 |-> ResetAll(Info)], 0)
    OBVIOUS
  <2>4. \E g \in [0 .. 0 -> ClassLevels] : Upto(g, 0)
    <3> HIDE DEF Upto
    <3> QED
      BY <2>2, <2>3
  <2>5. 0 \in 0 .. n
    BY <1>1
  <2> QED
    BY <2>4, <2>5
<1>3. ASSUME NEW k \in 1 .. n, k - 1 \in S
      PROVE  k \in S
  <2>1. PICK g \in [0 .. k - 1 -> ClassLevels] : Upto(g, k - 1)
    BY <1>3
  <2> DEFINE h == [j \in 0 .. k |-> IF j = k THEN ParseFilterRule(g[k - 1], r[k]) ELSE g[j]]
  <2>2. k - 1 \in 0 .. k - 1 /\ r[k] \in Rules
    BY <1>1
  <2>3. ParseFilterRule(g[k - 1], r[k]) \in ClassLevels
    BY <2>1, <2>2, RuleKeepsTypes
  <2>4. h \in [0 .. k -> ClassLevels]
    BY <2>3
  <2>5. h[k] = ParseFilterRule(g[k - 1], r[k]) /\ \A j \in 0 .. k - 1 : h[j] = g[j]
    OBVIOUS
  <2> HIDE DEF h
  <2>6. Upto(h, k)
    <3>1. h[0] = ResetAll(Info)
      BY <2>1, <2>5
    <3>2. ASSUME NEW j \in 1 .. k PROVE h[j] = ParseFilterRule(h[j - 1], r[j])
      <4>1. CASE j = k
        BY <4>1, <2>2, <2>5
      <4>2. CASE j # k
        <5>1. j \in 1 .. k - 1 /\ j - 1 \in 0 .. k - 1 /\ j \in 0 .. k - 1
          BY <4>2
        <5> QED
          BY <2>1, <2>5, <5>1
      <4> QED
        BY <4>1, <4>2
    <3> QED
      BY <3>1, <3>2
  <2> QED
    BY <2>4, <2>6, <1>1
<1>4. n \in S
  <2> HIDE DEF S
  <2>1. \A k \in 0 .. n : k \in S
    BY <1>1, <1>2, <1>3, CountingUp
  <2> QED
    BY <1>1, <2>1
<1>5. PICK g \in [0 .. n -> ClassLevels] : Upto(g, n)
  BY <1>4
<1> DEFINE Says(f) == f = [k \in 0 .. Len(r) |->
                             IF k = 0 THEN ResetAll(Info) ELSE ParseFilterRule(f[k - 1], r[k])]
<1>6. Says(g)
  <2> DEFINE h == [k \in 0 .. Len(r) |->
                     IF k = 0 THEN ResetAll(Info) ELSE ParseFilterRule(g[k - 1], r[k])]
  <2>1. \A k \in 0 .. n : g[k] = h[k]
    BY <1>1, <1>5
  <2>2. DOMAIN h = 0 .. n /\ DOMAIN g = 0 .. n
    BY <1>5
  <2> QED
    BY <2>1, <2>2
<1>7. ParsedUpTo(r) = CHOOSE f : Says(f)
  BY DEF ParsedUpTo
<1>8. Says(ParsedUpTo(r))
  <2> HIDE DEF Says
  <2> QED
    BY <1>6, <1>7
<1>9. \A k \in 0 .. n : ParsedUpTo(r)[k] = IF k = 0 THEN ResetAll(Info)
                                           ELSE ParseFilterRule(ParsedUpTo(r)[k - 1], r[k])
  BY <1>8
<1>10. ParsedUpTo(r)[0] = ResetAll(Info)
  BY <1>1, <1>9
<1>11. ASSUME NEW k \in 1 .. n
       PROVE  ParsedUpTo(r)[k] = ParseFilterRule(ParsedUpTo(r)[k - 1], r[k])
  <2>1. k \in 0 .. n /\ k # 0
    OBVIOUS
  <2> QED
    BY <1>9, <2>1
<1> QED
  BY <1>10, <1>11

\* What the first k rules say of a class.
About(r, k, c) == {j \in 1 .. k : SpeaksOf(r[j], c)}
LastOf(about) == CHOOSE k \in about : \A j \in about : j <= k
SaidUpTo(r, k, c) == IF About(r, k, c) = {} THEN Info ELSE r[LastOf(About(r, k, c))].level

\* A rule that speaks of the class is the last word so far, any other changes nothing.
LEMMA SaidNext ==
  ASSUME NEW r, NEW k \in Nat \ {0}, NEW c
  PROVE  SaidUpTo(r, k, c) = IF SpeaksOf(r[k], c) THEN r[k].level ELSE SaidUpTo(r, k - 1, c)
<1>1. CASE SpeaksOf(r[k], c)
  <2>1. k \in About(r, k, c) /\ \A j \in About(r, k, c) : j <= k /\ j \in Nat
    BY <1>1 DEF About
  <2>2. LastOf(About(r, k, c)) \in About(r, k, c) /\ k <= LastOf(About(r, k, c))
    BY <2>1 DEF LastOf
  <2>3. LastOf(About(r, k, c)) = k
    BY <2>1, <2>2
  <2> QED
    BY <1>1, <2>1, <2>3 DEF SaidUpTo
<1>2. CASE ~SpeaksOf(r[k], c)
  <2>1. About(r, k, c) = About(r, k - 1, c)
    BY <1>2 DEF About
  <2> QED
    BY <1>2, <2>1 DEF SaidUpTo
<1> QED
  BY <1>1, <1>2

\* The filter parsed has for each class what the string says of it.
LEMMA FilterIs ==
  ASSUME NEW r \in RuleStrings
  PROVE  /\ ParseFilterString(r) \in ClassLevels
         /\ \A c \in Classes : ParseFilterString(r)[c] = LevelSaid(r, c)
<1> DEFINE n == Len(r)
           P == ParsedUpTo(r)
           S == {k \in 0 .. n : P[k] \in ClassLevels /\ \A c \in Classes : P[k][c] = SaidUpTo(r, k, c)}
<1>1. r \in Seq(Rules) /\ "*" \notin Classes
  BY FilterAssumption
<1>2. n \in Nat /\ \A k \in 1 .. n : r[k] \in Rules
  BY <1>1
<1>3. P[0] = ResetAll(Info) /\ \A k \in 1 .. n : P[k] = ParseFilterRule(P[k - 1], r[k])
  BY <1>1, ParsedIs
<1> HIDE DEF P
<1>4. 0 \in S
  <2>1. P[0] \in ClassLevels /\ \A c \in Classes : P[0][c] = Info
    BY <1>3 DEF ResetAll, ClassLevels, Info, Levels, Trace, Critical
  <2>2. ASSUME NEW c PROVE SaidUpTo(r, 0, c) = Info
    <3>1. About(r, 0, c) = {}
      BY DEF About
    <3> QED
      BY <3>1 DEF SaidUpTo
  <2> QED
    BY <1>2, <2>1, <2>2
<1>5. ASSUME NEW k \in 1 .. n, k - 1 \in S
      PROVE  k \in S
  <2>1. /\ P[k] = ParseFilterRule(P[k - 1], r[k]) /\ r[k] \in Rules
        /\ P[k - 1] \in ClassLevels /\ \A c \in Classes : P[k - 1][c] = SaidUpTo(r, k - 1, c)
    BY <1>2, <1>3, <1>5
  <2>2. P[k] \in ClassLevels
    BY <2>1, RuleKeepsTypes
  <2>3. ASSUME NEW c \in Classes
        PROVE  P[k][c] = SaidUpTo(r, k, c)
    <3>1. k \in Nat \ {0}
      BY <1>2
    <3>2. ParseFilterRule(P[k - 1], r[k])[c] = IF SpeaksOf(r[k], c) THEN r[k].level ELSE P[k - 1][c]
      BY <1>1, <2>1 DEF ParseFilterRule, SpeaksOf, ResetAll, SetClassLevel, ClassLevels
    <3> QED
      BY <2>1, <3>1, <3>2, SaidNext
  <2> QED
    BY <1>2, <2>2, <2>3
<1>6. n \in S
  <2> HIDE DEF S
  <2>1. \A k \in 0 .. n : k \in S
    BY <1>2, <1>4, <1>5, CountingUp
  <2> QED
    BY <1>2, <2>1
<1>7. \A c \in Classes : SaidUpTo(r, n, c) = LevelSaid(r, c)
  BY DEF SaidUpTo, LevelSaid, About, LastOf
<1>8. ParseFilterString(r) = P[n]
  BY DEF ParseFilterString, P
<1> QED
  BY <1>6, <1>7, <1>8

-----------------------------------------------------------------------------
\* How many messages of s repeat the one before, and how many do not.
Again(s) == Cardinality(Repeats(s, Len(s)))
Told(s) == Len(s) - Again(s)

\* The repeats are fewer than the places looked at.
LEMMA RepeatsFinite ==
  ASSUME NEW s, NEW k \in Nat
  PROVE  /\ IsFiniteSet(Repeats(s, k)) /\ Cardinality(Repeats(s, k)) \in Nat
         /\ k <= 1 => Repeats(s, k) = {} /\ Cardinality(Repeats(s, k)) = 0
         /\ k >= 1 => Cardinality(Repeats(s, k)) <= k - 1
<1>1. Repeats(s, k) \subseteq 2 .. k
  BY DEF Repeats
<1>2. IsFiniteSet(2 .. k) /\ Cardinality(2 .. k) = IF 2 > k THEN 0 ELSE k - 2 + 1
  BY FS_Interval
<1>3. IsFiniteSet(Repeats(s, k)) /\ Cardinality(Repeats(s, k)) <= Cardinality(2 .. k)
  BY <1>1, <1>2, FS_Subset
<1>4. Cardinality(Repeats(s, k)) \in Nat
  BY <1>3, FS_CardinalityType
<1>5. k <= 1 => Repeats(s, k) = {}
  BY <1>1
<1>6. Cardinality({}) = 0
  BY FS_EmptySet
<1> QED
  BY <1>2, <1>3, <1>4, <1>5, <1>6

\* Their number is a number.
LEMMA AgainIs ==
  ASSUME NEW S, NEW s \in Seq(S)
  PROVE  Again(s) \in Nat
<1>1. Len(s) \in Nat
  OBVIOUS
<1> QED
  BY <1>1, RepeatsFinite DEF Again

\* One more message is a repeat or it is not.
LEMMA RepeatsGrow ==
  ASSUME NEW S, NEW s \in Seq(S), NEW m \in S
  PROVE  /\ \A k \in 0 .. Len(s) : Repeats(Append(s, m), k) = Repeats(s, k)
         /\ Len(Append(s, m)) = Len(s) + 1
         /\ s # <<>> /\ m = s[Len(s)] =>
              Again(Append(s, m)) = Again(s) + 1 /\ Told(Append(s, m)) = Told(s)
         /\ s = <<>> \/ m # s[Len(s)] =>
              Again(Append(s, m)) = Again(s) /\ Told(Append(s, m)) = Told(s) + 1
<1> DEFINE n == Len(s)
           t == Append(s, m)
<1>1. n \in Nat /\ Len(t) = n + 1 /\ t[n + 1] = m /\ (\A k \in 1 .. n : t[k] = s[k]) /\ (s = <<>> <=> n = 0)
  OBVIOUS
<1> HIDE DEF n, t
<1>2. ASSUME NEW k \in 0 .. n
      PROVE  Repeats(t, k) = Repeats(s, k)
  <2>1. \A j \in 2 .. k : t[j] = s[j] /\ t[j - 1] = s[j - 1]
    BY <1>1
  <2> QED
    BY <2>1 DEF Repeats
<1>3. Repeats(t, n) = Repeats(s, n) /\ IsFiniteSet(Repeats(s, n)) /\ Cardinality(Repeats(s, n)) \in Nat
  BY <1>1, <1>2, RepeatsFinite
<1>4. n + 1 \notin Repeats(s, n)
  BY <1>1 DEF Repeats
<1>5. ASSUME n > 0, m = s[n]
      PROVE  Cardinality(Repeats(t, n + 1)) = Cardinality(Repeats(s, n)) + 1
  <2>1. t[n + 1] = t[(n + 1) - 1]
    BY <1>1, <1>5
  <2>2. Repeats(t, n + 1) = Repeats(t, n) \cup {n + 1}
    BY <1>1, <1>5, <2>1 DEF Repeats
  <2> QED
    BY <1>3, <1>4, <2>2, FS_AddElement
<1>6. ASSUME n = 0 \/ m # s[n]
      PROVE  Cardinality(Repeats(t, n + 1)) = Cardinality(Repeats(s, n))
  <2>1. n = 0 \/ t[n + 1] # t[(n + 1) - 1]
    BY <1>1, <1>6
  <2>2. Repeats(t, n + 1) = Repeats(t, n)
    BY <1>1, <2>1 DEF Repeats
  <2> QED
    BY <1>3, <2>2
<1>7. n = Len(s)
  BY DEF n
<1>8. Again(t) = Cardinality(Repeats(t, n + 1)) /\ Again(s) = Cardinality(Repeats(s, n))
  BY <1>1, <1>7 DEF Again
<1>9. Told(t) = (n + 1) - Again(t) /\ Told(s) = n - Again(s)
  BY <1>1, <1>7 DEF Told
<1> QED
  BY <1>1, <1>2, <1>3, <1>5, <1>6, <1>8, <1>9 DEF n, t

\* All that is told is there.
Covers(s, t) == \A n \in 1 .. Told(s) : t[n] \in Elements(s)

\* What is told is a place of t, and what s ends with.
LEMMA ToldIs ==
  ASSUME NEW S, NEW s \in Seq(S), NEW t \in Seq(S), Begins(s, t)
  PROVE  /\ Again(s) \in Nat /\ Told(s) \in 0 .. Len(t) /\ (Told(s) = 0 <=> s = <<>>)
         /\ s # <<>> => s[Len(s)] = t[Told(s)]
<1>1. Len(s) \in Nat /\ Len(t) \in Nat /\ (s = <<>> <=> Len(s) = 0)
  OBVIOUS
<1>2. Again(s) \in Nat /\ (Len(s) = 0 => Again(s) = 0) /\ (Len(s) >= 1 => Again(s) <= Len(s) - 1)
  BY <1>1, RepeatsFinite DEF Again
<1>3. Len(s) >= 1 => Told(s) <= Len(t) /\ s[Len(s)] = t[Told(s)]
  BY <1>1 DEF Begins, Told, Again
<1>4. Told(s) = Len(s) - Again(s)
  BY DEF Told
<1> QED
  BY <1>1, <1>2, <1>3, <1>4

\* The next message is written.
LEMMA WriteNext ==
  ASSUME NEW S, NEW s \in Seq(S), NEW t \in Seq(S), Begins(s, t), Covers(s, t),
         \A j, k \in 1 .. Len(t) : t[j] = t[k] => j = k,
         NEW m \in S, Told(s) < Len(t), m = t[Told(s) + 1]
  PROVE  LET u == Append(s, m) IN
         /\ Begins(u, t) /\ Covers(u, t)
         /\ Again(u) = Again(s) /\ Told(u) = Told(s) + 1
<1> DEFINE u == Append(s, m)
           d == Told(s)
<1>1. /\ Again(s) \in Nat /\ d \in 0 .. Len(t) /\ (d = 0 <=> s = <<>>)
      /\ s # <<>> => s[Len(s)] = t[d]
  BY ToldIs
<1>2. Len(s) \in Nat /\ Len(t) \in Nat /\ Len(u) = Len(s) + 1 /\ u[Len(s) + 1] = m
      /\ \A k \in 1 .. Len(s) : u[k] = s[k]
  OBVIOUS
<1>3. s = <<>> \/ m # s[Len(s)]
  <2>1. CASE s # <<>>
    <3>1. d \in 1 .. Len(t) /\ d + 1 \in 1 .. Len(t) /\ d # d + 1
      BY <1>1, <1>2, <2>1
    <3>2. t[d] # t[d + 1]
      BY <3>1
    <3> QED
      BY <1>1, <2>1, <3>2
  <2> QED
    BY <2>1
<1>4. Again(u) = Again(s) /\ Told(u) = d + 1 /\ \A k \in 0 .. Len(s) : Repeats(u, k) = Repeats(s, k)
  BY <1>3, RepeatsGrow
<1>5. Len(u) - Cardinality(Repeats(u, Len(u))) = d + 1
  BY <1>4 DEF Told, Again
<1> HIDE DEF u, d
<1>6. Begins(u, t)
  <2> SUFFICES ASSUME NEW k \in 1 .. Len(u)
               PROVE  /\ k - Cardinality(Repeats(u, k)) <= Len(t)
                      /\ u[k] = t[k - Cardinality(Repeats(u, k))]
    BY DEF Begins
  <2>1. CASE k \in 1 .. Len(s)
    <3>1. k - Cardinality(Repeats(s, k)) <= Len(t) /\ s[k] = t[k - Cardinality(Repeats(s, k))]
      BY <2>1 DEF Begins
    <3> QED
      BY <1>2, <1>4, <2>1, <3>1
  <2>2. CASE k = Len(u)
    BY <1>1, <1>2, <1>5, <2>2 DEF d
  <2> QED
    BY <1>2, <2>1, <2>2
<1>7. Covers(u, t)
  <2> SUFFICES ASSUME NEW n \in 1 .. d + 1
               PROVE  \E k \in 1 .. Len(u) : u[k] = t[n]
    BY <1>4 DEF Covers, Elements, u
  <2>1. CASE n \in 1 .. d
    <3>1. PICK k \in 1 .. Len(s) : s[k] = t[n]
      BY <2>1 DEF Covers, Elements, d
    <3> QED
      BY <1>2, <3>1
  <2>2. CASE n = d + 1
    BY <1>2, <2>2 DEF d
  <2> QED
    BY <1>1, <2>1, <2>2
<1> QED
  BY <1>4, <1>6, <1>7 DEF u, d

\* The last message is written again.
LEMMA WriteAgain ==
  ASSUME NEW S, NEW s \in Seq(S), NEW t \in Seq(S), Begins(s, t), Covers(s, t),
         s # <<>>, NEW m \in S, m = t[Told(s)]
  PROVE  LET u == Append(s, m) IN
         /\ Begins(u, t) /\ Covers(u, t)
         /\ Again(u) = Again(s) + 1 /\ Told(u) = Told(s)
<1> DEFINE u == Append(s, m)
           d == Told(s)
<1>1. Again(s) \in Nat /\ d \in 0 .. Len(t) /\ s[Len(s)] = t[d]
  BY ToldIs
<1>2. Len(s) \in Nat /\ Len(t) \in Nat /\ Len(u) = Len(s) + 1 /\ u[Len(s) + 1] = m
      /\ \A k \in 1 .. Len(s) : u[k] = s[k]
  OBVIOUS
<1>4. /\ Again(u) = Again(s) + 1 /\ Told(u) = d
      /\ \A k \in 0 .. Len(s) : Repeats(u, k) = Repeats(s, k)
  BY <1>1, RepeatsGrow
<1>5. Len(u) - Cardinality(Repeats(u, Len(u))) = d
  BY <1>4 DEF Told, Again
<1> HIDE DEF u, d
<1>6. Begins(u, t)
  <2> SUFFICES ASSUME NEW k \in 1 .. Len(u)
               PROVE  /\ k - Cardinality(Repeats(u, k)) <= Len(t)
                      /\ u[k] = t[k - Cardinality(Repeats(u, k))]
    BY DEF Begins
  <2>1. CASE k \in 1 .. Len(s)
    <3>1. k - Cardinality(Repeats(s, k)) <= Len(t) /\ s[k] = t[k - Cardinality(Repeats(s, k))]
      BY <2>1 DEF Begins
    <3> QED
      BY <1>2, <1>4, <2>1, <3>1
  <2>2. CASE k = Len(u)
    BY <1>1, <1>2, <1>5, <2>2 DEF d
  <2> QED
    BY <1>2, <2>1, <2>2
<1>7. Covers(u, t)
  <2> SUFFICES ASSUME NEW n \in 1 .. d
               PROVE  \E k \in 1 .. Len(u) : u[k] = t[n]
    BY <1>4 DEF Covers, Elements, u
  <2>1. PICK k \in 1 .. Len(s) : s[k] = t[n]
    BY DEF Covers, Elements, d
  <2> QED
    BY <1>2, <2>1
<1> QED
  BY <1>4, <1>6, <1>7 DEF u, d

\* One more message behind t changes nothing of what is told.
LEMMA BehindTheTold ==
  ASSUME NEW S, NEW s \in Seq(S), NEW t \in Seq(S), NEW m \in S, Begins(s, t), Covers(s, t)
  PROVE  Begins(s, Append(t, m)) /\ Covers(s, Append(t, m))
<1>1. Len(s) \in Nat /\ Len(t) \in Nat /\ Len(Append(t, m)) = Len(t) + 1
      /\ \A k \in 1 .. Len(t) : Append(t, m)[k] = t[k]
  OBVIOUS
<1>2. Told(s) \in 0 .. Len(t)
  BY ToldIs
<1>3. ASSUME NEW k \in 1 .. Len(s)
      PROVE  /\ k - Cardinality(Repeats(s, k)) <= Len(t) + 1
             /\ s[k] = Append(t, m)[k - Cardinality(Repeats(s, k))]
  <2>1. Cardinality(Repeats(s, k)) \in Nat /\ Cardinality(Repeats(s, k)) <= k - 1
    BY RepeatsFinite
  <2>2. k - Cardinality(Repeats(s, k)) <= Len(t) /\ s[k] = t[k - Cardinality(Repeats(s, k))]
    BY DEF Begins
  <2>3. k - Cardinality(Repeats(s, k)) \in 1 .. Len(t)
    BY <1>1, <2>1, <2>2
  <2> QED
    BY <1>1, <2>2, <2>3
<1>4. Begins(s, Append(t, m))
  BY <1>1, <1>3 DEF Begins
<1>5. Covers(s, Append(t, m))
  BY <1>1, <1>2 DEF Covers
<1> QED
  BY <1>4, <1>5

-----------------------------------------------------------------------------
\* The messages.
Messages == [id : Nat \ {0}, class : Classes, level : Levels]

\* The types.
LogTyped ==
  /\ async \in BOOLEAN /\ rules \in RuleStrings
  /\ main \in {"off", "up", "running", "joining"} /\ filter \in ClassLevels
  /\ queue \in Seq(Messages) /\ holds \in [Threads -> Messages \cup {None}]
  /\ log \in {"none", "loop", "wait", "write", "drain", "drainwrite", "ended"}
  /\ entry \in Messages \cup {None} /\ stop \in BOOLEAN /\ budget \in Nat
  /\ file \in Seq(Messages) /\ enabled \in BOOLEAN /\ bytes \in Nat
  /\ numbered \in 0 .. MaxMessages /\ starts \in Nat
  /\ sent \in Seq(Messages) /\ base \in Nat /\ base <= Len(file)

\* How many messages have left the queue.
Taken == Len(sent) - Len(queue)

\* The queue is the rest of what was sent.
Queued ==
  /\ Len(queue) <= Len(sent)
  /\ \A k \in 1 .. Len(queue) : queue[k] = sent[Taken + k]

\* No two messages that are sent or on their way have one number.
Numbered ==
  /\ \A k \in 1 .. Len(sent) : sent[k].id <= numbered
  /\ \A j, k \in 1 .. Len(sent) : sent[j].id = sent[k].id => j = k
  /\ \A t \in Threads : holds[t] # None =>
       /\ holds[t].id <= numbered
       /\ \A k \in 1 .. Len(sent) : sent[k].id # holds[t].id
       /\ \A u \in Threads : holds[u].id = holds[t].id => u = t

\* Who runs when: the log thread between Start and Join, and it leaves its loop
\* when it is told to.
Phases ==
  /\ (log = "none" <=> main \in {"off", "up"})
  /\ main = "running" => ~stop
  /\ main = "joining" => stop
  /\ log \in {"drain", "drainwrite", "ended"} => main = "joining"
  /\ main = "off" => \A t \in Threads : holds[t] = None
  /\ log # "none" /\ entry # None => Taken >= 1 /\ entry = sent[Taken]
  /\ log \in {"write", "drainwrite"} => entry # None
  /\ main # "off" => starts > 0

\* A log that is not asynchronous leaves the queue alone.
SyncApart == ~async => sent = <<>> /\ \A t \in Threads : holds[t] = None

\* Every message past the filter is of a level that the filter lets through.
Lets(m) == m.level >= LevelSaid(rules, m.class)
PastFilter ==
  main # "off" =>
    /\ filter = ParseFilterString(rules)
    /\ \A t \in Threads : holds[t] # None => Lets(holds[t])
    /\ \A k \in 1 .. Len(sent) : Lets(sent[k])
    /\ \A k \in 1 .. Len(Session) : Lets(Session[k])

\* Whether the message in hand may be the one written last.
MayRepeat == main = "running" \/ (main = "joining" /\ log \in {"wait", "write"})

\* What is in the file: all that was taken, unless the file is full, or the last of
\* it is in hand.
Written ==
  /\ Begins(Session, sent) /\ Covers(Session, sent)
  /\ bytes = Len(Session) /\ bytes <= WriteLimit + 1 /\ (enabled <=> bytes <= WriteLimit)
  /\ enabled =>
       /\ log \notin {"write", "drainwrite"} => Told(Session) = Taken
       /\ log = "drainwrite" => Told(Session) = Taken - 1
       /\ log = "write" => \/ Told(Session) = Taken - 1
                           \/ (Told(Session) = Taken /\ stop)
  /\ starts > 0 => Again(Session) + 1 <= starts
  /\ starts = 0 => Session = <<>>
  /\ MayRepeat => Again(Session) + 2 <= starts

\* What a stop owes are the first messages, and few enough of them are left.
Owes(n) ==
  /\ owed \subseteq {sent[k] : k \in 1 .. n}
  /\ main = "joining" /\ log \in {"loop", "wait", "write"} =>
       IsDebug(filter) \/ n <= Taken + MaxLogs
  /\ log \in {"drain", "drainwrite"} => n <= Taken + budget
  /\ log = "ended" \/ main = "up" => n <= Taken
Owing == \E n \in 0 .. Len(sent) : Owes(n)

\* The inductive invariant.
LogInv ==
  /\ LogTyped /\ Queued /\ Numbered /\ Phases /\ SyncApart /\ PastFilter
  /\ async => Written
  /\ Owing

-----------------------------------------------------------------------------
\* The bounds are numbers.
LEMMA LogConsts ==
  /\ MaxLogs \in Nat /\ WriteLimit \in Nat /\ MaxMessages \in Nat
  /\ Kinds \subseteq Classes \X Levels
BY LogAssumption

\* No message is None.
LEMMA NoneIsNoMessage == None \notin Messages /\ None.id = 0
<1>1. None.id = 0
  BY DEF None
<1>2. ASSUME None \in Messages PROVE FALSE
  <2>1. None.id \in Nat \ {0}
    BY <1>2 DEF Messages
  <2> QED
    BY <1>1, <2>1
<1> QED
  BY <1>1, <1>2

\* A sequence with one more element, as a sequence and as a function.
LEMMA Appended ==
  ASSUME NEW S, NEW s \in Seq(S), NEW m \in S
  PROVE  /\ Append(s, m) \in Seq(S) /\ Len(Append(s, m)) = Len(s) + 1 /\ Len(s) \in Nat
         /\ DOMAIN Append(s, m) = 1 .. Len(s) + 1
         /\ \A k \in 1 .. Len(s) : Append(s, m)[k] = s[k]
         /\ Append(s, m)[Len(s) + 1] = m
         /\ Append(s, m) = [k \in 1 .. Len(s) + 1 |-> IF k = Len(s) + 1 THEN m ELSE s[k]]
<1>1. /\ Append(s, m) \in Seq(S) /\ Len(Append(s, m)) = Len(s) + 1 /\ Len(s) \in Nat
      /\ \A k \in 1 .. Len(s) : Append(s, m)[k] = s[k]
      /\ Append(s, m)[Len(s) + 1] = m
  OBVIOUS
<1>2. Append(s, m) = [k \in 1 .. Len(s) + 1 |-> IF k = Len(s) + 1 THEN m ELSE s[k]]
  <2> DEFINE h == [k \in 1 .. Len(s) + 1 |-> IF k = Len(s) + 1 THEN m ELSE s[k]]
  <2>1. h \in Seq(S) /\ Len(h) = Len(s) + 1
    BY <1>1
  <2>2. \A k \in 1 .. Len(s) + 1 : h[k] = Append(s, m)[k]
    BY <1>1
  <2> HIDE DEF h
  <2>3. h = Append(s, m)
    BY <1>1, <2>1, <2>2, SeqEqual
  <2> QED
    BY <2>3 DEF h
<1>3. DOMAIN Append(s, m) = 1 .. Len(s) + 1
  BY <1>1
<1> QED
  BY <1>1, <1>2, <1>3

\* The session is a sequence of messages, and grows with the file.
LEMMA SessionIs ==
  ASSUME LogTyped
  PROVE  /\ Session \in Seq(Messages) /\ Len(Session) = Len(file) - base
         /\ \A m \in Messages : file' = Append(file, m) /\ base' = base
              => Session' = Append(Session, m)
<1>1. file \in Seq(Messages) /\ base \in Nat /\ base <= Len(file) /\ Len(file) \in Nat
  BY DEF LogTyped
<1>2. Session \in Seq(Messages) /\ Len(Session) = Len(file) - base
      /\ \A k \in 1 .. Len(Session) : Session[k] = file[base + k]
  <2>1. base + 1 \in 1 .. Len(file) + 1 /\ Len(file) \in base + 1 - 1 .. Len(file)
    BY <1>1
  <2>2. Session = [k \in 1 .. Len(file) - base |-> file[base + k]]
    BY <1>1 DEF Session
  <2>3. \A k \in 1 .. Len(file) - base : file[base + k] \in Messages
    BY <1>1
  <2>4. Len(file) - base \in Nat
    BY <1>1
  <2> QED
    BY <2>2, <2>3, <2>4
<1>3. ASSUME NEW m \in Messages, file' = Append(file, m), base' = base
      PROVE  Session' = Append(Session, m)
  <2>1. Len(file') = Len(file) + 1 /\ file' \in Seq(Messages)
        /\ (\A k \in 1 .. Len(file) : file'[k] = file[k]) /\ file'[Len(file) + 1] = m
    BY <1>1, <1>3
  <2>2. Session' = [k \in 1 .. Len(file) + 1 - base |-> file'[base + k]]
    BY <1>1, <1>3, <2>1 DEF Session
  <2>3. /\ Append(Session, m) = [k \in 1 .. Len(Session) + 1 |->
                                   IF k = Len(Session) + 1 THEN m ELSE Session[k]]
    BY <1>2, Appended
  <2>4. Len(Session) + 1 = Len(file) + 1 - base
    BY <1>1, <1>2
  <2>5. ASSUME NEW k \in 1 .. Len(file) + 1 - base
        PROVE  file'[base + k] = IF k = Len(Session) + 1 THEN m ELSE Session[k]
    <3>1. CASE k = Len(file) + 1 - base
      <4>1. base + k = Len(file) + 1 /\ k = Len(Session) + 1
        BY <1>1, <1>2, <3>1
      <4> QED
        BY <2>1, <4>1
    <3>2. CASE k # Len(file) + 1 - base
      <4> DEFINE n == Len(file)
      <4>1. n \in Nat /\ base \in Nat /\ k \in 1 .. n + 1 - base /\ k # n + 1 - base
        BY <1>1, <3>2
      <4> HIDE DEF n
      <4>2. k \in 1 .. n - base /\ base + k \in 1 .. n
        BY <4>1
      <4>3. k \in 1 .. Len(file) - base /\ base + k \in 1 .. Len(file)
        BY <4>2 DEF n
      <4>4. base + k \in 1 .. Len(file) /\ k \in 1 .. Len(Session) /\ k # Len(Session) + 1
        BY <1>1, <1>2, <4>1, <4>3
      <4> QED
        BY <1>2, <2>1, <4>4
    <3> QED
      BY <3>1, <3>2
  <2> QED
    BY <2>2, <2>3, <2>4, <2>5
<1> QED
  BY <1>2, <1>3

\* No more messages were sent than have numbers.
LEMMA FewSent ==
  ASSUME LogTyped, Numbered
  PROVE  Len(sent) <= numbered
<1> DEFINE n == Len(sent)
           f == [k \in 1 .. n |-> sent[k].id]
<1>0. n \in Nat /\ numbered \in Nat
  BY LogConsts DEF LogTyped
<1>1. ASSUME NEW k \in 1 .. n PROVE sent[k].id \in Nat \ {0}
  <2>1. sent[k] \in Messages
    BY DEF LogTyped
  <2> QED
    BY <2>1 DEF Messages
<1>2. f \in Injection(1 .. n, 1 .. numbered)
  <2>1. \A k \in 1 .. n : f[k] \in 1 .. numbered
    BY <1>0, <1>1 DEF Numbered
  <2>2. \A j, k \in 1 .. n : f[j] = f[k] => j = k
    BY DEF Numbered
  <2> QED
    BY <2>1, <2>2 DEF Injection, IsInjective
<1>3. Cardinality(1 .. n) = n /\ Cardinality(1 .. numbered) = numbered
      /\ IsFiniteSet(1 .. numbered)
  <2> HIDE DEF n
  <2>1. 1 \in Int /\ n \in Int /\ numbered \in Int
    BY <1>0
  <2>2. Cardinality(1 .. n) = IF 1 > n THEN 0 ELSE n - 1 + 1
    BY <2>1, FS_Interval
  <2>3. IsFiniteSet(1 .. numbered) /\ Cardinality(1 .. numbered) = IF 1 > numbered THEN 0 ELSE numbered - 1 + 1
    BY <2>1, FS_Interval
  <2> QED
    BY <1>0, <2>2, <2>3
<1>4. Cardinality(1 .. n) <= Cardinality(1 .. numbered)
  BY <1>2, <1>3, FS_Injection
<1> QED
  BY <1>3, <1>4

-----------------------------------------------------------------------------
\* What is kept when nothing is sent, taken or written.
LEMMA NothingMoves ==
  ASSUME LogInv, UNCHANGED <<queue, sent, holds, file, base, numbered, rules, filter, async, bytes, enabled>>
  PROVE  /\ Session' = Session /\ Taken' = Taken /\ Queued' /\ Numbered' /\ SyncApart'
<1>1. Session' = Session /\ Taken' = Taken
  BY DEF Session, Taken
<1>2. Queued'
  BY <1>1 DEF LogInv, Queued
<1>3. Numbered'
  BY DEF LogInv, Numbered
<1>4. SyncApart'
  BY DEF LogInv, SyncApart
<1> QED
  BY <1>1, <1>2, <1>3, <1>4

\* Initially the log is off and the file empty.
LEMMA LogInitHolds == LogInit => LogInv
<1> SUFFICES ASSUME LogInit PROVE LogInv
  OBVIOUS
<1>0. Info \in Levels /\ ResetAll(Info) \in ClassLevels
  BY DEF Info, Levels, Trace, Critical, ResetAll, ClassLevels
<1>1. LogTyped
  <2>1. <<>> \in Seq(Messages) /\ Len(<<>>) = 0 /\ 0 \in 0 .. MaxMessages
    BY LogConsts
  <2>2. [t \in Threads |-> None] \in [Threads -> Messages \cup {None}]
    OBVIOUS
  <2>3. /\ rules \in RuleStrings /\ async \in BOOLEAN /\ filter \in ClassLevels
        /\ holds \in [Threads -> Messages \cup {None}]
    BY <1>0, <2>2 DEF LogInit
  <2>4. queue \in Seq(Messages) /\ file \in Seq(Messages) /\ sent \in Seq(Messages)
        /\ base \in Nat /\ base <= Len(file) /\ numbered \in 0 .. MaxMessages
    BY <2>1 DEF LogInit
  <2> QED
    BY <2>3, <2>4 DEF LogInit, LogTyped
<1>2. Session \in Seq(Messages) /\ Len(Session) = 0
  BY <1>1, SessionIs DEF LogInit
<1>3. Session = <<>>
  BY <1>2
<1>4. Again(Session) = 0 /\ Told(Session) = 0
  BY <1>2, RepeatsFinite DEF Again, Told
<1>5. Taken = 0
  BY DEF Taken, LogInit
<1>6. Queued
  BY DEF LogInit, Queued
<1>7. Numbered
  BY DEF LogInit, Numbered
<1>8. Phases
  BY DEF LogInit, Phases
<1>9. SyncApart
  BY DEF LogInit, SyncApart
<1>10. PastFilter
  BY DEF LogInit, PastFilter
<1>11. Written
  <2>1. Begins(Session, sent) /\ Covers(Session, sent)
    BY <1>2, <1>4 DEF Begins, Covers
  <2> QED
    BY <1>2, <1>3, <1>4, <1>5, <2>1, LogConsts DEF LogInit, Written, MayRepeat
<1>12. Owing
  <2>1. Owes(0) /\ Len(sent) = 0
    BY <1>5 DEF LogInit, Owes
  <2> QED
    BY <2>1 DEF Owing
<1> QED
  BY <1>1, <1>6, <1>7, <1>8, <1>9, <1>10, <1>11, <1>12 DEF LogInv

\* Initialize begins a session: nothing is sent, nothing owed.
LEMMA InitializeKeeps ==
  ASSUME LogInv, Initialize
  PROVE  LogInv'
<1>0. LogTyped /\ Phases /\ SyncApart
  BY DEF LogInv
<1>1. LogTyped'
  <2>1. filter' \in ClassLevels
    BY <1>0, FilterIs DEF Initialize, LogTyped
  <2>2. file' \in Seq(Messages) /\ Len(file') \in Nat /\ base' = Len(file')
    BY <1>0 DEF Initialize, LogTyped
  <2> QED
    BY <1>0, <2>1, <2>2 DEF Initialize, LogTyped, settings, logVars
<1>2. Session' = <<>>
  <2>1. file' \in Seq(Messages) /\ base' = Len(file')
    BY <1>1 DEF Initialize, LogTyped
  <2>2. SubSeq(file', base' + 1, Len(file')) = <<>>
    BY <2>1
  <2> QED
    BY <2>2 DEF Session
<1>3. sent' = <<>> /\ queue' = <<>> /\ Taken' = 0
  BY DEF Initialize, Taken
<1>4. Queued'
  BY <1>3 DEF Queued
<1>5. \A t \in Threads : holds'[t] = None
  BY <1>0 DEF Initialize, Phases
<1>6. Numbered'
  BY <1>3, <1>5 DEF Numbered
<1>7. Phases'
  BY <1>0, <1>5 DEF Initialize, Phases, logVars, LogTyped
<1>8. SyncApart'
  BY <1>3, <1>5 DEF SyncApart
<1>9. PastFilter'
  BY <1>2, <1>3, <1>5 DEF Initialize, PastFilter, settings
<1>10. Again(Session') = 0 /\ Told(Session') = 0 /\ Len(Session') = 0
  <2>1. Again(<<>>) = 0 /\ Len(<<>>) = 0
    BY RepeatsFinite DEF Again
  <2> QED
    BY <1>2, <2>1 DEF Told
<1>11. Begins(Session', sent') /\ Covers(Session', sent')
  BY <1>10 DEF Begins, Covers
<1>12. Written'
  <2>1. log' = "none" /\ main' = "up" /\ starts' = starts + 1 /\ starts \in Nat
    BY <1>0 DEF Initialize, logVars, LogTyped, Phases
  <2>2. bytes' = 0 /\ enabled' = TRUE
    BY DEF Initialize
  <2> QED
    BY <1>3, <1>10, <1>11, <2>1, <2>2, LogConsts DEF Written, MayRepeat
<1>13. Owing'
  <2>1. owed' = {} /\ main' = "up" /\ log' = "none"
    BY <1>0 DEF Initialize, logVars, Phases
  <2>2. Owes(0)'
    BY <1>3, <2>1 DEF Owes
  <2> QED
    BY <1>3, <2>2 DEF Owing
<1> QED
  BY <1>1, <1>4, <1>6, <1>7, <1>8, <1>9, <1>12, <1>13 DEF LogInv

\* Start makes one more repeat possible.
LEMMA StartKeeps ==
  ASSUME LogInv, Start
  PROVE  LogInv'
<1>0. LogTyped /\ Phases /\ PastFilter /\ (async => Written)
  BY DEF LogInv
<1>1. /\ Session' = Session /\ Taken' = Taken /\ Queued' /\ Numbered' /\ SyncApart'
      /\ sent' = sent /\ holds' = holds /\ rules' = rules
  BY NothingMoves DEF Start, settings, queueVars, fileVars
<1>2. LogTyped'
  <2>1. starts' \in Nat /\ stop' \in BOOLEAN /\ entry' \in Messages \cup {None}
    <3>1. starts \in Nat
      BY <1>0 DEF LogTyped
    <3>2. starts' = starts + 1 /\ stop' = FALSE /\ entry' = None
      BY DEF Start
    <3>3. starts' \in Nat
      BY <3>1, <3>2
    <3>4. stop' \in BOOLEAN /\ entry' \in Messages \cup {None}
      BY <3>2
    <3> QED
      BY <3>3, <3>4
  <2>2. main' = "running" /\ log' = "loop"
    BY DEF Start
  <2> QED
    BY <1>0, <2>1, <2>2 DEF LogTyped, Start, settings, queueVars, fileVars
<1>3. Phases'
  BY <1>0, <1>1 DEF Phases, Start, LogTyped
<1>4. PastFilter'
  BY <1>0, <1>1 DEF PastFilter, Start, Lets
<1>5. async' => Written'
  <2> SUFFICES ASSUME async PROVE Written'
    BY DEF Start, settings
  <2>1. Again(Session) \in Nat
    BY <1>0, SessionIs, AgainIs
  <2>2. starts \in Nat /\ starts > 0 /\ starts' = starts + 1 /\ log = "none" /\ log' = "loop"
    BY <1>0 DEF Start, Phases, LogTyped
  <2>3. Told(Session') = Told(Session) /\ Again(Session') = Again(Session)
    BY <1>1
  <2>4. bytes' = bytes /\ enabled' = enabled
    BY DEF Start, fileVars
  <2>5. Again(Session) + 1 <= starts
    BY <1>0, <2>2 DEF Written
  <2>6. Again(Session') + 2 <= starts' /\ Again(Session') + 1 <= starts' /\ starts' # 0
    BY <2>1, <2>2, <2>3, <2>5
  <2> QED
    BY <1>0, <1>1, <2>2, <2>3, <2>4, <2>6 DEF Written
<1>6. Owing'
  <2>1. Owes(0)' /\ Len(sent') \in Nat
    BY <1>0, <1>1 DEF Owes, Start, LogTyped
  <2> QED
    BY <2>1 DEF Owing
<1> QED
  BY <1>1, <1>2, <1>3, <1>4, <1>5, <1>6 DEF LogInv

\* The stop owes the messages in the file, in hand and in the queue, or none.
LEMMA RequestStopKeeps ==
  ASSUME LogInv, RequestStop
  PROVE  LogInv'
<1>0. LogTyped /\ Phases /\ PastFilter /\ Queued /\ (async => Written)
  BY DEF LogInv
<1>1. /\ Session' = Session /\ Taken' = Taken /\ Queued' /\ Numbered' /\ SyncApart'
      /\ sent' = sent /\ holds' = holds /\ rules' = rules
  BY NothingMoves DEF RequestStop, settings, queueVars, fileVars
<1>2. LogTyped'
  BY <1>0 DEF LogTyped, RequestStop, settings, queueVars, fileVars, logVars
<1>3. Phases'
  BY <1>0, <1>1 DEF Phases, RequestStop, LogTyped, logVars
<1>4. PastFilter'
  BY <1>0, <1>1 DEF PastFilter, RequestStop, Lets
<1>5. async' => Written'
  BY <1>0, <1>1 DEF Written, MayRepeat, RequestStop, Phases, settings, fileVars, logVars, LogTyped
<1>6. Owing'
  <2>1. Len(sent) \in Nat /\ Len(queue) \in Nat /\ Len(queue) <= Len(sent)
        /\ Taken = Len(sent) - Len(queue) /\ MaxLogs \in Nat
    BY <1>0, LogConsts DEF LogTyped, Queued, Taken
  <2>2. /\ log' = log /\ filter' = filter /\ main' = "joining"
        /\ log \in {"loop", "wait", "write"}
    BY <1>0 DEF RequestStop, logVars, Phases, LogTyped
  <2>3. CASE IsDebug(filter) \/ Len(queue) <= MaxLogs
    <3>1. owed' = {sent[k] : k \in 1 .. Len(sent)}
      <4>1. owed' = Elements(sent)
        BY <2>3 DEF RequestStop
      <4>2. DOMAIN sent = 1 .. Len(sent)
        BY <1>0 DEF LogTyped
      <4> QED
        BY <4>1, <4>2 DEF Elements
    <3>2. IsDebug(filter') \/ Len(sent) <= Taken + MaxLogs
      BY <2>1, <2>2, <2>3
    <3>3. owed' \subseteq {sent'[k] : k \in 1 .. Len(sent)}
      BY <1>1, <3>1
    <3>4. Owes(Len(sent))'
      BY <1>1, <2>2, <3>2, <3>3 DEF Owes
    <3> QED
      BY <1>1, <2>1, <3>4 DEF Owing
  <2>4. CASE ~(IsDebug(filter) \/ Len(queue) <= MaxLogs)
    <3>1. owed' = {}
      BY <2>4 DEF RequestStop
    <3>2. Owes(0)'
      BY <1>1, <2>1, <2>2, <3>1 DEF Owes
    <3> QED
      BY <1>1, <2>1, <3>2 DEF Owing
  <2> QED
    BY <2>3, <2>4
<1> QED
  BY <1>1, <1>2, <1>3, <1>4, <1>5, <1>6 DEF LogInv

\* Join takes over what the log thread left.
LEMMA JoinKeeps ==
  ASSUME LogInv, Join
  PROVE  LogInv'
<1>0. LogTyped /\ Phases /\ PastFilter /\ Owing /\ (async => Written)
  BY DEF LogInv
<1>1. /\ Session' = Session /\ Taken' = Taken /\ Queued' /\ Numbered' /\ SyncApart'
      /\ sent' = sent /\ holds' = holds /\ rules' = rules
  BY NothingMoves DEF Join, settings, queueVars, fileVars
<1>2. LogTyped'
  BY <1>0 DEF LogTyped, Join, settings, queueVars, fileVars
<1>3. Phases'
  BY <1>0, <1>1 DEF Phases, Join
<1>4. PastFilter'
  BY <1>0, <1>1 DEF PastFilter, Join, Lets
<1>5. async' => Written'
  BY <1>0, <1>1 DEF Written, MayRepeat, Join, settings, fileVars
<1>6. Owing'
  BY <1>0, <1>1 DEF Owing, Owes, Join
<1> QED
  BY <1>1, <1>2, <1>3, <1>4, <1>5, <1>6 DEF LogInv

\* Denitializer leaves all but the phase.
LEMMA DenitializerKeeps ==
  ASSUME LogInv, Denitializer
  PROVE  LogInv'
<1>0. LogTyped /\ Phases /\ PastFilter /\ Owing /\ (async => Written)
  BY DEF LogInv
<1>1. /\ Session' = Session /\ Taken' = Taken /\ Queued' /\ Numbered' /\ SyncApart'
      /\ sent' = sent /\ holds' = holds /\ rules' = rules
  BY NothingMoves DEF Denitializer, settings, queueVars, fileVars
<1>2. LogTyped'
  BY <1>0 DEF LogTyped, Denitializer, settings, queueVars, fileVars, logVars
<1>3. Phases'
  BY <1>0, <1>1 DEF Phases, Denitializer, logVars
<1>4. PastFilter'
  BY DEF PastFilter, Denitializer
<1>5. async' => Written'
  BY <1>0, <1>1 DEF Written, MayRepeat, Denitializer, settings, fileVars, logVars
<1>6. Owing'
  BY <1>0, <1>1 DEF Owing, Owes, Denitializer, logVars, Phases
<1> QED
  BY <1>1, <1>2, <1>3, <1>4, <1>5, <1>6 DEF LogInv

-----------------------------------------------------------------------------
\* What EmplaceWait and Push do.
LEMMA EmplaceKeeps ==
  ASSUME LogInv, NEW t \in Threads, EmplaceWait(t)
  PROVE  LogInv'
<1> DEFINE m == holds[t]
           n == Len(sent)
<1>0. LogTyped /\ Phases /\ PastFilter /\ Queued /\ Numbered /\ SyncApart /\ Owing /\ (async => Written)
  BY DEF LogInv
<1>1. m \in Messages /\ m # None
  BY <1>0 DEF EmplaceWait, LogTyped
<1>2. /\ sent \in Seq(Messages) /\ queue \in Seq(Messages) /\ n \in Nat /\ Len(queue) \in Nat
      /\ sent' = Append(sent, m) /\ queue' = Append(queue, m)
      /\ holds' = [holds EXCEPT ![t] = None] /\ holds \in [Threads -> Messages \cup {None}]
  BY <1>0 DEF EmplaceWait, LogTyped
<1> HIDE DEF m, n
<1>3. /\ sent' \in Seq(Messages) /\ Len(sent') = n + 1 /\ sent'[n + 1] = m
      /\ \A k \in 1 .. n : sent'[k] = sent[k]
  BY <1>1, <1>2, Appended DEF n
<1>4. /\ queue' \in Seq(Messages) /\ Len(queue') = Len(queue) + 1 /\ queue'[Len(queue) + 1] = m
      /\ \A k \in 1 .. Len(queue) : queue'[k] = queue[k]
  BY <1>1, <1>2, Appended
<1>5. holds'[t] = None /\ \A u \in Threads : u # t => holds'[u] = holds[u]
  BY <1>2
<1>6. Taken' = Taken /\ Taken \in 0 .. n /\ Taken = n - Len(queue) /\ Session' = Session
  BY <1>0, <1>2, <1>3, <1>4 DEF Taken, Queued, n, Session, EmplaceWait, fileVars
<1>7. LogTyped'
  <2>1. holds' \in [Threads -> Messages \cup {None}]
    BY <1>2
  <2> QED
    BY <1>0, <1>3, <1>4, <2>1 DEF LogTyped, EmplaceWait, settings, logVars, fileVars
<1>8. Queued'
  <2>1. Len(queue') <= Len(sent')
    BY <1>2, <1>3, <1>4, <1>6
  <2>2. ASSUME NEW k \in 1 .. Len(queue')
        PROVE  queue'[k] = sent'[Taken + k]
    <3>1. CASE k \in 1 .. Len(queue)
      <4>1. queue[k] = sent[Taken + k] /\ Taken + k \in 1 .. n
        BY <1>0, <1>2, <1>6, <3>1 DEF Queued
      <4>2. sent'[Taken + k] = sent[Taken + k]
        BY <1>3, <4>1
      <4>3. queue'[k] = queue[k]
        BY <1>4, <3>1
      <4> QED
        BY <4>1, <4>2, <4>3
    <3>2. CASE k = Len(queue) + 1
      <4>1. Taken + k = n + 1
        BY <1>2, <1>6, <3>2
      <4>2. sent'[Taken + k] = m
        BY <1>3, <4>1
      <4>3. queue'[k] = m
        BY <1>4, <3>2
      <4> QED
        BY <4>2, <4>3
    <3>3. k \in 1 .. Len(queue) \/ k = Len(queue) + 1
      BY <1>2, <1>4
    <3> QED
      BY <3>1, <3>2, <3>3
  <2> QED
    BY <1>6, <2>1, <2>2 DEF Queued
<1>9. Numbered'
  <2>1. numbered' = numbered
    BY DEF EmplaceWait
  <2>2. m.id <= numbered /\ \A k \in 1 .. n : sent[k].id # m.id
    BY <1>0, <1>1 DEF Numbered, m, n
  <2>3. \A k \in 1 .. n : sent[k].id <= numbered
    BY <1>0 DEF Numbered, n
  <2>4. \A j, k \in 1 .. n : sent[j].id = sent[k].id => j = k
    BY <1>0 DEF Numbered, n
  <2>5. \A k \in 1 .. n + 1 : sent'[k].id <= numbered
    BY <1>2, <1>3, <2>2, <2>3
  <2>6. \A j, k \in 1 .. n + 1 : sent'[j].id = sent'[k].id => j = k
    BY <1>2, <1>3, <2>2, <2>4
  <2>7. ASSUME NEW u \in Threads, holds'[u] # None
        PROVE  /\ holds'[u].id <= numbered
               /\ \A k \in 1 .. n + 1 : sent'[k].id # holds'[u].id
               /\ \A w \in Threads : holds'[w].id = holds'[u].id => w = u
    <3>1. u # t /\ holds'[u] = holds[u] /\ holds[u] # None
      BY <1>5, <2>7
    <3>2. /\ holds[u].id <= numbered /\ \A k \in 1 .. n : sent[k].id # holds[u].id
          /\ \A w \in Threads : holds[w].id = holds[u].id => w = u
      BY <1>0, <3>1 DEF Numbered, n
    <3>3. m.id # holds[u].id
      BY <3>1, <3>2 DEF m
    <3>4. holds[u] \in Messages /\ holds[u].id # 0 /\ None.id = 0
      <4>1. holds[u] \in Messages
        BY <1>2, <3>1
      <4> QED
        BY <4>1, NoneIsNoMessage DEF Messages
    <3>5. \A w \in Threads : holds'[w].id = holds[u].id => w = u
      BY <1>5, <3>2, <3>4
    <3> QED
      BY <1>2, <1>3, <3>1, <3>2, <3>3, <3>5
  <2> QED
    BY <1>3, <2>1, <2>5, <2>6, <2>7 DEF Numbered
<1>10. Phases'
  <2>1. log # "none" /\ entry # None => Taken >= 1 /\ entry = sent'[Taken]
    BY <1>0, <1>2, <1>3, <1>6 DEF Phases
  <2>2. main = "off" => \A u \in Threads : holds'[u] = None
    BY <1>0, <1>5 DEF Phases
  <2> QED
    BY <1>0, <1>6, <2>1, <2>2 DEF Phases, EmplaceWait, logVars
<1>11. SyncApart'
  <2>1. async /\ async' = async
    BY <1>0, <1>1 DEF SyncApart, EmplaceWait, settings, m
  <2> QED
    BY <2>1 DEF SyncApart
<1>12. PastFilter'
  <2>1. main' = main /\ rules' = rules /\ filter' = filter
    BY DEF EmplaceWait, settings
  <2> SUFFICES ASSUME main # "off" PROVE PastFilter'
    BY <2>1 DEF PastFilter
  <2>2. Lets(m) /\ \A k \in 1 .. n : Lets(sent[k])
    BY <1>0, <1>1 DEF PastFilter, m, n
  <2>3. \A x : Lets(x)' <=> (x.level >= LevelSaid(rules, x.class))
    BY <2>1 DEF Lets
  <2>4. \A k \in 1 .. n + 1 : sent'[k].level >= LevelSaid(rules, sent'[k].class)
    BY <1>2, <1>3, <2>2 DEF Lets
  <2>5. \A u \in Threads : holds'[u] # None => holds'[u].level >= LevelSaid(rules, holds'[u].class)
    BY <1>0, <1>5 DEF PastFilter, Lets
  <2> QED
    BY <1>0, <1>3, <1>6, <2>1, <2>4, <2>5 DEF PastFilter, Lets
<1>13. async' => Written'
  <2> SUFFICES ASSUME async PROVE Written'
    BY DEF EmplaceWait, settings
  <2>1. Session \in Seq(Messages)
    BY <1>0, SessionIs
  <2>2. Begins(Session, sent') /\ Covers(Session, sent')
    BY <1>0, <1>1, <1>2, <2>1, BehindTheTold DEF Written
  <2> QED
    BY <1>0, <1>6, <2>2 DEF Written, MayRepeat, EmplaceWait, fileVars, logVars
<1>14. Owing'
  <2>1. PICK k \in 0 .. Len(sent) : Owes(k)
    BY <1>0 DEF Owing
  <2>2. {sent'[j] : j \in 1 .. k} = {sent[j] : j \in 1 .. k}
    <3>1. \A j \in 1 .. k : sent'[j] = sent[j]
      BY <1>2, <1>3 DEF n
    <3> QED
      BY <3>1
  <2>3. Owes(k)'
    BY <1>6, <2>1, <2>2 DEF Owes, EmplaceWait, logVars
  <2>4. k \in 0 .. Len(sent')
    BY <1>2, <1>3 DEF n
  <2> QED
    BY <2>3, <2>4 DEF Owing
<1> QED
  BY <1>7, <1>8, <1>9, <1>10, <1>11, <1>12, <1>13, <1>14 DEF LogInv

\* A new number, and the message on its way or in the file.
LEMMA PushKeeps ==
  ASSUME LogInv, NEW t \in Threads, NEW kind \in Kinds, Push(t, kind[1], kind[2])
  PROVE  LogInv'
<1> DEFINE m == [id |-> numbered', class |-> kind[1], level |-> kind[2]]
<1>0. LogTyped /\ Phases /\ PastFilter /\ Queued /\ Numbered /\ SyncApart /\ Owing /\ (async => Written)
  BY DEF LogInv
<1>1. /\ kind[1] \in Classes /\ kind[2] \in Levels
      /\ numbered \in Nat /\ numbered' = numbered + 1 /\ numbered' \in 1 .. MaxMessages
      /\ MaxMessages \in Nat /\ main # "off" /\ holds[t] = None
  BY <1>0, LogConsts DEF Push, LogTyped
<1>2. m \in Messages
  BY <1>1 DEF Messages
<1>3. m.level >= LevelSaid(rules, m.class)
  <2>1. filter = ParseFilterString(rules) /\ rules \in RuleStrings
    BY <1>0, <1>1 DEF PastFilter, LogTyped
  <2>2. filter[kind[1]] = LevelSaid(rules, kind[1])
    BY <1>1, <2>1, FilterIs
  <2>3. kind[2] >= filter[kind[1]]
    BY DEF Push, CheckMessage
  <2> QED
    BY <2>2, <2>3
<1>4. \/ async /\ holds' = [holds EXCEPT ![t] = m] /\ UNCHANGED fileVars
      \/ ~async /\ UNCHANGED holds /\ UNCHANGED fileVars
      \/ ~async /\ UNCHANGED holds /\ enabled /\ file' = Append(file, m)
         /\ bytes' \in {bytes, bytes + 1} /\ enabled' \in BOOLEAN
  BY <1>0 DEF Push, WriteUnlocked, Write, fileVars, LogTyped
<1>5. /\ sent' = sent /\ queue' = queue /\ base' = base /\ rules' = rules /\ filter' = filter
      /\ main' = main /\ log' = log /\ entry' = entry /\ stop' = stop /\ budget' = budget
      /\ async' = async /\ starts' = starts /\ owed' = owed
  BY DEF Push, settings, logVars
<1>6. m.id = numbered' /\ m # None /\ None.id = 0
  BY <1>2, NoneIsNoMessage
<1> HIDE DEF m
<1>7. Taken' = Taken /\ Queued'
  BY <1>0, <1>5 DEF Taken, Queued
<1>8. Owing'
  BY <1>0, <1>5, <1>7 DEF Owing, Owes
<1>9. CASE UNCHANGED holds
  <2>1. Session' = Session \/ Session' = Append(Session, m)
    BY <1>0, <1>2, <1>4, <1>5, SessionIs DEF Session, fileVars
  <2>2. LogTyped'
    <3>1. file' = file \/ file' = Append(file, m)
      BY <1>4 DEF fileVars
    <3>2. file' \in Seq(Messages) /\ Len(file') >= Len(file) /\ Len(file) \in Nat /\ Len(file') \in Nat
      BY <1>0, <1>2, <3>1 DEF LogTyped
    <3>3. base' \in Nat /\ base' <= Len(file')
      BY <1>0, <1>5, <3>2 DEF LogTyped
    <3>4. bytes' \in Nat
      BY <1>0, <1>4 DEF LogTyped, fileVars
    <3>5. enabled' \in BOOLEAN
      BY <1>0, <1>4 DEF LogTyped, fileVars
    <3>6. numbered' \in 0 .. MaxMessages
      BY <1>1
    <3> QED
      BY <1>0, <1>5, <1>9, <3>2, <3>3, <3>4, <3>5, <3>6 DEF LogTyped
  <2>3. Numbered'
    <3>1. \A k \in 1 .. Len(sent) : sent[k].id \in Nat /\ sent[k].id <= numbered
      <4> SUFFICES ASSUME NEW k \in 1 .. Len(sent) PROVE sent[k].id \in Nat /\ sent[k].id <= numbered
        OBVIOUS
      <4>1. sent[k] \in Messages
        BY <1>0 DEF LogTyped
      <4> QED
        BY <1>0, <4>1 DEF Messages, Numbered
    <3>2. \A k \in 1 .. Len(sent) : sent[k].id <= numbered'
      BY <1>1, <3>1
    <3>3. \A u \in Threads : holds[u] # None => holds[u].id <= numbered'
      <4> SUFFICES ASSUME NEW u \in Threads, holds[u] # None PROVE holds[u].id <= numbered'
        OBVIOUS
      <4>1. holds[u] \in Messages
        BY <1>0 DEF LogTyped
      <4>2. holds[u].id \in Nat /\ holds[u].id <= numbered
        BY <1>0, <4>1 DEF Messages, Numbered
      <4> QED
        BY <1>1, <4>2
    <3> QED
      BY <1>0, <1>5, <1>9, <3>2, <3>3 DEF Numbered
  <2>4. Phases'
    BY <1>0, <1>5, <1>7, <1>9 DEF Phases
  <2>5. SyncApart'
    BY <1>0, <1>5, <1>9 DEF SyncApart
  <2>6. PastFilter'
    <3>1. \A k \in 1 .. Len(Session) : Lets(Session[k])
      BY <1>0, <1>1 DEF PastFilter
    <3>2. \A k \in 1 .. Len(Session') : Session'[k].level >= LevelSaid(rules, Session'[k].class)
      <4>1. CASE Session' = Session
        BY <3>1, <4>1 DEF Lets
      <4>2. CASE Session' = Append(Session, m)
        <5>1. /\ Len(Session') = Len(Session) + 1 /\ Len(Session) \in Nat
              /\ (\A k \in 1 .. Len(Session) : Session'[k] = Session[k]) /\ Session'[Len(Session) + 1] = m
          BY <1>0, <1>2, <4>2, SessionIs, Appended
        <5>2. ASSUME NEW k \in 1 .. Len(Session')
              PROVE  Session'[k].level >= LevelSaid(rules, Session'[k].class)
          <6>1. CASE k \in 1 .. Len(Session)
            BY <3>1, <5>1, <6>1 DEF Lets
          <6>2. CASE k = Len(Session) + 1
            BY <1>3, <5>1, <6>2
          <6>3. k \in 1 .. Len(Session) \/ k = Len(Session) + 1
            BY <5>1
          <6> QED
            BY <6>1, <6>2, <6>3
        <5> QED
          BY <5>2
      <4> QED
        BY <2>1, <4>1, <4>2
    <3> QED
      BY <1>0, <1>1, <1>5, <1>9, <3>2 DEF PastFilter, Lets
  <2>7. async' => Written'
    <3> SUFFICES ASSUME async PROVE Written'
      BY <1>5
    <3>1. UNCHANGED fileVars
      BY <1>4
    <3>2. Session' = Session
      BY <1>5, <3>1 DEF Session, fileVars
    <3> QED
      BY <1>0, <1>5, <1>7, <3>1, <3>2 DEF Written, MayRepeat, fileVars
  <2> QED
    BY <1>7, <1>8, <2>2, <2>3, <2>4, <2>5, <2>6, <2>7 DEF LogInv
<1>10. CASE async /\ holds' = [holds EXCEPT ![t] = m] /\ UNCHANGED fileVars
  <2>1. Session' = Session
    BY <1>5, <1>10 DEF Session, fileVars
  <2>2. holds \in [Threads -> Messages \cup {None}]
    BY <1>0 DEF LogTyped
  <2>3. holds'[t] = m /\ \A u \in Threads : u # t => holds'[u] = holds[u]
    BY <1>10, <2>2
  <2>4. LogTyped'
    <3>1. holds' \in [Threads -> Messages \cup {None}] /\ numbered' \in 0 .. MaxMessages
      BY <1>1, <1>2, <1>10, <2>2
    <3> QED
      BY <1>0, <1>5, <1>10, <3>1 DEF LogTyped, fileVars
  <2>5. Numbered'
    <3>1. ASSUME NEW k \in 1 .. Len(sent)
          PROVE  sent[k].id <= numbered' /\ sent[k].id # numbered'
      <4>1. sent[k] \in Messages
        BY <1>0 DEF LogTyped
      <4>2. sent[k].id \in Nat /\ sent[k].id <= numbered
        BY <1>0, <4>1 DEF Messages, Numbered
      <4> QED
        BY <1>1, <4>2
    <3>2. ASSUME NEW u \in Threads
          PROVE  holds[u].id <= numbered' /\ holds[u].id # numbered'
      <4>1. CASE holds[u] = None
        BY <1>1, <1>6, <4>1
      <4>2. CASE holds[u] # None
        <5>1. holds[u] \in Messages
          BY <2>2, <4>2
        <5>2. holds[u].id \in Nat /\ holds[u].id <= numbered
          BY <1>0, <4>2, <5>1 DEF Messages, Numbered
        <5> QED
          BY <1>1, <5>2
      <4> QED
        BY <4>1, <4>2
    <3>3. ASSUME NEW u \in Threads, holds'[u] # None
          PROVE  /\ holds'[u].id <= numbered'
                 /\ \A k \in 1 .. Len(sent) : sent[k].id # holds'[u].id
                 /\ \A w \in Threads : holds'[w].id = holds'[u].id => w = u
      <4>1. CASE u = t
        <5>1. holds'[u].id = numbered'
          BY <1>6, <2>3, <4>1
        <5>2. \A w \in Threads : holds'[w].id = holds'[u].id => w = u
          BY <2>3, <3>2, <4>1, <5>1
        <5> QED
          BY <1>1, <3>1, <5>1, <5>2
      <4>2. CASE u # t
        <5>1. holds'[u] = holds[u] /\ holds[u] # None
          BY <2>3, <3>3, <4>2
        <5>2. /\ \A k \in 1 .. Len(sent) : sent[k].id # holds[u].id
              /\ \A w \in Threads : holds[w].id = holds[u].id => w = u
          BY <1>0, <5>1 DEF Numbered
        <5>3. \A w \in Threads : holds'[w].id = holds[u].id => w = u
          BY <1>6, <2>3, <3>2, <5>2
        <5> QED
          BY <3>2, <5>1, <5>2, <5>3
      <4> QED
        BY <4>1, <4>2
    <3> QED
      BY <1>0, <1>5, <3>1, <3>3 DEF Numbered
  <2>6. Phases'
    BY <1>0, <1>1, <1>5, <1>7 DEF Phases
  <2>7. SyncApart'
    BY <1>5, <1>10 DEF SyncApart
  <2>8. PastFilter'
    <3>1. \A u \in Threads : holds'[u] # None => holds'[u].level >= LevelSaid(rules, holds'[u].class)
      BY <1>0, <1>1, <1>3, <2>3 DEF PastFilter, Lets
    <3> QED
      BY <1>0, <1>1, <1>5, <2>1, <3>1 DEF PastFilter, Lets
  <2>9. async' => Written'
    BY <1>0, <1>5, <1>7, <1>10, <2>1 DEF Written, MayRepeat, fileVars
  <2> QED
    BY <1>7, <1>8, <2>4, <2>5, <2>6, <2>7, <2>8, <2>9 DEF LogInv
<1> QED
  BY <1>4, <1>9, <1>10

-----------------------------------------------------------------------------
\* The log thread.
LEMMA LoopKeeps ==
  ASSUME LogInv, LogThread, LogLoop
  PROVE  LogInv'
<1>0. LogTyped /\ Phases /\ PastFilter /\ Queued /\ Numbered /\ Owing /\ (async => Written)
  BY DEF LogInv
<1>1. /\ log = "loop" /\ entry' = entry /\ queue' = queue /\ UNCHANGED fileVars
      /\ async' = async /\ rules' = rules /\ main' = main /\ filter' = filter /\ holds' = holds
      /\ stop' = stop /\ numbered' = numbered /\ starts' = starts /\ sent' = sent /\ base' = base
      /\ owed' = owed
  BY DEF LogThread, LogLoop, settings
<1>2. Session' = Session /\ Taken' = Taken /\ Queued' /\ Numbered' /\ SyncApart'
  BY <1>1, NothingMoves DEF fileVars
<1>3. main \in {"running", "joining"} /\ (main = "joining" <=> stop)
  BY <1>0, <1>1 DEF Phases, LogTyped
<1>4. /\ stop => log' = "drain" /\ budget' = IF IsDebug(filter) THEN MaxMessages + 1 ELSE MaxLogs
      /\ ~stop => log' = "wait" /\ budget' = budget
  BY DEF LogLoop
<1>5. LogTyped'
  <2>1. budget' \in Nat
    BY <1>0, <1>4, LogConsts DEF LogTyped
  <2>2. log' \in {"wait", "drain"}
    BY <1>4
  <2> QED
    BY <1>0, <1>1, <2>1, <2>2 DEF LogTyped, fileVars
<1>6. Phases'
  BY <1>0, <1>1, <1>2, <1>3, <1>4 DEF Phases
<1>7. PastFilter'
  BY <1>0, <1>1, <1>2 DEF PastFilter, Lets
<1>8. async' => Written'
  BY <1>0, <1>1, <1>2, <1>3, <1>4 DEF Written, MayRepeat, fileVars
<1>9. Owing'
  <2>1. PICK n \in 0 .. Len(sent) : Owes(n)
    BY <1>0 DEF Owing
  <2>2. stop => n <= Taken + budget'
    <3>1. Len(sent) <= numbered /\ numbered <= MaxMessages /\ MaxMessages \in Nat /\ MaxLogs \in Nat
          /\ numbered \in Nat
      BY <1>0, FewSent, LogConsts DEF LogTyped
    <3>2. Taken = Len(sent) - Len(queue) /\ Len(sent) \in Nat /\ Len(queue) \in Nat /\ Len(queue) <= Len(sent)
      BY <1>0 DEF Taken, LogTyped, Queued
    <3>3. stop => IsDebug(filter) \/ n <= Taken + MaxLogs
      BY <1>1, <1>3, <2>1 DEF Owes
    <3>4. CASE IsDebug(filter)
      BY <1>4, <3>1, <3>2, <3>4
    <3>5. CASE ~IsDebug(filter)
      BY <1>4, <3>3, <3>5
    <3> QED
      BY <3>4, <3>5
  <2>3. Owes(n)'
    BY <1>1, <1>2, <1>3, <1>4, <2>1, <2>2 DEF Owes
  <2> QED
    BY <1>1, <2>3 DEF Owing
<1> QED
  BY <1>2, <1>5, <1>6, <1>7, <1>8, <1>9 DEF LogInv

\* One message leaves the queue.
LEMMA TakeOne ==
  ASSUME LogInv, queue # <<>>, queue' = Tail(queue), entry' = Head(queue), sent' = sent
  PROVE  /\ queue' \in Seq(Messages) /\ entry' \in Messages /\ entry' # None
         /\ Taken \in Nat /\ Taken' = Taken + 1 /\ Taken' <= Len(sent)
         /\ Len(sent) \in Nat /\ entry' = sent[Taken'] /\ Queued'
<1>1. LogTyped /\ Queued
  BY DEF LogInv
<1>2. /\ queue \in Seq(Messages) /\ sent \in Seq(Messages) /\ Len(queue) \in Nat /\ Len(queue) >= 1
      /\ Len(sent) \in Nat /\ Len(queue) <= Len(sent)
  BY <1>1 DEF LogTyped, Queued
<1>3. /\ queue' \in Seq(Messages) /\ Len(queue') = Len(queue) - 1 /\ entry' = queue[1]
      /\ entry' \in Messages /\ \A k \in 1 .. Len(queue) - 1 : queue'[k] = queue[k + 1]
  BY <1>2
<1>4. entry' # None
  BY <1>3, NoneIsNoMessage
<1>5. Taken = Len(sent) - Len(queue) /\ Taken' = Len(sent) - Len(queue')
  BY DEF Taken
<1>6. Taken \in Nat /\ Taken' = Taken + 1 /\ Taken' <= Len(sent)
  BY <1>2, <1>3, <1>5
<1>7. entry' = sent[Taken']
  BY <1>1, <1>2, <1>3, <1>6 DEF Queued
<1>8. Queued'
  <2>1. ASSUME NEW k \in 1 .. Len(queue')
        PROVE  queue'[k] = sent[Taken' + k]
    <3>1. k \in 1 .. Len(queue) - 1 /\ k + 1 \in 1 .. Len(queue) /\ Taken' + k = Taken + (k + 1)
      BY <1>2, <1>3, <1>6
    <3>2. queue[k + 1] = sent[Taken + (k + 1)]
      BY <1>1, <3>1 DEF Queued
    <3> QED
      BY <1>3, <3>1, <3>2
  <2>2. Len(queue') <= Len(sent)
    BY <1>2, <1>3
  <2> QED
    BY <2>1, <2>2 DEF Queued
<1> QED
  BY <1>2, <1>3, <1>4, <1>6, <1>7, <1>8

\* PopWait brings a message, or ends with the stop and the last entry in hand.
LEMMA PopKeeps ==
  ASSUME LogInv, LogThread, PopWait
  PROVE  LogInv'
<1>0. LogTyped /\ Phases /\ PastFilter /\ Queued /\ Numbered /\ SyncApart /\ Owing /\ (async => Written)
  BY DEF LogInv
<1>1. /\ log = "wait" /\ budget' = budget /\ UNCHANGED fileVars
      /\ async' = async /\ rules' = rules /\ main' = main /\ filter' = filter /\ holds' = holds
      /\ stop' = stop /\ numbered' = numbered /\ starts' = starts /\ sent' = sent /\ base' = base
      /\ owed' = owed
      /\ log' = IF entry' # None THEN "write" ELSE "loop"
  BY DEF LogThread, PopWait, settings
<1>2. Session' = Session /\ Numbered' /\ SyncApart' /\ PastFilter'
  <2>1. Session' = Session
    BY <1>1 DEF Session, fileVars
  <2>2. Numbered'
    BY <1>0, <1>1 DEF Numbered
  <2>3. SyncApart'
    BY <1>0, <1>1 DEF SyncApart
  <2> QED
    BY <1>0, <1>1, <2>1, <2>2, <2>3 DEF PastFilter, Lets
<1>3. main \in {"running", "joining"} /\ (main = "joining" <=> stop) /\ starts > 0
  BY <1>0, <1>1 DEF Phases, LogTyped
<1>4. CASE stop
  <2>1. entry' = entry /\ queue' = queue /\ Taken' = Taken
    BY <1>1, <1>4 DEF PopWait, Taken
  <2>2. LogTyped'
    BY <1>0, <1>1, <2>1 DEF LogTyped, fileVars
  <2>3. Queued'
    BY <1>0, <1>1, <2>1 DEF Queued
  <2>4. Phases'
    BY <1>0, <1>1, <1>3, <1>4, <2>1 DEF Phases
  <2>5. async' => Written'
    BY <1>0, <1>1, <1>2, <1>3, <1>4, <2>1 DEF Written, MayRepeat, fileVars
  <2>6. Owing'
    BY <1>0, <1>1, <2>1 DEF Owing, Owes
  <2> QED
    BY <1>2, <2>2, <2>3, <2>4, <2>5, <2>6 DEF LogInv
<1>5. CASE ~stop
  <2>1. queue # <<>> /\ entry' = Head(queue) /\ queue' = Tail(queue)
    BY <1>5 DEF PopWait
  <2>2. /\ queue' \in Seq(Messages) /\ entry' \in Messages /\ entry' # None
        /\ Taken \in Nat /\ Taken' = Taken + 1 /\ Taken' <= Len(sent)
        /\ Len(sent) \in Nat /\ entry' = sent[Taken'] /\ Queued'
    BY <1>1, <2>1, TakeOne
  <2>3. log' = "write" /\ main = "running"
    BY <1>1, <1>3, <1>5, <2>2
  <2>4. LogTyped'
    BY <1>0, <1>1, <2>2, <2>3 DEF LogTyped, fileVars
  <2>5. Phases'
    <3>1. Taken' >= 1
      BY <2>2
    <3> QED
      BY <1>0, <1>1, <1>5, <2>2, <2>3, <3>1 DEF Phases
  <2>6. async' => Written'
    <3>1. async /\ enabled => Told(Session) = Taken' - 1
      BY <1>0, <1>1, <2>2 DEF Written
    <3> QED
      BY <1>0, <1>1, <1>2, <2>3, <3>1 DEF Written, MayRepeat, fileVars
  <2>7. Owing'
    BY <1>0, <1>1, <2>3 DEF Owing, Owes
  <2> QED
    BY <1>2, <2>2, <2>4, <2>5, <2>6, <2>7 DEF LogInv
<1> QED
  BY <1>4, <1>5

\* Each message that is drained is one less owed.
LEMMA DrainKeeps ==
  ASSUME LogInv, LogThread, LogDrain
  PROVE  LogInv'
<1>0. LogTyped /\ Phases /\ PastFilter /\ Queued /\ Numbered /\ SyncApart /\ Owing /\ (async => Written)
  BY DEF LogInv
<1>1. /\ log = "drain" /\ UNCHANGED fileVars
      /\ async' = async /\ rules' = rules /\ main' = main /\ filter' = filter /\ holds' = holds
      /\ stop' = stop /\ numbered' = numbered /\ starts' = starts /\ sent' = sent /\ base' = base
      /\ owed' = owed
  BY DEF LogThread, LogDrain, settings
<1>2. Session' = Session /\ Numbered' /\ SyncApart' /\ PastFilter'
  <2>1. Session' = Session
    BY <1>1 DEF Session, fileVars
  <2>2. Numbered'
    BY <1>0, <1>1 DEF Numbered
  <2>3. SyncApart'
    BY <1>0, <1>1 DEF SyncApart
  <2> QED
    BY <1>0, <1>1, <2>1, <2>2, <2>3 DEF PastFilter, Lets
<1>3. main = "joining" /\ stop
  BY <1>0, <1>1 DEF Phases
<1>4. PICK n \in 0 .. Len(sent) : Owes(n)
  BY <1>0 DEF Owing
<1>5. n <= Taken + budget /\ owed \subseteq {sent[k] : k \in 1 .. n} /\ budget \in Nat
  BY <1>0, <1>1, <1>4 DEF Owes, LogTyped
<1>6. CASE budget > 0 /\ queue # <<>>
  <2>1. entry' = Head(queue) /\ queue' = Tail(queue) /\ budget' = budget - 1 /\ log' = "drainwrite"
    BY <1>6 DEF LogDrain
  <2>2. /\ queue' \in Seq(Messages) /\ entry' \in Messages /\ entry' # None
        /\ Taken \in Nat /\ Taken' = Taken + 1 /\ Taken' <= Len(sent)
        /\ Len(sent) \in Nat /\ entry' = sent[Taken'] /\ Queued'
    BY <1>1, <1>6, <2>1, TakeOne
  <2>3. LogTyped'
    <3>1. budget' \in Nat
      BY <1>5, <1>6, <2>1
    <3> QED
      BY <1>0, <1>1, <2>1, <2>2, <3>1 DEF LogTyped, fileVars
  <2>4. Phases'
    <3>1. Taken' >= 1
      BY <2>2
    <3> QED
      BY <1>0, <1>1, <1>3, <2>1, <2>2, <3>1 DEF Phases
  <2>5. async' => Written'
    <3>1. async /\ enabled => Told(Session) = Taken' - 1
      BY <1>0, <1>1, <2>2 DEF Written
    <3> QED
      BY <1>0, <1>1, <1>2, <1>3, <2>1, <3>1 DEF Written, MayRepeat, fileVars
  <2>6. Owing'
    <3>1. n <= Taken' + budget'
      BY <1>5, <1>6, <2>1, <2>2
    <3>2. Owes(n)'
      BY <1>1, <1>3, <1>5, <2>1, <3>1 DEF Owes
    <3> QED
      BY <1>1, <3>2 DEF Owing
  <2> QED
    BY <1>2, <2>2, <2>3, <2>4, <2>5, <2>6 DEF LogInv
<1>7. CASE ~(budget > 0 /\ queue # <<>>)
  <2>1. entry' = entry /\ queue' = queue /\ budget' = budget /\ log' = "ended" /\ Taken' = Taken
    BY <1>1, <1>7 DEF LogDrain, Taken
  <2>2. n <= Taken
    <3>1. Taken = Len(sent) - Len(queue) /\ Len(sent) \in Nat /\ Len(queue) \in Nat
          /\ (queue = <<>> => Len(queue) = 0)
      BY <1>0 DEF Taken, LogTyped
    <3> QED
      BY <1>5, <1>7, <3>1
  <2>3. LogTyped'
    BY <1>0, <1>1, <2>1 DEF LogTyped, fileVars
  <2>4. Queued'
    BY <1>0, <1>1, <2>1 DEF Queued
  <2>5. Phases'
    BY <1>0, <1>1, <1>3, <2>1 DEF Phases
  <2>6. async' => Written'
    BY <1>0, <1>1, <1>2, <1>3, <2>1 DEF Written, MayRepeat, fileVars
  <2>7. Owing'
    <3>1. Owes(n)'
      BY <1>1, <1>3, <1>5, <2>1, <2>2 DEF Owes
    <3> QED
      BY <1>1, <3>1 DEF Owing
  <2> QED
    BY <1>2, <2>3, <2>4, <2>5, <2>6, <2>7 DEF LogInv
<1> QED
  BY <1>6, <1>7

\* The message in hand goes to the file, unless that is full.
LEMMA WriteKeeps ==
  ASSUME LogInv, LogThread, LogWrite
  PROVE  LogInv'
<1>0. LogTyped /\ Phases /\ PastFilter /\ Queued /\ Numbered /\ SyncApart /\ Owing /\ (async => Written)
  BY DEF LogInv
<1>1. /\ log \in {"write", "drainwrite"} /\ log' = (IF log = "write" THEN "loop" ELSE "drain")
      /\ entry' = entry /\ queue' = queue /\ budget' = budget /\ Write(entry)
      /\ async' = async /\ rules' = rules /\ main' = main /\ filter' = filter /\ holds' = holds
      /\ stop' = stop /\ numbered' = numbered /\ starts' = starts /\ sent' = sent /\ base' = base
      /\ owed' = owed
  BY DEF LogThread, LogWrite, settings
<1>2. Taken' = Taken /\ Queued' /\ Numbered' /\ SyncApart'
  <2>1. Taken' = Taken
    BY <1>1 DEF Taken
  <2>2. Queued'
    BY <1>0, <1>1, <2>1 DEF Queued
  <2>3. Numbered'
    BY <1>0, <1>1 DEF Numbered
  <2>4. SyncApart'
    BY <1>0, <1>1 DEF SyncApart
  <2> QED
    BY <2>1, <2>2, <2>3, <2>4
<1>3. /\ entry # None /\ Taken >= 1 /\ entry = sent[Taken] /\ main \in {"running", "joining"}
      /\ (main = "joining" <=> stop) /\ starts > 0 /\ (log = "drainwrite" => main = "joining")
  BY <1>0, <1>1 DEF Phases, LogTyped
<1>4. /\ Len(sent) \in Nat /\ Len(queue) \in Nat /\ Taken = Len(sent) - Len(queue) /\ Taken \in 1 .. Len(sent)
      /\ entry \in Messages /\ starts \in Nat
  BY <1>0, <1>3 DEF LogTyped, Queued, Taken
<1>5. async
  <2> SUFFICES ASSUME ~async PROVE FALSE
    OBVIOUS
  <2>1. sent = <<>>
    BY <1>0 DEF SyncApart
  <2>2. Len(sent) = 0
    BY <2>1
  <2> QED
    BY <1>4, <2>2
<1>6. Phases'
  BY <1>0, <1>1, <1>2, <1>3 DEF Phases
<1>7. Owing'
  BY <1>0, <1>1, <1>2 DEF Owing, Owes
<1>8. Session \in Seq(Messages) /\ sent \in Seq(Messages) /\ Written
      /\ Begins(Session, sent) /\ Covers(Session, sent) /\ Len(Session) \in Nat
      /\ \A j, k \in 1 .. Len(sent) : sent[j] = sent[k] => j = k
  <2>1. Session \in Seq(Messages)
    BY <1>0, SessionIs
  <2> QED
    BY <1>0, <1>5, <2>1 DEF Written, LogTyped, Numbered
<1>9. Told(Session) \in 0 .. Len(sent) /\ (Told(Session) = 0 <=> Session = <<>>) /\ Again(Session) \in Nat
  BY <1>8, ToldIs
<1>10. CASE ~enabled
  <2>1. UNCHANGED fileVars
    BY <1>1, <1>10 DEF Write
  <2>2. Session' = Session
    BY <1>1, <2>1 DEF Session, fileVars
  <2>3. LogTyped'
    BY <1>0, <1>1, <2>1 DEF LogTyped, fileVars
  <2>4. PastFilter'
    BY <1>0, <1>1, <2>2 DEF PastFilter, Lets
  <2>5. Written'
    BY <1>1, <1>8, <1>10, <2>1, <2>2 DEF Written, MayRepeat, fileVars
  <2> QED
    BY <1>2, <1>6, <1>7, <2>3, <2>4, <2>5 DEF LogInv
<1>11. CASE enabled
  <2>1. file' = Append(file, entry) /\ bytes' = bytes + 1 /\ (enabled' <=> bytes' <= WriteLimit)
        /\ enabled' \in BOOLEAN
    <3>1. Write(entry)
      BY <1>1
    <3>2. file' = Append(file, entry) /\ bytes' = bytes + 1
      BY <1>11, <3>1 DEF Write
    <3>3. enabled' = (bytes' <= WriteLimit)
      BY <1>11, <3>1, Zenon DEF Write
    <3>4. CASE bytes' <= WriteLimit
      <4>1. enabled' = TRUE
        BY <3>3, <3>4, Zenon
      <4> QED
        BY <3>2, <3>4, <4>1
    <3>5. CASE ~(bytes' <= WriteLimit)
      <4>1. enabled' = FALSE
        <5>1. (bytes' <= WriteLimit) = FALSE
          BY <3>5
        <5> QED
          BY <3>3, <5>1, Zenon
      <4> QED
        BY <3>2, <3>5, <4>1
    <3> QED
      BY <3>4, <3>5
  <2>2. Session' = Append(Session, entry)
    BY <1>0, <1>1, <1>4, <2>1, SessionIs
  <2>3. /\ Len(Session') = Len(Session) + 1 /\ Session'[Len(Session) + 1] = entry
        /\ \A k \in 1 .. Len(Session) : Session'[k] = Session[k]
    BY <1>4, <1>8, <2>2, Appended
  <2>4. /\ bytes = Len(Session) /\ bytes <= WriteLimit /\ WriteLimit \in Nat /\ bytes \in Nat
        /\ Again(Session) + 1 <= starts /\ (MayRepeat => Again(Session) + 2 <= starts)
    BY <1>0, <1>3, <1>8, <1>11, LogConsts DEF Written, LogTyped
  <2>5. LogTyped'
    <3>1. file' \in Seq(Messages) /\ Len(file') = Len(file) + 1 /\ Len(file) \in Nat
      BY <1>0, <1>4, <2>1, Appended DEF LogTyped
    <3>2. base' \in Nat /\ base' <= Len(file')
      BY <1>0, <1>1, <3>1 DEF LogTyped
    <3>3. bytes' \in Nat /\ log' \in {"loop", "drain"}
      BY <1>1, <2>1, <2>4
    <3> QED
      BY <1>0, <1>1, <2>1, <3>1, <3>2, <3>3 DEF LogTyped
  <2>6. PastFilter'
    <3>1. main # "off" /\ Lets(entry) /\ \A k \in 1 .. Len(Session) : Lets(Session[k])
      BY <1>0, <1>3, <1>4 DEF PastFilter
    <3>2. ASSUME NEW k \in 1 .. Len(Session')
          PROVE  Session'[k].level >= LevelSaid(rules, Session'[k].class)
      <4>1. CASE k \in 1 .. Len(Session)
        BY <2>3, <3>1, <4>1 DEF Lets
      <4>2. CASE k = Len(Session) + 1
        BY <2>3, <3>1, <4>2 DEF Lets
      <4>3. k \in 1 .. Len(Session) \/ k = Len(Session) + 1
        BY <1>8, <2>3
      <4> QED
        BY <4>1, <4>2, <4>3
    <3> QED
      BY <1>0, <1>1, <3>1, <3>2 DEF PastFilter, Lets
  <2>7. bytes' = Len(Session') /\ bytes' <= WriteLimit + 1
    BY <1>8, <2>1, <2>3, <2>4
  <2>8. CASE Told(Session) = Taken - 1
    <3>1. Told(Session) < Len(sent) /\ entry = sent[Told(Session) + 1]
      BY <1>3, <1>4, <1>9, <2>8
    <3>2. /\ Begins(Session', sent) /\ Covers(Session', sent)
          /\ Again(Session') = Again(Session) /\ Told(Session') = Told(Session) + 1
      BY <1>4, <1>8, <2>2, <3>1, WriteNext
    <3>3. Told(Session') = Taken
      BY <1>4, <2>8, <3>2
    <3>4. MayRepeat' => MayRepeat
      BY <1>1, <1>3 DEF MayRepeat
    <3> QED
      <4>1. Written'
        BY <1>1, <1>2, <1>3, <2>1, <2>4, <2>7, <3>2, <3>3, <3>4 DEF Written
      <4> QED
        BY <1>2, <1>6, <1>7, <2>5, <2>6, <4>1 DEF LogInv
  <2>9. CASE log = "write" /\ Told(Session) = Taken /\ stop
    <3>1. Session # <<>> /\ entry = sent[Told(Session)]
      BY <1>3, <1>4, <1>9, <2>9
    <3>2. /\ Begins(Session', sent) /\ Covers(Session', sent)
          /\ Again(Session') = Again(Session) + 1 /\ Told(Session') = Told(Session)
      BY <1>4, <1>8, <2>2, <3>1, WriteAgain
    <3>3. MayRepeat /\ ~MayRepeat'
      BY <1>1, <1>3, <2>9 DEF MayRepeat
    <3>4. Again(Session') + 1 <= starts
      BY <1>4, <1>9, <2>4, <3>2, <3>3
    <3> QED
      <4>1. Written'
        BY <1>1, <1>2, <1>3, <2>1, <2>7, <2>9, <3>2, <3>3, <3>4 DEF Written
      <4> QED
        BY <1>2, <1>6, <1>7, <2>5, <2>6, <4>1 DEF LogInv
  <2> QED
    BY <1>1, <1>8, <1>11, <2>8, <2>9 DEF Written
<1> QED
  BY <1>10, <1>11

-----------------------------------------------------------------------------
\* Every step keeps the invariant.
LEMMA LogStep ==
  ASSUME LogInv, [LogNext]_vars
  PROVE  LogInv'
<1>1. CASE Initialize
  BY <1>1, InitializeKeeps
<1>2. CASE Start
  BY <1>2, StartKeeps
<1>3. CASE RequestStop
  BY <1>3, RequestStopKeeps
<1>4. CASE Join
  BY <1>4, JoinKeeps
<1>5. CASE Denitializer
  BY <1>5, DenitializerKeeps
<1>6. CASE LogThread
  <2>1. LogLoop \/ PopWait \/ LogWrite \/ LogDrain
    BY <1>6 DEF LogThread
  <2> QED
    BY <1>6, <2>1, LoopKeeps, PopKeeps, WriteKeeps, DrainKeeps
<1>7. ASSUME NEW t \in Threads, EmplaceWait(t)
      PROVE  LogInv'
  BY <1>7, EmplaceKeeps
<1>8. ASSUME NEW t \in Threads, NEW k \in Kinds, Push(t, k[1], k[2])
      PROVE  LogInv'
  BY <1>8, PushKeeps
<1>9. CASE UNCHANGED vars
  <2>1. UNCHANGED <<queue, sent, holds, file, base, numbered, rules, filter, async, bytes, enabled,
                    log, entry, budget, main, stop, starts, owed>>
    BY <1>9 DEF vars, queueVars, logVars, fileVars, settings
  <2>2. Session' = Session /\ Taken' = Taken /\ Queued' /\ Numbered' /\ SyncApart'
    BY <2>1, NothingMoves
  <2>3. LogTyped'
    BY <2>1 DEF LogInv, LogTyped
  <2>4. Phases'
    BY <2>1, <2>2 DEF LogInv, Phases
  <2>5. PastFilter'
    BY <2>1, <2>2 DEF LogInv, PastFilter, Lets
  <2>6. async' => Written'
    BY <2>1, <2>2 DEF LogInv, Written, MayRepeat
  <2>7. Owing'
    BY <2>1, <2>2 DEF LogInv, Owing, Owes
  <2> QED
    BY <2>2, <2>3, <2>4, <2>5, <2>6, <2>7 DEF LogInv
<1> QED
  BY <1>1, <1>2, <1>3, <1>4, <1>5, <1>6, <1>7, <1>8, <1>9 DEF LogNext

\* The inductive invariant holds in every behaviour of the log.
LEMMA LogInvHolds == LogSpec => []LogInv
<1>1. LogInv /\ [LogNext]_vars => LogInv'
  BY LogStep
<1> QED
  BY LogInitHolds, <1>1, PTL DEF LogSpec

\* The file of an asynchronous log is what the threads pushed, in the order of the
\* queue, the last message before a stop perhaps twice, and a stop leaves nothing out
\* that it owes: for any threads, capacity and limits, and any stops and starts.
THEOREM AcceptedTheorem == LogSpec => []FileIsTheAccepted
<1>1. LogInv => FileIsTheAccepted
  <2> SUFFICES ASSUME LogInv PROVE FileIsTheAccepted
    OBVIOUS
  <2>1. LogTyped /\ Queued /\ Phases /\ SyncApart /\ Owing /\ (async => Written)
    BY DEF LogInv
  <2>2. Session \in Seq(Messages) /\ Len(Session) \in Nat /\ starts \in Nat
    BY <2>1, SessionIs DEF LogTyped
  <2>3. Again(Session) \in Nat
    BY <2>2, AgainIs
  <2>4. ASSUME async
        PROVE  /\ Begins(Session, sent)
               /\ Cardinality(Repeats(Session, Len(Session))) < starts \/ starts = 0
               /\ Len(Session) <= WriteLimit + 1
    <3>1. starts > 0 => Again(Session) < starts
      BY <2>1, <2>2, <2>3, <2>4 DEF Written
    <3>2. Begins(Session, sent) /\ Len(Session) <= WriteLimit + 1
      BY <2>1, <2>4 DEF Written
    <3> QED
      BY <2>2, <3>1, <3>2 DEF Again
  <2>5. ASSUME main = "up", enabled
        PROVE  owed \subseteq Elements(Session)
    <3>1. PICK n \in 0 .. Len(sent) : owed \subseteq {sent[k] : k \in 1 .. n} /\ n <= Taken
      BY <2>1, <2>5 DEF Owing, Owes
    <3>2. CASE ~async
      <4>1. sent = <<>>
        BY <2>1, <3>2 DEF SyncApart
      <4>2. n = 0
        BY <3>1, <4>1
      <4> QED
        BY <3>1, <4>2
    <3>3. CASE async
      <4>1. Told(Session) = Taken /\ Covers(Session, sent)
        BY <2>1, <2>5, <3>3 DEF Written, Phases
      <4>2. Taken \in Int
        BY <2>1 DEF Taken, LogTyped
      <4>3. \A k \in 1 .. n : sent[k] \in Elements(Session)
        BY <3>1, <4>1, <4>2 DEF Covers
      <4> QED
        BY <3>1, <4>3
    <3> QED
      BY <3>2, <3>3
  <2> QED
    BY <2>4, <2>5 DEF FileIsTheAccepted
<1> QED
  BY <1>1, LogInvHolds, PTL

\* Every class has the level of the last rule that speaks of it, for filter strings
\* of any length, and no message below its class's level is in the file.
THEOREM FilterTheorem == LogSpec => []FilterAsWritten
<1>1. LogInv => FilterAsWritten
  <2> SUFFICES ASSUME LogInv, main # "off", NEW c \in Classes
               PROVE  /\ filter[c] = LevelSaid(rules, c)
                      /\ \A k \in 1 .. Len(Session) :
                           Session[k].class = c => Session[k].level >= LevelSaid(rules, c)
    BY DEF FilterAsWritten
  <2>1. rules \in RuleStrings /\ filter = ParseFilterString(rules)
        /\ \A k \in 1 .. Len(Session) : Lets(Session[k])
    BY DEF LogInv, LogTyped, PastFilter
  <2> QED
    BY <2>1, FilterIs DEF Lets
<1> QED
  BY <1>1, LogInvHolds, PTL

(***************************************************************************)
(* The list of the LRU cache.                                               *)
(***************************************************************************)
\* The items, the pools and the lists over n of them.
Items(n) == [tick : Nat, next : 0 .. n, prev : 0 .. n]
Pools(n) == [1 .. n -> Items(n)]
Lists(n) == [pool : Pools(n), first : 0 .. n, last : 0 .. n]
Touches(n) == [id : 1 .. n, tick : Nat]

\* The id at a place of t, or the null pointer.
At(t, k) == IF k \in 1 .. Len(t) THEN t[k].id ELSE 0

\* No item stands twice in t.
Distinct(t) == \A j, k \in 1 .. Len(t) : t[j].id = t[k].id => j = k

\* The list l links the items of t, in their order, with their ticks.
Shape(l, t) ==
  /\ l.first = At(t, 1) /\ l.last = At(t, Len(t))
  /\ \A k \in 1 .. Len(t) :
       /\ l.pool[t[k].id].next = At(t, k + 1) /\ l.pool[t[k].id].prev = At(t, k - 1)
       /\ l.pool[t[k].id].tick = t[k].tick

\* The types.
LruTyped ==
  /\ pool \in Seq(Items(Len(pool))) /\ Len(pool) <= MaxPool
  /\ firstItem \in 0 .. Len(pool) /\ lastItem \in 0 .. Len(pool) /\ tick \in Nat
  /\ freeIds \in Seq(1 .. Len(pool)) /\ touched \in Seq(Touches(Len(pool)))

\* Every item is in use or free, and once.
Once(t, f, n) ==
  /\ Distinct(t)
  /\ \A j, k \in 1 .. Len(f) : f[j] = f[k] => j = k
  /\ \A j \in 1 .. Len(t), k \in 1 .. Len(f) : t[j].id # f[k]
  /\ \A i \in 1 .. n : \/ \E k \in 1 .. Len(t) : t[k].id = i
                       \/ \E k \in 1 .. Len(f) : f[k] = i
  /\ Len(t) + Len(f) = n

\* No touch is later than one behind it, nor than now.
Aged(t, now) ==
  /\ \A j, k \in 1 .. Len(t) : j <= k => t[j].tick <= t[k].tick
  /\ \A k \in 1 .. Len(t) : t[k].tick <= now

\* The inductive invariant.
LruInv ==
  /\ LruTyped /\ Once(touched, freeIds, Len(pool)) /\ Aged(touched, tick)
  /\ Shape(List, touched)

\* The pool r is p with the pointer next, or prev, of the item i at v.
NextSet(n, r, p, i, v) ==
  /\ r \in Pools(n)
  /\ \A j \in 1 .. n : /\ r[j].next = IF j = i THEN v ELSE p[j].next
                       /\ r[j].prev = p[j].prev /\ r[j].tick = p[j].tick
PrevSet(n, r, p, i, v) ==
  /\ r \in Pools(n)
  /\ \A j \in 1 .. n : /\ r[j].prev = IF j = i THEN v ELSE p[j].prev
                       /\ r[j].next = p[j].next /\ r[j].tick = p[j].tick

\* What an assignment to the pointer next of an item does to the pool.
LEMMA LinkNextIs ==
  ASSUME NEW n \in Nat, NEW p \in Pools(n), NEW i \in 0 .. n, NEW v \in 0 .. n
  PROVE  NextSet(n, LinkNext(p, i, v), p, i, v)
<1>1. CASE i = 0
  <2>1. LinkNext(p, i, v) = p /\ \A j \in 1 .. n : j # i
    BY <1>1 DEF LinkNext
  <2> QED
    BY <2>1 DEF NextSet
<1>2. CASE i # 0
  <2> DEFINE r == [p[i] EXCEPT !.next = v]
             q == [p EXCEPT ![i].next = v]
  <2>1. LinkNext(p, i, v) = q
    BY <1>2 DEF LinkNext
  <2>2. p \in [1 .. n -> Items(n)] /\ i \in 1 .. n /\ p[i] \in Items(n)
    BY <1>2 DEF Pools
  <2>3. r \in Items(n) /\ r.next = v /\ r.prev = p[i].prev /\ r.tick = p[i].tick
    BY <2>2 DEF Items
  <2> HIDE DEF r
  <2>4. q = [p EXCEPT ![i] = r]
    BY DEF r
  <2> HIDE DEF q
  <2>5. q \in [1 .. n -> Items(n)] /\ \A j \in 1 .. n : q[j] = IF j = i THEN r ELSE p[j]
    BY <2>2, <2>3, <2>4
  <2> QED
    BY <2>1, <2>3, <2>5 DEF Pools, NextSet
<1> QED
  BY <1>1, <1>2

\* What an assignment to the pointer prev of an item does to the pool.
LEMMA LinkPrevIs ==
  ASSUME NEW n \in Nat, NEW p \in Pools(n), NEW i \in 0 .. n, NEW v \in 0 .. n
  PROVE  PrevSet(n, LinkPrev(p, i, v), p, i, v)
<1>1. CASE i = 0
  <2>1. LinkPrev(p, i, v) = p /\ \A j \in 1 .. n : j # i
    BY <1>1 DEF LinkPrev
  <2> QED
    BY <2>1 DEF PrevSet
<1>2. CASE i # 0
  <2> DEFINE r == [p[i] EXCEPT !.prev = v]
             q == [p EXCEPT ![i].prev = v]
  <2>1. LinkPrev(p, i, v) = q
    BY <1>2 DEF LinkPrev
  <2>2. p \in [1 .. n -> Items(n)] /\ i \in 1 .. n /\ p[i] \in Items(n)
    BY <1>2 DEF Pools
  <2>3. r \in Items(n) /\ r.prev = v /\ r.next = p[i].next /\ r.tick = p[i].tick
    BY <2>2 DEF Items
  <2> HIDE DEF r
  <2>4. q = [p EXCEPT ![i] = r]
    BY DEF r
  <2> HIDE DEF q
  <2>5. q \in [1 .. n -> Items(n)] /\ \A j \in 1 .. n : q[j] = IF j = i THEN r ELSE p[j]
    BY <2>2, <2>3, <2>4
  <2> QED
    BY <2>1, <2>3, <2>5 DEF Pools, PrevSet
<1> QED
  BY <1>1, <1>2

\* Detach changes the pointers of the neighbours, and the ends.
LEMMA DetachIs ==
  ASSUME NEW n \in Nat, NEW l \in Lists(n), NEW id \in 1 .. n
  PROVE  LET d == Detach(l, id)
             before == l.pool[id].prev
             behind == l.pool[id].next IN
         /\ d \in Lists(n)
         /\ d.first = IF id = l.first THEN behind ELSE l.first
         /\ d.last = IF id = l.last THEN before ELSE l.last
         /\ \A j \in 1 .. n :
              /\ d.pool[j].tick = l.pool[j].tick
              /\ d.pool[j].next = IF j = before THEN IF id = l.last THEN 0 ELSE behind
                                  ELSE l.pool[j].next
              /\ d.pool[j].prev = IF j = behind THEN IF id = l.first THEN 0 ELSE before
                                  ELSE l.pool[j].prev
<1> DEFINE before == l.pool[id].prev
           behind == l.pool[id].next
           p1 == LinkNext(l.pool, before, behind)
           p2 == LinkPrev(p1, behind, before)
           p3 == IF id = l.first THEN LinkPrev(p2, behind, 0) ELSE p2
           p4 == LinkNext(p3, IF id = l.last THEN before ELSE 0, 0)
           first == IF id = l.first THEN behind ELSE l.first
           last == IF id = l.last THEN before ELSE l.last
<1>1. l.pool \in Pools(n) /\ l.first \in 0 .. n /\ l.last \in 0 .. n
  BY DEF Lists
<1>2. before \in 0 .. n /\ behind \in 0 .. n /\ 0 \in 0 .. n
  BY <1>1 DEF Pools, Items
<1>3. Detach(l, id) = [pool |-> p4, first |-> first, last |-> last]
  BY DEF Detach
<1> HIDE DEF before, behind
<1> DEFINE i4 == IF id = l.last THEN before ELSE 0
<1>4. i4 \in 0 .. n /\ l.pool \in Pools(n) /\ before \in 0 .. n /\ behind \in 0 .. n
  BY <1>1, <1>2
<1>5. PICK z \in 0 .. n : z = 0
  BY <1>2
<1>6. NextSet(n, p1, l.pool, before, behind)
  BY <1>4, LinkNextIs
<1>7. p1 \in Pools(n)
  BY <1>6 DEF NextSet
<1> HIDE DEF p1
<1>8. PrevSet(n, p2, p1, behind, before)
  BY <1>4, <1>7, LinkPrevIs
<1>9. p2 \in Pools(n)
  BY <1>8 DEF PrevSet
<1> HIDE DEF p2
<1>10. /\ p3 \in Pools(n)
      /\ \A j \in 1 .. n : /\ p3[j].prev = IF j = behind /\ id = l.first THEN 0 ELSE p2[j].prev
                           /\ p3[j].next = p2[j].next /\ p3[j].tick = p2[j].tick
  <2>1. CASE id = l.first
    <3>1. p3 = LinkPrev(p2, behind, z)
      BY <1>5, <2>1
    <3>2. PrevSet(n, LinkPrev(p2, behind, z), p2, behind, z)
      BY <1>4, <1>9, LinkPrevIs
    <3> HIDE DEF p3
    <3> QED
      BY <1>5, <2>1, <3>1, <3>2 DEF PrevSet
  <2>2. CASE id # l.first
    BY <1>9, <2>2
  <2> QED
    BY <2>1, <2>2
<1> HIDE DEF p3
<1>11. /\ p4 \in Pools(n)
      /\ \A j \in 1 .. n : /\ p4[j].next = IF j = before /\ id = l.last THEN 0 ELSE p3[j].next
                           /\ p4[j].prev = p3[j].prev /\ p4[j].tick = p3[j].tick
  <2>1. p4 = LinkNext(p3, i4, z)
    BY <1>5
  <2> HIDE DEF p4, i4
  <2>2. NextSet(n, p4, p3, i4, z)
    BY <1>4, <1>10, <2>1, LinkNextIs
  <2>3. \A j \in 1 .. n : j = i4 <=> j = before /\ id = l.last
    BY DEF i4
  <2> QED
    BY <1>5, <2>2, <2>3 DEF NextSet
<1> HIDE DEF p4, i4
<1>12. first \in 0 .. n /\ last \in 0 .. n
  BY <1>1, <1>2
<1> HIDE DEF first, last
<1>13. Detach(l, id) \in Lists(n) /\ Detach(l, id).pool = p4 /\ Detach(l, id).first = first
      /\ Detach(l, id).last = last
  BY <1>3, <1>11, <1>12 DEF Lists
<1>14. ASSUME NEW j \in 1 .. n
       PROVE  /\ p4[j].tick = l.pool[j].tick
              /\ p4[j].next = IF j = before THEN IF id = l.last THEN 0 ELSE behind
                              ELSE l.pool[j].next
              /\ p4[j].prev = IF j = behind THEN IF id = l.first THEN 0 ELSE before
                              ELSE l.pool[j].prev
  BY <1>6, <1>8, <1>10, <1>11 DEF NextSet, PrevSet
<1> QED
  BY <1>13, <1>14 DEF before, behind, first, last


\* Attach links an item behind the last one.
LEMMA AttachIs ==
  ASSUME NEW n \in Nat, NEW l \in Lists(n), NEW id \in 1 .. n, id # l.last
  PROVE  LET a == Attach(l, id) IN
         /\ a \in Lists(n) /\ a.last = id
         /\ a.first = IF l.first = 0 THEN id ELSE l.first
         /\ \A j \in 1 .. n :
              /\ a.pool[j].tick = l.pool[j].tick
              /\ a.pool[j].prev = IF j = id /\ l.last # 0 THEN l.last ELSE l.pool[j].prev
              /\ a.pool[j].next = IF l.last = 0 THEN l.pool[j].next
                                  ELSE IF j = id THEN 0
                                  ELSE IF j = l.last THEN id ELSE l.pool[j].next
<1> DEFINE q == l.pool
           x == l.last
           p1 == LinkPrev(q, id, x)
           p2 == LinkNext(p1, id, 0)
           p3 == LinkNext(p2, x, id)
           p4 == IF x = 0 THEN q ELSE p3
           first == IF l.first = 0 THEN id ELSE l.first
<1>1. q \in Pools(n) /\ l.first \in 0 .. n /\ x \in 0 .. n /\ id \in 0 .. n /\ 0 \in 0 .. n
  BY DEF Lists
<1>2. Attach(l, id) = [pool |-> p4, first |-> first, last |-> id]
  BY DEF Attach
<1>3. x # id
  OBVIOUS
<1> HIDE DEF q, x
<1>4. PICK z \in 0 .. n : z = 0
  BY <1>1
<1>5. PrevSet(n, p1, q, id, x)
  BY <1>1, LinkPrevIs
<1>6. p1 \in Pools(n)
  BY <1>5 DEF PrevSet
<1> HIDE DEF p1
<1>7. NextSet(n, p2, p1, id, z)
  <2>1. p2 = LinkNext(p1, id, z)
    BY <1>4
  <2> HIDE DEF p2
  <2> QED
    BY <1>1, <1>6, <2>1, LinkNextIs
<1>8. p2 \in Pools(n)
  BY <1>7 DEF NextSet
<1> HIDE DEF p2
<1>9. NextSet(n, p3, p2, x, id)
  BY <1>1, <1>8, LinkNextIs
<1> HIDE DEF p3
<1>10. p4 \in Pools(n) /\ first \in 0 .. n
  BY <1>1, <1>9 DEF NextSet
<1>11. ASSUME NEW j \in 1 .. n
      PROVE  /\ p4[j].tick = q[j].tick
             /\ p4[j].prev = IF j = id /\ x # 0 THEN x ELSE q[j].prev
             /\ p4[j].next = IF x = 0 THEN q[j].next
                             ELSE IF j = id THEN 0 ELSE IF j = x THEN id ELSE q[j].next
  BY <1>3, <1>5, <1>7, <1>9, <1>4 DEF NextSet, PrevSet
<1> HIDE DEF p4, first
<1>12. Attach(l, id) \in Lists(n) /\ Attach(l, id).pool = p4 /\ Attach(l, id).first = first
      /\ Attach(l, id).last = id
  BY <1>1, <1>2, <1>10 DEF Lists
<1> QED
  BY <1>11, <1>12 DEF q, x, first

-----------------------------------------------------------------------------
\* What At gives.
LEMMA AtIs ==
  ASSUME NEW n \in Nat, NEW t \in Seq(Touches(n)), NEW k \in Int
  PROVE  /\ Len(t) \in Nat /\ At(t, k) \in 0 .. n
         /\ k \in 1 .. Len(t) <=> At(t, k) # 0
         /\ k \in 1 .. Len(t) => At(t, k) = t[k].id /\ t[k].id \in 1 .. n /\ t[k].tick \in Nat
<1>1. Len(t) \in Nat /\ \A j \in 1 .. Len(t) : t[j] \in Touches(n)
  OBVIOUS
<1>2. \A j \in 1 .. Len(t) : t[j].id \in 1 .. n /\ t[j].tick \in Nat
  BY <1>1 DEF Touches
<1> QED
  BY <1>1, <1>2 DEF At

\* t without one place.
LEMMA RemovedIs ==
  ASSUME NEW S, NEW t \in Seq(S), NEW p \in 1 .. Len(t)
  PROVE  /\ RemoveAt(t, p) \in Seq(S) /\ Len(RemoveAt(t, p)) = Len(t) - 1
         /\ \A k \in 1 .. Len(t) - 1 : RemoveAt(t, p)[k] = IF k < p THEN t[k] ELSE t[k + 1]
<1> DEFINE a == SubSeq(t, 1, p - 1)
           b == SubSeq(t, p + 1, Len(t))
<1>1. Len(t) \in Nat /\ p \in Nat
  OBVIOUS
<1>2. a \in Seq(S) /\ Len(a) = p - 1 /\ \A k \in 1 .. p - 1 : a[k] = t[k]
  BY <1>1
<1>3. b \in Seq(S) /\ Len(b) = Len(t) - p /\ \A k \in 1 .. Len(t) - p : b[k] = t[p + k]
  BY <1>1
<1> HIDE DEF a, b
<1>4. a \o b \in Seq(S) /\ Len(a \o b) = Len(t) - 1
      /\ \A k \in 1 .. Len(t) - 1 : (a \o b)[k] = IF k <= p - 1 THEN a[k] ELSE b[k - (p - 1)]
  <2>1. a \o b \in Seq(S) /\ Len(a \o b) = Len(a) + Len(b)
    BY <1>2, <1>3, ConcatProperties
  <2>2. \A k \in 1 .. Len(a) + Len(b) : (a \o b)[k] = IF k <= Len(a) THEN a[k] ELSE b[k - Len(a)]
    BY <1>2, <1>3
  <2>3. Len(a) + Len(b) = Len(t) - 1
    BY <1>1, <1>2, <1>3
  <2> QED
    BY <1>2, <2>1, <2>2, <2>3
<1>5. ASSUME NEW k \in 1 .. Len(t) - 1
      PROVE  (a \o b)[k] = IF k < p THEN t[k] ELSE t[k + 1]
  <2>1. CASE k < p
    <3>1. k <= p - 1 /\ k \in 1 .. p - 1
      BY <1>1, <2>1
    <3> QED
      BY <1>2, <1>4, <2>1, <3>1
  <2>2. CASE k >= p
    <3>1. ~(k <= p - 1) /\ k - (p - 1) \in 1 .. Len(t) - p
      BY <1>1, <2>2
    <3>2. (a \o b)[k] = b[k - (p - 1)]
      BY <1>4, <3>1
    <3>3. p + (k - (p - 1)) = k + 1
      BY <1>1
    <3> QED
      BY <1>1, <1>3, <2>2, <3>1, <3>2, <3>3
  <2>3. k < p \/ k >= p
    BY <1>1
  <2> QED
    BY <1>1, <2>1, <2>2, <2>3
<1>6. RemoveAt(t, p) = a \o b
  BY DEF RemoveAt, a, b
<1> QED
  BY <1>4, <1>5, <1>6

\* u is t without one place.
IsWithout(u, t, p) ==
  /\ Len(u) = Len(t) - 1
  /\ \A k \in 1 .. Len(t) - 1 : u[k] = IF k < p THEN t[k] ELSE t[k + 1]

\* What stands at the places of a list without one.
LEMMA WithoutAt ==
  ASSUME NEW n \in Nat, NEW t \in Seq(Touches(n)), NEW u \in Seq(Touches(n)),
         NEW p \in 1 .. Len(t), IsWithout(u, t, p), NEW k \in 0 .. Len(t)
  PROVE  At(u, k) = IF k < p THEN At(t, k) ELSE At(t, k + 1)
<1>1. Len(t) \in Nat /\ Len(u) = Len(t) - 1 /\ p \in 1 .. Len(t) /\ k \in 0 .. Len(t)
  BY DEF IsWithout
<1>2. k \in 1 .. Len(u) => u[k] = IF k < p THEN t[k] ELSE t[k + 1]
  BY <1>1 DEF IsWithout
<1>3. CASE k < p
  <2>1. k \in 1 .. Len(u) <=> k \in 1 .. Len(t)
    BY <1>1, <1>3
  <2> QED
    BY <1>2, <1>3, <2>1 DEF At
<1>4. CASE k >= p
  <2>1. (k \in 1 .. Len(u) <=> k + 1 \in 1 .. Len(t)) /\ ~(k < p)
    BY <1>1, <1>4
  <2> QED
    BY <1>2, <2>1 DEF At
<1>5. k < p \/ k >= p
  BY <1>1
<1> QED
  BY <1>3, <1>4, <1>5

\* No place of u has the id that was left out, and none has another's.
LEMMA WithoutDistinct ==
  ASSUME NEW n \in Nat, NEW t \in Seq(Touches(n)), NEW u \in Seq(Touches(n)),
         NEW p \in 1 .. Len(t), IsWithout(u, t, p), Distinct(t)
  PROVE  Distinct(u) /\ \A k \in 1 .. Len(u) : u[k].id # t[p].id
<1> DEFINE from(k) == IF k < p THEN k ELSE k + 1
<1>1. Len(t) \in Nat /\ Len(u) = Len(t) - 1 /\ p \in 1 .. Len(t)
  BY DEF IsWithout
<1>2. ASSUME NEW k \in 1 .. Len(u)
      PROVE  from(k) \in 1 .. Len(t) /\ from(k) # p /\ u[k] = t[from(k)]
  BY <1>1 DEF IsWithout
<1>3. \A j, k \in 1 .. Len(u) : from(j) = from(k) => j = k
  BY <1>1
<1> HIDE DEF from
<1>4. \A k \in 1 .. Len(u) : u[k].id # t[p].id
  BY <1>2 DEF Distinct
<1>5. Distinct(u)
  BY <1>2, <1>3 DEF Distinct
<1> QED
  BY <1>4, <1>5

\* Detaching the item at a place leaves a list of the others.
LEMMA DetachShape ==
  ASSUME NEW n \in Nat, NEW l \in Lists(n), NEW t \in Seq(Touches(n)), NEW u \in Seq(Touches(n)),
         NEW p \in 1 .. Len(t), IsWithout(u, t, p), Distinct(t), Shape(l, t)
  PROVE  Shape(Detach(l, t[p].id), u)
<1> DEFINE id == t[p].id
           d == Detach(l, id)
           before == l.pool[id].prev
           behind == l.pool[id].next
<1>1. Len(t) \in Nat /\ Len(u) = Len(t) - 1 /\ p \in 1 .. Len(t) /\ id \in 1 .. n
  <2>1. Len(t) \in Nat /\ p \in Int
    OBVIOUS
  <2>2. id \in 1 .. n
    BY <2>1, AtIs
  <2> QED
    BY <2>1, <2>2 DEF IsWithout
<1>2. before = At(t, p - 1) /\ behind = At(t, p + 1) /\ l.first = At(t, 1) /\ l.last = At(t, Len(t))
  BY DEF Shape
<1>3. (id = l.first <=> p = 1) /\ (id = l.last <=> p = Len(t))
  <2>1. At(t, 1) = t[1].id /\ At(t, Len(t)) = t[Len(t)].id
    BY <1>1 DEF At
  <2> QED
    BY <1>1, <1>2, <2>1 DEF Distinct
<1>4. /\ d.first = IF p = 1 THEN behind ELSE l.first
      /\ d.last = IF p = Len(t) THEN before ELSE l.last
      /\ \A j \in 1 .. n :
           /\ d.pool[j].tick = l.pool[j].tick
           /\ d.pool[j].next = IF j = before THEN IF p = Len(t) THEN 0 ELSE behind ELSE l.pool[j].next
           /\ d.pool[j].prev = IF j = behind THEN IF p = 1 THEN 0 ELSE before ELSE l.pool[j].prev
  <2> HIDE DEF id
  <2>1. /\ d.first = IF id = l.first THEN behind ELSE l.first
        /\ d.last = IF id = l.last THEN before ELSE l.last
        /\ \A j \in 1 .. n :
             /\ d.pool[j].tick = l.pool[j].tick
             /\ d.pool[j].next = IF j = before THEN IF id = l.last THEN 0 ELSE behind
                                ELSE l.pool[j].next
             /\ d.pool[j].prev = IF j = behind THEN IF id = l.first THEN 0 ELSE before
                                ELSE l.pool[j].prev
    BY <1>1, DetachIs
  <2> HIDE DEF d, before, behind
  <2> QED
    BY <1>3, <2>1
<1> HIDE DEF d, before, behind, id
<1>5. d.first = At(u, 1)
  <2>1. At(u, 1) = IF 1 < p THEN At(t, 1) ELSE At(t, 2)
    BY <1>1, WithoutAt
  <2> QED
    BY <1>1, <1>2, <1>4, <2>1
<1>6. d.last = At(u, Len(u))
  <2>1. At(u, Len(t) - 1) = IF Len(t) - 1 < p THEN At(t, Len(t) - 1) ELSE At(t, Len(t))
    <3>1. Len(t) - 1 \in 0 .. Len(t) /\ Len(t) - 1 + 1 = Len(t)
      BY <1>1
    <3> QED
      BY <3>1, WithoutAt
  <2> QED
    BY <1>1, <1>2, <1>4, <2>1
<1>7. ASSUME NEW k \in 1 .. Len(u)
      PROVE  /\ d.pool[u[k].id].next = At(u, k + 1) /\ d.pool[u[k].id].prev = At(u, k - 1)
             /\ d.pool[u[k].id].tick = u[k].tick
  <2> DEFINE m == IF k < p THEN k ELSE k + 1
             i == t[m].id
  <2>1. m \in 1 .. Len(t) /\ u[k] = t[m] /\ m # p
    BY <1>1 DEF IsWithout
  <2>2. /\ l.pool[i].next = At(t, m + 1) /\ l.pool[i].prev = At(t, m - 1)
        /\ l.pool[i].tick = t[m].tick /\ i \in 1 .. n
    <3> HIDE DEF m
    <3>1. i \in 1 .. n
      <4>1. m \in Int
        BY <1>1, <2>1
      <4> QED
        BY <2>1, <4>1, AtIs
    <3> QED
      BY <2>1, <3>1 DEF Shape
  <2>3. i = At(t, p - 1) <=> m = p - 1
    <3>1. p - 1 \in 1 .. Len(t) \/ At(t, p - 1) = 0
      BY DEF At
    <3>2. p - 1 \in 1 .. Len(t) => At(t, p - 1) = t[p - 1].id
      BY DEF At
    <3>3. i # 0 /\ m \in 1 .. Len(t)
      BY <2>1, <2>2
    <3> QED
      BY <3>1, <3>2, <3>3 DEF Distinct, At
  <2>4. i = At(t, p + 1) <=> m = p + 1
    <3>1. p + 1 \in 1 .. Len(t) \/ At(t, p + 1) = 0
      BY DEF At
    <3>2. p + 1 \in 1 .. Len(t) => At(t, p + 1) = t[p + 1].id
      BY DEF At
    <3>3. i # 0 /\ m \in 1 .. Len(t)
      BY <2>1, <2>2
    <3> QED
      BY <3>1, <3>2, <3>3 DEF Distinct, At
  <2>5. /\ d.pool[i].tick = t[m].tick
        /\ d.pool[i].next = IF m = p - 1 THEN IF p = Len(t) THEN 0 ELSE At(t, p + 1) ELSE At(t, m + 1)
        /\ d.pool[i].prev = IF m = p + 1 THEN IF p = 1 THEN 0 ELSE At(t, p - 1) ELSE At(t, m - 1)
    BY <1>2, <1>4, <2>2, <2>3, <2>4
  <2>6. At(u, k + 1) = IF k + 1 < p THEN At(t, k + 1) ELSE At(t, k + 2)
    <3>1. k + 1 \in 0 .. Len(t) /\ k + 1 + 1 = k + 2
      BY <1>1
    <3> QED
      BY <3>1, WithoutAt
  <2>7. At(u, k - 1) = IF k - 1 < p THEN At(t, k - 1) ELSE At(t, k)
    <3>1. k - 1 \in 0 .. Len(t) /\ k - 1 + 1 = k
      BY <1>1
    <3> QED
      BY <3>1, WithoutAt
  <2>8. At(t, Len(t) + 1) = 0 /\ At(t, 0) = 0
    BY <1>1 DEF At
  <2>9. CASE k < p
    <3>1. m = k /\ m # p + 1 /\ k - 1 < p
      BY <1>1, <2>9
    <3>2. d.pool[i].prev = At(u, k - 1)
      BY <2>5, <2>7, <3>1
    <3>3. CASE k = p - 1
      <4>1. ~(k + 1 < p) /\ k + 2 = p + 1 /\ m = p - 1
        BY <1>1, <3>1, <3>3
      <4> QED
        BY <2>1, <2>5, <2>6, <2>8, <3>2, <4>1
    <3>4. CASE k # p - 1
      <4>1. k + 1 < p /\ m # p - 1
        BY <1>1, <2>9, <3>1, <3>4
      <4> QED
        BY <2>1, <2>5, <2>6, <3>1, <3>2, <4>1
    <3> QED
      BY <3>3, <3>4
  <2>10. CASE k >= p
    <3>1. m = k + 1 /\ m # p - 1 /\ ~(k + 1 < p) /\ k + 1 + 1 = k + 2
      BY <1>1, <2>10
    <3>2. d.pool[i].next = At(u, k + 1)
      BY <2>5, <2>6, <3>1
    <3>3. CASE k = p
      <4>1. k - 1 < p /\ m = p + 1 /\ (p = 1 => k - 1 = 0)
        BY <1>1, <3>1, <3>3
      <4> QED
        BY <2>1, <2>5, <2>7, <2>8, <3>2, <3>3, <4>1
    <3>4. CASE k # p
      <4>1. ~(k - 1 < p) /\ m # p + 1 /\ m - 1 = k
        BY <1>1, <2>10, <3>1, <3>4
      <4> QED
        BY <2>1, <2>5, <2>7, <3>2, <4>1
    <3> QED
      BY <3>3, <3>4
  <2>11. k < p \/ k >= p
    BY <1>1
  <2> QED
    BY <2>9, <2>10, <2>11
<1> QED
  BY <1>5, <1>6, <1>7 DEF Shape, d, id

\* The detached item forgets its neighbours.
LEMMA FreedIs ==
  ASSUME NEW n \in Nat, NEW l \in Lists(n), NEW id \in 1 .. n
  PROVE  LET d == Detach(l, id)
             e == Freed(l, id) IN
         /\ e \in Lists(n) /\ e.first = d.first /\ e.last = d.last
         /\ e.pool[id].next = 0 /\ e.pool[id].prev = 0
         /\ \A j \in 1 .. n : /\ e.pool[j].tick = l.pool[j].tick
                              /\ j # id => e.pool[j].next = d.pool[j].next /\ e.pool[j].prev = d.pool[j].prev
<1> DEFINE d == Detach(l, id)
           q == d.pool
           p1 == LinkPrev(q, id, 0)
           p2 == LinkNext(p1, id, 0)
<1>1. d \in Lists(n) /\ \A j \in 1 .. n : q[j].tick = l.pool[j].tick
  BY DetachIs
<1>2. Freed(l, id) = [d EXCEPT !.pool = p2]
  BY DEF Freed
<1> HIDE DEF d
<1>3. q \in Pools(n) /\ id \in 0 .. n /\ 0 \in 0 .. n
  BY <1>1 DEF Lists
<1> HIDE DEF q
<1>4. PICK z \in 0 .. n : z = 0
  BY <1>3
<1>5. PrevSet(n, p1, q, id, z)
  <2>1. p1 = LinkPrev(q, id, z)
    BY <1>4
  <2> HIDE DEF p1
  <2> QED
    BY <1>3, <2>1, LinkPrevIs
<1>6. p1 \in Pools(n)
  BY <1>5 DEF PrevSet
<1> HIDE DEF p1
<1>7. NextSet(n, p2, p1, id, z)
  <2>1. p2 = LinkNext(p1, id, z)
    BY <1>4
  <2> HIDE DEF p2
  <2> QED
    BY <1>3, <1>6, <2>1, LinkNextIs
<1> HIDE DEF p2
<1>8. /\ Freed(l, id) \in Lists(n) /\ Freed(l, id).first = d.first /\ Freed(l, id).last = d.last
      /\ Freed(l, id).pool = p2
  BY <1>1, <1>2, <1>7 DEF Lists, NextSet
<1>9. p2[id].next = 0 /\ p2[id].prev = 0
  BY <1>4, <1>5, <1>7 DEF NextSet, PrevSet
<1>10. ASSUME NEW j \in 1 .. n
      PROVE  p2[j].tick = l.pool[j].tick /\ (j # id => p2[j].next = q[j].next /\ p2[j].prev = q[j].prev)
  BY <1>1, <1>5, <1>7 DEF NextSet, PrevSet
<1> QED
  BY <1>8, <1>9, <1>10 DEF d, q

\* Freeing the item at a place leaves a list of the others.
LEMMA FreedShape ==
  ASSUME NEW n \in Nat, NEW l \in Lists(n), NEW t \in Seq(Touches(n)), NEW u \in Seq(Touches(n)),
         NEW p \in 1 .. Len(t), IsWithout(u, t, p), Distinct(t), Shape(l, t)
  PROVE  Shape(Freed(l, t[p].id), u)
<1> DEFINE id == t[p].id
           d == Detach(l, id)
           e == Freed(l, id)
<1>1. Shape(d, u)
  BY DetachShape
<1>2. \A k \in 1 .. Len(u) : u[k].id # id
  BY WithoutDistinct
<1>3. id \in 1 .. n /\ \A k \in 1 .. Len(u) : u[k].id \in 1 .. n
  <2>1. \A k \in 1 .. Len(u) : k \in Int
    OBVIOUS
  <2>2. p \in Int
    OBVIOUS
  <2> QED
    BY <2>1, <2>2, AtIs
<1> HIDE DEF id
<1>4. \A j \in 1 .. n : d.pool[j].tick = l.pool[j].tick
  BY <1>3, DetachIs
<1>5. /\ e.first = d.first /\ e.last = d.last
      /\ \A j \in 1 .. n : /\ e.pool[j].tick = l.pool[j].tick
                           /\ j # id => e.pool[j].next = d.pool[j].next /\ e.pool[j].prev = d.pool[j].prev
  BY <1>3, FreedIs
<1> HIDE DEF d, e
<1>6. Shape(e, u)
  <2>1. e.first = At(u, 1) /\ e.last = At(u, Len(u))
    BY <1>1, <1>5 DEF Shape
  <2>2. ASSUME NEW k \in 1 .. Len(u)
        PROVE  /\ e.pool[u[k].id].next = At(u, k + 1) /\ e.pool[u[k].id].prev = At(u, k - 1)
               /\ e.pool[u[k].id].tick = u[k].tick
    <3>1. u[k].id \in 1 .. n /\ u[k].id # id
      BY <1>2, <1>3
    <3>2. /\ d.pool[u[k].id].next = At(u, k + 1) /\ d.pool[u[k].id].prev = At(u, k - 1)
          /\ d.pool[u[k].id].tick = u[k].tick
      BY <1>1 DEF Shape
    <3> QED
      BY <1>4, <1>5, <3>1, <3>2
  <2> QED
    BY <2>1, <2>2 DEF Shape
<1> QED
  BY <1>6 DEF e, id

\* Attaching an item with its tick makes it the newest of the list.
LEMMA AttachShape ==
  ASSUME NEW n \in Nat, NEW l \in Lists(n), NEW t \in Seq(Touches(n)), Shape(l, t),
         NEW id \in 1 .. n, NEW now \in Nat, l.pool[id].tick = now,
         \A k \in 1 .. Len(t) : t[k].id # id,
         t = <<>> => l.pool[id].next = 0 /\ l.pool[id].prev = 0
  PROVE  /\ Attach(l, id) \in Lists(n)
         /\ Append(t, [id |-> id, tick |-> now]) \in Seq(Touches(n))
         /\ Shape(Attach(l, id), Append(t, [id |-> id, tick |-> now]))
<1> DEFINE m == [id |-> id, tick |-> now]
           u == Append(t, m)
           a == Attach(l, id)
<1>1. m \in Touches(n) /\ m.id = id /\ m.tick = now
  BY DEF Touches
<1> HIDE DEF m
<1>2. /\ u \in Seq(Touches(n)) /\ Len(u) = Len(t) + 1 /\ Len(t) \in Nat /\ u[Len(t) + 1] = m
      /\ \A k \in 1 .. Len(t) : u[k] = t[k]
  BY <1>1
<1>3. \A k \in 1 .. Len(t) : t[k].id \in 1 .. n /\ t[k].id # id
  <2>1. \A k \in 1 .. Len(t) : k \in Int
    OBVIOUS
  <2> QED
    BY <2>1, AtIs
<1> HIDE DEF u
<1>4. l.first = At(t, 1) /\ l.last = At(t, Len(t)) /\ (Len(t) = 0 <=> t = <<>>)
  BY <1>2 DEF Shape
<1>5. At(t, Len(t)) = (IF Len(t) = 0 THEN 0 ELSE t[Len(t)].id) /\ At(t, Len(t) + 1) = 0 /\ At(t, 0) = 0
      /\ At(t, 1) = (IF Len(t) = 0 THEN 0 ELSE t[1].id)
  BY <1>2 DEF At
<1>6. id # l.last /\ (l.last = 0 <=> Len(t) = 0) /\ (l.first = 0 <=> Len(t) = 0)
  BY <1>2, <1>3, <1>4, <1>5
<1>7. /\ a \in Lists(n) /\ a.last = id
      /\ a.first = IF l.first = 0 THEN id ELSE l.first
      /\ \A j \in 1 .. n :
           /\ a.pool[j].tick = l.pool[j].tick
           /\ a.pool[j].prev = IF j = id /\ l.last # 0 THEN l.last ELSE l.pool[j].prev
           /\ a.pool[j].next = IF l.last = 0 THEN l.pool[j].next
                               ELSE IF j = id THEN 0
                               ELSE IF j = l.last THEN id ELSE l.pool[j].next
  BY <1>6, AttachIs
<1> HIDE DEF a
<1>8. ASSUME NEW k \in 0 .. Len(t) + 2
      PROVE  At(u, k) = IF k = Len(t) + 1 THEN id ELSE At(t, k)
  BY <1>1, <1>2 DEF At
<1>9. a.first = At(u, 1) /\ a.last = At(u, Len(u))
  <2>1. At(u, 1) = (IF 1 = Len(t) + 1 THEN id ELSE At(t, 1)) /\ At(u, Len(t) + 1) = id
    BY <1>2, <1>8
  <2> QED
    BY <1>2, <1>4, <1>5, <1>6, <1>7, <2>1
<1>10. ASSUME NEW k \in 1 .. Len(u)
       PROVE  /\ a.pool[u[k].id].next = At(u, k + 1) /\ a.pool[u[k].id].prev = At(u, k - 1)
              /\ a.pool[u[k].id].tick = u[k].tick
  <2>1. At(u, k + 1) = (IF k = Len(t) THEN id ELSE At(t, k + 1))
    <3>1. k + 1 \in 0 .. Len(t) + 2 /\ (k + 1 = Len(t) + 1 <=> k = Len(t))
      BY <1>2
    <3> QED
      BY <1>8, <3>1
  <2>2. At(u, k - 1) = At(t, k - 1)
    <3>1. k - 1 \in 0 .. Len(t) + 2 /\ k - 1 # Len(t) + 1
      BY <1>2
    <3> QED
      BY <1>8, <3>1
  <2>3. CASE k = Len(t) + 1
    <3>1. u[k].id = id /\ u[k].tick = now /\ k - 1 = Len(t) /\ k # Len(t) /\ k + 1 \notin 1 .. Len(t)
      BY <1>1, <1>2, <2>3
    <3>2. At(t, k + 1) = 0
      BY <3>1 DEF At
    <3>3. a.pool[id].tick = now
      BY <1>7
    <3>4. CASE Len(t) = 0
      BY <1>4, <1>5, <1>6, <1>7, <2>1, <2>2, <3>1, <3>2, <3>3, <3>4
    <3>5. CASE Len(t) # 0
      BY <1>4, <1>5, <1>6, <1>7, <2>1, <2>2, <3>1, <3>2, <3>3, <3>5
    <3> QED
      BY <3>4, <3>5
  <2>4. CASE k # Len(t) + 1
    <3> DEFINE i == t[k].id
    <3>1. k \in 1 .. Len(t) /\ u[k] = t[k] /\ Len(t) # 0
      BY <1>2, <2>4
    <3>2. i \in 1 .. n /\ i # id /\ l.last # 0 /\ l.last = t[Len(t)].id
      BY <1>3, <1>4, <1>5, <1>6, <3>1
    <3>3. l.pool[i].next = At(t, k + 1) /\ l.pool[i].prev = At(t, k - 1) /\ l.pool[i].tick = t[k].tick
      BY <3>1 DEF Shape
    <3>4. a.pool[i].tick = t[k].tick /\ a.pool[i].prev = At(t, k - 1)
      BY <1>7, <3>2, <3>3
    <3>5. a.pool[i].next = IF i = l.last THEN id ELSE At(t, k + 1)
      BY <1>7, <3>2, <3>3
    <3>6. i = l.last <=> k = Len(t)
      <4>1. CASE k = Len(t)
        BY <3>2, <4>1
      <4>2. CASE k # Len(t)
        <5>1. k + 1 \in 1 .. Len(t)
          BY <1>2, <3>1, <4>2
        <5>2. l.pool[i].next = t[k + 1].id /\ t[k + 1].id # 0
          BY <1>3, <3>3, <5>1 DEF At
        <5>3. l.pool[l.last].next = 0
          <6>1. Len(t) \in 1 .. Len(t)
            BY <1>2, <3>1
          <6> QED
            BY <1>5, <3>2, <6>1 DEF Shape
        <5> QED
          BY <4>2, <5>2, <5>3
      <4> QED
        BY <4>1, <4>2
    <3> QED
      BY <2>1, <2>2, <3>1, <3>4, <3>5, <3>6
  <2> QED
    BY <2>3, <2>4
<1>11. Shape(a, u)
  BY <1>9, <1>10 DEF Shape
<1> QED
  BY <1>2, <1>7, <1>11 DEF a, u, m

-----------------------------------------------------------------------------
\* t from place k on.
Rest(t, k) == SubSeq(t, k + 1, Len(t))

\* The rest of a sequence, place by place.
LEMMA RestIs ==
  ASSUME NEW S, NEW t \in Seq(S), NEW k \in 0 .. Len(t)
  PROVE  /\ Rest(t, k) \in Seq(S) /\ Len(Rest(t, k)) = Len(t) - k
         /\ \A j \in 1 .. Len(t) - k : Rest(t, k)[j] = t[k + j]
<1>1. Len(t) \in Nat /\ k \in Nat /\ k <= Len(t)
  OBVIOUS
<1> QED
  BY <1>1 DEF Rest

\* Freeing ids one after the other is what the recursion says.
LEMMA FreedOneByOneIs ==
  ASSUME NEW n \in Nat, List \in Lists(n), NEW ids \in Seq(1 .. n)
  PROVE  /\ FreedOneByOne(ids)[0] = List
         /\ \A k \in 1 .. Len(ids) :
              FreedOneByOne(ids)[k] = Freed(FreedOneByOne(ids)[k - 1], ids[k])
<1> DEFINE m == Len(ids)
           Upto(g, k) == /\ g[0] = List
                         /\ \A j \in 1 .. k : g[j] = Freed(g[j - 1], ids[j])
           S == {k \in 0 .. m : \E g \in [0 .. k -> Lists(n)] : Upto(g, k)}
<1>1. m \in Nat /\ \A j \in 1 .. m : ids[j] \in 1 .. n
  OBVIOUS
<1>2. 0 \in S
  <2>1. [j \in 0 .. 0 |-> List] \in [0 .. 0 -> Lists(n)]
    OBVIOUS
  <2>2. Upto([j \in 0 .. 0 |-> List], 0)
    OBVIOUS
  <2>3. \E g \in [0 .. 0 -> Lists(n)] : Upto(g, 0)
    <3> HIDE DEF Upto
    <3> QED
      BY <2>1, <2>2
  <2>4. 0 \in 0 .. m
    BY <1>1
  <2> QED
    BY <2>3, <2>4
<1>3. ASSUME NEW k \in 1 .. m, k - 1 \in S
      PROVE  k \in S
  <2>1. PICK g \in [0 .. k - 1 -> Lists(n)] : Upto(g, k - 1)
    BY <1>3
  <2> DEFINE h == [j \in 0 .. k |-> IF j = k THEN Freed(g[k - 1], ids[k]) ELSE g[j]]
  <2>2. k - 1 \in 0 .. k - 1 /\ ids[k] \in 1 .. n /\ g[k - 1] \in Lists(n)
    BY <1>1, <2>1
  <2>3. Freed(g[k - 1], ids[k]) \in Lists(n)
    BY <2>2, FreedIs
  <2>4. h \in [0 .. k -> Lists(n)]
    BY <2>1, <2>3
  <2>5. h[k] = Freed(g[k - 1], ids[k]) /\ \A j \in 0 .. k - 1 : h[j] = g[j]
    OBVIOUS
  <2> HIDE DEF h
  <2>6. Upto(h, k)
    <3>1. h[0] = List
      BY <2>1, <2>5
    <3>2. ASSUME NEW j \in 1 .. k PROVE h[j] = Freed(h[j - 1], ids[j])
      <4>1. CASE j = k
        BY <4>1, <2>2, <2>5
      <4>2. CASE j # k
        <5>1. j \in 1 .. k - 1 /\ j - 1 \in 0 .. k - 1 /\ j \in 0 .. k - 1
          BY <4>2
        <5> QED
          BY <2>1, <2>5, <5>1
      <4> QED
        BY <4>1, <4>2
    <3> QED
      BY <3>1, <3>2
  <2>7. \E f \in [0 .. k -> Lists(n)] : Upto(f, k)
    <3> HIDE DEF Upto
    <3> QED
      BY <2>4, <2>6
  <2> HIDE DEF Upto
  <2> QED
    BY <2>7, <1>1
<1>4. m \in S
  <2> HIDE DEF S
  <2>1. \A k \in 0 .. m : k \in S
    BY <1>1, <1>2, <1>3, CountingUp
  <2> QED
    BY <1>1, <2>1
<1>5. PICK g \in [0 .. m -> Lists(n)] : Upto(g, m)
  BY <1>4
<1> DEFINE Says(f) == f = [k \in 0 .. Len(ids) |->
                             IF k = 0 THEN List ELSE Freed(f[k - 1], ids[k])]
<1>6. Says(g)
  <2> DEFINE h == [k \in 0 .. Len(ids) |-> IF k = 0 THEN List ELSE Freed(g[k - 1], ids[k])]
  <2>1. \A k \in 0 .. m : g[k] = h[k]
    BY <1>1, <1>5
  <2>2. DOMAIN h = 0 .. m /\ DOMAIN g = 0 .. m
    BY <1>5
  <2> QED
    BY <2>1, <2>2
<1>7. FreedOneByOne(ids) = CHOOSE f : Says(f)
  BY DEF FreedOneByOne
<1>8. Says(FreedOneByOne(ids))
  <2> HIDE DEF Says
  <2> QED
    BY <1>6, <1>7
<1>9. \A k \in 0 .. m : FreedOneByOne(ids)[k] = IF k = 0 THEN List
                                                ELSE Freed(FreedOneByOne(ids)[k - 1], ids[k])
  BY <1>8
<1>10. FreedOneByOne(ids)[0] = List
  BY <1>1, <1>9
<1>11. ASSUME NEW k \in 1 .. m
       PROVE  FreedOneByOne(ids)[k] = Freed(FreedOneByOne(ids)[k - 1], ids[k])
  <2>1. k \in 0 .. m /\ k # 0
    OBVIOUS
  <2> QED
    BY <1>9, <2>1
<1> QED
  BY <1>10, <1>11

\* Freeing the first items one after the other leaves a list of the others.
LEMMA FirstFreed ==
  ASSUME NEW n \in Nat, List \in Lists(n), NEW t \in Seq(Touches(n)), Distinct(t), Shape(List, t),
         NEW ids \in Seq(1 .. n), Len(ids) <= Len(t), \A k \in 1 .. Len(ids) : ids[k] = t[k].id
  PROVE  /\ FreedOneByOne(ids)[Len(ids)] \in Lists(n)
         /\ Shape(FreedOneByOne(ids)[Len(ids)], Rest(t, Len(ids)))
<1> DEFINE m == Len(ids)
           F == FreedOneByOne(ids)
           S == {k \in 0 .. m : F[k] \in Lists(n) /\ Shape(F[k], Rest(t, k))}
<1>1. m \in Nat /\ m <= Len(t) /\ Len(t) \in Nat /\ \A j \in 1 .. m : ids[j] \in 1 .. n
  OBVIOUS
<1>2. F[0] = List /\ \A k \in 1 .. m : F[k] = Freed(F[k - 1], ids[k])
  BY FreedOneByOneIs
<1> HIDE DEF F
<1>3. 0 \in S
  <2>1. Rest(t, 0) = t
    BY <1>1, RestIs, SeqEqual
  <2> QED
    BY <1>1, <1>2, <2>1
<1>4. ASSUME NEW k \in 1 .. m, k - 1 \in S
      PROVE  k \in S
  <2> DEFINE a == Rest(t, k - 1)
             b == Rest(t, k)
  <2>1. k \in 0 .. Len(t) /\ k - 1 \in 0 .. Len(t) /\ k \in 1 .. Len(t)
    BY <1>1
  <2>2. /\ a \in Seq(Touches(n)) /\ Len(a) = Len(t) - (k - 1)
        /\ \A j \in 1 .. Len(t) - (k - 1) : a[j] = t[(k - 1) + j]
    BY <2>1, RestIs
  <2>3. /\ b \in Seq(Touches(n)) /\ Len(b) = Len(t) - k
        /\ \A j \in 1 .. Len(t) - k : b[j] = t[k + j]
    BY <2>1, RestIs
  <2>4. F[k - 1] \in Lists(n) /\ Shape(F[k - 1], a) /\ F[k] = Freed(F[k - 1], ids[k])
    BY <1>2, <1>4
  <2> HIDE DEF a, b, S
  <2>5. IsWithout(b, a, 1)
    <3>1. Len(b) = Len(a) - 1
      BY <1>1, <2>2, <2>3
    <3>2. ASSUME NEW j \in 1 .. Len(a) - 1
          PROVE  b[j] = a[j + 1] /\ ~(j < 1)
      <4>1. j \in 1 .. Len(t) - k /\ j + 1 \in 1 .. Len(t) - (k - 1) /\ (k - 1) + (j + 1) = k + j
        BY <1>1, <2>1, <2>2
      <4>2. b[j] = t[k + j]
        BY <2>3, <4>1
      <4>3. a[j + 1] = t[(k - 1) + (j + 1)]
        BY <2>2, <4>1
      <4> QED
        BY <4>1, <4>2, <4>3
    <3> QED
      BY <3>1, <3>2 DEF IsWithout
  <2>6. Distinct(a)
    <3>1. ASSUME NEW i \in 1 .. Len(a), NEW j \in 1 .. Len(a), a[i].id = a[j].id
          PROVE  i = j
      <4>1. (k - 1) + i \in 1 .. Len(t) /\ (k - 1) + j \in 1 .. Len(t)
            /\ a[i] = t[(k - 1) + i] /\ a[j] = t[(k - 1) + j]
        BY <1>1, <2>1, <2>2
      <4>2. (k - 1) + i = (k - 1) + j
        BY <3>1, <4>1 DEF Distinct
      <4> QED
        BY <2>1, <4>2
    <3> QED
      BY <3>1 DEF Distinct
  <2>7. 1 \in 1 .. Len(a) /\ a[1].id = ids[k]
    <3>1. 1 \in 1 .. Len(t) - (k - 1) /\ (k - 1) + 1 = k
      BY <1>1, <2>1
    <3> QED
      BY <2>2, <3>1
  <2>8. Shape(Freed(F[k - 1], a[1].id), b)
    BY <2>2, <2>3, <2>4, <2>5, <2>6, <2>7, FreedShape
  <2>9. Freed(F[k - 1], ids[k]) \in Lists(n)
    BY <1>1, <2>4, FreedIs
  <2> QED
    BY <2>4, <2>7, <2>8, <2>9 DEF S, b
<1>5. m \in S
  <2> HIDE DEF S
  <2>1. \A k \in 0 .. m : k \in S
    BY <1>1, <1>3, <1>4, CountingUp
  <2> QED
    BY <1>1, <2>1
<1> QED
  BY <1>5 DEF F

-----------------------------------------------------------------------------
\* The list in memory is one over the pool.
LEMMA ListIs ==
  ASSUME LruTyped
  PROVE  /\ Len(pool) \in Nat /\ pool \in Pools(Len(pool)) /\ DOMAIN pool = 1 .. Len(pool)
         /\ List \in Lists(Len(pool)) /\ List.pool = pool
         /\ List.first = firstItem /\ List.last = lastItem
<1>1. pool \in Seq(Items(Len(pool))) /\ Len(pool) \in Nat
      /\ firstItem \in 0 .. Len(pool) /\ lastItem \in 0 .. Len(pool)
  BY DEF LruTyped
<1>2. pool \in [1 .. Len(pool) -> Items(Len(pool))]
  BY <1>1
<1> QED
  BY <1>1, <1>2 DEF List, Lists, Pools

\* The list has no more items than the pool may have.
LEMMA TouchedFits ==
  ASSUME LruInv
  PROVE  Len(touched) \in Nat /\ Len(touched) <= MaxPool /\ MaxPool \in Nat /\ MaxTick \in Nat
<1>1. Len(touched) \in Nat /\ Len(freeIds) \in Nat /\ Len(pool) \in Nat
      /\ Len(pool) <= MaxPool
  BY DEF LruInv, LruTyped
<1>2. Len(touched) + Len(freeIds) = Len(pool)
  BY DEF LruInv, Once
<1> QED
  BY <1>1, <1>2, LruAssumption

\* The walk visits the items in the order of their touches, then the null pointer.
LEMMA WalkIs ==
  ASSUME LruInv
  PROVE  \A k \in 1 .. MaxPool + 1 : ListWalk[k] = At(touched, k)
<1> DEFINE Says(f) == f = [n \in 1 .. MaxPool + 1 |->
                             IF n = 1 THEN firstItem
                             ELSE IF f[n - 1] = 0 THEN 0 ELSE pool[f[n - 1]].next]
           g == [k \in 1 .. MaxPool + 1 |-> At(touched, k)]
           N == Len(pool)
<1>0. /\ LruTyped /\ Shape(List, touched) /\ N \in Nat /\ touched \in Seq(Touches(N))
      /\ List.pool = pool /\ List.first = firstItem
  BY ListIs DEF LruInv, LruTyped
<1>1. Len(touched) \in Nat /\ MaxPool \in Nat /\ Len(touched) <= MaxPool
  BY TouchedFits
<1> HIDE DEF N
<1>2. firstItem = At(touched, 1)
  BY <1>0 DEF Shape
<1>3. ASSUME NEW k \in 2 .. MaxPool + 1
      PROVE  At(touched, k) = IF At(touched, k - 1) = 0 THEN 0 ELSE pool[At(touched, k - 1)].next
  <2>1. k - 1 \in Int /\ k \in Int
    BY <1>1
  <2>2. (k - 1 \in 1 .. Len(touched) <=> At(touched, k - 1) # 0)
        /\ (k \in 1 .. Len(touched) <=> At(touched, k) # 0)
    BY <1>0, <2>1, AtIs
  <2>3. CASE k - 1 \in 1 .. Len(touched)
    <3>1. At(touched, k - 1) = touched[k - 1].id
      BY <2>3 DEF At
    <3>2. pool[touched[k - 1].id].next = At(touched, k - 1 + 1)
      BY <1>0, <2>3 DEF Shape
    <3>3. k - 1 + 1 = k
      BY <2>1
    <3> QED
      BY <2>2, <2>3, <3>1, <3>2, <3>3
  <2>4. CASE k - 1 \notin 1 .. Len(touched)
    <3>1. k \notin 1 .. Len(touched)
      BY <1>1, <2>4
    <3> QED
      BY <2>2, <2>4, <3>1
  <2> QED
    BY <2>3, <2>4
<1>4. Says(g)
  <2> DEFINE h == [n \in 1 .. MaxPool + 1 |->
                     IF n = 1 THEN firstItem
                     ELSE IF g[n - 1] = 0 THEN 0 ELSE pool[g[n - 1]].next]
  <2>1. ASSUME NEW k \in 1 .. MaxPool + 1
        PROVE  g[k] = h[k]
    <3>1. CASE k = 1
      BY <1>2, <3>1
    <3>2. CASE k # 1
      <4>1. k \in 2 .. MaxPool + 1 /\ k - 1 \in 1 .. MaxPool + 1
        BY <1>1, <3>2
      <4>2. g[k - 1] = At(touched, k - 1) /\ g[k] = At(touched, k)
        BY <4>1
      <4>3. h[k] = IF g[k - 1] = 0 THEN 0 ELSE pool[g[k - 1]].next
        BY <3>2
      <4> HIDE DEF g, h
      <4> QED
        BY <1>3, <4>1, <4>2, <4>3
    <3> QED
      BY <3>1, <3>2
  <2>2. DOMAIN g = 1 .. MaxPool + 1 /\ DOMAIN h = 1 .. MaxPool + 1
    OBVIOUS
  <2>3. g = h
    BY <2>1
  <2> QED
    BY <2>3
<1>5. ListWalk = CHOOSE f : Says(f)
  BY DEF ListWalk
<1>6. Says(ListWalk)
  <2> HIDE DEF Says
  <2> QED
    BY <1>4, <1>5
<1>7. ListWalk[1] = firstItem
      /\ \A k \in 2 .. MaxPool + 1 :
           ListWalk[k] = IF ListWalk[k - 1] = 0 THEN 0 ELSE pool[ListWalk[k - 1]].next
  <2>1. \A k \in 1 .. MaxPool + 1 :
          ListWalk[k] = IF k = 1 THEN firstItem ELSE IF ListWalk[k - 1] = 0 THEN 0 ELSE pool[ListWalk[k - 1]].next
    BY <1>6
  <2>2. 1 \in 1 .. MaxPool + 1 /\ \A k \in 2 .. MaxPool + 1 : k \in 1 .. MaxPool + 1 /\ k # 1
    BY <1>1
  <2> QED
    BY <2>1, <2>2
<1> DEFINE S == {k \in 0 .. MaxPool : ListWalk[k + 1] = At(touched, k + 1)}
<1>8. 0 \in S
  BY <1>1, <1>2, <1>7
<1>9. ASSUME NEW k \in 1 .. MaxPool, k - 1 \in S
      PROVE  k \in S
  <2>1. k + 1 \in 2 .. MaxPool + 1 /\ k + 1 - 1 = k /\ k - 1 + 1 = k /\ k \in 0 .. MaxPool
    BY <1>1
  <2>2. ListWalk[k] = At(touched, k)
    BY <1>9, <2>1
  <2>3. ListWalk[k + 1] = IF ListWalk[k] = 0 THEN 0 ELSE pool[ListWalk[k]].next
    BY <1>7, <2>1
  <2>4. At(touched, k + 1) = IF At(touched, k) = 0 THEN 0 ELSE pool[At(touched, k)].next
    BY <1>3, <2>1
  <2> QED
    BY <2>1, <2>2, <2>3, <2>4
<1>10. \A k \in 0 .. MaxPool : k \in S
  <2> HIDE DEF S
  <2> QED
    BY <1>1, <1>8, <1>9, CountingUp
<1>11. ASSUME NEW k \in 1 .. MaxPool + 1
       PROVE  ListWalk[k] = At(touched, k)
  <2>1. k - 1 \in 0 .. MaxPool /\ k - 1 + 1 = k
    BY <1>1
  <2> QED
    BY <1>10, <2>1
<1> QED
  BY <1>11

\* The items touched by t come first, and the walk below t is over them.
LEMMA BelowIs ==
  ASSUME LruInv, NEW t \in Nat
  PROVE  \E m \in 0 .. Len(touched) :
           /\ \A k \in 1 .. Len(touched) : touched[k].tick <= t <=> k <= m
           /\ Cardinality({k \in DOMAIN touched : touched[k].tick <= t}) = m
           /\ Below(t) = [k \in 1 .. m |-> touched[k].id]
<1> DEFINE n == Len(touched)
           N == Len(pool)
<1>0. /\ Shape(List, touched) /\ N \in Nat /\ touched \in Seq(Touches(N))
      /\ List.pool = pool /\ Aged(touched, tick)
  BY ListIs DEF LruInv, LruTyped
<1>1. n \in Nat /\ MaxPool \in Nat /\ n <= MaxPool
  BY TouchedFits
<1>2. \A k \in 1 .. n : touched[k].tick \in Nat
  <2>1. \A k \in 1 .. n : k \in Int
    BY <1>1
  <2> HIDE DEF N
  <2> QED
    BY <1>0, <2>1, AtIs
<1> HIDE DEF N
<1> DEFINE S == {k \in 0 .. n : k + 1 <= n /\ touched[k + 1].tick <= t}
<1>3. n \in 0 .. n /\ n \notin S
  BY <1>1
<1>4. PICK m \in 0 .. n : m \notin S /\ \A a \in 0 .. n : a < m => a \in S
  <2> HIDE DEF S
  <2> QED
    BY <1>1, <1>3, FirstMissing
<1>5. ASSUME NEW k \in 1 .. n
      PROVE  touched[k].tick <= t <=> k <= m
  <2>1. CASE k <= m
    <3>1. k - 1 \in 0 .. n /\ k - 1 < m /\ k - 1 + 1 = k
      BY <1>1, <2>1
    <3>2. k - 1 \in S
      BY <1>4, <3>1
    <3> QED
      BY <2>1, <3>1, <3>2
  <2>2. CASE k > m
    <3>1. m + 1 \in 1 .. n /\ m + 1 <= k
      BY <1>1, <2>2
    <3>2. touched[m + 1].tick > t
      BY <1>2, <1>4, <3>1
    <3>3. touched[m + 1].tick <= touched[k].tick
      BY <1>0, <3>1 DEF Aged
    <3> QED
      BY <1>2, <2>2, <3>1, <3>2, <3>3
  <2>3. k <= m \/ k > m
    BY <1>1
  <2> QED
    BY <2>1, <2>2, <2>3
<1> HIDE DEF S
<1>6. Cardinality({k \in DOMAIN touched : touched[k].tick <= t}) = m
  <2>1. DOMAIN touched = 1 .. n
    BY <1>0
  <2>2. {k \in DOMAIN touched : touched[k].tick <= t} = 1 .. m
    BY <1>1, <1>5, <2>1
  <2>3. Cardinality(1 .. m) = IF 1 > m THEN 0 ELSE m - 1 + 1
    BY FS_Interval
  <2>4. Cardinality(1 .. m) = m
    BY <1>1, <2>3
  <2> QED
    BY <2>2, <2>4
<1>7. \A k \in 1 .. MaxPool + 1 : ListWalk[k] = At(touched, k)
  BY WalkIs
<1>8. ASSUME NEW k \in 1 .. MaxPool + 1
      PROVE  (ListWalk[k] = 0 \/ pool[ListWalk[k]].tick > t) <=> k > m
  <2>1. ListWalk[k] = At(touched, k)
    BY <1>7
  <2>2. CASE k \in 1 .. n
    <3>1. ListWalk[k] = touched[k].id /\ ListWalk[k] # 0
      <4>1. k \in Int
        BY <2>2
      <4> QED
        BY <1>0, <2>1, <2>2, <4>1, AtIs
    <3>2. pool[touched[k].id].tick = touched[k].tick
      BY <1>0, <2>2 DEF Shape
    <3>3. touched[k].tick <= t <=> k <= m
      BY <1>5, <2>2
    <3>4. touched[k].tick \in Nat
      BY <1>2, <2>2
    <3> QED
      BY <2>2, <3>1, <3>2, <3>3, <3>4
  <2>3. CASE k \notin 1 .. n
    <3>1. ListWalk[k] = 0
      BY <2>1, <2>3 DEF At
    <3>2. k > m
      BY <1>1, <2>3
    <3> QED
      BY <3>1, <3>2
  <2> QED
    BY <2>2, <2>3
<1> DEFINE ends == {k \in 1 .. MaxPool + 1 : ListWalk[k] = 0 \/ pool[ListWalk[k]].tick > t}
<1>9. Min(ends) = m + 1
  <2>1. m + 1 \in ends /\ \A k \in ends : m + 1 <= k /\ k \in Int
    BY <1>1, <1>8
  <2> HIDE DEF ends
  <2>2. Min(ends) \in ends /\ \A k \in ends : Min(ends) <= k
    <3>1. Min(ends) = CHOOSE x \in ends : \A y \in ends : x <= y
      BY DEF Min
    <3> QED
      BY <2>1, <3>1
  <2> QED
    BY <2>1, <2>2
<1>10. Below(t) = [k \in 1 .. Min(ends) - 1 |-> ListWalk[k]]
  BY DEF Below
<1>11. Below(t) = [k \in 1 .. m |-> touched[k].id]
  <2>1. Min(ends) - 1 = m
    BY <1>9
  <2> HIDE DEF ends
  <2>2. \A k \in 1 .. m : ListWalk[k] = touched[k].id
    <3>1. \A k \in 1 .. m : k \in 1 .. MaxPool + 1 /\ k \in 1 .. Len(touched)
      BY <1>1
    <3> QED
      BY <1>7, <3>1 DEF At
  <2> QED
    BY <1>10, <2>1, <2>2
<1> QED
  BY <1>5, <1>6, <1>11

-----------------------------------------------------------------------------
\* A list that is assigned to the variables.
LEMMA NowIs ==
  ASSUME NEW n \in Nat, NEW l \in Lists(n), IsNow(l)
  PROVE  /\ pool' \in Seq(Items(n)) /\ Len(pool') = n /\ List' = l
         /\ firstItem' \in 0 .. n /\ lastItem' \in 0 .. n
<1>1. pool' = l.pool /\ firstItem' = l.first /\ lastItem' = l.last
  BY DEF IsNow
<1>2. l.pool \in [1 .. n -> Items(n)] /\ l.first \in 0 .. n /\ l.last \in 0 .. n
      /\ l = [pool |-> l.pool, first |-> l.first, last |-> l.last]
  BY DEF Lists, Pools
<1>3. l.pool \in Seq(Items(n)) /\ Len(l.pool) = n
  BY <1>2
<1> QED
  BY <1>1, <1>2, <1>3 DEF List

\* Ticks stay in order when a place goes, and when one of now comes behind.
LEMMA AgedWithout ==
  ASSUME NEW n \in Nat, NEW t \in Seq(Touches(n)), NEW u \in Seq(Touches(n)),
         NEW p \in 1 .. Len(t), IsWithout(u, t, p), NEW now \in Nat, Aged(t, now)
  PROVE  Aged(u, now)
<1> DEFINE from(k) == IF k < p THEN k ELSE k + 1
<1>1. Len(t) \in Nat /\ Len(u) = Len(t) - 1 /\ p \in 1 .. Len(t)
  BY DEF IsWithout
<1>2. ASSUME NEW k \in 1 .. Len(u)
      PROVE  from(k) \in 1 .. Len(t) /\ u[k] = t[from(k)]
  BY <1>1 DEF IsWithout
<1>3. \A j, k \in 1 .. Len(u) : j <= k => from(j) <= from(k)
  BY <1>1
<1> HIDE DEF from
<1> QED
  BY <1>2, <1>3 DEF Aged

\* A touch of this tick may go behind all others.
LEMMA AgedBehind ==
  ASSUME NEW n \in Nat, NEW t \in Seq(Touches(n)), NEW now \in Nat, Aged(t, now),
         NEW m \in Touches(n), m.tick = now
  PROVE  Aged(Append(t, m), now)
<1> DEFINE u == Append(t, m)
<1>1. Len(t) \in Nat /\ Len(u) = Len(t) + 1 /\ u[Len(t) + 1] = m /\ \A k \in 1 .. Len(t) : u[k] = t[k]
  OBVIOUS
<1> HIDE DEF u
<1>2. ASSUME NEW k \in 1 .. Len(u)
      PROVE  u[k].tick <= now
  <2>1. CASE k \in 1 .. Len(t)
    BY <1>1, <2>1 DEF Aged
  <2>2. CASE k = Len(t) + 1
    BY <1>1, <2>2
  <2>3. k \in 1 .. Len(t) \/ k = Len(t) + 1
    BY <1>1
  <2> QED
    BY <2>1, <2>2, <2>3
<1>3. ASSUME NEW j \in 1 .. Len(u), NEW k \in 1 .. Len(u), j <= k
      PROVE  u[j].tick <= u[k].tick
  <2>1. CASE k \in 1 .. Len(t)
    <3>1. j \in 1 .. Len(t)
      BY <1>1, <1>3, <2>1
    <3> QED
      BY <1>1, <1>3, <2>1, <3>1 DEF Aged
  <2>2. CASE k = Len(t) + 1
    BY <1>1, <1>2, <2>2
  <2>3. k \in 1 .. Len(t) \/ k = Len(t) + 1
    BY <1>1
  <2> QED
    BY <2>1, <2>2, <2>3
<1>4. Aged(u, now)
  BY <1>2, <1>3 DEF Aged
<1> QED
  BY <1>4 DEF u

\* When an item leaves the list, all but that one are in use or free, and once.
AllBut(id, t, f, n) ==
  /\ Distinct(t)
  /\ \A j, k \in 1 .. Len(f) : f[j] = f[k] => j = k
  /\ \A j \in 1 .. Len(t), k \in 1 .. Len(f) : t[j].id # f[k]
  /\ \A j \in 1 .. Len(t) : t[j].id # id
  /\ \A k \in 1 .. Len(f) : f[k] # id
  /\ \A i \in 1 .. n : i # id => \/ \E k \in 1 .. Len(t) : t[k].id = i
                                 \/ \E k \in 1 .. Len(f) : f[k] = i
  /\ Len(t) + Len(f) + 1 = n

\* Without the place of an item, every other is in use or free.
LEMMA OneLeaves ==
  ASSUME NEW n \in Nat, NEW t \in Seq(Touches(n)), NEW u \in Seq(Touches(n)), NEW f \in Seq(1 .. n),
         NEW p \in 1 .. Len(t), IsWithout(u, t, p), Once(t, f, n)
  PROVE  AllBut(t[p].id, u, f, n)
<1> DEFINE from(k) == IF k < p THEN k ELSE k + 1
           back(k) == IF k < p THEN k ELSE k - 1
<1>1. Len(t) \in Nat /\ Len(u) = Len(t) - 1 /\ p \in 1 .. Len(t) /\ Len(f) \in Nat
      /\ Len(t) + Len(f) = n /\ Distinct(t)
  BY DEF IsWithout, Once
<1>2. ASSUME NEW k \in 1 .. Len(u)
      PROVE  from(k) \in 1 .. Len(t) /\ u[k] = t[from(k)]
  BY <1>1 DEF IsWithout
<1>3. ASSUME NEW k \in 1 .. Len(t), k # p
      PROVE  back(k) \in 1 .. Len(u) /\ u[back(k)] = t[k]
  <2>1. back(k) \in 1 .. Len(t) - 1 /\ from(back(k)) = k
    BY <1>1, <1>3
  <2> QED
    BY <1>1, <1>2, <2>1
<1>4. Distinct(u) /\ \A k \in 1 .. Len(u) : u[k].id # t[p].id
  BY <1>1, WithoutDistinct
<1> HIDE DEF from, back
<1>5. \A j \in 1 .. Len(u), k \in 1 .. Len(f) : u[j].id # f[k]
  <2>1. \A j \in 1 .. Len(t), k \in 1 .. Len(f) : t[j].id # f[k]
    BY DEF Once
  <2> QED
    BY <1>2, <2>1
<1>6. \A k \in 1 .. Len(f) : f[k] # t[p].id
  BY DEF Once
<1>7. ASSUME NEW i \in 1 .. n, i # t[p].id
      PROVE  \/ \E k \in 1 .. Len(u) : u[k].id = i
             \/ \E k \in 1 .. Len(f) : f[k] = i
  <2>1. CASE \E k \in 1 .. Len(t) : t[k].id = i
    <3>1. PICK k \in 1 .. Len(t) : t[k].id = i
      BY <2>1
    <3>2. k # p
      BY <1>7, <3>1
    <3> QED
      BY <1>3, <3>1, <3>2
  <2>2. CASE \E k \in 1 .. Len(f) : f[k] = i
    BY <2>2
  <2> QED
    BY <2>1, <2>2 DEF Once
<1>8. Len(u) + Len(f) + 1 = n
  BY <1>1
<1>9. \A j, k \in 1 .. Len(f) : f[j] = f[k] => j = k
  BY DEF Once
<1> QED
  BY <1>4, <1>5, <1>6, <1>7, <1>8, <1>9 DEF AllBut

\* The one comes back behind the free ids, or behind the list.
LEMMA OneIsFree ==
  ASSUME NEW n \in Nat, NEW t \in Seq(Touches(n)), NEW f \in Seq(1 .. n),
         NEW id \in 1 .. n, AllBut(id, t, f, n)
  PROVE  Append(f, id) \in Seq(1 .. n) /\ Once(t, Append(f, id), n)
<1> DEFINE g == Append(f, id)
<1>1. g \in Seq(1 .. n) /\ Len(g) = Len(f) + 1 /\ Len(f) \in Nat /\ g[Len(f) + 1] = id
      /\ \A k \in 1 .. Len(f) : g[k] = f[k]
  OBVIOUS
<1> HIDE DEF g
<1>2. \A k \in 1 .. Len(g) : k \in 1 .. Len(f) \/ (k = Len(f) + 1 /\ g[k] = id)
  BY <1>1
<1>3. \A j, k \in 1 .. Len(g) : g[j] = g[k] => j = k
  <2>1. /\ \A j, k \in 1 .. Len(f) : f[j] = f[k] => j = k
        /\ \A k \in 1 .. Len(f) : f[k] # id
    BY DEF AllBut
  <2> SUFFICES ASSUME NEW j \in 1 .. Len(g), NEW k \in 1 .. Len(g), g[j] = g[k]
               PROVE  j = k
    OBVIOUS
  <2>2. CASE j \in 1 .. Len(f) /\ k \in 1 .. Len(f)
    BY <1>1, <2>1, <2>2
  <2>3. CASE ~(j \in 1 .. Len(f) /\ k \in 1 .. Len(f))
    BY <1>1, <1>2, <2>1, <2>3
  <2> QED
    BY <2>2, <2>3
<1>4. \A j \in 1 .. Len(t), k \in 1 .. Len(g) : t[j].id # g[k]
  BY <1>1, <1>2 DEF AllBut
<1>5. ASSUME NEW i \in 1 .. n
      PROVE  \/ \E k \in 1 .. Len(t) : t[k].id = i
             \/ \E k \in 1 .. Len(g) : g[k] = i
  <2>1. CASE i = id
    <3>1. Len(f) + 1 \in 1 .. Len(g) /\ g[Len(f) + 1] = i
      BY <1>1, <2>1
    <3> QED
      BY <3>1
  <2>2. CASE \E k \in 1 .. Len(t) : t[k].id = i
    BY <2>2
  <2>3. CASE \E k \in 1 .. Len(f) : f[k] = i
    <3>1. PICK k \in 1 .. Len(f) : f[k] = i
      BY <2>3
    <3>2. k \in 1 .. Len(g) /\ g[k] = i
      BY <1>1, <3>1
    <3> QED
      BY <3>2
  <2> QED
    BY <2>1, <2>2, <2>3 DEF AllBut
<1>6. Len(t) + Len(g) = n /\ Distinct(t)
  <2>1. Len(t) \in Nat
    OBVIOUS
  <2> QED
    BY <1>1, <2>1 DEF AllBut
<1>7. Once(t, g, n)
  BY <1>3, <1>4, <1>5, <1>6 DEF Once
<1> QED
  BY <1>1, <1>7 DEF g

\* An item that was missing alone is in use when it stands behind.
LEMMA OneIsUsed ==
  ASSUME NEW n \in Nat, NEW t \in Seq(Touches(n)), NEW f \in Seq(1 .. n),
         NEW m \in Touches(n), AllBut(m.id, t, f, n)
  PROVE  Append(t, m) \in Seq(Touches(n)) /\ Once(Append(t, m), f, n)
<1> DEFINE u == Append(t, m)
<1>1. u \in Seq(Touches(n)) /\ Len(u) = Len(t) + 1 /\ Len(t) \in Nat /\ u[Len(t) + 1] = m
      /\ \A k \in 1 .. Len(t) : u[k] = t[k]
  OBVIOUS
<1> HIDE DEF u
<1>2. \A k \in 1 .. Len(u) : k \in 1 .. Len(t) \/ (k = Len(t) + 1 /\ u[k] = m)
  BY <1>1
<1>3. Distinct(u)
  BY <1>1, <1>2 DEF AllBut, Distinct
<1>4. \A j \in 1 .. Len(u), k \in 1 .. Len(f) : u[j].id # f[k]
  BY <1>1, <1>2 DEF AllBut
<1>5. ASSUME NEW i \in 1 .. n
      PROVE  \/ \E k \in 1 .. Len(u) : u[k].id = i
             \/ \E k \in 1 .. Len(f) : f[k] = i
  <2>1. CASE i = m.id
    <3>1. Len(t) + 1 \in 1 .. Len(u) /\ u[Len(t) + 1].id = i
      BY <1>1, <2>1
    <3> QED
      BY <3>1
  <2>2. CASE \E k \in 1 .. Len(t) : t[k].id = i
    <3>1. PICK k \in 1 .. Len(t) : t[k].id = i
      BY <2>2
    <3>2. k \in 1 .. Len(u) /\ u[k].id = i
      BY <1>1, <3>1
    <3> QED
      BY <3>2
  <2>3. CASE \E k \in 1 .. Len(f) : f[k] = i
    BY <2>3
  <2> QED
    BY <2>1, <2>2, <2>3 DEF AllBut
<1>6. Len(u) + Len(f) = n /\ \A j, k \in 1 .. Len(f) : f[j] = f[k] => j = k
  <2>1. Len(f) \in Nat
    OBVIOUS
  <2> QED
    BY <1>1, <2>1 DEF AllBut
<1>7. Once(u, f, n)
  BY <1>3, <1>4, <1>5, <1>6 DEF Once
<1> QED
  BY <1>1, <1>7 DEF u

\* The item of an id in use has one place.
LEMMA PlaceIs ==
  ASSUME LruInv, NEW id \in InUse
  PROVE  /\ PlaceOf(id) \in 1 .. Len(touched) /\ touched[PlaceOf(id)].id = id
         /\ id \in 1 .. Len(pool)
         /\ Without(id) \in Seq(Touches(Len(pool))) /\ IsWithout(Without(id), touched, PlaceOf(id))
<1> DEFINE N == Len(pool)
<1>1. touched \in Seq(Touches(N)) /\ N \in Nat
  BY ListIs DEF LruInv, LruTyped
<1> HIDE DEF N
<1>2. DOMAIN touched = 1 .. Len(touched)
  BY <1>1
<1>3. \E k \in DOMAIN touched : touched[k].id = id
  BY DEF InUse
<1>4. PlaceOf(id) \in 1 .. Len(touched) /\ touched[PlaceOf(id)].id = id
  BY <1>2, <1>3 DEF PlaceOf
<1>5. id \in 1 .. N
  <2>1. PlaceOf(id) \in Int
    BY <1>4
  <2> QED
    BY <1>1, <1>4, <2>1, AtIs
<1>6. Without(id) \in Seq(Touches(N)) /\ IsWithout(Without(id), touched, PlaceOf(id))
  BY <1>1, <1>4, RemovedIs DEF Without, IsWithout
<1> QED
  BY <1>4, <1>5, <1>6 DEF N

-----------------------------------------------------------------------------
\* The empty cache.
LEMMA LruInitHolds == LruInit => LruInv
<1> SUFFICES ASSUME LruInit PROVE LruInv
  OBVIOUS
<1>1. /\ pool = <<>> /\ freeIds = <<>> /\ firstItem = 0 /\ lastItem = 0 /\ tick = 0 /\ touched = <<>>
      /\ MaxPool \in Nat
  BY LruAssumption DEF LruInit
<1>2. Len(pool) = 0 /\ Len(freeIds) = 0 /\ Len(touched) = 0 /\ 1 .. 0 = {}
  BY <1>1
<1>3. LruTyped
  <2>1. <<>> \in Seq(Items(0)) /\ <<>> \in Seq(1 .. 0) /\ <<>> \in Seq(Touches(0))
    OBVIOUS
  <2> QED
    BY <1>1, <1>2, <2>1 DEF LruTyped
<1>4. Once(touched, freeIds, Len(pool)) /\ Aged(touched, tick)
  BY <1>1, <1>2 DEF Once, Aged, Distinct
<1>5. Shape(List, touched)
  BY <1>1, <1>2 DEF Shape, List, At
<1> QED
  BY <1>3, <1>4, <1>5 DEF LruInv

\* Time passes, or the walk is only looked at.
LEMMA ClockKeeps ==
  ASSUME LruInv, Clock
  PROVE  LruInv'
<1>1. /\ tick' = tick + 1 /\ tick \in Nat
      /\ pool' = pool /\ freeIds' = freeIds /\ firstItem' = firstItem /\ lastItem' = lastItem
      /\ touched' = touched
  BY DEF Clock, LruInv, LruTyped
<1>2. LruTyped'
  BY <1>1 DEF LruInv, LruTyped
<1>3. List' = List
  BY <1>1 DEF List
<1>4. Aged(touched, tick')
  <2>1. \A k \in 1 .. Len(touched) : touched[k].tick \in Nat
    <3> DEFINE N == Len(pool)
    <3>1. touched \in Seq(Touches(N)) /\ N \in Nat
      BY ListIs DEF LruInv, LruTyped
    <3> HIDE DEF N
    <3>2. \A k \in 1 .. Len(touched) : k \in Int
      BY <3>1
    <3> QED
      BY <3>1, <3>2, AtIs
  <2>2. Aged(touched, tick)
    BY DEF LruInv
  <2> QED
    BY <1>1, <2>1, <2>2 DEF Aged
<1> QED
  BY <1>1, <1>2, <1>3, <1>4 DEF LruInv

\* A walk that frees nothing changes nothing.
LEMMA ForEachKeeps ==
  ASSUME LruInv, UNCHANGED <<pool, freeIds, firstItem, lastItem, tick, touched>>
  PROVE  LruInv'
BY DEF LruInv, LruTyped, List

\* The freed item leaves the list and waits behind the free ids.
LEMMA FreeKeeps ==
  ASSUME LruInv, NEW id \in InUse, FreeItem(id)
  PROVE  LruInv'
<1> DEFINE n == Len(pool)
           p == PlaceOf(id)
           u == Without(id)
           l == Freed(List, id)
<1>1. /\ LruTyped /\ Once(touched, freeIds, n) /\ Aged(touched, tick) /\ Shape(List, touched)
      /\ n \in Nat /\ List \in Lists(n) /\ tick \in Nat /\ n <= MaxPool
      /\ touched \in Seq(Touches(n)) /\ freeIds \in Seq(1 .. n)
  BY ListIs DEF LruInv, LruTyped
<1>2. /\ p \in 1 .. Len(touched) /\ touched[p].id = id /\ id \in 1 .. n
      /\ u \in Seq(Touches(n)) /\ IsWithout(u, touched, p)
  BY PlaceIs
<1>3. IsNow(l) /\ freeIds' = Append(freeIds, id) /\ touched' = u /\ tick' = tick
  BY DEF FreeItem
<1> HIDE DEF n, p, u
<1>4. l \in Lists(n)
  BY <1>1, <1>2, FreedIs
<1>5. Shape(l, u)
  <2>1. Distinct(touched)
    BY <1>1 DEF Once
  <2>2. Shape(Freed(List, touched[p].id), u)
    BY <1>1, <1>2, <2>1, FreedShape
  <2> QED
    BY <1>2, <2>2
<1> HIDE DEF l
<1>6. /\ pool' \in Seq(Items(n)) /\ Len(pool') = n /\ List' = l
      /\ firstItem' \in 0 .. n /\ lastItem' \in 0 .. n
  BY <1>1, <1>3, <1>4, NowIs
<1>7. freeIds' \in Seq(1 .. n) /\ Once(touched', freeIds', n)
  <2>1. AllBut(touched[p].id, u, freeIds, n)
    BY <1>1, <1>2, OneLeaves
  <2>2. AllBut(id, u, freeIds, n)
    BY <1>2, <2>1
  <2>3. Append(freeIds, id) \in Seq(1 .. n) /\ Once(u, Append(freeIds, id), n)
    BY <1>1, <1>2, <2>2, OneIsFree
  <2> QED
    BY <1>3, <2>3
<1>8. Aged(touched', tick')
  BY <1>1, <1>2, <1>3, AgedWithout
<1>9. LruTyped'
  BY <1>1, <1>2, <1>3, <1>6, <1>7 DEF LruTyped
<1> QED
  BY <1>3, <1>5, <1>6, <1>7, <1>8, <1>9 DEF LruInv

\* All items touched by t leave the list.
LEMMA FreeAllKeeps ==
  ASSUME LruInv, NEW t \in Nat, FreeAllBelow(t)
  PROVE  LruInv'
<1> DEFINE n == Len(pool)
           ids == Below(t)
           l == FreedOneByOne(ids)[Len(ids)]
<1>1. /\ LruTyped /\ Once(touched, freeIds, n) /\ Aged(touched, tick) /\ Shape(List, touched)
      /\ n \in Nat /\ List \in Lists(n) /\ tick \in Nat /\ n <= MaxPool
      /\ touched \in Seq(Touches(n)) /\ freeIds \in Seq(1 .. n) /\ Distinct(touched)
  BY ListIs DEF LruInv, LruTyped, Once
<1>2. PICK m \in 0 .. Len(touched) :
        /\ \A k \in 1 .. Len(touched) : touched[k].tick <= t <=> k <= m
        /\ Cardinality({k \in DOMAIN touched : touched[k].tick <= t}) = m
        /\ ids = [k \in 1 .. m |-> touched[k].id]
  BY BelowIs
<1>3. IsNow(l) /\ freeIds' = freeIds \o ids /\ touched' = Rest(touched, m) /\ tick' = tick
  BY <1>2 DEF FreeAllBelow, Rest
<1> HIDE DEF n
<1>4. ids \in Seq(1 .. n) /\ Len(ids) = m /\ \A k \in 1 .. m : ids[k] = touched[k].id
  <2>1. \A k \in 1 .. m : k \in 1 .. Len(touched) /\ k \in Int
    BY <1>1, <1>2
  <2>2. \A k \in 1 .. m : touched[k].id \in 1 .. n
    BY <1>1, <2>1, AtIs
  <2>3. m \in Nat
    BY <1>1, <1>2
  <2> DEFINE w == [k \in 1 .. m |-> touched[k].id]
  <2>4. w \in [1 .. m -> 1 .. n] /\ \A k \in 1 .. m : w[k] = touched[k].id
    BY <2>2
  <2> HIDE DEF w
  <2>5. w \in Seq(1 .. n) /\ Len(w) = m
    <3>1. w \in Seq(1 .. n)
      BY <2>3, <2>4, SeqDef
    <3>2. DOMAIN w = 1 .. m
      BY <2>4
    <3> QED
      BY <2>3, <3>1, <3>2
  <2>6. ids = w
    BY <1>2 DEF w
  <2> QED
    BY <2>4, <2>5, <2>6
<1> HIDE DEF ids
<1>5. l \in Lists(n) /\ Shape(l, Rest(touched, m))
  <2>1. Len(ids) <= Len(touched) /\ \A k \in 1 .. Len(ids) : ids[k] = touched[k].id
    BY <1>1, <1>2, <1>4
  <2>2. l \in Lists(n) /\ Shape(l, Rest(touched, Len(ids)))
    BY <1>1, <1>4, <2>1, FirstFreed
  <2> QED
    BY <1>4, <2>2
<1> HIDE DEF l
<1>6. /\ pool' \in Seq(Items(n)) /\ Len(pool') = n /\ List' = l
      /\ firstItem' \in 0 .. n /\ lastItem' \in 0 .. n
  BY <1>1, <1>3, <1>5, NowIs
<1> DEFINE u == Rest(touched, m)
           g == freeIds \o ids
           a == Len(touched)
           b == Len(freeIds)
<1>7. a \in Nat /\ b \in Nat /\ m \in Nat /\ m <= a /\ a + b = n
  BY <1>1, <1>2 DEF Once
<1>8. u \in Seq(Touches(n)) /\ Len(u) = a - m /\ \A k \in 1 .. a - m : u[k] = touched[m + k]
  BY <1>1, RestIs
<1>9. /\ g \in Seq(1 .. n) /\ Len(g) = b + m
      /\ \A k \in 1 .. b + m : g[k] = IF k <= b THEN freeIds[k] ELSE ids[k - b]
  BY <1>1, <1>4, ConcatProperties
<1>10. \A k \in 1 .. b + m : \/ k \in 1 .. b /\ g[k] = freeIds[k]
                             \/ k - b \in 1 .. m /\ g[k] = touched[k - b].id
  BY <1>4, <1>7, <1>9
<1> HIDE DEF u, g, a, b
<1>11. /\ \A j, k \in 1 .. a : touched[j].id = touched[k].id => j = k
       /\ \A j, k \in 1 .. b : freeIds[j] = freeIds[k] => j = k
       /\ \A j \in 1 .. a, k \in 1 .. b : touched[j].id # freeIds[k]
       /\ \A i \in 1 .. n : \/ \E k \in 1 .. a : touched[k].id = i
                            \/ \E k \in 1 .. b : freeIds[k] = i
  BY <1>1 DEF Once, Distinct, a, b
<1>12. Once(u, g, n)
  <2>1. Distinct(u)
    <3>1. \A k \in 1 .. a - m : m + k \in 1 .. a
      BY <1>7
    <3>2. \A j, k \in 1 .. a - m : m + j = m + k => j = k
      BY <1>7
    <3> SUFFICES ASSUME NEW j \in 1 .. Len(u), NEW k \in 1 .. Len(u), u[j].id = u[k].id
                 PROVE  j = k
      BY DEF Distinct
    <3>3. j \in 1 .. a - m /\ k \in 1 .. a - m
      BY <1>8
    <3>4. touched[m + j].id = touched[m + k].id
      BY <1>8, <3>3
    <3> QED
      BY <1>11, <3>1, <3>2, <3>3, <3>4
  <2>2. ASSUME NEW j \in 1 .. b + m, NEW k \in 1 .. b + m, g[j] = g[k]
        PROVE  j = k
    <3> DEFINE c == j - b
               d == k - b
    <3>1. c + b = j /\ d + b = k
      BY <1>7
    <3>2. /\ \/ j \in 1 .. b /\ g[j] = freeIds[j]
             \/ c \in 1 .. m /\ g[j] = touched[c].id
          /\ \/ k \in 1 .. b /\ g[k] = freeIds[k]
             \/ d \in 1 .. m /\ g[k] = touched[d].id
      BY <1>10
    <3> HIDE DEF c, d
    <3>3. 1 .. m \subseteq 1 .. a
      BY <1>7
    <3>4. CASE j \in 1 .. b /\ k \in 1 .. b /\ g[j] = freeIds[j] /\ g[k] = freeIds[k]
      BY <1>11, <2>2, <3>4
    <3>5. CASE c \in 1 .. m /\ d \in 1 .. m /\ g[j] = touched[c].id /\ g[k] = touched[d].id
      <4>1. c = d
        BY <1>11, <2>2, <3>5, <3>3
      <4> QED
        BY <3>1, <4>1
    <3>6. CASE j \in 1 .. b /\ d \in 1 .. m /\ g[j] = freeIds[j] /\ g[k] = touched[d].id
      <4>1. touched[d].id # freeIds[j]
        BY <1>11, <3>6, <3>3
      <4> QED
        BY <2>2, <3>6, <4>1
    <3>7. CASE k \in 1 .. b /\ c \in 1 .. m /\ g[k] = freeIds[k] /\ g[j] = touched[c].id
      <4>1. touched[c].id # freeIds[k]
        BY <1>11, <3>7, <3>3
      <4> QED
        BY <2>2, <3>7, <4>1
    <3> QED
      BY <3>2, <3>4, <3>5, <3>6, <3>7
  <2>3. ASSUME NEW j \in 1 .. a - m, NEW k \in 1 .. b + m
        PROVE  u[j].id # g[k]
    <3>1. m + j \in 1 .. a /\ u[j] = touched[m + j]
      BY <1>7, <1>8
    <3>2. CASE k \in 1 .. b /\ g[k] = freeIds[k]
      BY <1>11, <3>1, <3>2
    <3>3. CASE k - b \in 1 .. m /\ g[k] = touched[k - b].id
      <4> DEFINE c == k - b
                 d == m + j
      <4>1. c \in 1 .. a /\ c # d /\ d \in 1 .. a /\ u[j] = touched[d] /\ g[k] = touched[c].id
        BY <1>7, <3>1, <3>3
      <4> HIDE DEF c, d
      <4>2. touched[c].id # touched[d].id
        BY <1>11, <4>1
      <4> QED
        BY <4>1, <4>2
    <3> QED
      BY <1>10, <3>2, <3>3
  <2>4. ASSUME NEW i \in 1 .. n
        PROVE  \/ \E k \in 1 .. a - m : u[k].id = i
               \/ \E k \in 1 .. b + m : g[k] = i
    <3>1. CASE \E k \in 1 .. a : touched[k].id = i
      <4>1. PICK k \in 1 .. a : touched[k].id = i
        BY <3>1
      <4>2. CASE k <= m
        <5> DEFINE c == b + k
        <5>1. c \in 1 .. b + m /\ ~(c <= b) /\ c - b = k
          BY <1>7, <4>2
        <5> HIDE DEF c
        <5>2. g[c] = ids[k]
          BY <1>9, <5>1
        <5>3. ids[k] = i
          <6>1. k \in 1 .. m
            BY <1>7, <4>2
          <6> QED
            BY <1>4, <4>1, <6>1
        <5> QED
          BY <5>1, <5>2, <5>3
      <4>3. CASE k > m
        <5>1. k - m \in 1 .. a - m /\ m + (k - m) = k
          BY <1>7, <4>3
        <5>2. u[k - m].id = i
          BY <1>8, <4>1, <5>1
        <5> QED
          BY <5>1, <5>2
      <4>4. k <= m \/ k > m
        BY <1>7
      <4> QED
        BY <4>2, <4>3, <4>4
    <3>2. CASE \E k \in 1 .. b : freeIds[k] = i
      <4>1. PICK k \in 1 .. b : freeIds[k] = i
        BY <3>2
      <4>2. k \in 1 .. b + m /\ k <= b
        BY <1>7
      <4>3. g[k] = i
        BY <1>9, <4>1, <4>2
      <4> QED
        BY <4>2, <4>3
    <3> QED
      BY <1>11, <3>1, <3>2
  <2>5. Len(u) + Len(g) = n
    BY <1>7, <1>8, <1>9
  <2>6. Len(u) = a - m /\ Len(g) = b + m
    BY <1>8, <1>9
  <2> QED
    BY <2>1, <2>2, <2>3, <2>4, <2>5, <2>6 DEF Once
<1>13. Aged(u, tick)
  <2>1. /\ \A j, k \in 1 .. a : j <= k => touched[j].tick <= touched[k].tick
        /\ \A k \in 1 .. a : touched[k].tick <= tick
    BY <1>1 DEF Aged, a
  <2>2. \A k \in 1 .. a - m : m + k \in 1 .. a
    BY <1>7
  <2>3. \A j, k \in 1 .. a - m : j <= k => m + j <= m + k
    BY <1>7
  <2>4. Len(u) = a - m
    BY <1>8
  <2> QED
    BY <1>8, <2>1, <2>2, <2>3, <2>4 DEF Aged
<1>14. LruTyped'
  BY <1>1, <1>3, <1>6, <1>8, <1>9 DEF LruTyped, u, g
<1> QED
  BY <1>3, <1>5, <1>6, <1>12, <1>13, <1>14 DEF LruInv, u, g

\* The new item is the last one of the list.  All ids but the new one are in use
\* or free when the pool has grown or the first free id is taken.
LEMMA JoinsList ==
  ASSUME NEW n \in Nat, NEW l \in Lists(n), NEW id \in 1 .. n, NEW f \in Seq(1 .. n),
         NEW t \in Seq(Touches(n)), n <= MaxPool, tick \in Nat,
         Shape(l, t), Aged(t, tick), AllBut(id, t, f, n), l.pool[id].tick = tick,
         t = <<>> => l.pool[id].next = 0 /\ l.pool[id].prev = 0,
         IsNow(Attach(l, id)), touched' = Append(t, [id |-> id, tick |-> tick]),
         freeIds' = f, tick' = tick
  PROVE  LruInv'
<1> DEFINE m == [id |-> id, tick |-> tick]
           a == Attach(l, id)
<1>1. m \in Touches(n) /\ m.id = id /\ m.tick = tick
  BY DEF Touches
<1>2. \A k \in 1 .. Len(t) : t[k].id # id
  BY DEF AllBut
<1>3. a \in Lists(n) /\ Append(t, m) \in Seq(Touches(n)) /\ Shape(a, Append(t, m))
  BY <1>2, AttachShape
<1> HIDE DEF m, a
<1>4. touched' = Append(t, m) /\ IsNow(a)
  BY DEF m, a
<1>5. /\ pool' \in Seq(Items(n)) /\ Len(pool') = n /\ List' = a
      /\ firstItem' \in 0 .. n /\ lastItem' \in 0 .. n
  BY <1>3, <1>4, NowIs
<1>6. Once(Append(t, m), f, n)
  <2>1. AllBut(m.id, t, f, n)
    BY <1>1
  <2> QED
    BY <1>1, <2>1, OneIsUsed
<1>7. Aged(Append(t, m), tick)
  BY <1>1, AgedBehind
<1>8. LruTyped'
  BY <1>3, <1>4, <1>5 DEF LruTyped
<1> QED
  BY <1>3, <1>4, <1>5, <1>6, <1>7, <1>8 DEF LruInv

\* Insert with a new id.
LEMMA InsertGrows ==
  ASSUME LruInv, Insert, freeIds = <<>>
  PROVE  LruInv'
<1> DEFINE n == Len(pool)
           N == n + 1
           fresh == [NoItem EXCEPT !.tick = tick]
           built == Append(pool, fresh)
           l == [List EXCEPT !.pool = built]
<1>1. /\ LruTyped /\ Once(touched, freeIds, n) /\ Aged(touched, tick) /\ Shape(List, touched)
      /\ n \in Nat /\ List \in Lists(n) /\ tick \in Nat /\ List.pool = pool
      /\ touched \in Seq(Touches(n)) /\ pool \in Seq(Items(n)) /\ MaxPool \in Nat
      /\ List.first \in 0 .. n /\ List.last \in 0 .. n
  <2>1. List \in Lists(n)
    BY ListIs DEF LruInv
  <2> QED
    BY <2>1, ListIs, LruAssumption DEF LruInv, LruTyped, Lists
<1>2. /\ n < MaxPool /\ freeIds' = <<>> /\ IsNow(Attach(l, N))
      /\ touched' = Append(touched, [id |-> N, tick |-> tick]) /\ tick' = tick
  BY DEF Insert
<1> HIDE DEF n
<1>3. N \in Nat /\ N \in 1 .. N /\ 1 .. n \subseteq 1 .. N /\ 0 .. n \subseteq 0 .. N /\ N <= MaxPool
  BY <1>1, <1>2
<1>4. Items(n) \subseteq Items(N) /\ Touches(n) \subseteq Touches(N)
  BY <1>3 DEF Items, Touches
<1>5. fresh \in Items(N) /\ fresh.tick = tick /\ fresh.next = 0 /\ fresh.prev = 0
  <2>1. fresh = [tick |-> tick, next |-> 0, prev |-> 0]
    BY DEF NoItem
  <2>2. tick \in Nat /\ 0 \in 0 .. N
    BY <1>3 DEF LruInv, LruTyped
  <2> HIDE DEF fresh
  <2> QED
    BY <2>1, <2>2 DEF Items
<1> HIDE DEF fresh
<1>6. /\ built \in [1 .. N -> Items(N)] /\ built[N] = fresh /\ \A k \in 1 .. n : built[k] = pool[k]
  <2>1. pool \in Seq(Items(N))
    BY <1>1, <1>4, SeqMonotonic
  <2>2. built \in Seq(Items(N)) /\ Len(built) = N
    BY <1>5, <2>1 DEF n
  <2>3. built[N] = fresh /\ \A k \in 1 .. n : built[k] = pool[k]
    BY <1>5, <2>1 DEF n
  <2> HIDE DEF built
  <2> QED
    BY <2>2, <2>3
<1> HIDE DEF built
<1>7. l \in Lists(N) /\ l.pool = built /\ l.first = List.first /\ l.last = List.last
  <2>1. List = [pool |-> List.pool, first |-> List.first, last |-> List.last]
    BY DEF List
  <2>2. l = [pool |-> built, first |-> List.first, last |-> List.last]
    BY <2>1
  <2>3. built \in Pools(N) /\ List.first \in 0 .. N /\ List.last \in 0 .. N
    BY <1>1, <1>3, <1>6 DEF Pools
  <2> HIDE DEF l
  <2> QED
    BY <2>2, <2>3 DEF Lists
<1> HIDE DEF l
<1>8. touched \in Seq(Touches(N))
  BY <1>1, <1>4, SeqMonotonic
<1>9. \A k \in 1 .. Len(touched) : touched[k].id \in 1 .. n
  <2>1. \A k \in 1 .. Len(touched) : k \in Int
    OBVIOUS
  <2> QED
    BY <1>1, <2>1, AtIs
<1>10. Shape(l, touched)
  BY <1>1, <1>6, <1>7, <1>9 DEF Shape
<1>11. AllBut(N, touched, <<>>, N)
  <2>1. Len(<<>>) = 0 /\ 1 .. 0 = {} /\ N \notin 1 .. n /\ (\A i \in 1 .. N : i # N => i \in 1 .. n)
    BY <1>1
  <2>2. Len(touched) \in Nat /\ Len(touched) + Len(freeIds) = n /\ Len(freeIds) = 0
    BY <1>1, <2>1 DEF Once
  <2>3. \A i \in 1 .. n : \E k \in 1 .. Len(touched) : touched[k].id = i
    BY <1>1, <2>1, <2>2 DEF Once
  <2>4. \A k \in 1 .. Len(touched) : touched[k].id # N
    BY <1>9, <2>1
  <2>5. Distinct(touched) /\ Len(touched) + Len(<<>>) + 1 = N
    BY <1>1, <2>1, <2>2 DEF Once
  <2> QED
    BY <2>1, <2>3, <2>4, <2>5 DEF AllBut
<1>12. l.pool[N].tick = tick /\ l.pool[N].next = 0 /\ l.pool[N].prev = 0
  BY <1>5, <1>6, <1>7
<1>13. <<>> \in Seq(1 .. N)
  OBVIOUS
<1> HIDE DEF N
<1> QED
  BY <1>1, <1>2, <1>3, <1>7, <1>8, <1>10, <1>11, <1>12, <1>13, JoinsList

\* Insert with the id that is free for the longest time.
LEMMA InsertReuses ==
  ASSUME LruInv, Insert, freeIds # <<>>
  PROVE  LruInv'
<1> DEFINE n == Len(pool)
           id == Head(freeIds)
           fresh == [NoItem EXCEPT !.tick = tick]
           built == [pool EXCEPT ![id] = fresh]
           l == [List EXCEPT !.pool = built]
           f == Tail(freeIds)
<1>1. /\ LruTyped /\ Once(touched, freeIds, n) /\ Aged(touched, tick) /\ Shape(List, touched)
      /\ n \in Nat /\ List \in Lists(n) /\ tick \in Nat /\ List.pool = pool /\ pool \in Pools(n)
      /\ touched \in Seq(Touches(n)) /\ n <= MaxPool /\ freeIds \in Seq(1 .. n)
      /\ List.first \in 0 .. n /\ List.last \in 0 .. n
  <2>1. List \in Lists(n)
    BY ListIs DEF LruInv
  <2> QED
    BY <2>1, ListIs DEF LruInv, LruTyped, Lists
<1>2. /\ freeIds' = f /\ IsNow(Attach(l, id))
      /\ touched' = Append(touched, [id |-> id, tick |-> tick]) /\ tick' = tick
  BY DEF Insert
<1> HIDE DEF n
<1>3. /\ Len(freeIds) \in Nat /\ Len(freeIds) >= 1 /\ id = freeIds[1] /\ id \in 1 .. n
      /\ f \in Seq(1 .. n) /\ Len(f) = Len(freeIds) - 1
      /\ \A k \in 1 .. Len(freeIds) - 1 : f[k] = freeIds[k + 1]
  BY <1>1
<1> HIDE DEF id, f
<1>4. fresh \in Items(n) /\ fresh.tick = tick /\ fresh.next = 0 /\ fresh.prev = 0
  <2>1. fresh = [tick |-> tick, next |-> 0, prev |-> 0]
    BY DEF NoItem
  <2>2. tick \in Nat /\ 0 \in 0 .. n
    BY <1>1
  <2> HIDE DEF fresh
  <2> QED
    BY <2>1, <2>2 DEF Items
<1> HIDE DEF fresh
<1>5. built \in Pools(n) /\ built[id] = fresh /\ \A k \in 1 .. n : k # id => built[k] = pool[k]
  BY <1>1, <1>3, <1>4 DEF Pools
<1> HIDE DEF built
<1>6. l \in Lists(n) /\ l.pool = built /\ l.first = List.first /\ l.last = List.last
  <2>1. List = [pool |-> List.pool, first |-> List.first, last |-> List.last]
    BY DEF List
  <2>2. l = [pool |-> built, first |-> List.first, last |-> List.last]
    BY <2>1
  <2> HIDE DEF l
  <2> QED
    BY <1>1, <1>5, <2>2 DEF Lists
<1> HIDE DEF l
<1>7. 1 \in 1 .. Len(freeIds) /\ \A k \in 1 .. Len(f) : k + 1 \in 1 .. Len(freeIds)
  BY <1>3
<1>8. \A k \in 1 .. Len(touched) : touched[k].id \in 1 .. n /\ touched[k].id # id
  <2>1. \A k \in 1 .. Len(touched) : k \in Int
    OBVIOUS
  <2>2. \A k \in 1 .. Len(touched) : touched[k].id \in 1 .. n
    BY <1>1, <2>1, AtIs
  <2>3. \A k \in 1 .. Len(touched) : touched[k].id # freeIds[1]
    BY <1>1, <1>7 DEF Once
  <2> QED
    BY <1>3, <2>2, <2>3
<1>9. Shape(l, touched)
  BY <1>1, <1>5, <1>6, <1>8 DEF Shape
<1>10. AllBut(id, touched, f, n)
  <2>1. /\ \A j, k \in 1 .. Len(freeIds) : freeIds[j] = freeIds[k] => j = k
        /\ \A j \in 1 .. Len(touched), k \in 1 .. Len(freeIds) : touched[j].id # freeIds[k]
        /\ \A i \in 1 .. n : \/ \E k \in 1 .. Len(touched) : touched[k].id = i
                             \/ \E k \in 1 .. Len(freeIds) : freeIds[k] = i
        /\ Len(touched) + Len(freeIds) = n /\ Distinct(touched) /\ Len(touched) \in Nat
    <3>1. Once(touched, freeIds, n) /\ Len(touched) \in Nat
      BY <1>1
    <3> QED
      BY ONLY <3>1 DEF Once
  <2>2. \A k \in 1 .. Len(f) : f[k] = freeIds[k + 1] /\ k + 1 # 1
    BY <1>3
  <2>3. \A j, k \in 1 .. Len(f) : f[j] = f[k] => j = k
    <3> SUFFICES ASSUME NEW j \in 1 .. Len(f), NEW k \in 1 .. Len(f), f[j] = f[k]
                 PROVE  j = k
      OBVIOUS
    <3>1. j + 1 = k + 1
      BY <1>7, <2>1, <2>2
    <3> QED
      BY <3>1
  <2>4. \A k \in 1 .. Len(f) : f[k] # id
    BY <1>3, <1>7, <2>1, <2>2
  <2>5. \A j \in 1 .. Len(touched), k \in 1 .. Len(f) : touched[j].id # f[k]
    BY <1>7, <2>1, <2>2
  <2>6. ASSUME NEW i \in 1 .. n, i # id
        PROVE  \/ \E k \in 1 .. Len(touched) : touched[k].id = i
               \/ \E k \in 1 .. Len(f) : f[k] = i
    <3>1. CASE \E k \in 1 .. Len(freeIds) : freeIds[k] = i
      <4>1. PICK k \in 1 .. Len(freeIds) : freeIds[k] = i
        BY <3>1
      <4>2. k # 1
        BY <1>3, <2>6, <4>1
      <4> DEFINE c == k - 1
      <4>3. c \in 1 .. Len(f) /\ c \in 1 .. Len(freeIds) - 1 /\ c + 1 = k
        BY <1>3, <4>2
      <4> HIDE DEF c
      <4>4. f[c] = i
        BY <1>3, <4>1, <4>3
      <4> QED
        BY <4>3, <4>4
    <3> QED
      BY <2>1, <3>1
  <2>7. Len(touched) + Len(f) + 1 = n
    BY <1>3, <2>1
  <2> QED
    BY <1>8, <2>1, <2>3, <2>4, <2>5, <2>6, <2>7 DEF AllBut
<1>11. l.pool[id].tick = tick /\ l.pool[id].next = 0 /\ l.pool[id].prev = 0
  BY <1>4, <1>5, <1>6
<1> QED
  BY <1>1, <1>2, <1>3, <1>6, <1>9, <1>10, <1>11, JoinsList

\* A touched item goes behind all others, unless it is there.
LEMMA TouchKeeps ==
  ASSUME LruInv, NEW id \in InUse, Touch(id)
  PROVE  LruInv'
<1> DEFINE n == Len(pool)
           p == PlaceOf(id)
           u == Without(id)
           m == [id |-> id, tick |-> tick]
           item == [pool[id] EXCEPT !.tick = tick]
           built == [pool EXCEPT ![id].tick = tick]
           l == [List EXCEPT !.pool = built]
           t == [touched EXCEPT ![p] = m]
<1>1. /\ LruTyped /\ Once(touched, freeIds, n) /\ Aged(touched, tick) /\ Shape(List, touched)
      /\ n \in Nat /\ List \in Lists(n) /\ tick \in Nat /\ List.pool = pool /\ pool \in Pools(n)
      /\ touched \in Seq(Touches(n)) /\ n <= MaxPool /\ freeIds \in Seq(1 .. n)
      /\ List.first \in 0 .. n /\ List.last \in 0 .. n /\ List.last = lastItem
  <2>1. List \in Lists(n)
    BY ListIs DEF LruInv
  <2> QED
    BY <2>1, ListIs DEF LruInv, LruTyped, Lists
<1>2. /\ p \in 1 .. Len(touched) /\ touched[p].id = id /\ id \in 1 .. n
      /\ u \in Seq(Touches(n)) /\ IsWithout(u, touched, p)
  BY PlaceIs
<1>3. /\ freeIds' = freeIds /\ tick' = tick /\ touched' = Append(u, m)
      /\ IsNow(IF id = lastItem THEN l ELSE Attach(Detach(l, id), id))
  BY DEF Touch
<1> HIDE DEF n, p, u
<1>4. m \in Touches(n) /\ m.id = id /\ m.tick = tick
  BY <1>1, <1>2 DEF Touches
<1> HIDE DEF m
<1>5. item \in Items(n) /\ item.tick = tick /\ item.next = pool[id].next /\ item.prev = pool[id].prev
  <2>1. pool[id] \in Items(n)
    BY <1>1, <1>2 DEF Pools
  <2> QED
    BY <1>1, <2>1 DEF Items
<1>6. l = [pool |-> built, first |-> List.first, last |-> List.last]
  BY DEF List
<1>7. built \in Pools(n) /\ built[id] = item /\ \A k \in 1 .. n : k # id => built[k] = pool[k]
  <2>1. built = [pool EXCEPT ![id] = item]
    OBVIOUS
  <2> HIDE DEF item, built
  <2> QED
    BY <1>1, <1>2, <1>5, <2>1 DEF Pools
<1> HIDE DEF item
<1> HIDE DEF built, l
<1>8. l \in Lists(n) /\ l.pool = built /\ l.first = List.first /\ l.last = List.last
  BY <1>1, <1>6, <1>7 DEF Lists
<1>9. /\ t \in Seq(Touches(n)) /\ Len(t) = Len(touched) /\ t[p] = m
      /\ \A k \in 1 .. Len(touched) : k # p => t[k] = touched[k]
  BY <1>1, <1>2, <1>4
<1> HIDE DEF t
<1>10. \A k \in 1 .. Len(touched) : touched[k].id \in 1 .. n /\ t[k].id = touched[k].id
  <2>1. \A k \in 1 .. Len(touched) : k \in Int
    OBVIOUS
  <2>2. \A k \in 1 .. Len(touched) : touched[k].id \in 1 .. n
    BY <1>1, <2>1, AtIs
  <2> QED
    BY <1>2, <1>4, <1>9, <2>2
<1>11. Distinct(touched) /\ Distinct(t) /\ \A k : At(t, k) = At(touched, k)
  BY <1>1, <1>9, <1>10 DEF Once, Distinct, At
<1>12. IsWithout(u, t, p)
  <2>1. ASSUME NEW k \in 1 .. Len(touched) - 1
        PROVE  u[k] = IF k < p THEN t[k] ELSE t[k + 1]
    <3>1. u[k] = IF k < p THEN touched[k] ELSE touched[k + 1]
      BY <1>2 DEF IsWithout
    <3>2. k < p => k \in 1 .. Len(touched) /\ k # p
      BY <1>1, <1>2
    <3>3. ~(k < p) => k + 1 \in 1 .. Len(touched) /\ k + 1 # p
      BY <1>1, <1>2
    <3> QED
      BY <1>9, <3>1, <3>2, <3>3
  <2>2. Len(u) = Len(t) - 1
    BY <1>2, <1>9 DEF IsWithout
  <2> QED
    BY <1>9, <2>1, <2>2 DEF IsWithout
<1>13. Shape(l, t)
  <2>1. l.first = At(t, 1) /\ l.last = At(t, Len(t))
    BY <1>1, <1>8, <1>9, <1>11 DEF Shape
  <2>2. ASSUME NEW k \in 1 .. Len(t)
        PROVE  /\ l.pool[t[k].id].next = At(t, k + 1) /\ l.pool[t[k].id].prev = At(t, k - 1)
               /\ l.pool[t[k].id].tick = t[k].tick
    <3>1. /\ pool[touched[k].id].next = At(touched, k + 1)
          /\ pool[touched[k].id].prev = At(touched, k - 1)
          /\ pool[touched[k].id].tick = touched[k].tick
      BY <1>1, <1>9 DEF Shape
    <3>2. CASE k = p
      BY <1>2, <1>4, <1>5, <1>7, <1>8, <1>9, <1>11, <3>1, <3>2
    <3>3. CASE k # p
      <4>1. touched[k].id # id
        BY <1>2, <1>9, <1>11, <3>3 DEF Distinct
      <4>2. l.pool[touched[k].id] = pool[touched[k].id] /\ t[k] = touched[k]
        BY <1>7, <1>8, <1>9, <1>10, <3>3, <4>1
      <4> QED
        BY <1>11, <3>1, <4>2
    <3> QED
      BY <3>2, <3>3
  <2> QED
    BY <2>1, <2>2 DEF Shape
<1>14. AllBut(id, u, freeIds, n)
  <2>1. AllBut(touched[p].id, u, freeIds, n)
    BY <1>1, <1>2, OneLeaves
  <2> QED
    BY <1>2, <2>1
<1>15. Aged(u, tick)
  BY <1>1, <1>2, AgedWithout
<1>16. id = lastItem <=> p = Len(touched)
  <2>1. lastItem = At(touched, Len(touched)) /\ Len(touched) \in Nat
    BY <1>1 DEF Shape
  <2>2. Len(touched) \in 1 .. Len(touched) /\ lastItem = touched[Len(touched)].id
    BY <1>2, <2>1 DEF At
  <2> QED
    BY <1>2, <1>11, <2>2 DEF Distinct
<1>17. CASE id = lastItem
  <2>1. IsNow(l)
    BY <1>3, <1>17
  <2>2. /\ pool' \in Seq(Items(n)) /\ Len(pool') = n /\ List' = l
        /\ firstItem' \in 0 .. n /\ lastItem' \in 0 .. n
    BY <1>1, <1>8, <2>1, NowIs
  <2>3. Append(u, m) \in Seq(Touches(n)) /\ Once(Append(u, m), freeIds, n)
    <3>1. AllBut(m.id, u, freeIds, n)
      BY <1>4, <1>14
    <3> QED
      BY <1>1, <1>2, <1>4, <3>1, OneIsUsed
  <2>4. Aged(Append(u, m), tick)
    BY <1>1, <1>2, <1>4, <1>15, AgedBehind
  <2>5. Append(u, m) = t
    <3>1. Len(u) = Len(t) - 1 /\ Len(t) \in Nat /\ p = Len(t)
      BY <1>9, <1>12, <1>16, <1>17 DEF IsWithout
    <3>2. Len(Append(u, m)) = Len(t) /\ Append(u, m)[Len(t)] = m
          /\ \A k \in 1 .. Len(t) - 1 : Append(u, m)[k] = u[k]
      BY <1>2, <3>1
    <3>3. \A k \in 1 .. Len(t) - 1 : u[k] = t[k]
      BY <1>12, <3>1 DEF IsWithout
    <3>4. ASSUME NEW k \in 1 .. Len(t) PROVE Append(u, m)[k] = t[k]
      <4>1. CASE k = Len(t)
        BY <1>9, <3>1, <3>2, <4>1
      <4>2. CASE k # Len(t)
        <5>1. k \in 1 .. Len(t) - 1
          BY <3>1, <4>2
        <5> QED
          BY <3>2, <3>3, <5>1
      <4> QED
        BY <4>1, <4>2
    <3> QED
      BY <1>9, <2>3, <3>2, <3>4, SeqEqual
  <2>6. LruTyped'
    BY <1>1, <1>3, <2>2, <2>3 DEF LruTyped
  <2> QED
    BY <1>3, <1>13, <2>2, <2>3, <2>4, <2>5, <2>6 DEF LruInv
<1>18. CASE id # lastItem
  <2> DEFINE d == Detach(l, id)
  <2>1. IsNow(Attach(d, id))
    BY <1>3, <1>18
  <2>2. d \in Lists(n) /\ d.pool[id].tick = tick
    <3>1. d \in Lists(n) /\ d.pool[id].tick = l.pool[id].tick
      BY <1>1, <1>2, <1>8, DetachIs
    <3> HIDE DEF d
    <3> QED
      BY <1>5, <1>7, <1>8, <3>1
  <2>3. Shape(d, u)
    <3>1. Shape(Detach(l, t[p].id), u) /\ t[p].id = id
      BY <1>1, <1>2, <1>4, <1>8, <1>9, <1>11, <1>12, <1>13, DetachShape
    <3> QED
      BY <3>1
  <2> HIDE DEF d
  <2>4. u # <<>>
    <3>1. Len(touched) >= 2 /\ Len(u) = Len(touched) - 1 /\ Len(touched) \in Nat
      BY <1>1, <1>2, <1>16, <1>18 DEF IsWithout
    <3>2. Len(<<>>) = 0
      OBVIOUS
    <3> QED
      BY <3>1, <3>2
  <2>5. touched' = Append(u, [id |-> id, tick |-> tick])
    BY <1>3 DEF m
  <2> QED
    BY <1>1, <1>2, <1>3, <1>14, <1>15, <2>1, <2>2, <2>3, <2>4, <2>5, JoinsList
<1> QED
  BY <1>17, <1>18

-----------------------------------------------------------------------------
\* Every step keeps the invariant.
LEMMA LruStep == LruInv /\ [LruNext]_lruVars => LruInv'
<1> SUFFICES ASSUME LruInv, [LruNext]_lruVars PROVE LruInv'
  OBVIOUS
<1>1. CASE Insert
  BY <1>1, InsertGrows, InsertReuses
<1>2. CASE Clock
  BY <1>2, ClockKeeps
<1>3. ASSUME NEW id \in InUse, Touch(id) \/ FreeItem(id)
      PROVE  LruInv'
  BY <1>3, TouchKeeps, FreeKeeps
<1>4. ASSUME NEW t \in 0 .. MaxTick, ForEachItemBelow(t) \/ FreeAllBelow(t)
      PROVE  LruInv'
  <2>1. t \in Nat
    BY LruAssumption
  <2>2. CASE FreeAllBelow(t)
    BY <2>1, <2>2, FreeAllKeeps
  <2>3. CASE ForEachItemBelow(t)
    BY <2>3, ForEachKeeps DEF ForEachItemBelow
  <2> QED
    BY <1>4, <2>2, <2>3
<1>5. CASE UNCHANGED lruVars
  BY <1>5, ForEachKeeps DEF lruVars
<1> QED
  BY <1>1, <1>2, <1>3, <1>4, <1>5 DEF LruNext

\* The inductive invariant holds in every behaviour of the cache.
LEMMA LruInvHolds == LruSpec => []LruInv
BY LruInitHolds, LruStep, PTL DEF LruSpec

\* For pools of any size and any order of inserts, touches, frees and walks, the
\* list goes through the items in use from the oldest touch to the newest, forwards
\* and backwards, the free ids are the others, and a walk below a tick reaches
\* those touched by then.
THEOREM OrderTheorem == LruSpec => []ListIsTheOrder
<1>1. LruInv => ListIsTheOrder
  <2> SUFFICES ASSUME LruInv PROVE ListIsTheOrder
    OBVIOUS
  <2> DEFINE n == Len(pool)
             c == Len(touched)
             b == Len(freeIds)
             idAt(k) == IF k \in 1 .. c THEN touched[k].id ELSE 0
  <2>1. /\ Once(touched, freeIds, n) /\ Shape(List, touched) /\ n \in Nat /\ DOMAIN pool = 1 .. n
        /\ touched \in Seq(Touches(n)) /\ freeIds \in Seq(1 .. n)
        /\ List.pool = pool /\ List.first = firstItem /\ List.last = lastItem
    BY ListIs DEF LruInv, LruTyped
  <2> HIDE DEF n
  <2>2. DOMAIN touched = 1 .. c /\ DOMAIN freeIds = 1 .. b /\ c \in Nat /\ b \in Nat
    BY <2>1
  <2>3. \A k \in 1 .. c : touched[k].id \in 1 .. n
    <3>1. \A k \in 1 .. c : k \in Int
      OBVIOUS
    <3> QED
      BY <2>1, <3>1, AtIs
  <2>4. \A k \in 1 .. b : freeIds[k] \in 1 .. n
    BY <2>1
  <2>5. InUse = {touched[k].id : k \in 1 .. c} /\ Range(freeIds) = {freeIds[k] : k \in 1 .. b}
    BY <2>2 DEF InUse, Range
  <2>6. DOMAIN pool = InUse \cup Range(freeIds)
    <3>1. \A i \in 1 .. n : \/ \E k \in 1 .. c : touched[k].id = i
                            \/ \E k \in 1 .. b : freeIds[k] = i
      BY <2>1 DEF Once
    <3>2. 1 .. n \subseteq InUse \cup Range(freeIds)
      BY <2>5, <3>1
    <3>3. InUse \cup Range(freeIds) \subseteq 1 .. n
      BY <2>3, <2>4, <2>5
    <3> QED
      BY <2>1, <3>2, <3>3
  <2>7. InUse \cap Range(freeIds) = {}
    <3>1. \A j \in 1 .. c, k \in 1 .. b : touched[j].id # freeIds[k]
      BY <2>1 DEF Once
    <3> QED
      BY <2>5, <3>1
  <2>8. Len(touched) + Len(freeIds) = Len(pool)
    BY <2>1 DEF Once, n
  <2>9. \A k : idAt(k) = At(touched, k)
    BY DEF At
  <2>10. firstItem = idAt(1) /\ lastItem = idAt(c)
    BY <2>1, <2>9 DEF Shape
  <2>11. ASSUME NEW k \in 1 .. c
         PROVE  /\ pool[idAt(k)].next = idAt(k + 1) /\ pool[idAt(k)].prev = idAt(k - 1)
                /\ pool[idAt(k)].tick = touched[k].tick
    <3>1. idAt(k) = touched[k].id
      OBVIOUS
    <3> HIDE DEF idAt
    <3> QED
      BY <2>1, <2>9, <3>1 DEF Shape
  <2>12. ASSUME NEW t \in 0 .. MaxTick
         PROVE  Range(Below(t)) = {x.id : x \in {y \in Range(touched) : y.tick <= t}}
    <3>1. t \in Nat
      BY LruAssumption
    <3>2. PICK m \in 0 .. c : /\ \A k \in 1 .. c : touched[k].tick <= t <=> k <= m
                              /\ Below(t) = [k \in 1 .. m |-> touched[k].id]
      BY <3>1, BelowIs
    <3>3. Range(Below(t)) = {touched[k].id : k \in 1 .. m}
      BY <3>2 DEF Range
    <3>4. Range(touched) = {touched[k] : k \in 1 .. c}
      BY <2>2 DEF Range
    <3>5. \A k \in 1 .. m : k \in 1 .. c /\ k <= m
      BY <2>2
    <3>6. \A k \in 1 .. c : k <= m => k \in 1 .. m
      BY <2>2
    <3> QED
      BY <3>2, <3>3, <3>4, <3>5, <3>6
  <2> QED
    BY <2>6, <2>7, <2>8, <2>10, <2>11, <2>12 DEF ListIsTheOrder
<1> QED
  BY <1>1, LruInvHolds, PTL
=============================================================================
