------------------------------ MODULE PkgTable ------------------------------
(***************************************************************************)
(* The header and the entry table of a package, read through one PKG object *)
(* by calls of Open, Extract and GetEntryDataById in any order, as the      *)
(* retries and the previews of the programs make them.                      *)
(*                                                                          *)
(* A package is a sequence of cells of the size of a table entry.  A cell   *)
(* holds what reading an entry there yields (id, off, size in cells) and,   *)
(* as data, is the pair of the package's name and its place.  pos is the    *)
(* place the object's file handle stands at.  Reads that fall short are     *)
(* not noticed by the code: what is missing stays zero.                     *)
(***************************************************************************)
EXTENDS PkgEntryNames, FiniteSets, FiniteSetsExt

CONSTANTS
  Packages,   \* records: name, hdr, cells, tab and n (the table), title
  MaxCalls,   \* bound on the calls made on one object
  MaxSpoilt   \* bound on the files that are spoilt at one time

\* A package is known by its name.
ASSUME PackageAssumption ==
  /\ \A p \in Packages : p.n \in Nat /\ p.tab \in Nat /\ p.name # "none"
  /\ \A p, q \in Packages : p.name = q.name => p = q

VARIABLES
  op,         \* the call under way: "idle", "Open" or "Extract"; "dead" without a process
  pkg,        \* pkgpath: the package of the last Open or Extract, or NoPkg
  pos,        \* m_pkgFile: the place of the handle, or Closed
  turn,       \* the turn of the loop over the table
  sfo, dk3, ekpfsKey, decNp, pkgFlags,   \* members of PKG; dk3_ is dk3 here
  out,        \* the files of the output folder: path -> content
  spoilt,     \* history: files of which Extract lost a write, and made none since
  last,       \* how the last call ended: its kind and "ok", "failed" or "thrown"
  got,        \* what GetEntryDataById answered last
  calls       \* calls made so far

members == <<sfo, dk3, ekpfsKey, decNp, pkgFlags>>
tableVars == <<op, pkg, pos, turn, members, out, spoilt, last, got, calls>>

NoPkg == [name |-> "none", hdr |-> "short", cells |-> <<>>, tab |-> 1, n |-> 0,
          title |-> "none"]
Closed == 0
Unset == <<"unset">>           \* a member that no constructor sets
Zero == [id |-> 0, off |-> 0, size |-> 0]

\* What fread finds at place k of package p, as an entry and as data.
EntryAt(p, k) == IF k \in DOMAIN p.cells THEN p.cells[k] ELSE Zero
CellAt(p, k) == IF k \in DOMAIN p.cells THEN <<p.name, k>> ELSE <<"zero">>
DataAt(p, off, size) == [k \in 1..size |-> CellAt(p, off + k - 1)]
\* Where a read of size cells from off leaves the handle.
Behind(p, off, size) == off + Cardinality(off..(off + size - 1) \cap DOMAIN p.cells)

ParamSfo == GetEntryNameByType(\h1000)

TableInit ==
  /\ op = "idle" /\ pkg = NoPkg /\ pos = Closed /\ turn = 0
  /\ sfo = <<>> /\ decNp = <<>> /\ pkgFlags = <<>>
  /\ dk3 = Unset /\ ekpfsKey = Unset
  /\ out = <<>> /\ spoilt = {}
  /\ last = [op |-> "none", end |-> "none"]
  /\ got = [from |-> "none", id |-> 0, found |-> FALSE, data |-> <<>>]
  /\ calls = 0

Ends(how) == op' = "idle" /\ last' = [op |-> op, end |-> how] /\ turn' = 0
\* A call that ends before its loop.
EndsAtOnce(kind, how) == op' = "idle" /\ last' = [op |-> kind, end |-> how] /\ turn' = 0

-----------------------------------------------------------------------------
\* PKG::Open up to the seek to the table.  The handle is closed again when
\* the header is refused, and left open when the seek fails.  The names of
\* the content flags are appended to those of the call before.
OpenCall(p) ==
  /\ op = "idle" /\ calls < MaxCalls
  /\ calls' = calls + 1
  /\ \/ /\ pos' = Closed                                 \* fopen fails
        /\ EndsAtOnce("Open", "failed")
        /\ UNCHANGED <<pkg, pkgFlags>>
     \/ /\ p.hdr \in {"short", "magic"}
        /\ pkg' = p /\ pos' = Closed
        /\ EndsAtOnce("Open", "failed")
        /\ UNCHANGED pkgFlags
     \/ /\ p.hdr \notin {"short", "magic"}
        /\ pkg' = p
        /\ pkgFlags' = Append(pkgFlags, p.name)
        /\ \/ pos' = p.tab /\ op' = "Open" /\ turn' = 0 /\ UNCHANGED last
           \/ pos' \in DOMAIN p.cells /\ EndsAtOnce("Open", "failed")
  /\ UNCHANGED <<sfo, dk3, ekpfsKey, decNp, out, spoilt, got>>

\* One turn of its loop.  The handle stays behind the data of param.sfo: the
\* next turn reads its entry from there.
OpenEntry ==
  /\ op = "Open" /\ turn < pkg.n
  /\ LET e == EntryAt(pkg, pos) IN
     IF GetEntryNameByType(e.id) = ParamSfo
     THEN \/ /\ sfo' = DataAt(pkg, e.off, e.size)
             /\ pos' = Behind(pkg, e.off, e.size)
             /\ turn' = turn + 1 /\ UNCHANGED <<op, last>>
          \/ /\ sfo' = <<>> /\ pos' = pos + 1            \* the seek fails
             /\ Ends("failed")
     ELSE /\ pos' = pos + 1 /\ turn' = turn + 1
          /\ UNCHANGED <<sfo, op, last>>
  /\ UNCHANGED <<pkg, dk3, ekpfsKey, decNp, pkgFlags, out, spoilt, got, calls>>

LoopEnds ==
  /\ op \in {"Open", "Extract"} /\ turn >= pkg.n
  /\ Ends("ok")
  /\ UNCHANGED <<pkg, pos, members, out, spoilt, got, calls>>

-----------------------------------------------------------------------------

\* Mutation: the sfo of the call before is kept.
ExtractHeadKeeps(p) == /\ decNp' = <<>>
                       /\ UNCHANGED <<sfo, dk3, ekpfsKey, pkgFlags>>

\* PKG::Extract up to its loop: the buffers of an earlier call are cleared,
\* the keys and the flags are not.
ExtractHead(p) == /\ sfo' = <<>> /\ decNp' = <<>>
                  /\ UNCHANGED <<dk3, ekpfsKey, pkgFlags>>

\* Mutation: the magic is left to the detection of the caller.
ExtractCallTrusts(p) ==
  /\ op = "idle" /\ calls < MaxCalls
  /\ calls' = calls + 1
  /\ pkg' = p
  /\ ExtractHead(p)
  /\ \/ pos' = Closed /\ EndsAtOnce("Extract", "failed")
     \/ pos' = p.tab /\ op' = "Extract" /\ turn' = 0 /\ UNCHANGED last
  /\ UNCHANGED <<out, spoilt, got>>

ExtractCall(p) ==
  /\ op = "idle" /\ calls < MaxCalls
  /\ calls' = calls + 1
  /\ pkg' = p
  /\ ExtractHead(p)
  /\ \/ pos' = Closed /\ EndsAtOnce("Extract", "failed")   \* fopen fails
     \/ p.hdr # "ok" /\ pos' = 1 /\ EndsAtOnce("Extract", "failed")
     \/ p.hdr = "ok" /\ pos' \in DOMAIN p.cells /\ EndsAtOnce("Extract", "failed")
     \/ p.hdr = "ok" /\ pos' = p.tab /\ op' = "Extract" /\ turn' = 0 /\ UNCHANGED last
  /\ UNCHANGED <<out, spoilt, got>>

\* Mutation: every entry without a name goes to one file.
PathOfShared(id) ==
  LET name == GetEntryNameByType(id) IN
  IF name = NoName THEN <<"id", 0>> ELSE <<"name", name>>

\* The file of an entry in sce_sys: its name, or its type in decimal.
PathOf(id) ==
  LET name == GetEntryNameByType(id) IN
  IF name = NoName THEN <<"id", id>> ELSE <<"name", name>>

EntryKeys == \h10
ImageKey == \h20
NpEntries == \h400..\h403

\* The keys, as what RSA2048Decrypt and the hash compute them from.  The iv
\* key and the image key live for one entry only.
Dk3From(data) == <<"dk3", data>>
Ekpfs(e, k, data) == <<"ekpfs", e, k, data>>
Decrypted(e, k, data) == <<"plain", e, k, data>>

\* Mutation: the dk3 of an earlier package is kept.
KeysFromFirst(e, data) ==
  /\ dk3' = IF e.id = EntryKeys /\ dk3 = Unset THEN Dk3From(data) ELSE dk3
  /\ ekpfsKey' = IF e.id = ImageKey THEN Ekpfs(e, dk3, data) ELSE ekpfsKey

\* What an entry does to the keys: ENTRY_KEYS holds the sealed dk3, IMAGE_KEY
\* is opened with the dk3 of the moment.
KeysFrom(e, data) ==
  /\ dk3' = IF e.id = EntryKeys THEN Dk3From(data) ELSE dk3
  /\ ekpfsKey' = IF e.id = ImageKey THEN Ekpfs(e, dk3, data) ELSE ekpfsKey

SfoFrom(e, data) == sfo' = IF e.id = \h1000 THEN data ELSE sfo

Wrote(path, content) ==
  out' = [q \in DOMAIN out \cup {path} |-> IF q = path THEN content ELSE out[q]]

\* What is left of content when a disk that is full takes a part of it.
CutOf(content) == <<"cut", content>>

Spoils(path) == spoilt' = spoilt \cup {path} /\ Cardinality(spoilt') <= MaxSpoilt

\* A file is opened for writing, written and closed.  Nobody looks whether it
\* could be opened, whether all was written, or whether the stream could be
\* flushed and closed.
Writes(path, content) ==
  \/ Wrote(path, content) /\ spoilt' = spoilt \ {path}
  \/ Spoils(path) /\ (Wrote(path, CutOf(content)) \/ UNCHANGED out)

\* An NP entry's file is written again in clear.  When it cannot be opened
\* again it stays as the first time left it.
WritesTwice(path, data, clear) ==
  \/ Writes(path, clear)
  \/ Spoils(path) /\ (Wrote(path, data) \/ Wrote(path, CutOf(data)))

\* One turn of the loop: the entry's data goes to its file as it is, an NP
\* entry's file is then written again in clear.  A failed seek leaves the
\* files and members as they are by then.  WriteRaw does not ask whether the
\* stream is there: on one that could not be opened the process dies, or it
\* writes nothing.
ExtractEntry ==
  /\ op = "Extract" /\ turn < pkg.n
  /\ LET e == EntryAt(pkg, pos)
         data == DataAt(pkg, e.off, e.size)
         path == PathOf(e.id) IN
     \/ /\ Ends("thrown")                                \* create_directories
        /\ UNCHANGED <<sfo, dk3, ekpfsKey, decNp, out, spoilt>>
     \/ /\ e.id = \h1000                                 \* no seek to param.sfo
        /\ sfo' = <<>>
        /\ Ends("failed")
        /\ UNCHANGED <<dk3, ekpfsKey, decNp, out, spoilt>>
     \/ /\ SfoFrom(e, data) /\ KeysFrom(e, data)         \* no seek to the data
        /\ Wrote(path, <<>>) \/ UNCHANGED out
        /\ Ends("failed")
        /\ UNCHANGED <<decNp, spoilt>>
     \/ /\ SfoFrom(e, data) /\ KeysFrom(e, data)         \* no stream to write to
        /\ op' = "dead"
        /\ UNCHANGED <<decNp, out, spoilt, turn, last>>
     \/ /\ e.id \in NpEntries                            \* no seek to it again
        /\ decNp' = [k \in 1..e.size |-> <<"zero">>]
        /\ Writes(path, data)
        /\ Ends("failed")
        /\ UNCHANGED <<sfo, dk3, ekpfsKey>>
     \/ /\ SfoFrom(e, data) /\ KeysFrom(e, data)
        /\ IF e.id \in NpEntries
           THEN /\ decNp' = Decrypted(e, dk3, data)
                /\ WritesTwice(path, data, decNp')
           ELSE Writes(path, data) /\ UNCHANGED decNp
        /\ turn' = turn + 1 /\ UNCHANGED <<op, last>>
  /\ pos' = pos + 1                                      \* Seek(currentPos)
  /\ UNCHANGED <<pkg, pkgFlags, got, calls>>

-----------------------------------------------------------------------------
Listed(p) == [k \in 1..p.n |-> EntryAt(p, p.tab + k - 1)]

Matches(p, id) == {k \in 1..p.n : Listed(p)[k].id = id}

\* PKG::GetEntryDataById: through a handle of its own, the first entry of that
\* type in the table of the package at pkgpath.
DataById(id) ==
  /\ op = "idle" /\ pkg # NoPkg /\ calls < MaxCalls
  /\ calls' = calls + 1
  /\ \/ UNCHANGED got                                    \* fopen, a seek or the magic
     \/ /\ pkg.hdr # "magic"                              \* a short header goes on
        /\ LET rows == Matches(pkg, id) IN
           got' = [from |-> pkg.name, id |-> id, found |-> rows # {},
                   data |-> IF rows = {} THEN <<>>
                            ELSE LET e == Listed(pkg)[Min(rows)]
                                 IN DataAt(pkg, e.off, e.size)]
  /\ UNCHANGED <<op, pkg, pos, turn, members, out, spoilt, last>>

CallEntry == OpenEntry \/ ExtractEntry \/ LoopEnds

TableNext ==
  \/ \E p \in Packages : OpenCall(p) \/ ExtractCall(p)
  \/ \E id \in {\h10, \h1000, \h1200, \h402, 3} : DataById(id)
  \/ CallEntry

-----------------------------------------------------------------------------
RowsWith(p, id) == {k \in 1..p.n : EntryAt(p, p.tab + k - 1).id = id}
DistinctIds(p) ==
  \A k \in 1..p.n : Cardinality(RowsWith(p, EntryAt(p, p.tab + k - 1).id)) = 1
RowOf(p, id) == Listed(p)[Min(RowsWith(p, id))]
RawOf(p, e) == DataAt(p, e.off, e.size)
Lists(p, id) == RowsWith(p, id) # {}
\* The entry keys stand in the table before the entry of type id.
KeyedBefore(p, id) ==
  Lists(p, EntryKeys) /\ Lists(p, id) /\ Min(RowsWith(p, EntryKeys)) < Min(RowsWith(p, id))
Dk3Of(p) == Dk3From(RawOf(p, RowOf(p, EntryKeys)))

Extracted == op = "idle" /\ last = [op |-> "Extract", end |-> "ok"] /\ DistinctIds(pkg)
Opened == op = "idle" /\ last = [op |-> "Open", end |-> "ok"] /\ DistinctIds(pkg)

\* Nothing outside the table would be taken for an entry of param.sfo.
QuietOutside(p) ==
  \A k \in DOMAIN p.cells \ (p.tab..(p.tab + p.n - 1)) : p.cells[k].id # \h1000

\* The types asked for: up to the first one above the array.
TypesAsked == 0..(\h17f9 + 1)

\* Every type that has a row gets the name of that row and no other type gets
\* a name: the halving of lower_bound finds all 611 rows, which holds only as
\* long as the array is kept in ascending order (pkg_type.cpp:18-628).  The
\* array never changes, so it is looked at before the first call only.
NamesFound ==
  calls = 0 =>
    LET types == ToSet(PkgEntries) IN
    \A type \in TypesAsked :
      LET name == GetEntryNameByType(type) IN
      IF name = NoName THEN type \notin types ELSE PkgEntries[name] = type

\* After a call that succeeded sfo is the param.sfo of the package it was made
\* for, whatever packages the same object read or failed to read before, and
\* empty after Extract when the package has none (pkg.cpp:311, 384-393).  For
\* Open this needs a package that has one and whose data never looks like
\* another: Open loses its place in the table behind it (pkg.cpp:231-243).
SfoIsThePackages ==
  /\ Extracted => sfo = IF Lists(pkg, \h1000) THEN RawOf(pkg, RowOf(pkg, \h1000)) ELSE <<>>
  /\ Opened /\ Lists(pkg, \h1000) /\ QuietOutside(pkg)
       => sfo = RawOf(pkg, RowOf(pkg, \h1000))

\* The key that opens the package's file system is made of this package's
\* entry keys and image key alone, never of a dk3 that an earlier call left:
\* this takes a table that lists ENTRY_KEYS before IMAGE_KEY (pkg.cpp:412-440).
KeysAreThePackages ==
  Extracted /\ KeyedBefore(pkg, ImageKey) =>
    LET e == RowOf(pkg, ImageKey) IN ekpfsKey = Ekpfs(e, Dk3Of(pkg), RawOf(pkg, e))

\* Every entry of the table is in a file of its own below sce_sys with its own
\* data, in clear when it is an NP entry that follows the entry keys; no entry
\* is lost to another one's file (pkg.cpp:395-473).  Extract answers true as well
\* when an output could not be opened or a write was lost, of which nobody is
\* told: the files that happened to are left out, and each of them was meant for
\* an entry of its own, so that the others are not touched by it.  The direct
\* read of one entry, which the previews use, finds what is in that file, and
\* nothing when the table does not list the entry (pkg.cpp:249-300).
EntriesOnDisk ==
  Extracted =>
    /\ \A k \in 1..pkg.n :
         LET e == Listed(pkg)[k] IN
         PathOf(e.id) \notin spoilt =>
           /\ PathOf(e.id) \in DOMAIN out
           /\ e.id \notin NpEntries => out[PathOf(e.id)] = RawOf(pkg, e)
           /\ e.id \in NpEntries /\ KeyedBefore(pkg, e.id)
                => out[PathOf(e.id)] = Decrypted(e, Dk3Of(pkg), RawOf(pkg, e))
    /\ got.from = pkg.name /\ got.id \notin NpEntries =>
         /\ got.found <=> Lists(pkg, got.id)
         /\ got.found /\ PathOf(got.id) \notin spoilt => out[PathOf(got.id)] = got.data
=============================================================================
