------------------------------ MODULE PsfFile ------------------------------
(***************************************************************************)
(* core/file_format/psf.cpp: the list of keys and values of a param.sfo,    *)
(* its encoding to a file, and Open, which checks every bound.  Positions   *)
(* are those of the file; a key is a name of known length, a value its      *)
(* bytes, an integer the four bytes of its number.                          *)
(***************************************************************************)
EXTENDS Integers, Sequences, SequencesExt

CONSTANTS KeySize,   \* the names of keys, with their lengths
          KeyWidth,  \* a key's place in the key table is kept modulo this: 2^16
          PsfBytes,  \* values of binaries; those without a zero are texts
          MaxPsf     \* bound of the model: calls

VARIABLES
  psf,     \* entry_list, with the values of the three maps
  disk,    \* the file
  answer,  \* what the last call gave: "none", "yes", "no", "assert" or "thrown"
  stored,  \* history: the list that the file was made of
  psfCalls
psfVars == <<psf, disk, answer, stored, psfCalls>>

Header == 20
RawEntry == 16
Formats == {"Binary", "Text", "Integer"}
PsfKeys == DOMAIN KeySize
NoValue == <<-1>>
Nowhere == [size |-> 0, own |-> TRUE]  \* no file, or an empty one
Byte == 0 .. 255
ASSUME PsfAssumption == /\ KeySize \in [PsfKeys -> Nat] /\ PsfBytes \subseteq Seq(Byte)
                        /\ KeyWidth \in Nat \ {0}

\* FORMAT and its like have a size of their own.
KnownSizes == [ACCOUNT_ID |-> 8, CATEGORY |-> 4, DETAIL |-> 1024, FORMAT |-> 4,
  MAINTITLE |-> 128, PARAMS |-> 1024, SAVEDATA_BLOCKS |-> 8, SAVEDATA_DIRECTORY |-> 32,
  SUBTITLE |-> 128, TITLE_ID |-> 12]
MaxSize(key, size) == IF key \in DOMAIN KnownSizes THEN KnownSizes[key] ELSE size
Sized(fmt, val) == IF fmt = "Text" THEN Append(val, 0) ELSE val

PsfInit == /\ psf = <<>> /\ disk = Nowhere /\ answer = "none" /\ stored = <<>>
           /\ psfCalls = 0
Answer(b) == IF b THEN "yes" ELSE "no"
PsfCall == answer \notin {"assert", "thrown"} /\ psfCalls < MaxPsf /\ psfCalls' = psfCalls + 1

-----------------------------------------------------------------------------
\* FindEntry: the first entry of that key, 0 when there is none.
FindEntry(es, key) == SelectInSeq(es, LAMBDA e : e.key = key)

\* GetBinary, GetString, GetInteger.
ValueUnder(es, key, fmt) ==
  LET at == FindEntry(es, key) IN
  IF at = 0 \/ es[at].fmt # fmt THEN NoValue ELSE es[at].val

\* AddBinary, AddString, AddInteger.
Put(key, fmt, val, update) ==
  LET at == FindEntry(psf, key)
      new == [key |-> key, fmt |-> fmt, val |-> val,
              max |-> IF fmt = "Integer" THEN 4 ELSE MaxSize(key, Len(Sized(fmt, val)))]
  IN /\ UNCHANGED <<disk, stored>>
     /\ CASE at = 0 -> psf' = Append(psf, new) /\ answer' = "none"
          [] at # 0 /\ ~update -> psf' = psf /\ answer' = "none"
          [] at # 0 /\ update ->
               IF psf[at].fmt # fmt THEN psf' = psf /\ answer' = "assert"
               ELSE IF psf[at].val = NoValue THEN psf' = psf /\ answer' = "thrown"
               ELSE psf' = [psf EXCEPT ![at] = new] /\ answer' = "none"

Add == /\ PsfCall
       /\ \E key \in PsfKeys, update \in BOOLEAN :
            \/ \E val \in PsfBytes : Put(key, "Binary", val, update)
            \/ \E val \in PsfBytes : 0 \notin Range(val) /\ Put(key, "Text", val, update)
            \/ Put(key, "Integer", <<7, 0, 0, 0>>, update)

-----------------------------------------------------------------------------
\* Encode: the header and the raw entries, the keys, then the values, each from
\* a multiple of four on and with room for max_len.  KeyEnds, DataEnds: where the
\* keys and the values end; the i-th of each begins where the one before ends.
Aligned(n) == n + ((4 - (n % 4)) % 4)

KeyEnds(es) ==
  LET end[i \in 0 .. Len(es)] ==
        IF i = 0 THEN Header + RawEntry * Len(es) ELSE end[i - 1] + KeySize[es[i].key] + 1
  IN end
DataEnds(es) ==
  LET end[i \in 0 .. Len(es)] ==
        IF i = 0 THEN KeyEnds(es)[Len(es)] ELSE Aligned(end[i - 1]) + es[i].max
  IN end
KeyFrom(es, i) == KeyEnds(es)[i - 1]
ValueFrom(es, i) == Aligned(DataEnds(es)[i - 1])

StoredAs(e) == Sized(e.fmt, e.val)
Fits(e) == e.max >= Len(StoredAs(e))
ValuePlaces(es, i) == ValueFrom(es, i) .. ValueFrom(es, i) + Len(StoredAs(es[i])) - 1

EncodedKeys(es) ==
  [p \in {KeyFrom(es, i) : i \in DOMAIN es} |-> es[CHOOSE i \in DOMAIN es : KeyFrom(es, i) = p].key]
EncodedData(es) ==
  [p \in UNION {ValuePlaces(es, i) : i \in DOMAIN es} |->
     LET i == CHOOSE i \in DOMAIN es : p \in ValuePlaces(es, i)
     IN StoredAs(es[i])[p - ValueFrom(es, i) + 1]]

\* The place of a key is kept in 16 bits.
KeyPlace(es, i) == (KeyFrom(es, i) - KeyEnds(es)[0]) % KeyWidth
Encoded(es) ==
  LET keyOff == KeyEnds(es)[0]
      dataOff == DataEnds(es)[0]
  IN [own |-> TRUE, size |-> DataEnds(es)[Len(es)], magic |-> TRUE, version |-> TRUE,
      keys |-> EncodedKeys(es), data |-> EncodedData(es), keyOff |-> keyOff, dataOff |-> dataOff,
      raw |-> [i \in DOMAIN es |->
                 [keyOff |-> KeyPlace(es, i), dataOff |-> ValueFrom(es, i) - dataOff,
                  max |-> es[i].max, fmt |-> es[i].fmt, len |-> Len(StoredAs(es[i]))]]]

\* The file is opened for writing, and so emptied, first, unless that fails; a
\* value that is missing or does not fit ends the program then, a full disk or a
\* crash leaves a part of the file (of the parts without a key, those that differ
\* to Open), and yes all the same when the last bytes are lost as the file closes.
EncodeInto(es) ==
  /\ stored' = es
  /\ CASE \E e \in Range(es) : e.val = NoValue -> answer' = "thrown" /\ disk' = Nowhere
       [] (\A e \in Range(es) : e.val # NoValue) /\ (\E e \in Range(es) : ~Fits(e)) ->
            answer' = "assert" /\ disk' = Nowhere
       [] OTHER -> LET file == Encoded(es) IN
            \E cut \in {0, Header - 1, Header} \cup (file.keyOff - 1 .. file.size) :
              /\ disk' = IF cut = 0 THEN Nowhere ELSE [file EXCEPT !.size = cut]
              /\ answer' = "yes" \/ (answer' = "no" /\ cut # file.size)

Encode == /\ PsfCall /\ UNCHANGED psf
          /\ \/ answer' = "no" /\ UNCHANGED <<disk, stored>>
             \/ EncodeInto(psf)

-----------------------------------------------------------------------------
\* Open: every entry is added before its value is read.  Where no key begins, in
\* the middle of one, the name is what is left of it.
Sound(file) == /\ file.magic /\ file.version
               /\ Header + RawEntry * Len(file.raw) <= file.size
               /\ file.keyOff < file.size /\ file.dataOff <= file.size
               /\ file.keyOff <= file.dataOff
KeyAt(file, r) == file.keyOff + r.keyOff

\* Mutation: only the place of a value is compared with the size.
InBoundsOfStart(file, r) ==
  KeyAt(file, r) < file.dataOff /\ file.dataOff + r.dataOff <= file.size

InBounds(file, r) ==
  /\ KeyAt(file, r) < file.dataOff /\ DOMAIN file.keys # {}
  /\ file.dataOff + r.dataOff <= file.size
  /\ r.len <= file.size - (file.dataOff + r.dataOff)
Bytes(file, r) ==
  [i \in 1 .. r.len |-> LET p == file.dataOff + r.dataOff + i - 1 IN
                        IF p < file.size /\ p \in DOMAIN file.data THEN file.data[p] ELSE 0]
FirstZero(bytes) == SelectInSeq(bytes, LAMBDA b : b = 0)
ReadAs(fmt, bytes) ==
  CASE fmt = "Binary" -> bytes
    [] fmt = "Text" -> IF FirstZero(bytes) = 0 THEN bytes ELSE SubSeq(bytes, 1, FirstZero(bytes) - 1)
    [] fmt = "Integer" /\ Len(bytes) >= 4 -> SubSeq(bytes, 1, 4)
    [] OTHER -> NoValue
ValueOf(file, r) == ReadAs(r.fmt, Bytes(file, r))

EntryFrom(file, r, tail) ==
  [key |-> IF KeyAt(file, r) \in DOMAIN file.keys THEN file.keys[KeyAt(file, r)] ELSE tail,
   fmt |-> r.fmt, max |-> r.max, val |-> ValueOf(file, r)]

\* The first entry that is out of bounds, or has no value, ends it.
Parse(file, tails) ==
  LET bad == {i \in DOMAIN file.raw : ~InBounds(file, file.raw[i])
                                      \/ ValueOf(file, file.raw[i]) = NoValue}
      read == IF bad = {} THEN Len(file.raw)
              ELSE IF InBounds(file, file.raw[Min(bad)]) THEN Min(bad) ELSE Min(bad) - 1
  IN [ok |-> bad = {}, es |-> [i \in 1 .. read |-> EntryFrom(file, file.raw[i], tails[i])]]

OpenPsf ==
  /\ PsfCall /\ UNCHANGED <<disk, stored>>
  /\ CASE disk.size < Header -> answer' = "no" /\ psf' = psf
       [] disk.size >= Header /\ ~Sound(disk) -> answer' = "no" /\ psf' = <<>>
       [] OTHER -> \E tails \in [DOMAIN disk.raw -> PsfKeys] :
            LET found == Parse(disk, tails) IN answer' = Answer(found.ok) /\ psf' = found.es

\* Another program's file: this one, but for one field.
Foreign ==
  /\ PsfCall /\ disk.size >= Header /\ disk.raw # <<>>
  /\ disk' \in {[disk EXCEPT !.own = FALSE, !.magic = FALSE], [disk EXCEPT !.own = FALSE, !.version = FALSE],
                [disk EXCEPT !.own = FALSE, !.keyOff = disk.dataOff + 1], [disk EXCEPT !.own = FALSE, !.keys = <<>>],
                [disk EXCEPT !.own = FALSE, !.raw[1].keyOff = disk.dataOff],
                [disk EXCEPT !.own = FALSE, !.raw[1].dataOff = disk.size], [disk EXCEPT !.own = FALSE, !.raw[1].len = 3],
                [disk EXCEPT !.own = FALSE, !.raw[1].fmt = "Unknown"], [disk EXCEPT !.own = FALSE, !.raw[1].max = 0]}
  /\ answer' = "none" /\ UNCHANGED <<psf, stored>>

PsfNext == Add \/ Encode \/ OpenPsf \/ Foreign
PsfSpec == PsfInit /\ [][PsfNext]_psfVars

-----------------------------------------------------------------------------
\* Every name of the list begins where 16 bits still tell it.
NamesFit(es) == \A i \in DOMAIN es : KeyFrom(es, i) - KeyEnds(es)[0] < KeyWidth
Contents(es) == [i \in DOMAIN es |-> [fmt |-> es[i].fmt, max |-> es[i].max, val |-> es[i].val]]

\* Whatever part of an encoded list reached the disk, Open refuses it or finds
\* every value in its place with its format and room, and finds it under its key
\* too unless the names are too long together for 16 bits, when nothing is said
\* and values turn up under other names; the whole file is refused only when the
\* list was empty (psf.cpp:51-165, 191-253, psf.h:29).
OpenFindsTheEncoded ==
  [][OpenPsf /\ disk.own =>
       /\ answer' = "yes" =>
            /\ Contents(psf') = Contents(stored)
            /\ NamesFit(stored) =>
                 \A key \in PsfKeys, fmt \in Formats : ValueUnder(psf', key, fmt) = ValueUnder(stored, key, fmt)
       /\ disk = Encoded(stored) => answer' = Answer(stored # <<>>)]_psfVars
=============================================================================
