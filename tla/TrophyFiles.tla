---------------------------- MODULE TrophyFiles ----------------------------
(***************************************************************************)
(* core/file_format/trp.cpp: TRP::Extract walks sce_sys/trophy of a game,   *)
(* reads for each file its communication id from npbind.dat, and writes the *)
(* icons and the decrypted XML files.  The id is a member of the object and *)
(* outlives a file and a call.  Files are no shorter than their header.     *)
(***************************************************************************)
EXTENDS Naturals, Sequences, SequencesExt

CONSTANTS TrophyDirs, \* contents of sce_sys/trophy, as the iterator gives them
          Bindings,   \* the ids of npbind.dat, one after the other; <<>>: no file
          MaxTrophy   \* bound of the model: calls of Extract on one object

\* What is not a file has no entries.
TrpFiles == [file : BOOLEAN, magic : BOOLEAN,
             entries : Seq({"png", "esfm", "short", "lost", "other"})]
ASSUME TrophyAssumption ==
  /\ \A found \in TrophyDirs :
       found \in Seq(TrpFiles) /\ \A k \in DOMAIN found : found[k].file \/ found[k].entries = <<>>
  /\ \A ids \in Bindings : ids \in Seq(STRING)

VARIABLES
  trophies, \* what the directory holds, <<>> when there is none
  bound,    \* npbind.dat
  npId,     \* np_comm_id
  unread,   \* history: the places of this call whose id could not be read
  place,    \* the index of the directory entry, 0 outside Extract
  trpEntry, \* the entry of the file at that place, 0 before it is opened
  made,     \* what was written: the place, the entry and, for XML, the id
  missed,   \* history: writes that failed
  outcome,  \* "none", "true", "false" or "thrown"
  trpCalls
trpVars == <<trophies, bound, npId, unread, place, trpEntry, made, missed, outcome, trpCalls>>

\* Begins with NP; "mixed" is a part of one record over what an earlier one left.
IsNp(id) == id \notin {"zero", "junk"}

TrpInit ==
  /\ trophies = <<>> /\ bound = <<>> /\ npId = "zero" /\ unread = {} /\ place = 0 /\ trpEntry = 0
  /\ made = {} /\ missed = {} /\ outcome = "none" /\ trpCalls = 0

Here == trophies[place]
Ends(how) == outcome' = how /\ place' = 0 /\ trpEntry' = 0
Pending == place # 0

-----------------------------------------------------------------------------
\* The directory and a key of 32 digits have to be there.
ExtractTrophies ==
  /\ ~Pending /\ trpCalls < MaxTrophy /\ trpCalls' = trpCalls + 1
  /\ made' = {} /\ missed' = {} /\ unread' = {} /\ bound' \in Bindings /\ UNCHANGED <<npId, trpEntry>>
  /\ \E found \in TrophyDirs, hasDir, hasKey \in BOOLEAN :
       /\ trophies' = found
       /\ IF hasDir /\ hasKey THEN place' = 1 /\ outcome' = "none"
                              ELSE place' = 0 /\ outcome' = "false"

\* Mutation: an id that was read once is kept.
NpIdKept(k) == IF npId = "zero" /\ k <= Len(bound) THEN {<<bound[k], {}>>} ELSE {<<npId, {}>>}

\* GetNPcommID: the id, and the place when its record is not read: npbind.dat
\* cannot be opened or sought, ends before or within the record, or is followed by
\* other bytes.  Then what is there stays, or is overwritten in part.
NpIdAt(k) ==
  {<<bound[k], {}>> : m \in {k} \cap DOMAIN bound}
    \cup {<<npId, {k}>>}
    \cup (IF bound = <<>> THEN {} ELSE {"junk", "mixed"} \X {{k}})

NoFileHere ==
  /\ Pending /\ place <= Len(trophies) /\ ~Here.file /\ place' = place + 1
  /\ UNCHANGED <<trophies, bound, npId, unread, trpEntry, made, missed, outcome, trpCalls>>
OpenTrophy ==
  /\ Pending /\ place <= Len(trophies) /\ Here.file /\ trpEntry = 0
  /\ \E read \in NpIdAt(place) : npId' = read[1] /\ unread' = unread \cup read[2]
  /\ \/ Here.magic /\ trpEntry' = 1 /\ UNCHANGED <<place, outcome>>
     \/ ~Here.magic /\ Ends("false")
     \/ Ends("false")   \* it cannot be opened
     \/ Ends("thrown")  \* the folders cannot be made
  /\ UNCHANGED <<trophies, bound, made, missed, trpCalls>>

\* An entry is an icon, an encrypted XML file (too short a one throws), at a
\* position that cannot be sought ("lost"), or neither.  The answer of the write
\* is not looked at.
XmlDue(kind) == kind \in {"esfm", "short"} /\ IsNp(npId)
Item == [at |-> place, entry |-> trpEntry,
         id |-> IF Here.entries[trpEntry] = "png" THEN "none" ELSE npId]
WriteItem ==
  LET kind == Here.entries[trpEntry] IN
  CASE kind = "png" \/ XmlDue(kind) -> \/ made' = made \cup {Item} /\ UNCHANGED missed
                                       \/ missed' = missed \cup {Item} /\ UNCHANGED made
    [] OTHER -> UNCHANGED <<made, missed>>
TrophyEntry ==
  /\ Pending /\ trpEntry # 0 /\ trpEntry <= Len(Here.entries)
  /\ CASE Here.entries[trpEntry] = "lost" -> Ends("false") /\ UNCHANGED <<made, missed>>
       [] Here.entries[trpEntry] = "short" /\ XmlDue("short") ->
            Ends("thrown") /\ UNCHANGED <<made, missed>>
       [] OTHER -> WriteItem /\ trpEntry' = trpEntry + 1 /\ UNCHANGED <<place, outcome>>
  /\ UNCHANGED <<trophies, bound, npId, unread, trpCalls>>

TrophyDone ==
  /\ Pending
  /\ \/ /\ trpEntry # 0 /\ trpEntry > Len(Here.entries)
        /\ place' = place + 1 /\ trpEntry' = 0 /\ UNCHANGED outcome
     \/ place > Len(trophies) /\ Ends("true")
  /\ UNCHANGED <<trophies, bound, npId, unread, made, missed, trpCalls>>

TrpNext == ExtractTrophies \/ NoFileHere \/ OpenTrophy \/ TrophyEntry \/ TrophyDone
TrpSpec == TrpInit /\ [][TrpNext]_trpVars

-----------------------------------------------------------------------------
\* When Extract returns true, every icon of every file was written or its write
\* failed; all the XML files of one file went out under one id, or none did; and
\* where npbind.dat has an id for the place of a file and it could be read, that is
\* the id, whatever an earlier file or call left in the object (trp.cpp:12-26,
\* 57-134).  A file whose record could not be read goes out under what was left:
\* Extract does not learn of it and answers true as well.
Handled(k, n) == {x \in made \cup missed : x.at = k /\ x.entry = n}
IdsOf(k, n) == {x.id : x \in Handled(k, n)}
Under(id) == IF IsNp(id) THEN {id} ELSE {}
TrophiesAccounted ==
  outcome = "true" =>
    \A k \in DOMAIN trophies : \A n \in DOMAIN trophies[k].entries :
      /\ trophies[k].entries[n] = "png" => IdsOf(k, n) = {"none"}
      /\ trophies[k].entries[n] = "esfm" /\ k <= Len(bound) /\ k \notin unread =>
           IdsOf(k, n) = Under(bound[k])
      /\ \A m \in DOMAIN trophies[k].entries :
           trophies[k].entries[n] = "esfm" /\ trophies[k].entries[m] = "esfm" =>
             IdsOf(k, n) = IdsOf(k, m)
=============================================================================
