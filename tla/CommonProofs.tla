---------------------------- MODULE CommonProofs -----------------------------
(***************************************************************************)
(* What the common parts promise: the settings and the folders of games     *)
(* that load and save keep, the lists that Open reads again, LockRange and  *)
(* the waits on a stop, for any entries, values, folders, files, threads,   *)
(* locks, waits and calls.                                                  *)
(***************************************************************************)
EXTENDS Config, InstallDirs, PsfFile, RangeLock, StopToken, FiniteSetTheorems, SequenceTheorems,
        WellFoundedInduction, TLAPS

(***************************************************************************)
(* The settings, for any of the program's entries and plain values, any set *)
(* of game files and any number of calls, restarts and torn saves.          *)
(***************************************************************************)
Unstored == {"m_pkg_viewer", "extraDmemInMbytes"}
TomlFiles == [is : {"toml"}, sec : BOOLEAN, val : Held \cup {None}, ver : {None, "this"}]

-----------------------------------------------------------------------------
\* What the sets of names say.  Every entry and every plain value is stored in the
\* file of all games, except two; every one but the extra memory is read from it.
LEMMA StoredButTwo ==
  ASSUME NEW e \in Entries \cup Plain
  PROVE  /\ e \notin Saved(FALSE) => e \in Unstored
         /\ e \notin Plain \cup Loaded(FALSE) => e \in Unstored
BY DEF Saved, SavedByBase, Loaded, Unstored

\* No plain value is an entry.
LEMMA PlainApart == Plain \cap Entries = {}
<1>1. Plain \cap General = {}
  BY DEF Plain, GeneralPlain, GuiPlain, General
<1>2. Plain \cap Input = {}
  BY DEF Plain, GeneralPlain, GuiPlain, Input
<1>3. Plain \cap Audio = {}
  BY DEF Plain, GeneralPlain, GuiPlain, Audio
<1>4. Plain \cap GPU = {}
  BY DEF Plain, GeneralPlain, GuiPlain, GPU
<1>5. Plain \cap Vulkan = {}
  BY DEF Plain, GeneralPlain, GuiPlain, Vulkan
<1>6. Plain \cap DebugAndRest = {}
  BY DEF Plain, GeneralPlain, GuiPlain, DebugAndRest
<1> QED
  BY <1>1, <1>2, <1>3, <1>4, <1>5, <1>6 DEF Entries

\* Only entries have a game value to be set.
LEMMA GameValuesAreEntries ==
  ByMode \cup GameDefaults \cup ModeDefaults \cup {"volumeSlider"} \subseteq Entries
<1>1. SettersToRpc.byMode \subseteq Entries
  BY DEF SettersToRpc, Entries, General
<1>2. SettersToRcp.byMode \subseteq Entries
  BY DEF SettersToRcp, Entries, General, GPU, Vulkan, DebugAndRest
<1>3. SettersToDirs.byMode \subseteq Entries
  BY DEF SettersToDirs, Entries, General, Input, Audio, DebugAndRest
<1>4. SettersToEnd.byMode \subseteq Entries
  BY DEF SettersToEnd, Entries, General, Input, GPU
<1>5. GameDefaults \subseteq Entries
  BY DEF GameDefaults, Entries, General, GPU
<1>6. ModeDefaults \cup {"volumeSlider"} \subseteq Entries
  BY DEF ModeDefaults, Entries, General
<1> QED
  BY <1>1, <1>2, <1>3, <1>4, <1>5, <1>6 DEF ByMode

-----------------------------------------------------------------------------
(***************************************************************************)
(* The inductive invariant.                                                 *)
(***************************************************************************)
\* A save in hand is of a file that parses; of the file of all games it holds the
\* value in memory, where it holds one at all.
SaveInHand ==
  task # <<>> =>
    \E f \in ConfigFiles, r \in TomlFiles :
      /\ task = <<f, r>>
      /\ f = Global => r.sec /\ (entry \in Saved(FALSE) => r.val = base)
      /\ f \in own => (entry \in Plain => r.val = None) /\ (entry \in GuiPlain => ~r.sec)

Typed ==
  /\ entry \in Entries \cup Plain
  /\ base \in Held /\ game \in Held \cup {None}
  /\ files \in [ConfigFiles -> TomlFiles \cup {NoFile, Broken}]
  /\ own \subseteq Games

\* What the file of all games gives back to a first load.
GivesBack ==
  /\ entry \in Unstored => kept = Held
  /\ IF files[Global] \in TomlFiles /\ files[Global].sec /\ files[Global].val # None
     THEN files[Global].val \in kept ELSE "initial" \in kept

\* Save keeps the plain values out of the files of games, and whoever has no game
\* value has none from a file.
OwnFiles ==
  /\ \A f \in own : files[f] \in TomlFiles =>
       (entry \in Plain => files[f].val = None) /\ (entry \in GuiPlain => ~files[f].sec)
  /\ entry \notin Entries => game = None /\ origin = None

Fresh == life = "restarted" => base = "initial"

ConfigInv == Typed /\ SaveInHand /\ GivesBack /\ OwnFiles /\ Fresh /\ RestartKeeps

-----------------------------------------------------------------------------
\* A file parses exactly when it is one of the parsed kind.
LEMMA KindsOfFiles ==
  ASSUME Typed, NEW f \in ConfigFiles
  PROVE  /\ Parsed(f) <=> files[f] \in TomlFiles
         /\ files[f] \in TomlFiles \cup {NoFile, Broken}
<1>1. NoFile \notin TomlFiles /\ Broken \notin TomlFiles
  BY DEF NoFile, Broken, TomlFiles
<1>2. NoFile.is # "toml" /\ Broken.is # "toml"
  BY DEF NoFile, Broken
<1>3. \A r \in TomlFiles : r.is = "toml"
  BY DEF TomlFiles
<1> QED
  BY <1>1, <1>2, <1>3 DEF Typed, Parsed

LEMMA FilesApart ==
  /\ NoFile \notin TomlFiles /\ Broken \notin TomlFiles /\ Empty \in TomlFiles
  /\ ~Empty.sec /\ Empty.val = None /\ NoFile # Broken
<1>1. NoFile.is = "missing" /\ Broken.is = "broken"
  BY DEF NoFile, Broken
<1>2. \A r \in TomlFiles : r.is = "toml"
  BY DEF TomlFiles
<1> QED
  BY <1>1, <1>2 DEF TomlFiles, Empty

\* What a save writes.
LEMMA WrittenIs ==
  ASSUME Typed, OwnFiles, NEW f \in ConfigFiles, files[f] # Broken
  PROVE  /\ Written(f) \in TomlFiles
         /\ f = Global => /\ Written(f).sec
                          /\ entry \in Saved(FALSE) => Written(f).val = base
         /\ f \in own => /\ entry \in Plain => Written(f).val = None
                         /\ entry \in GuiPlain => ~Written(f).sec
<1> DEFINE old == IF files[f] = NoFile THEN Empty ELSE files[f]
           gs == IsGame(f)
           val == IF entry \notin Saved(gs) THEN old.val
                  ELSE IF gs /\ game # None THEN game ELSE base
           sec == old.sec \/ ~gs \/ entry \notin GuiPlain \cup {"trophyKey"}
           ver == IF gs THEN old.ver ELSE "this"
<1>1. old \in TomlFiles
  BY FilesApart, KindsOfFiles
<1>2. /\ old.sec \in BOOLEAN /\ old.val \in Held \cup {None} /\ old.ver \in {None, "this"}
  BY <1>1 DEF TomlFiles
<1>3. Written(f) = [is |-> "toml", sec |-> sec, val |-> val, ver |-> ver]
  BY DEF Written
<1>4. gs \in BOOLEAN /\ (f = Global => ~gs) /\ (f \in own => gs)
  BY ConfigAssumption DEF IsGame, Typed
<1>5. sec \in BOOLEAN /\ val \in Held \cup {None} /\ ver \in {None, "this"}
  BY <1>2, <1>4 DEF Typed
<1>6. Written(f) \in TomlFiles
  BY <1>3, <1>5 DEF TomlFiles
<1>7. f = Global => sec /\ (entry \in Saved(FALSE) => val = base)
  BY <1>4
<1>8. ASSUME f \in own, entry \in Plain PROVE val = None
  <2>1. entry \notin Saved(TRUE)
    BY <1>8, PlainApart DEF Saved, SavedByMode
  <2>2. old.val = None
    BY <1>8, <1>1, FilesApart, KindsOfFiles DEF OwnFiles
  <2>3. gs = TRUE
    BY <1>4, <1>8
  <2>4. entry \notin Saved(gs)
    BY <2>1, <2>3
  <2> QED
    BY <2>2, <2>4
<1>9. ASSUME f \in own, entry \in GuiPlain PROVE ~sec
  <2>1. ~old.sec
    BY <1>9, <1>1, FilesApart, KindsOfFiles DEF OwnFiles
  <2> QED
    BY <1>4, <1>9, <2>1
<1>10. Written(f).sec = sec /\ Written(f).val = val
  BY <1>3
<1> HIDE DEF val, sec
<1> QED
  BY <1>6, <1>7, <1>8, <1>9, <1>10

\* The settings begin with their initial values, files are as made by hand.
LEMMA ConfigInitInv == ConfigInit => ConfigInv
<1> SUFFICES ASSUME ConfigInit PROVE ConfigInv
  OBVIOUS
<1> PICK written \in [HandFiles -> ByHand] :
      files = [f \in ConfigFiles |-> IF f \in HandFiles THEN written[f] ELSE NoFile]
  BY DEF ConfigInit
<1>1. ByHand \subseteq TomlFiles \cup {NoFile}
  BY DEF ByHand, Empty, TomlFiles, Held, Values, None
<1>2. files \in [ConfigFiles -> TomlFiles \cup {NoFile, Broken}]
  BY <1>1
<1>3. Typed
  BY <1>2, ConfigAssumption DEF ConfigInit, Typed, Held, Values
<1>4. GivesBack
  BY <1>2 DEF ConfigInit, GivesBack, ConfigFiles, TomlFiles, Held, Values
<1>5. OwnFiles /\ SaveInHand /\ Fresh /\ RestartKeeps
  BY FilesApart, <1>3 DEF ConfigInit, OwnFiles, SaveInHand, Fresh, RestartKeeps
<1> QED
  BY <1>3, <1>4, <1>5 DEF ConfigInv

\* A call that only sets values in memory.
LEMMA SetInMemory ==
  ASSUME ConfigInv, task = <<>>, life' = "running",
         UNCHANGED <<entry, files, task, kept, own>>,
         base' \in Held, game' \in Held \cup {None},
         entry \notin Entries => UNCHANGED <<game, origin>>
  PROVE  ConfigInv'
<1>1. Typed' /\ OwnFiles'
  BY DEF ConfigInv, Typed, OwnFiles
<1>2. SaveInHand' /\ GivesBack'
  BY DEF ConfigInv, SaveInHand, GivesBack
<1>3. Fresh' /\ RestartKeeps'
  BY DEF Fresh, RestartKeeps
<1> QED
  BY <1>1, <1>2, <1>3 DEF ConfigInv

LEMMA SettersPreserve ==
  ASSUME ConfigInv,
         \/ SetEntry \/ VblankFreq \/ ResetGameSpecificValue
         \/ \E gs \in BOOLEAN : SetDefaultValues(gs)
  PROVE  ConfigInv'
<1>1. CASE SetEntry
  <2>1. /\ task = <<>> /\ life' = "running" /\ UNCHANGED <<entry, files, task, kept, own>>
    BY <1>1 DEF SetEntry, Call, Running
  <2>2. base' \in Held /\ game' \in Held \cup {None}
    BY <1>1 DEF SetEntry, ConfigInv, Typed, Held, Values
  <2>3. entry \notin Entries => UNCHANGED <<game, origin>>
    BY <1>1, GameValuesAreEntries DEF SetEntry
  <2> QED
    BY <2>1, <2>2, <2>3, SetInMemory
<1>2. CASE VblankFreq
  <2>1. /\ task = <<>> /\ life' = "running" /\ UNCHANGED <<entry, files, task, kept, own>>
        /\ base' \in Held /\ game' \in Held \cup {None} /\ UNCHANGED <<game, origin>>
    BY <1>2 DEF VblankFreq, Call, Running, Held, Values, ConfigInv, Typed
  <2> QED
    BY <2>1, SetInMemory
<1>3. CASE ResetGameSpecificValue
  <2>1. /\ task = <<>> /\ life' = "running" /\ UNCHANGED <<entry, files, task, kept, own>>
        /\ base' \in Held /\ game' \in Held \cup {None}
    BY <1>3 DEF ResetGameSpecificValue, Call, Running, ConfigInv, Typed
  <2>2. entry \in Entries
    BY <1>3, GameValuesAreEntries DEF ResetGameSpecificValue
  <2> QED
    BY <2>1, <2>2, SetInMemory
<1>4. ASSUME NEW gs \in BOOLEAN, SetDefaultValues(gs) PROVE ConfigInv'
  <2>1. /\ task = <<>> /\ life' = "running" /\ UNCHANGED <<entry, files, task, kept, own>>
    BY <1>4 DEF SetDefaultValues, Call, Running
  <2>2. DefaultOf \in Held
    BY DEF DefaultOf, Held, Values
  <2>3. base' \in Held /\ game' \in Held \cup {None}
    BY <1>4, <2>2 DEF SetDefaultValues, ConfigInv, Typed
  <2>4. entry \notin Entries => UNCHANGED <<game, origin>>
    BY <1>4, GameValuesAreEntries DEF SetDefaultValues
  <2> QED
    BY <2>1, <2>3, <2>4, SetInMemory
<1> QED
  BY <1>1, <1>2, <1>3, <1>4

\* What load takes from a file that parses.
LEMMA TakenIs ==
  ASSUME ConfigInv, NEW f \in ConfigFiles, files[f] \in TomlFiles
  PROVE  /\ BaseFrom(files[f], IsGame(f)) \in Held
         /\ GameFrom(files[f]) \in Held \cup {None}
         /\ base = "initial" /\ f = Global => BaseFrom(files[f], IsGame(f)) \in kept
<1> DEFINE file == files[f]
           gs == IsGame(f)
<1>1. file.val \in Held \cup {None} /\ file.sec \in BOOLEAN
  BY DEF TomlFiles
<1>2. base \in Held /\ game \in Held \cup {None} /\ "initial" \in Held /\ None \notin Held
  BY DEF ConfigInv, Typed, Held, Values, None
<1>3. BaseFrom(file, gs) \in Held /\ GameFrom(file) \in Held \cup {None}
  BY <1>1, <1>2 DEF BaseFrom, GameFrom
<1>4. ASSUME base = "initial", f = Global PROVE BaseFrom(file, gs) \in kept
  <2>1. gs = FALSE
    BY <1>4, ConfigAssumption DEF IsGame
  <2>2. CASE entry \in Unstored
    BY <2>2, <1>3 DEF ConfigInv, GivesBack
  <2>3. CASE entry \notin Unstored
    <3>1. entry \in Plain \cup Loaded(FALSE)
      BY <2>3, StoredButTwo DEF ConfigInv, Typed
    <3>2. BaseFrom(file, gs) = IF file.sec /\ file.val # None THEN file.val ELSE "initial"
      BY <1>1, <1>4, <2>1, <2>3, <3>1 DEF BaseFrom, Unstored
    <3> QED
      BY <1>4, <3>2 DEF ConfigInv, GivesBack
  <2> QED
    BY <2>2, <2>3
<1> QED
  BY <1>3, <1>4

\* A load: only the very first after a restart has to tell what was kept.
LEMMA LoadPreserves ==
  ASSUME ConfigInv, NEW f \in ConfigFiles, LoadNow(f)
  PROVE  ConfigInv'
<1>1. /\ UNCHANGED <<entry, files, kept, own>> /\ task = <<>>
      /\ life' # "restarted"
      /\ life' = "loaded" => f = Global /\ base = "initial"
  BY DEF LoadNow, Call, ConfigInv, Fresh
<1>2. GivesBack' /\ Fresh'
  BY <1>1 DEF ConfigInv, GivesBack, Fresh
<1>3. CASE Parsed(f)
  <2>1. files[f] \in TomlFiles /\ files[f] # NoFile /\ files[f] # Broken
    BY <1>3, KindsOfFiles, FilesApart DEF ConfigInv
  <2>2. /\ base' = BaseFrom(files[f], IsGame(f))
        /\ game' = IF IsGame(f) THEN GameFrom(files[f]) ELSE game
        /\ game' = None => origin' = None
        /\ task' = IF IsGame(f) \/ files[f].ver = "this" THEN <<>>
                   ELSE <<f, [Written(f) EXCEPT
                                !.val = IF entry \in Saved(FALSE) THEN base' ELSE @]>>
    BY <2>1 DEF LoadNow
  <2>3. Typed' /\ RestartKeeps'
    BY <1>1, <2>1, <2>2, TakenIs DEF ConfigInv, Typed, RestartKeeps
  <2>4. OwnFiles'
    BY <1>1, <2>2 DEF ConfigInv, OwnFiles, GameFrom, Loaded
  <2>5. SaveInHand'
    <3> DEFINE r == [Written(f) EXCEPT !.val = IF entry \in Saved(FALSE) THEN base' ELSE @]
    <3>1. SUFFICES ASSUME ~IsGame(f), task' = <<f, r>> PROVE SaveInHand'
      BY <2>2 DEF SaveInHand
    <3>2. f = Global /\ f \notin own
      BY <3>1 DEF ConfigInv, Typed, IsGame, ConfigFiles
    <3>3. Written(f) \in TomlFiles /\ Written(f).sec
      BY <2>1, <3>2, WrittenIs DEF ConfigInv
    <3>4. /\ r \in TomlFiles /\ r.sec = Written(f).sec
          /\ entry \in Saved(FALSE) => r.val = base'
      BY <2>3, <3>3 DEF Typed, TomlFiles
    <3> HIDE DEF r
    <3> QED
      BY <1>1, <3>1, <3>2, <3>3, <3>4 DEF SaveInHand
  <2> QED
    BY <1>2, <2>3, <2>4, <2>5 DEF ConfigInv
<1>4. CASE /\ files[f] = NoFile /\ UNCHANGED <<base, game, origin>>
           /\ task' = IF IsGame(f) THEN <<>> ELSE <<f, Written(f)>>
  <2>1. Typed' /\ OwnFiles'
    BY <1>1, <1>4 DEF ConfigInv, Typed, OwnFiles
  <2>2. SaveInHand'
    BY <1>1, <1>4, FilesApart, WrittenIs DEF ConfigInv, SaveInHand
  <2>3. RestartKeeps'
    BY <1>1, <1>4, FilesApart DEF ConfigInv, GivesBack, RestartKeeps
  <2> QED
    BY <1>2, <2>1, <2>2, <2>3 DEF ConfigInv
<1>5. CASE files[f] = Broken /\ UNCHANGED <<base, game, origin, task>>
  <2>1. Typed' /\ OwnFiles' /\ SaveInHand'
    BY <1>1, <1>5 DEF ConfigInv, Typed, OwnFiles, SaveInHand
  <2>2. RestartKeeps'
    BY <1>1, <1>5, FilesApart DEF ConfigInv, GivesBack, RestartKeeps
  <2> QED
    BY <1>2, <2>1, <2>2 DEF ConfigInv
<1> QED
  BY <1>3, <1>4, <1>5 DEF LoadNow

\* A save up to its write.
LEMMA SavePreserves ==
  ASSUME ConfigInv, NEW f \in ConfigFiles, SaveNow(f)
  PROVE  ConfigInv'
<1>1. /\ UNCHANGED <<entry, base, files, kept, own>> /\ task = <<>>
      /\ life' = "running"
  BY DEF SaveNow, Call, Running
<1>2. GivesBack' /\ Fresh' /\ RestartKeeps'
  BY <1>1 DEF ConfigInv, GivesBack, Fresh, RestartKeeps
<1>3. /\ (game' = None /\ origin' = None) \/ UNCHANGED <<game, origin>>
      /\ UNCHANGED task \/ (files[f] # Broken /\ task' = <<f, Written(f)>>)
  BY DEF SaveNow
<1>4. Typed' /\ OwnFiles'
  BY <1>1, <1>3 DEF ConfigInv, Typed, OwnFiles
<1>5. SaveInHand'
  <2>1. CASE UNCHANGED task
    BY <1>1, <2>1 DEF SaveInHand
  <2>2. CASE files[f] # Broken /\ task' = <<f, Written(f)>>
    <3> DEFINE r == Written(f)
    <3>1. /\ r \in TomlFiles
          /\ f = Global => r.sec /\ (entry \in Saved(FALSE) => r.val = base)
          /\ f \in own => (entry \in Plain => r.val = None) /\ (entry \in GuiPlain => ~r.sec)
      BY <2>2, WrittenIs DEF ConfigInv
    <3>2. task' = <<f, r>>
      BY <2>2
    <3> HIDE DEF r
    <3> QED
      BY <1>1, <3>1, <3>2 DEF SaveInHand
  <2> QED
    BY <1>3, <2>1, <2>2
<1> QED
  BY <1>2, <1>4, <1>5 DEF ConfigInv

\* The write, whole, cut or refused: what is kept is what the file now holds.
LEMMA WritePreserves ==
  ASSUME ConfigInv, SaveWrite
  PROVE  ConfigInv'
<1> PICK f \in ConfigFiles, r \in TomlFiles :
      /\ task = <<f, r>>
      /\ f = Global => r.sec /\ (entry \in Saved(FALSE) => r.val = base)
      /\ f \in own => (entry \in Plain => r.val = None) /\ (entry \in GuiPlain => ~r.sec)
  BY DEF SaveWrite, ConfigInv, SaveInHand
<1>1. /\ task[1] = f /\ task[2] = r /\ task' = <<>>
      /\ UNCHANGED <<entry, base, game, origin, own, life, settings>>
  BY DEF SaveWrite
<1>2. SaveInHand' /\ Fresh'
  BY <1>1 DEF ConfigInv, SaveInHand, Fresh
<1>3. base \in Stored /\ (entry \in Unstored => Stored = Held)
  BY DEF Stored, Unstored, ConfigInv, Typed
<1>4. ASSUME UNCHANGED <<files, kept>> PROVE ConfigInv'
  BY <1>1, <1>2, <1>4
  DEF ConfigInv, Typed, GivesBack, OwnFiles, RestartKeeps
<1>5. ASSUME NEW now \in {r} \cup Beginnings(r), files' = [files EXCEPT ![f] = now],
             f # Global => kept' = kept,
             f = Global => \/ (now = r /\ kept' = Stored)
                           \/ kept' = Stored \cup {"initial"} \cup CutNumber(r)
      PROVE  ConfigInv'
  <2>1. /\ now \in TomlFiles \cup {Broken}
        /\ now \in TomlFiles => /\ now.sec => r.sec
                                /\ now.val \in {r.val, None} \cup CutNumber(r)
        /\ now \in TomlFiles /\ now.val # None => r.val # None
    <3>1. CutNumber(r) \subseteq {"cut"} /\ (r.val = None => CutNumber(r) = {})
      BY DEF CutNumber
    <3>2. "cut" \in Held
      BY DEF Held
    <3>3. \A v \in {None} \cup CutNumber(r) : v \in Held \cup {None}
      BY <3>1, <3>2
    <3>4. \A v \in {None} \cup CutNumber(r) :
            /\ [r EXCEPT !.val = v] \in TomlFiles
            /\ [r EXCEPT !.val = v].sec = r.sec /\ [r EXCEPT !.val = v].val = v
            /\ [r EXCEPT !.val = v, !.ver = None] \in TomlFiles
            /\ [r EXCEPT !.val = v, !.ver = None].sec = r.sec
            /\ [r EXCEPT !.val = v, !.ver = None].val = v
      BY <3>3 DEF TomlFiles
    <3>5. /\ [r EXCEPT !.ver = None] \in TomlFiles /\ [r EXCEPT !.ver = None].sec = r.sec
          /\ [r EXCEPT !.ver = None].val = r.val
      BY DEF TomlFiles
    <3>6. \/ now \in {r, Broken, Empty, [r EXCEPT !.ver = None]}
          \/ \E v \in {None} \cup CutNumber(r) :
               now = [r EXCEPT !.val = v] \/ now = [r EXCEPT !.val = v, !.ver = None]
      BY <1>5 DEF Beginnings
    <3>7. CASE now \in {r, Broken, Empty, [r EXCEPT !.ver = None]}
      BY <3>5, <3>7, FilesApart
    <3>8. CASE \E v \in {None} \cup CutNumber(r) :
                 now = [r EXCEPT !.val = v] \/ now = [r EXCEPT !.val = v, !.ver = None]
      <4>1. PICK v \in {None} \cup CutNumber(r) :
              now = [r EXCEPT !.val = v] \/ now = [r EXCEPT !.val = v, !.ver = None]
        BY <3>8
      <4>2. now \in TomlFiles /\ now.sec = r.sec /\ now.val = v
        BY <3>4, <4>1
      <4> QED
        BY <3>1, <4>2
    <3> QED
      BY <3>6, <3>7, <3>8
  <2>2. files' \in [ConfigFiles -> TomlFiles \cup {NoFile, Broken}] /\ files'[f] = now
        /\ \A g \in ConfigFiles \ {f} : files'[g] = files[g]
    BY <1>5, <2>1 DEF ConfigInv, Typed
  <2>3. Typed'
    BY <1>1, <2>2 DEF ConfigInv, Typed
  <2>4. OwnFiles'
    BY <1>1, <2>1, <2>2 DEF ConfigInv, OwnFiles, Typed, ConfigFiles
  <2>5. GivesBack'
    <3>1. CASE f # Global
      BY <1>1, <1>5, <2>2, <3>1 DEF ConfigInv, GivesBack, ConfigFiles
    <3>2. CASE f = Global
      <4>1. base \in kept' /\ (entry \in Unstored => kept' = Held)
        BY <1>3, <1>5, <3>2 DEF Held, Values, CutNumber
      <4>2. CASE kept' = Stored \cup {"initial"} \cup CutNumber(r)
        <5>1. "initial" \in kept'
          BY <4>2
        <5>2. ASSUME now \in TomlFiles, now.val # None
              PROVE  now.val \in kept'
          <6>1. CASE now.val \in CutNumber(r)
            BY <4>2, <6>1
          <6>2. CASE now.val = r.val
            <7>1. r.val \in Held
              <8>1. r.val \in Held \cup {None}
                BY DEF TomlFiles
              <8> QED
                BY <5>2, <6>2, <8>1
            <7>2. entry \in Saved(FALSE) => r.val = base
              BY <3>2
            <7>3. entry \notin Unstored => entry \in Saved(FALSE)
              BY StoredButTwo DEF ConfigInv, Typed
            <7>4. base \in kept' /\ (entry \in Unstored => kept' = Held)
              BY <4>1
            <7> HIDE DEF Held, Unstored
            <7>5. r.val \in kept'
              BY <7>1, <7>2, <7>3, <7>4
            <7> QED
              BY <6>2, <7>5
          <6> QED
            BY <2>1, <5>2, <6>1, <6>2
        <5> QED
          BY <1>1, <2>2, <3>2, <4>1, <5>1, <5>2 DEF GivesBack
      <4>3. CASE now = r /\ kept' = Stored
        <5>1. entry \notin Unstored => r.sec /\ r.val = base
          BY <3>2, StoredButTwo DEF ConfigInv, Typed
        <5>2. base # None
          BY DEF ConfigInv, Typed, Held, Values, None
        <5>3. r.val # None => r.val \in kept'
          BY <4>1, <5>1 DEF TomlFiles
        <5>4. entry \in Unstored => "initial" \in kept'
          BY <4>1 DEF Held, Values
        <5> QED
          BY <1>1, <2>2, <3>2, <4>1, <4>3, <5>1, <5>2, <5>3, <5>4 DEF GivesBack
      <4> QED
        BY <1>5, <3>2, <4>2, <4>3
    <3> QED
      BY <3>1, <3>2
  <2>6. RestartKeeps'
    BY <1>1, <1>3, <1>5 DEF ConfigInv, RestartKeeps
  <2> QED
    BY <1>2, <2>3, <2>4, <2>5, <2>6 DEF ConfigInv
<1>6. \/ files' = [files EXCEPT ![f] = r] /\ kept' = IF f = Global THEN Stored ELSE kept
      \/ \E cut \in Beginnings(r) :
           /\ files' = [files EXCEPT ![f] = cut]
           /\ kept' = IF f = Global THEN Stored \cup {"initial"} \cup CutNumber(r) ELSE kept
      \/ UNCHANGED <<files, kept>>
  BY <1>1 DEF SaveWrite, Torn
<1> QED
  BY <1>4, <1>5, <1>6

\* The start of the program, perhaps of another version.
LEMMA RestartPreserves ==
  ASSUME ConfigInv, Restart
  PROVE  ConfigInv'
<1> DEFINE old == files[Global]
           now == IF Parsed(Global) THEN [old EXCEPT !.ver = None] ELSE old
<1>1. /\ UNCHANGED <<entry, kept, own>> /\ task' = <<>> /\ base' = "initial"
      /\ game' = None /\ origin' = None /\ life' = "restarted"
      /\ files' = files \/ files' = [files EXCEPT ![Global] = now]
  BY DEF Restart
<1>2. Global \in ConfigFiles /\ Global \notin own
  BY ConfigAssumption DEF ConfigFiles, ConfigInv, Typed
<1>3. /\ now \in TomlFiles \cup {NoFile, Broken}
      /\ now \in TomlFiles => old \in TomlFiles /\ now.sec = old.sec /\ now.val = old.val
      /\ old \in TomlFiles => now \in TomlFiles
  BY <1>2, KindsOfFiles DEF ConfigInv, TomlFiles
<1> HIDE DEF now
<1>4. /\ files' \in [ConfigFiles -> TomlFiles \cup {NoFile, Broken}]
      /\ \A g \in ConfigFiles \ {Global} : files'[g] = files[g]
      /\ files'[Global] \in {old, now}
  BY <1>1, <1>2, <1>3 DEF ConfigInv, Typed
<1>5. Typed'
  BY <1>1, <1>4 DEF ConfigInv, Typed, Held, Values
<1>6. OwnFiles'
  BY <1>1, <1>2, <1>4 DEF ConfigInv, OwnFiles, Typed, ConfigFiles
<1>7. GivesBack'
  BY <1>1, <1>3, <1>4 DEF ConfigInv, GivesBack
<1>8. SaveInHand' /\ Fresh' /\ RestartKeeps'
  BY <1>1 DEF SaveInHand, Fresh, RestartKeeps
<1> QED
  BY <1>5, <1>6, <1>7, <1>8 DEF ConfigInv

LEMMA ConfigStepInv == ConfigInv /\ [ConfigNext]_configVars => ConfigInv'
<1> SUFFICES ASSUME ConfigInv, [ConfigNext]_configVars PROVE ConfigInv'
  OBVIOUS
<1>1. CASE \/ SetEntry \/ VblankFreq \/ ResetGameSpecificValue
           \/ \E gs \in BOOLEAN : SetDefaultValues(gs)
  BY <1>1, SettersPreserve
<1>2. CASE \E f \in ConfigFiles : LoadNow(f)
  BY <1>2, LoadPreserves
<1>3. CASE \E f \in ConfigFiles : SaveNow(f)
  BY <1>3, SavePreserves
<1>4. CASE SaveWrite
  BY <1>4, WritePreserves
<1>5. CASE Restart
  BY <1>5, RestartPreserves
<1>6. CASE UNCHANGED configVars
  <2>1. Typed' /\ SaveInHand' /\ OwnFiles'
    BY <1>6 DEF configVars, ConfigInv, Typed, SaveInHand, OwnFiles
  <2>2. GivesBack' /\ Fresh' /\ RestartKeeps'
    BY <1>6 DEF configVars, ConfigInv, GivesBack, Fresh, RestartKeeps
  <2> QED
    BY <2>1, <2>2 DEF ConfigInv
<1> QED
  BY <1>1, <1>2, <1>3, <1>4, <1>5, <1>6 DEF ConfigNext

\* The inductive invariant holds in every behaviour of the settings.
THEOREM ConfigInvariant == ConfigSpec => []ConfigInv
<1>1. ConfigInit => ConfigInv
  BY ConfigInitInv
<1>2. ConfigInv /\ [ConfigNext]_configVars => ConfigInv'
  BY ConfigStepInv
<1> QED
  BY <1>1, <1>2, PTL DEF ConfigSpec

\* Config::load right after a start gives what the last Config::save stored, or the
\* initial value or a part of its number when that save was torn, for every entry
\* that is stored at all.
THEOREM SettingsOutliveRestarts == ConfigSpec => []RestartKeeps
<1>1. ConfigInv => RestartKeeps
  BY DEF ConfigInv
<1> QED
  BY <1>1, ConfigInvariant, PTL

\* What load and save of the file of a game leave alone, in one step.
LEMMA GameStepApart ==
  ASSUME ConfigInv, NEW f \in Games
  PROVE  /\ LoadNow(f) =>
              /\ (entry \in Plain => f \in own) => base' = base
              /\ f \in own /\ Parsed(f) /\ files[f].sec => origin' \in {f, None}
         /\ SaveNow(f) => base' = base
<1>1. f \in ConfigFiles /\ IsGame(f) /\ IsGame(f) = TRUE
  BY DEF ConfigFiles, IsGame
<1>2. SaveNow(f) => base' = base
  BY DEF SaveNow
<1>3. ASSUME LoadNow(f), entry \in Plain => f \in own PROVE base' = base
  <2>1. CASE Parsed(f)
    <3>1. base' = BaseFrom(files[f], TRUE) /\ files[f] \in TomlFiles
      BY <1>1, <1>3, <2>1, KindsOfFiles, FilesApart DEF LoadNow, ConfigInv
    <3>2. CASE entry \notin Plain
      BY <3>1, <3>2 DEF BaseFrom
    <3>3. CASE entry \in Plain
      <4>1. files[f].val = None /\ (entry = "m_pkg_viewer" => ~files[f].sec)
        BY <1>3, <3>1, <3>3 DEF ConfigInv, OwnFiles, GuiPlain
      <4> QED
        BY <3>1, <4>1 DEF BaseFrom
    <3> QED
      BY <3>2, <3>3
  <2>2. CASE ~Parsed(f)
    BY <1>3, <2>2 DEF LoadNow
  <2> QED
    BY <2>1, <2>2
<1>4. ASSUME LoadNow(f), Parsed(f), files[f].sec PROVE origin' \in {f, None}
  <2>1. /\ game' = GameFrom(files[f])
        /\ origin' = IF game' = None THEN None
                     ELSE IF game' = files[f].val THEN f ELSE origin
    BY <1>1, <1>4, KindsOfFiles, FilesApart DEF LoadNow, ConfigInv
  <2>2. CASE entry \in Entries
    BY <1>4, <2>1, <2>2 DEF GameFrom, Loaded
  <2>3. CASE entry \notin Entries
    BY <2>1, <2>3 DEF GameFrom, Loaded, ConfigInv, OwnFiles
  <2> QED
    BY <2>2, <2>3
<1> QED
  BY <1>2, <1>3, <1>4

\* Loading or saving the file of one game leaves what all games share, and no value
\* of the game before it shows: for any entry, any games and any order of calls.
THEOREM GamesStayApart == ConfigSpec => GamesApart
<1>1. ConfigInv /\ [ConfigNext]_configVars =>
        [\A f \in Games :
           /\ LoadNow(f) =>
                /\ (entry \in Plain => f \in own) => base' = base
                /\ f \in own /\ Parsed(f) /\ files[f].sec => origin' \in {f, None}
           /\ SaveNow(f) => base' = base]_configVars
  BY GameStepApart
<1> QED
  BY <1>1, ConfigInvariant, PTL DEF ConfigSpec, GamesApart

(***************************************************************************)
(* The folders of games, for any folders, files that somebody wrote and     *)
(* any number of calls, starts and torn saves.                              *)
(***************************************************************************)
\* The types.
FolderEntries == [path : Folders, enabled : BOOLEAN]
DirsFiles == [is : {"missing", "toml", "broken", "bare"}, list : Seq(Folders),
              on : Seq(BOOLEAN), hasOn : BOOLEAN, ver : BOOLEAN]

\* The file holds the folders in some order, each with its flag.
Stores(file, ds) ==
  \E s \in Orders(ds) : /\ file.is = "toml" /\ file.hasOn
                        /\ file.list = Column(s, "path") /\ file.on = Column(s, "enabled")

\* What is left of that: nothing, no folders, or the folders without the flags.
StoresPart(file, ds) ==
  \/ file.is \in {"broken", "bare"}
  \/ file.is = "toml" /\ file.list = <<>> /\ file.on = <<>> /\ ~file.hasOn
  \/ \E s \in Orders(ds) : /\ file.is = "toml" /\ ~file.hasOn /\ file.on = <<>>
                           /\ file.list = Column(s, "path")

\* The inductive invariant.
DirsInv ==
  /\ dirs \in Seq(FolderEntries) /\ saved \in Seq(FolderEntries) /\ enabledBy \in Seq(BOOLEAN)
  /\ dirsFile \in DirsFiles
  /\ dirsFrom = "start" => dirs = <<>> /\ enabledBy = <<>>
  /\ wrote = "save" => Stores(dirsFile, saved)
  /\ wrote = "cut" => StoresPart(dirsFile, saved)

\* An order of a list is a list of the same entries.
LEMMA OrderIs ==
  ASSUME NEW ds \in Seq(FolderEntries), NEW s \in Orders(ds)
  PROVE  /\ s \in Seq(FolderEntries) /\ Len(s) = Len(ds)
         /\ \E g \in Bijection(1 .. Len(ds), 1 .. Len(ds)) : \A k \in 1 .. Len(ds) : s[k] = ds[g[k]]
<1>1. PICK n \in Nat : n = Len(ds) /\ DOMAIN ds = 1 .. n
  OBVIOUS
<1>2. PICK g \in Bijection(1 .. n, 1 .. n) : s = [k \in 1 .. n |-> ds[g[k]]]
  BY <1>1 DEF Orders
<1>3. g \in [1 .. n -> 1 .. n]
  BY DEF Bijection, Injection
<1>4. \A k \in 1 .. n : ds[g[k]] \in FolderEntries
  BY <1>1, <1>3
<1>5. s \in [1 .. n -> FolderEntries] /\ \A k \in 1 .. n : s[k] = ds[g[k]]
  BY <1>2, <1>4
<1>6. s \in Seq(FolderEntries) /\ Len(s) = n
  BY <1>5
<1> QED
  BY <1>1, <1>5, <1>6

\* One list is the other in the order g.
Moved(s, t, n, g) ==
  /\ g \in Bijection(1 .. n, 1 .. n) /\ DOMAIN s = 1 .. n /\ DOMAIN t = 1 .. n
  /\ \A k \in 1 .. n : s[k] = t[g[k]]

\* Lists of which one is the other in another order have the same folders.
LEMMA SameWhenMoved ==
  ASSUME NEW n \in Nat, NEW s, NEW t, NEW g, Moved(s, t, n, g)
  PROVE  SameFolders(s, t)
<1>0. /\ g \in Bijection(1 .. n, 1 .. n) /\ DOMAIN s = 1 .. n /\ DOMAIN t = 1 .. n
      /\ \A k \in 1 .. n : s[k] = t[g[k]]
  BY DEF Moved
<1> SUFFICES ASSUME NEW d PROVE Times(s, d) = Times(t, d)
  BY DEF SameFolders
<1> DEFINE A == {k \in 1 .. n : s[k] = d}
           B == {k \in 1 .. n : t[k] = d}
           h == [k \in A |-> g[k]]
<1>1. /\ g \in [1 .. n -> 1 .. n] /\ \A a, b \in 1 .. n : g[a] = g[b] => a = b
      /\ \A b \in 1 .. n : \E a \in 1 .. n : g[a] = b
  BY <1>0 DEF Bijection, Injection, Surjection, IsInjective
<1>2. h \in [A -> B] /\ \A k \in A : h[k] = g[k]
  BY <1>0, <1>1
<1>3. \A b \in B : \E a \in A : h[a] = b
  BY <1>0, <1>1
<1>4. \A a, b \in A : h[a] = h[b] => a = b
  BY <1>1
<1> HIDE DEF h
<1>5. h \in Bijection(A, B)
  <2> HIDE DEF A, B
  <2> QED
    BY <1>2, <1>3, <1>4 DEF Bijection, Injection, Surjection, IsInjective
<1>6. IsFiniteSet(A)
  <2>1. IsFiniteSet(1 .. n)
    BY FS_Interval
  <2> QED
    BY <2>1, FS_Subset
<1>7. Cardinality(A) = Cardinality(B)
  <2> HIDE DEF A, B
  <2> QED
    BY <1>5, <1>6, FS_Bijection DEF ExistsBijection
<1> QED
  BY <1>0, <1>7 DEF Times

\* A place that the search finds.
LEMMA IndexOfIs ==
  ASSUME NEW p, dirs \in Seq(FolderEntries), IndexOf(p) # 0
  PROVE  IndexOf(p) \in 1 .. Len(dirs)
<1> DEFINE I == {i \in 1 .. Len(dirs) : dirs[i].path = p}
<1>1. IndexOf(p) = IF I # {} THEN Min(I) ELSE 0
  BY DEF IndexOf, SelectInSeq
<1>2. I # {} /\ I \subseteq Nat
  BY <1>1
<1>3. PICK b \in I : \A a \in I : ~(<<a, b>> \in OpToRel(<, Nat))
  BY <1>2, NatLessThanWellFounded, WFMin
<1>4. \A a \in I : b <= a
  <2>1. \A a \in I : ~(a < b)
    BY <1>2, <1>3 DEF OpToRel
  <2> QED
    BY <1>2, <2>1
<1>5. Min(I) \in I
  BY <1>4 DEF Min
<1> QED
  BY <1>1, <1>2, <1>5

\* Without one of its entries a list is a list.
LEMMA WithoutOne ==
  ASSUME NEW ds \in Seq(FolderEntries), NEW i \in 1 .. Len(ds)
  PROVE  RemoveAt(ds, i) \in Seq(FolderEntries)
<1> DEFINE a == SubSeq(ds, 1, i - 1)
           b == SubSeq(ds, i + 1, Len(ds))
<1>1. a \in Seq(FolderEntries) /\ b \in Seq(FolderEntries)
  OBVIOUS
<1> HIDE DEF a, b
<1>2. a \o b \in Seq(FolderEntries)
  BY <1>1
<1> QED
  BY <1>2 DEF RemoveAt, a, b

\* What save writes is what the file then holds, whole or in part.
LEMMA SavesToKeeps ==
  ASSUME NEW ds \in Seq(FolderEntries), SavesTo(ds), saved \in Seq(FolderEntries), dirsFile \in DirsFiles,
         wrote = "save" => Stores(dirsFile, saved),
         wrote = "cut" => StoresPart(dirsFile, saved)
  PROVE  /\ saved' \in Seq(FolderEntries) /\ dirsFile' \in DirsFiles
         /\ wrote' = "save" => Stores(dirsFile', saved')
         /\ wrote' = "cut" => StoresPart(dirsFile', saved')
<1>1. ASSUME NEW s \in Orders(ds)
      PROVE  /\ Column(s, "path") \in Seq(Folders) /\ Column(s, "enabled") \in Seq(BOOLEAN)
             /\ DirsFile("toml", Column(s, "path"), Column(s, "enabled"), TRUE, TRUE) \in DirsFiles
  <2>1. PICK n \in Nat : n = Len(s) /\ DOMAIN s = 1 .. n
    BY <1>1, OrderIs
  <2>2. \A k \in 1 .. n : s[k].path \in Folders /\ s[k].enabled \in BOOLEAN
    <3>1. \A k \in 1 .. n : s[k] \in FolderEntries
      BY <1>1, <2>1, OrderIs
    <3> QED
      BY <3>1 DEF FolderEntries
  <2>3. Column(s, "path") = [k \in 1 .. n |-> s[k].path]
    BY <2>1 DEF Column
  <2>4. Column(s, "enabled") = [k \in 1 .. n |-> s[k].enabled]
    BY <2>1 DEF Column
  <2>5. Column(s, "path") \in [1 .. n -> Folders]
    BY <2>2, <2>3
  <2>6. Column(s, "enabled") \in [1 .. n -> BOOLEAN]
    BY <2>2, <2>4
  <2>7. Column(s, "path") \in Seq(Folders) /\ Column(s, "enabled") \in Seq(BOOLEAN)
    BY <2>5, <2>6
  <2> QED
    BY <2>7 DEF DirsFile, DirsFiles
<1>2. CASE saved' = ds /\ wrote' = "save" /\ dirsFile' \in Columns(ds)
  <2>1. PICK s \in Orders(ds) :
          dirsFile' = DirsFile("toml", Column(s, "path"), Column(s, "enabled"), TRUE, TRUE)
    BY <1>2 DEF Columns
  <2>2. dirsFile' \in DirsFiles
    BY <1>1, <2>1
  <2>3. Stores(dirsFile', ds)
    BY <2>1 DEF Stores, DirsFile
  <2> QED
    BY <1>2, <2>2, <2>3
<1>3. CASE saved' = ds /\ wrote' = "cut" /\ \E f \in Columns(ds) : dirsFile' \in CutShort(f)
  <2>1. PICK f \in Columns(ds) : dirsFile' \in CutShort(f)
    BY <1>3
  <2>2. PICK s \in Orders(ds) :
          f = DirsFile("toml", Column(s, "path"), Column(s, "enabled"), TRUE, TRUE)
    BY DEF Columns
  <2>3. f \in DirsFiles /\ f.is = "toml" /\ f.list = Column(s, "path")
    BY <1>1, <2>2 DEF DirsFile
  <2>4. <<>> \in Seq(Folders) /\ <<>> \in Seq(BOOLEAN)
    OBVIOUS
  <2>5. CASE dirsFile' = [f EXCEPT !.is = "broken"]
    <3>1. dirsFile' \in DirsFiles /\ dirsFile'.is = "broken"
      BY <2>3, <2>5 DEF DirsFiles
    <3> QED
      BY <1>3, <3>1 DEF StoresPart
  <2>6. CASE dirsFile' = [f EXCEPT !.on = <<>>, !.hasOn = FALSE]
    <3>1. /\ dirsFile' \in DirsFiles /\ dirsFile'.is = "toml" /\ ~dirsFile'.hasOn
          /\ dirsFile'.on = <<>> /\ dirsFile'.list = Column(s, "path")
      BY <2>3, <2>4, <2>6 DEF DirsFiles
    <3> QED
      BY <1>3, <3>1 DEF StoresPart
  <2>7. CASE dirsFile' = [f EXCEPT !.list = <<>>, !.on = <<>>, !.hasOn = FALSE]
    <3>1. /\ dirsFile' \in DirsFiles /\ dirsFile'.is = "toml" /\ ~dirsFile'.hasOn
          /\ dirsFile'.on = <<>> /\ dirsFile'.list = <<>>
      BY <2>3, <2>4, <2>7 DEF DirsFiles
    <3> QED
      BY <1>3, <3>1 DEF StoresPart
  <2>8. CASE \E v \in BOOLEAN : dirsFile' = DirsFile("bare", <<>>, <<>>, FALSE, v)
    <3>1. dirsFile' \in DirsFiles /\ dirsFile'.is = "bare"
      BY <2>4, <2>8 DEF DirsFiles, DirsFile
    <3> QED
      BY <1>3, <3>1 DEF StoresPart
  <2> QED
    BY <2>1, <2>5, <2>6, <2>7, <2>8 DEF CutShort
<1>4. CASE UNCHANGED <<dirsFile, saved, wrote>>
  BY <1>4
<1> QED
  BY <1>2, <1>3, <1>4 DEF SavesTo

\* What load makes of a file of folders.
LEMMA LoadedIs ==
  ASSUME dirsFile \in DirsFiles, enabledBy \in Seq(BOOLEAN)
  PROVE  LET n == Len(dirsFile.list)
             flags == FlagsFor(dirsFile) IN
         /\ flags \in Seq(BOOLEAN) /\ n <= Len(flags) /\ n \in Nat
         /\ [k \in DOMAIN dirsFile.list |-> [path |-> dirsFile.list[k], enabled |-> flags[k]]]
              \in Seq(FolderEntries)
<1>1. dirsFile.list \in Seq(Folders) /\ dirsFile.on \in Seq(BOOLEAN) /\ dirsFile.hasOn \in BOOLEAN
  BY DEF DirsFiles
<1>2. PICK n \in Nat : n = Len(dirsFile.list) /\ DOMAIN dirsFile.list = 1 .. n
  BY <1>1
<1>3. PICK flags : flags = FlagsFor(dirsFile)
  OBVIOUS
<1>4. ASSUME NEW fs \in Seq(BOOLEAN)
      PROVE  Grown(fs, n) \in Seq(BOOLEAN) /\ Len(Grown(fs, n)) = n
  <2>1. \A k \in 1 .. n : (IF k <= Len(fs) THEN fs[k] ELSE TRUE) \in BOOLEAN
    <3>1. \A k \in 1 .. n : k <= Len(fs) => fs[k] \in BOOLEAN
      BY <1>4
    <3> QED
      BY <3>1
  <2>2. Grown(fs, n) \in [1 .. n -> BOOLEAN]
    BY <2>1 DEF Grown
  <2> QED
    BY <2>2
<1>5. flags \in Seq(BOOLEAN) /\ n <= Len(flags)
  <2>1. CASE ~dirsFile.hasOn
    <3>1. flags = Grown(enabledBy, n)
      BY <1>2, <1>3, <2>1 DEF FlagsFor
    <3> QED
      BY <1>4, <3>1
  <2>2. CASE dirsFile.hasOn /\ Len(dirsFile.on) < n
    <3>1. flags = Grown(dirsFile.on, n)
      BY <1>2, <1>3, <2>2 DEF FlagsFor
    <3> QED
      BY <1>1, <1>4, <3>1
  <2>3. CASE dirsFile.hasOn /\ Len(dirsFile.on) >= n
    <3>1. ~(Len(dirsFile.on) < n)
      BY <1>1, <2>3
    <3>2. flags = dirsFile.on
      BY <1>2, <1>3, <2>3, <3>1 DEF FlagsFor
    <3> QED
      BY <1>1, <2>3, <3>2
  <2> QED
    BY <1>1, <2>1, <2>2, <2>3
<1>6. ASSUME NEW k \in 1 .. n
      PROVE  [path |-> dirsFile.list[k], enabled |-> flags[k]] \in FolderEntries
  <2>1. dirsFile.list[k] \in Folders
    BY <1>1, <1>2
  <2>2. flags[k] \in BOOLEAN
    <3>1. k \in 1 .. Len(flags)
      BY <1>5
    <3> QED
      BY <1>5, <3>1
  <2> QED
    BY <2>1, <2>2 DEF FolderEntries
<1>7. [k \in 1 .. n |-> [path |-> dirsFile.list[k], enabled |-> flags[k]]] \in [1 .. n -> FolderEntries]
  BY <1>6
<1>8. [k \in 1 .. n |-> [path |-> dirsFile.list[k], enabled |-> flags[k]]] \in Seq(FolderEntries)
  BY <1>7
<1> QED
  BY <1>2, <1>3, <1>5, <1>8

LEMMA DirsInvInit == DirsInit => DirsInv
<1> SUFFICES ASSUME DirsInit PROVE DirsInv
  OBVIOUS
<1>1. dirs = <<>> /\ enabledBy = <<>> /\ saved = <<>> /\ wrote = "hand"
  BY DEF DirsInit
<1>2. <<>> \in Seq(FolderEntries) /\ <<>> \in Seq(BOOLEAN) /\ <<>> \in Seq(Folders)
  OBVIOUS
<1>3. dirsFile \in DirsFiles
  <2>1. CASE dirsFile = DirsFile("missing", <<>>, <<>>, FALSE, FALSE)
    BY <1>2, <2>1 DEF DirsFile, DirsFiles
  <2>2. CASE \E h \in HandLists : dirsFile = DirsFile("toml", h.list, h.on, h.on # <<>>, FALSE)
    <3>1. PICK h \in HandLists : dirsFile = DirsFile("toml", h.list, h.on, h.on # <<>>, FALSE)
      BY <2>2
    <3>2. h.list \in Seq(Folders) /\ h.on \in Seq(BOOLEAN)
      BY HandAssumption
    <3>3. (h.on # <<>>) \in BOOLEAN
      OBVIOUS
    <3> QED
      BY <3>1, <3>2, <3>3 DEF DirsFile, DirsFiles
  <2> QED
    BY <2>1, <2>2 DEF DirsInit
<1> QED
  BY <1>1, <1>2, <1>3 DEF DirsInv

\* The calls that change the list in memory alone.
LEMMA ChangeKeeps ==
  ASSUME DirsInv, dirs' \in Seq(FolderEntries), dirsFrom' = "running",
         UNCHANGED <<enabledBy, dirsFile, saved, wrote>>
  PROVE  DirsInv'
BY DEF DirsInv, Stores, StoresPart

LEMMA AddKeeps ==
  ASSUME DirsInv, NEW p \in Folders, NEW on \in BOOLEAN, AddInstallDir(p, on)
  PROVE  DirsInv'
<1>1. [path |-> p, enabled |-> on] \in FolderEntries
  BY DEF FolderEntries
<1>2. dirs \in Seq(FolderEntries)
  BY DEF DirsInv
<1>3. Append(dirs, [path |-> p, enabled |-> on]) \in Seq(FolderEntries)
  BY <1>1, <1>2
<1>4. dirs' \in Seq(FolderEntries)
  BY <1>2, <1>3 DEF AddInstallDir
<1> QED
  BY <1>4, ChangeKeeps DEF AddInstallDir, DirsCall

LEMMA RemoveKeeps ==
  ASSUME DirsInv, NEW p \in Folders, RemoveInstallDir(p)
  PROVE  DirsInv'
<1>1. dirs \in Seq(FolderEntries)
  BY DEF DirsInv
<1>2. dirs' \in Seq(FolderEntries)
  <2>1. IndexOf(p) # 0 => RemoveAt(dirs, IndexOf(p)) \in Seq(FolderEntries)
    BY <1>1, IndexOfIs, WithoutOne
  <2> QED
    BY <1>1, <2>1 DEF RemoveInstallDir
<1> QED
  BY <1>2, ChangeKeeps DEF RemoveInstallDir, DirsCall

LEMMA EnableKeeps ==
  ASSUME DirsInv, NEW p \in Folders, NEW on \in BOOLEAN, SetInstallDirEnabled(p, on)
  PROVE  DirsInv'
<1>1. dirs \in Seq(FolderEntries)
  BY DEF DirsInv
<1>2. dirs' \in Seq(FolderEntries)
  <2>1. CASE IndexOf(p) = 0
    BY <1>1, <2>1 DEF SetInstallDirEnabled
  <2>2. CASE IndexOf(p) # 0
    <3>1. PICK i \in 1 .. Len(dirs) : i = IndexOf(p)
      BY <1>1, <2>2, IndexOfIs
    <3>2. [dirs[i] EXCEPT !.enabled = on] \in FolderEntries
      <4>1. PICK e \in FolderEntries : e = dirs[i]
        BY <1>1
      <4>2. [e EXCEPT !.enabled = on] \in FolderEntries
        BY DEF FolderEntries
      <4> QED
        BY <4>1, <4>2
    <3>3. dirs' = [dirs EXCEPT ![i] = [dirs[i] EXCEPT !.enabled = on]]
      BY <2>2, <3>1 DEF SetInstallDirEnabled
    <3> QED
      BY <1>1, <3>2, <3>3
  <2> QED
    BY <2>1, <2>2
<1> QED
  BY <1>2, ChangeKeeps DEF SetInstallDirEnabled, DirsCall

LEMMA SetKeeps ==
  ASSUME DirsInv, SetInstallDirs
  PROVE  DirsInv'
<1>1. PICK ps \in BoundedSeq(Folders, 2), on \in BOOLEAN :
        dirs' = [k \in DOMAIN ps |-> [path |-> ps[k], enabled |-> IF k = 1 THEN on ELSE TRUE]]
  BY DEF SetInstallDirs
<1>2. PICK n \in Nat : ps \in [1 .. n -> Folders]
  <2>1. ps \in UNION {[1 .. m -> Folders] : m \in 0 .. 2}
    BY DEF BoundedSeq, SeqOf
  <2>2. PICK m \in 0 .. 2 : ps \in [1 .. m -> Folders]
    BY <2>1
  <2> QED
    BY <2>2
<1>3. \A k \in 1 .. n : [path |-> ps[k], enabled |-> IF k = 1 THEN on ELSE TRUE] \in FolderEntries
  BY <1>2 DEF FolderEntries
<1>4. dirs' \in [1 .. n -> FolderEntries]
  BY <1>1, <1>2, <1>3
<1>5. dirs' \in Seq(FolderEntries)
  BY <1>4
<1> QED
  BY <1>5, ChangeKeeps DEF SetInstallDirs, DirsCall

LEMMA SaveKeeps ==
  ASSUME DirsInv, SaveDirs
  PROVE  DirsInv'
<1>1. CASE UNCHANGED <<dirsFile, saved, wrote>>
  BY <1>1, ChangeKeeps DEF SaveDirs, DirsCall, DirsInv
<1>2. CASE SavesTo(dirs)
  <2>1. /\ saved' \in Seq(FolderEntries) /\ dirsFile' \in DirsFiles
        /\ wrote' = "save" => Stores(dirsFile', saved')
        /\ wrote' = "cut" => StoresPart(dirsFile', saved')
    BY <1>2, SavesToKeeps DEF DirsInv
  <2>2. dirs' = dirs /\ enabledBy' = enabledBy /\ dirsFrom' = "running"
    BY DEF SaveDirs, DirsCall
  <2> QED
    BY <2>1, <2>2 DEF DirsInv
<1> QED
  BY <1>1, <1>2 DEF SaveDirs

LEMMA LoadKeeps ==
  ASSUME DirsInv, LoadDirs
  PROVE  DirsInv'
<1>1. dirsFrom' \in {"load", "running"}
  BY DEF LoadDirs, DirsCall
<1>2. ASSUME NEW ds \in Seq(FolderEntries), NEW fs \in Seq(BOOLEAN), dirs' = ds, enabledBy' = fs,
             SavesTo(ds) \/ UNCHANGED <<dirsFile, saved, wrote>>
      PROVE  DirsInv'
  <2>1. /\ saved' \in Seq(FolderEntries) /\ dirsFile' \in DirsFiles
        /\ wrote' = "save" => Stores(dirsFile', saved')
        /\ wrote' = "cut" => StoresPart(dirsFile', saved')
    <3>1. CASE SavesTo(ds)
      BY <3>1, SavesToKeeps DEF DirsInv
    <3>2. CASE UNCHANGED <<dirsFile, saved, wrote>>
      BY <3>2 DEF DirsInv, Stores, StoresPart
    <3> QED
      BY <1>2, <3>1, <3>2
  <2> QED
    BY <1>1, <1>2, <2>1 DEF DirsInv
<1>3. dirs \in Seq(FolderEntries) /\ enabledBy \in Seq(BOOLEAN) /\ dirsFile \in DirsFiles
  BY DEF DirsInv
<1>4. CASE dirsFile.is = "missing"
  <2>1. SavesTo(dirs) /\ dirs' = dirs /\ enabledBy' = enabledBy
    BY <1>4 DEF LoadDirs
  <2> QED
    BY <1>2, <1>3, <2>1
<1>5. CASE dirsFile.is = "broken"
  <2>1. UNCHANGED <<dirs, enabledBy, dirsFile, saved, wrote>>
    BY <1>5 DEF LoadDirs
  <2> QED
    BY <1>2, <1>3, <2>1
<1>6. CASE dirsFile.is = "bare"
  <2>1. dirs' = dirs /\ enabledBy' = enabledBy /\ Versioned
    BY <1>6 DEF LoadDirs
  <2>2. SavesTo(dirs) \/ UNCHANGED <<dirsFile, saved, wrote>>
    BY <2>1 DEF Versioned
  <2> QED
    BY <1>2, <1>3, <2>1, <2>2
<1>7. CASE dirsFile.is = "toml"
  <2>1. /\ enabledBy' = FlagsFor(dirsFile) /\ Versioned
        /\ dirs' = [k \in DOMAIN dirsFile.list |->
                      [path |-> dirsFile.list[k], enabled |-> enabledBy'[k]]]
    BY <1>7 DEF LoadDirs
  <2>2. enabledBy' \in Seq(BOOLEAN) /\ dirs' \in Seq(FolderEntries)
    BY <1>3, <2>1, LoadedIs
  <2>3. SavesTo(dirs') \/ UNCHANGED <<dirsFile, saved, wrote>>
    BY <2>1 DEF Versioned
  <2>4. PICK ds \in Seq(FolderEntries) : ds = dirs'
    BY <2>2
  <2> QED
    BY <1>2, <2>2, <2>3, <2>4
<1> QED
  BY <1>3, <1>4, <1>5, <1>6, <1>7 DEF DirsFiles

LEMMA StartKeeps ==
  ASSUME DirsInv, StartAgain
  PROVE  DirsInv'
<1>1. dirs' = <<>> /\ enabledBy' = <<>> /\ saved' = saved /\ wrote' = wrote
  BY DEF StartAgain
<1>2. <<>> \in Seq(FolderEntries) /\ <<>> \in Seq(BOOLEAN)
  OBVIOUS
<1>3. /\ dirsFile' \in DirsFiles /\ dirsFile'.is = dirsFile.is /\ dirsFile'.list = dirsFile.list
      /\ dirsFile'.on = dirsFile.on /\ dirsFile'.hasOn = dirsFile.hasOn
  BY DEF StartAgain, DirsInv, DirsFiles
<1>4. wrote = "save" => Stores(dirsFile', saved)
  BY <1>3 DEF DirsInv, Stores
<1>5. wrote = "cut" => StoresPart(dirsFile', saved)
  BY <1>3 DEF DirsInv, StoresPart
<1> QED
  BY <1>1, <1>2, <1>3, <1>4, <1>5 DEF DirsInv

LEMMA DirsInvStep == DirsInv /\ [DirsNext]_dirsVars => DirsInv'
<1> SUFFICES ASSUME DirsInv, [DirsNext]_dirsVars PROVE DirsInv'
  OBVIOUS
<1>1. CASE UNCHANGED dirsVars
  BY <1>1 DEF dirsVars, DirsInv, Stores, StoresPart
<1> QED
  BY <1>1, SetKeeps, SaveKeeps, LoadKeeps, StartKeeps, RemoveKeeps, AddKeeps, EnableKeeps DEF DirsNext

\* The flags that load finds with the paths of the order s.
LEMMA LoadsStored ==
  ASSUME saved \in Seq(FolderEntries), dirsFile \in DirsFiles, Stores(dirsFile, saved),
         NEW ds, ds = [k \in DOMAIN dirsFile.list |->
                         [path |-> dirsFile.list[k], enabled |-> FlagsFor(dirsFile)[k]]]
  PROVE  SameFolders(ds, saved)
<1>1. PICK s \in Orders(saved) : /\ dirsFile.hasOn /\ dirsFile.list = Column(s, "path")
                                 /\ dirsFile.on = Column(s, "enabled")
  BY DEF Stores
<1>2. PICK n \in Nat : n = Len(saved)
  OBVIOUS
<1>3. PICK g \in Bijection(1 .. n, 1 .. n) : \A k \in 1 .. n : s[k] = saved[g[k]]
  BY <1>2, OrderIs
<1>4. s \in Seq(FolderEntries) /\ Len(s) = n /\ DOMAIN s = 1 .. n
  BY <1>2, OrderIs
<1>5. dirsFile.list = [k \in 1 .. n |-> s[k].path] /\ dirsFile.on = [k \in 1 .. n |-> s[k].enabled]
  BY <1>1, <1>4 DEF Column
<1>6. Len(dirsFile.list) = n /\ Len(dirsFile.on) = n /\ DOMAIN dirsFile.list = 1 .. n
  BY <1>5
<1>7. FlagsFor(dirsFile) = dirsFile.on
  BY <1>1, <1>6 DEF FlagsFor
<1>8. \A k \in 1 .. n : s[k] = [path |-> s[k].path, enabled |-> s[k].enabled]
  <2>1. \A k \in 1 .. n : s[k] \in FolderEntries
    BY <1>4
  <2> QED
    BY <2>1 DEF FolderEntries
<1>9. DOMAIN ds = 1 .. n /\ \A k \in 1 .. n : ds[k] = s[k]
  BY <1>5, <1>6, <1>7, <1>8
<1>10. DOMAIN saved = 1 .. n
  BY <1>2
<1>11. \A k \in 1 .. n : ds[k] = saved[g[k]]
  BY <1>3, <1>9
<1>12. Moved(ds, saved, n, g)
  BY <1>9, <1>10, <1>11 DEF Moved
<1> QED
  BY <1>12, SameWhenMoved

\* Without flags all folders are enabled.
LEMMA LoadsEnabled ==
  ASSUME saved \in Seq(FolderEntries), dirsFile \in DirsFiles, enabledBy = <<>>, ~dirsFile.hasOn,
         NEW s \in Orders(saved), dirsFile.list = Column(s, "path"),
         NEW ds, ds = [k \in DOMAIN dirsFile.list |->
                         [path |-> dirsFile.list[k], enabled |-> FlagsFor(dirsFile)[k]]]
  PROVE  SameFolders(ds, [k \in DOMAIN saved |-> [saved[k] EXCEPT !.enabled = TRUE]])
<1>1. PICK n \in Nat : n = Len(saved) /\ DOMAIN saved = 1 .. n
  OBVIOUS
<1>2. PICK g \in Bijection(1 .. n, 1 .. n) : \A k \in 1 .. n : s[k] = saved[g[k]]
  BY <1>1, OrderIs
<1>3. s \in Seq(FolderEntries) /\ Len(s) = n /\ DOMAIN s = 1 .. n
  BY <1>1, OrderIs
<1>4. dirsFile.list = [k \in 1 .. n |-> s[k].path]
  BY <1>3 DEF Column
<1>5. Len(dirsFile.list) = n /\ DOMAIN dirsFile.list = 1 .. n
  BY <1>4
<1>6. FlagsFor(dirsFile) = [k \in 1 .. n |-> TRUE]
  <2>1. FlagsFor(dirsFile) = Grown(enabledBy, n)
    BY <1>5 DEF FlagsFor
  <2>2. Len(enabledBy) = 0
    OBVIOUS
  <2>3. \A k \in 1 .. n : ~(k <= Len(enabledBy))
    BY <2>2
  <2> QED
    BY <2>1, <2>3 DEF Grown
<1> DEFINE t == [k \in DOMAIN saved |-> [saved[k] EXCEPT !.enabled = TRUE]]
<1>7. DOMAIN ds = 1 .. n /\ \A k \in 1 .. n : ds[k] = [path |-> s[k].path, enabled |-> TRUE]
  BY <1>4, <1>5, <1>6
<1>8. DOMAIN t = 1 .. n /\ \A k \in 1 .. n : t[k] = [saved[k] EXCEPT !.enabled = TRUE]
  BY <1>1
<1>9. \A k \in 1 .. n : saved[k] \in FolderEntries
  BY <1>1
<1>10. \A k \in 1 .. n : t[k] = [path |-> saved[k].path, enabled |-> TRUE]
  <2> HIDE DEF t
  <2> QED
    BY <1>8, <1>9 DEF FolderEntries
<1>11. g \in [1 .. n -> 1 .. n]
  BY DEF Bijection, Injection
<1> HIDE DEF t
<1>12. ASSUME NEW k \in 1 .. n PROVE ds[k] = t[g[k]]
  <2>1. PICK j \in 1 .. n : j = g[k]
    BY <1>11
  <2>2. s[k] = saved[j]
    BY <1>2, <2>1
  <2>3. t[j] = [path |-> saved[j].path, enabled |-> TRUE]
    BY <1>10
  <2> QED
    BY <1>7, <2>1, <2>2, <2>3
<1>13. Moved(ds, t, n, g)
  BY <1>7, <1>8, <1>12 DEF Moved
<1>14. SameFolders(ds, t)
  BY <1>13, SameWhenMoved
<1> QED
  BY <1>14 DEF t

\* The first load of a run finds the folders that save stored, each with its own flag, for
\* any folders and any number of calls, starts and torn saves (config.cpp:717-785, 1142-1172).
THEOREM FoldersTheorem == DirsSpec => FoldersReturn
<1> DEFINE Back == dirsFrom = "start" /\ dirsFrom' = "load" =>
             /\ wrote = "save" => SameFolders(dirs', saved)
             /\ wrote = "cut" =>
                  \/ dirs' = <<>>
                  \/ SameFolders(dirs', [k \in DOMAIN saved |-> [saved[k] EXCEPT !.enabled = TRUE]])
<1>1. DirsInv /\ [DirsNext]_dirsVars => [Back]_dirsVars
  <2> SUFFICES ASSUME DirsInv, DirsNext, dirsFrom = "start", dirsFrom' = "load"
               PROVE  /\ wrote = "save" => SameFolders(dirs', saved)
                      /\ wrote = "cut" =>
                           \/ dirs' = <<>>
                           \/ SameFolders(dirs', [k \in DOMAIN saved |-> [saved[k] EXCEPT !.enabled = TRUE]])
    OBVIOUS
  <2>1. LoadDirs
    BY DEF DirsNext, SetInstallDirs, SaveDirs, StartAgain, RemoveInstallDir, AddInstallDir,
           SetInstallDirEnabled, DirsCall
  <2>2. dirs = <<>> /\ enabledBy = <<>> /\ saved \in Seq(FolderEntries) /\ dirsFile \in DirsFiles
    BY DEF DirsInv
  <2>3. dirsFile.is = "toml" =>
          dirs' = [k \in DOMAIN dirsFile.list |->
                     [path |-> dirsFile.list[k], enabled |-> FlagsFor(dirsFile)[k]]]
    BY <2>1 DEF LoadDirs
  <2>4. ASSUME wrote = "save" PROVE SameFolders(dirs', saved)
    <3>1. Stores(dirsFile, saved)
      BY <2>4 DEF DirsInv
    <3>2. dirsFile.is = "toml"
      BY <3>1 DEF Stores
    <3> QED
      BY <2>2, <2>3, <3>1, <3>2, LoadsStored
  <2>5. ASSUME wrote = "cut"
        PROVE  \/ dirs' = <<>>
               \/ SameFolders(dirs', [k \in DOMAIN saved |-> [saved[k] EXCEPT !.enabled = TRUE]])
    <3>1. StoresPart(dirsFile, saved)
      BY <2>5 DEF DirsInv
    <3>2. CASE dirsFile.is \in {"broken", "bare"}
      <4>1. dirs' = dirs
        BY <2>1, <3>2 DEF LoadDirs
      <4> QED
        BY <2>2, <4>1
    <3>3. CASE dirsFile.is = "toml" /\ dirsFile.list = <<>>
      <4>1. DOMAIN dirsFile.list = {}
        BY <3>3
      <4> QED
        BY <2>3, <3>3, <4>1
    <3>4. CASE \E s \in Orders(saved) : /\ dirsFile.is = "toml" /\ ~dirsFile.hasOn
                                        /\ dirsFile.list = Column(s, "path")
      BY <2>2, <2>3, <3>4, LoadsEnabled
    <3> QED
      BY <3>1, <3>2, <3>3, <3>4 DEF StoresPart
  <2> QED
    BY <2>4, <2>5
<1>2. DirsSpec => []DirsInv
  BY DirsInvInit, DirsInvStep, PTL DEF DirsSpec
<1>3. FoldersReturn <=> [][Back]_dirsVars
  BY DEF FoldersReturn
<1> QED
  BY <1>1, <1>2, <1>3, PTL DEF DirsSpec

(***************************************************************************)
(* A param.sfo, for any keys, any values, any lists of entries, files that  *)
(* were cut short or written by others and any number of calls.             *)
(***************************************************************************)
\* A set of numbers that lacks one lacks a first one.
LEMMA FirstMissing ==
  ASSUME NEW n \in Nat, NEW S, NEW k \in 0 .. n, k \notin S
  PROVE  \E b \in 0 .. n : b \notin S /\ \A a \in 0 .. n : a < b => a \in S
<1> DEFINE bad == {b \in Nat : b <= n /\ b \notin S}
<1>1. bad \subseteq Nat /\ bad # {}
  OBVIOUS
<1>2. PICK b \in bad : \A a \in bad : ~(<<a, b>> \in OpToRel(<, Nat))
  BY <1>1, NatLessThanWellFounded, WFMin
<1>3. b \in bad /\ \A a \in bad : ~(a < b)
  BY <1>1, <1>2 DEF OpToRel
<1>4. b \in 0 .. n /\ b \notin S
  BY <1>3
<1>5. ASSUME NEW a \in 0 .. n, a < b PROVE a \in S
  <2>1. a \notin bad
    BY <1>3, <1>5
  <2> QED
    BY <2>1
<1> QED
  BY <1>4, <1>5

\* What is true of 0 and passes from each number to the next one up to n.
LEMMA CountingUp ==
  ASSUME NEW n \in Nat, NEW S, 0 \in S, \A k \in 1 .. n : k - 1 \in S => k \in S
  PROVE  \A k \in 0 .. n : k \in S
<1> SUFFICES ASSUME NEW k \in 0 .. n, k \notin S PROVE FALSE
  OBVIOUS
<1>1. PICK b \in 0 .. n : b \notin S /\ \A a \in 0 .. n : a < b => a \in S
  BY FirstMissing
<1>2. b # 0
  BY <1>1
<1>3. b \in 1 .. n /\ b - 1 \in 0 .. n /\ b - 1 < b
  BY <1>2
<1> QED
  BY <1>1, <1>3

\* An entry has no value, or one of its format.
ValueRight(e) ==
  \/ e.val = NoValue
  \/ /\ e.val \in Seq(Byte) /\ e.fmt \in Formats
     /\ e.fmt = "Text" => 0 \notin Range(e.val)
     /\ e.fmt = "Integer" => Len(e.val) = 4
SfoFormats == Formats \cup {"Unknown"}
SfoEntries == [key : PsfKeys, fmt : SfoFormats, max : Nat, val : Seq(Byte) \cup {NoValue}]
PsfEntries == {e \in SfoEntries : ValueRight(e)}

RawEntries == [keyOff : Nat, dataOff : Nat, max : Nat, fmt : SfoFormats, len : Nat]
KeyMaps == UNION {[P -> PsfKeys] : P \in SUBSET Int}
DataMaps == UNION {[P -> Byte] : P \in SUBSET Int}
SfoFiles == [own : BOOLEAN, size : Int, magic : BOOLEAN, version : BOOLEAN, keys : KeyMaps,
             data : DataMaps, keyOff : Nat, dataOff : Nat, raw : Seq(RawEntries)]

\* The whole list can be written.
Whole(es) == \A i \in DOMAIN es : es[i].val # NoValue /\ Fits(es[i])
Cut(es, c) == [Encoded(es) EXCEPT !.size = c]

\* The inductive invariant.
PsfInv ==
  /\ psf \in Seq(PsfEntries) /\ stored \in Seq(PsfEntries)
  /\ disk \in SfoFiles \cup {Nowhere}
  /\ disk # Nowhere /\ disk.own => Whole(stored) /\ \E c \in Nat : disk = Cut(stored, c)

-----------------------------------------------------------------------------
\* A total that each place of a list takes further.
TotalTo(g, k, first, F) == g[0] = first /\ \A j \in 1 .. k : g[j] = F[<<g[j - 1], j>>]
\* A sum over a prefix exists.
LEMMA TotalIs ==
  ASSUME NEW n \in Nat, NEW first \in Nat, NEW F \in [Nat \X (1 .. n) -> Nat]
  PROVE  \E g \in [0 .. n -> Nat] : TotalTo(g, n, first, F)
<1> DEFINE S == {k \in 0 .. n : \E g \in [0 .. k -> Nat] : TotalTo(g, k, first, F)}
<1>1. 0 \in S
  <2>1. [j \in 0 .. 0 |-> first] \in [0 .. 0 -> Nat] /\ TotalTo([j \in 0 .. 0 |-> first], 0, first, F)
    BY DEF TotalTo
  <2> QED
    BY <2>1
<1>2. ASSUME NEW k \in 1 .. n, k - 1 \in S
      PROVE  k \in S
  <2>1. PICK g \in [0 .. k - 1 -> Nat] : TotalTo(g, k - 1, first, F)
    BY <1>2
  <2> DEFINE h == [j \in 0 .. k |-> IF j = k THEN F[<<g[k - 1], k>>] ELSE g[j]]
  <2>2. k - 1 \in 0 .. k - 1 /\ g[k - 1] \in Nat
    OBVIOUS
  <2>3. <<g[k - 1], k>> \in Nat \X (1 .. n)
    BY <2>2
  <2>4. F[<<g[k - 1], k>>] \in Nat
    BY <2>3
  <2>5. h \in [0 .. k -> Nat]
    BY <2>4
  <2>6. h[k] = F[<<g[k - 1], k>>] /\ \A j \in 0 .. k - 1 : h[j] = g[j]
    OBVIOUS
  <2> HIDE DEF h
  <2>7. TotalTo(h, k, first, F)
    <3>1. h[0] = first
      BY <2>1, <2>6 DEF TotalTo
    <3>2. ASSUME NEW j \in 1 .. k PROVE h[j] = F[<<h[j - 1], j>>]
      <4>1. CASE j = k
        BY <4>1, <2>2, <2>6
      <4>2. CASE j # k
        <5>1. j \in 1 .. k - 1 /\ j - 1 \in 0 .. k - 1 /\ j \in 0 .. k - 1
          BY <4>2
        <5> QED
          BY <2>1, <2>6, <5>1 DEF TotalTo
      <4> QED
        BY <4>1, <4>2
    <3> QED
      BY <3>1, <3>2 DEF TotalTo
  <2> QED
    BY <2>5, <2>7
<1>3. n \in S
  <2> HIDE DEF S
  <2>1. \A k \in 0 .. n : k \in S
    BY <1>1, <1>2, CountingUp
  <2> QED
    BY <2>1
<1> QED
  BY <1>3

\* A total that never falls.
LEMMA Rising ==
  ASSUME NEW n \in Nat, NEW g \in [0 .. n -> Nat], \A k \in 1 .. n : g[k - 1] <= g[k],
         NEW i \in 0 .. n, NEW j \in 0 .. n, i <= j
  PROVE  g[i] <= g[j]
<1> DEFINE S == {k \in 0 .. n : i <= k => g[i] <= g[k]}
<1>1. 0 \in S
  OBVIOUS
<1>2. ASSUME NEW k \in 1 .. n, k - 1 \in S
      PROVE  k \in S
  <2>1. k \in 0 .. n /\ k - 1 \in 0 .. n /\ g[k] \in Nat /\ g[k - 1] \in Nat /\ g[i] \in Nat
    OBVIOUS
  <2>2. CASE i = k
    BY <2>1, <2>2
  <2>3. CASE i # k
    <3>1. i <= k => i <= k - 1
      BY <2>1, <2>3
    <3> QED
      BY <1>2, <2>1, <3>1
  <2> QED
    BY <2>2, <2>3
<1>3. \A k \in 0 .. n : k \in S
  <2> HIDE DEF S
  <2> QED
    BY <1>1, <1>2, CountingUp
<1>4. j \in S
  <2> HIDE DEF S
  <2> QED
    BY <1>3
<1> QED
  BY <1>4

\* The next multiple of four.
LEMMA AlignedUp ==
  ASSUME NEW n \in Nat
  PROVE  Aligned(n) \in Nat /\ Aligned(n) >= n
<1>1. n % 4 \in 0 .. 3
  OBVIOUS
<1>2. PICK r \in 0 .. 3 : r = n % 4
  BY <1>1
<1>3. (4 - r) % 4 \in 0 .. 3
  OBVIOUS
<1> QED
  BY <1>2, <1>3 DEF Aligned

\* What an entry of a list is.
LEMMA EntryIs ==
  ASSUME NEW es \in Seq(PsfEntries), NEW i \in DOMAIN es
  PROVE  /\ es[i] \in SfoEntries /\ ValueRight(es[i])
         /\ es[i].key \in PsfKeys /\ es[i].fmt \in SfoFormats /\ es[i].max \in Nat
         /\ KeySize[es[i].key] \in Nat
<1>1. es[i] \in PsfEntries
  OBVIOUS
<1>2. es[i] \in SfoEntries /\ ValueRight(es[i])
  BY <1>1 DEF PsfEntries
<1>3. es[i].key \in PsfKeys /\ es[i].fmt \in SfoFormats /\ es[i].max \in Nat
  BY <1>2 DEF SfoEntries
<1> QED
  BY <1>2, <1>3, PsfAssumption

\* Where the keys end.
LEMMA KeyEndsAre ==
  ASSUME NEW es \in Seq(PsfEntries), NEW n, n = Len(es)
  PROVE  /\ KeyEnds(es) \in [0 .. n -> Nat] /\ KeyEnds(es)[0] = Header + RawEntry * n
         /\ \A k \in 1 .. n : KeyEnds(es)[k] = KeyEnds(es)[k - 1] + KeySize[es[k].key] + 1
<1>1. n \in Nat /\ DOMAIN es = 1 .. n
  OBVIOUS
<1>2. PICK first \in Nat : first = Header + RawEntry * n
  BY <1>1 DEF Header, RawEntry
<1>3. PICK F \in [Nat \X (1 .. n) -> Nat] :
        \A a \in Nat, k \in 1 .. n : F[<<a, k>>] = a + KeySize[es[k].key] + 1
  <2>1. \A k \in 1 .. n : KeySize[es[k].key] \in Nat
    BY <1>1, EntryIs
  <2>2. \A q \in Nat \X (1 .. n) : q[1] + KeySize[es[q[2]].key] + 1 \in Nat
    BY <2>1
  <2> DEFINE G == [q \in Nat \X (1 .. n) |-> q[1] + KeySize[es[q[2]].key] + 1]
  <2>3. G \in [Nat \X (1 .. n) -> Nat]
    BY <2>2
  <2>4. \A a \in Nat, k \in 1 .. n : G[<<a, k>>] = a + KeySize[es[k].key] + 1
    OBVIOUS
  <2> HIDE DEF G
  <2> QED
    BY <2>3, <2>4
<1>4. PICK g \in [0 .. n -> Nat] : TotalTo(g, n, first, F)
  BY <1>1, TotalIs
<1>5. g[0] = first /\ \A k \in 1 .. n : g[k] = F[<<g[k - 1], k>>]
  BY <1>4 DEF TotalTo
<1>6. \A k \in 1 .. n : g[k] = g[k - 1] + KeySize[es[k].key] + 1
  <2> SUFFICES ASSUME NEW k \in 1 .. n PROVE g[k] = g[k - 1] + KeySize[es[k].key] + 1
    OBVIOUS
  <2>1. g[k - 1] \in Nat
    <3>1. k - 1 \in 0 .. n
      BY <1>1
    <3> QED
      BY <3>1
  <2> QED
    BY <1>3, <1>5, <2>1
<1> DEFINE Says(f) == f = [i \in 0 .. Len(es) |-> IF i = 0 THEN Header + RawEntry * Len(es)
                                                  ELSE f[i - 1] + KeySize[es[i].key] + 1]
<1>7. Says(g)
  <2> DEFINE h == [i \in 0 .. Len(es) |-> IF i = 0 THEN Header + RawEntry * Len(es)
                                          ELSE g[i - 1] + KeySize[es[i].key] + 1]
  <2>1. \A k \in 0 .. n : g[k] = h[k]
    BY <1>1, <1>2, <1>5, <1>6
  <2>2. DOMAIN h = 0 .. n /\ DOMAIN g = 0 .. n
    BY <1>5
  <2> QED
    BY <2>1, <2>2
<1>8. KeyEnds(es) = CHOOSE f : Says(f)
  BY DEF KeyEnds
<1>9. Says(KeyEnds(es))
  <2> HIDE DEF Says
  <2> QED
    BY <1>7, <1>8
<1> DEFINE K == KeyEnds(es)
<1>10. DOMAIN K = 0 .. n /\ K[0] = first /\ \A k \in 1 .. n : K[k] = K[k - 1] + KeySize[es[k].key] + 1
  <2> HIDE DEF K
  <2>1. K = [i \in 0 .. n |-> IF i = 0 THEN first ELSE K[i - 1] + KeySize[es[i].key] + 1]
    BY <1>2, <1>9 DEF K
  <2> QED
    BY <1>1, <2>1
<1> HIDE DEF K
<1> DEFINE S == {k \in 0 .. n : K[k] \in Nat}
<1>11. \A k \in 0 .. n : k \in S
  <2>1. 0 \in S
    BY <1>1, <1>10
  <2>2. ASSUME NEW k \in 1 .. n, k - 1 \in S PROVE k \in S
    <3>1. KeySize[es[k].key] \in Nat
      BY <1>1, EntryIs
    <3> QED
      BY <2>2, <3>1, <1>10
  <2> HIDE DEF S
  <2> QED
    BY <1>1, <2>1, <2>2, CountingUp
<1>12. K \in [0 .. n -> Nat]
  <2>1. K = [k \in 0 .. n |-> K[k]]
    BY <1>9, <1>10 DEF K
  <2> QED
    BY <1>11, <2>1
<1> QED
  BY <1>2, <1>10, <1>12 DEF K

\* Where the values end.
LEMMA DataEndsAre ==
  ASSUME NEW es \in Seq(PsfEntries), NEW n, n = Len(es)
  PROVE  /\ DataEnds(es) \in [0 .. n -> Nat] /\ DataEnds(es)[0] = KeyEnds(es)[n]
         /\ \A k \in 1 .. n : DataEnds(es)[k] = Aligned(DataEnds(es)[k - 1]) + es[k].max
<1>1. n \in Nat /\ DOMAIN es = 1 .. n
  OBVIOUS
<1>2. PICK first \in Nat : first = KeyEnds(es)[n]
  BY <1>1, KeyEndsAre
<1>3. PICK F \in [Nat \X (1 .. n) -> Nat] :
        \A a \in Nat, k \in 1 .. n : F[<<a, k>>] = Aligned(a) + es[k].max
  <2>1. \A k \in 1 .. n : es[k].max \in Nat
    BY <1>1, EntryIs
  <2>2. ASSUME NEW q \in Nat \X (1 .. n) PROVE Aligned(q[1]) + es[q[2]].max \in Nat
    <3>1. q[1] \in Nat /\ q[2] \in 1 .. n
      OBVIOUS
    <3>2. Aligned(q[1]) \in Nat
      BY <3>1, AlignedUp
    <3> QED
      BY <2>1, <3>1, <3>2
  <2> DEFINE G == [q \in Nat \X (1 .. n) |-> Aligned(q[1]) + es[q[2]].max]
  <2>3. G \in [Nat \X (1 .. n) -> Nat]
    BY <2>2
  <2>4. \A a \in Nat, k \in 1 .. n : G[<<a, k>>] = Aligned(a) + es[k].max
    OBVIOUS
  <2> HIDE DEF G
  <2> QED
    BY <2>3, <2>4
<1>4. PICK g \in [0 .. n -> Nat] : TotalTo(g, n, first, F)
  BY <1>1, TotalIs
<1>5. g[0] = first /\ \A k \in 1 .. n : g[k] = F[<<g[k - 1], k>>]
  BY <1>4 DEF TotalTo
<1>6. \A k \in 1 .. n : g[k] = Aligned(g[k - 1]) + es[k].max
  <2> SUFFICES ASSUME NEW k \in 1 .. n PROVE g[k] = Aligned(g[k - 1]) + es[k].max
    OBVIOUS
  <2>1. g[k - 1] \in Nat
    <3>1. k - 1 \in 0 .. n
      BY <1>1
    <3> QED
      BY <3>1
  <2> QED
    BY <1>3, <1>5, <2>1
<1> DEFINE Says(f) == f = [i \in 0 .. Len(es) |-> IF i = 0 THEN KeyEnds(es)[Len(es)]
                                                  ELSE Aligned(f[i - 1]) + es[i].max]
<1>7. Says(g)
  <2> DEFINE h == [i \in 0 .. Len(es) |-> IF i = 0 THEN KeyEnds(es)[Len(es)]
                                          ELSE Aligned(g[i - 1]) + es[i].max]
  <2>1. \A k \in 0 .. n : g[k] = h[k]
    BY <1>1, <1>2, <1>5, <1>6
  <2>2. DOMAIN h = 0 .. n /\ DOMAIN g = 0 .. n
    BY <1>5
  <2> QED
    BY <2>1, <2>2
<1>8. DataEnds(es) = CHOOSE f : Says(f)
  BY DEF DataEnds
<1>9. Says(DataEnds(es))
  <2> HIDE DEF Says
  <2> QED
    BY <1>7, <1>8
<1> DEFINE K == DataEnds(es)
<1>10. DOMAIN K = 0 .. n /\ K[0] = first /\ \A k \in 1 .. n : K[k] = Aligned(K[k - 1]) + es[k].max
  <2> HIDE DEF K
  <2>1. K = [i \in 0 .. n |-> IF i = 0 THEN first ELSE Aligned(K[i - 1]) + es[i].max]
    BY <1>2, <1>9 DEF K
  <2> QED
    BY <1>1, <2>1
<1> HIDE DEF K
<1> DEFINE S == {k \in 0 .. n : K[k] \in Nat}
<1>11. \A k \in 0 .. n : k \in S
  <2>1. 0 \in S
    BY <1>1, <1>10
  <2>2. ASSUME NEW k \in 1 .. n, k - 1 \in S PROVE k \in S
    <3>1. es[k].max \in Nat
      BY <1>1, EntryIs
    <3>2. Aligned(K[k - 1]) \in Nat
      BY <2>2, AlignedUp
    <3> QED
      BY <3>1, <3>2, <1>10
  <2> HIDE DEF S
  <2> QED
    BY <1>1, <2>1, <2>2, CountingUp
<1>12. K \in [0 .. n -> Nat]
  <2>1. K = [k \in 0 .. n |-> K[k]]
    BY <1>9, <1>10 DEF K
  <2> QED
    BY <1>11, <2>1
<1> QED
  BY <1>2, <1>10, <1>12 DEF K

\* Keys and values follow each other in the order of the list.
LEMMA LayoutIs ==
  ASSUME NEW es \in Seq(PsfEntries), NEW n, n = Len(es), NEW i \in 1 .. n
  PROVE  /\ KeyFrom(es, i) \in Nat /\ ValueFrom(es, i) \in Nat
         /\ KeyEnds(es)[0] <= KeyFrom(es, i) /\ KeyFrom(es, i) < DataEnds(es)[0]
         /\ DataEnds(es)[0] <= ValueFrom(es, i)
         /\ ValueFrom(es, i) + es[i].max <= DataEnds(es)[n]
         /\ \A j \in 1 .. n : i < j => /\ KeyFrom(es, i) < KeyFrom(es, j)
                                       /\ ValueFrom(es, i) + es[i].max <= ValueFrom(es, j)
<1>1. n \in Nat /\ DOMAIN es = 1 .. n
  OBVIOUS
<1>2. PICK K \in [0 .. n -> Nat] :
        K = KeyEnds(es) /\ \A k \in 1 .. n : K[k] = K[k - 1] + KeySize[es[k].key] + 1
  <2>1. KeyEnds(es) \in [0 .. n -> Nat]
    BY KeyEndsAre
  <2>2. \A k \in 1 .. n : KeyEnds(es)[k] = KeyEnds(es)[k - 1] + KeySize[es[k].key] + 1
    BY KeyEndsAre
  <2> QED
    BY <2>1, <2>2, Zenon
<1>3. PICK D \in [0 .. n -> Nat] :
        D = DataEnds(es) /\ D[0] = K[n] /\ \A k \in 1 .. n : D[k] = Aligned(D[k - 1]) + es[k].max
  <2>1. /\ DataEnds(es) \in [0 .. n -> Nat] /\ DataEnds(es)[0] = KeyEnds(es)[n]
        /\ \A k \in 1 .. n : DataEnds(es)[k] = Aligned(DataEnds(es)[k - 1]) + es[k].max
    BY DataEndsAre
  <2> QED
    BY <1>2, <2>1
<1>4. ASSUME NEW k \in 1 .. n
      PROVE  /\ K[k - 1] \in Nat /\ K[k] \in Nat /\ K[k - 1] < K[k] /\ D[k - 1] \in Nat /\ D[k] \in Nat
             /\ D[k - 1] <= D[k] /\ D[k - 1] <= Aligned(D[k - 1]) /\ Aligned(D[k - 1]) \in Nat
             /\ D[k] = Aligned(D[k - 1]) + es[k].max /\ es[k].max \in Nat
  <2>1. KeySize[es[k].key] \in Nat /\ es[k].max \in Nat
    BY <1>1, EntryIs
  <2>2. k \in 0 .. n /\ k - 1 \in 0 .. n
    BY <1>1
  <2>3. K[k - 1] \in Nat /\ K[k] \in Nat /\ D[k - 1] \in Nat /\ D[k] \in Nat
    BY <2>2
  <2>4. Aligned(D[k - 1]) \in Nat /\ Aligned(D[k - 1]) >= D[k - 1]
    BY <2>3, AlignedUp
  <2>5. K[k] = K[k - 1] + KeySize[es[k].key] + 1
    BY <1>2
  <2>6. D[k] = Aligned(D[k - 1]) + es[k].max
    BY <1>3
  <2>7. K[k - 1] < K[k]
    BY <2>1, <2>3, <2>5
  <2>8. D[k - 1] <= D[k]
    BY <2>1, <2>3, <2>4, <2>6
  <2> QED
    BY <2>1, <2>3, <2>4, <2>6, <2>7, <2>8
<1>5. \A a, b \in 0 .. n : a <= b => K[a] <= K[b]
  <2>1. ASSUME NEW k \in 1 .. n PROVE K[k - 1] <= K[k]
    <3>1. K[k - 1] < K[k] /\ K[k - 1] \in Nat /\ K[k] \in Nat
      BY <1>4
    <3> QED
      BY <3>1
  <2> QED
    BY <1>1, <2>1, Rising
<1>6. \A a, b \in 0 .. n : a <= b => D[a] <= D[b]
  <2>1. \A k \in 1 .. n : D[k - 1] <= D[k]
    BY <1>4
  <2> QED
    BY <1>1, <2>1, Rising
<1>7. \A k \in 1 .. n : KeyFrom(es, k) = K[k - 1] /\ ValueFrom(es, k) = Aligned(D[k - 1])
  BY <1>2, <1>3 DEF KeyFrom, ValueFrom
<1>8. 0 \in 0 .. n /\ n \in 0 .. n /\ i \in 0 .. n /\ i - 1 \in 0 .. n
  BY <1>1
<1>9. K[0] \in Nat /\ K[n] \in Nat /\ D[0] \in Nat /\ D[n] \in Nat
  BY <1>8
<1>10. K[0] <= K[i - 1] /\ K[i] <= K[n]
  BY <1>5, <1>8
<1>11. D[0] <= D[i - 1] /\ D[i] <= D[n]
  BY <1>6, <1>8
<1>12. ASSUME NEW j \in 1 .. n, i < j
       PROVE  /\ KeyFrom(es, i) < KeyFrom(es, j)
              /\ ValueFrom(es, i) + es[i].max <= ValueFrom(es, j)
  <2>1. i <= j - 1 /\ j - 1 \in 0 .. n
    BY <1>1, <1>12
  <2>2. K[i] <= K[j - 1] /\ D[i] <= D[j - 1]
    BY <1>5, <1>6, <1>8, <2>1
  <2>3. /\ K[i - 1] < K[i] /\ D[i] = Aligned(D[i - 1]) + es[i].max /\ D[j - 1] <= Aligned(D[j - 1])
        /\ K[i - 1] \in Nat /\ K[i] \in Nat /\ K[j - 1] \in Nat
        /\ D[i] \in Nat /\ D[j - 1] \in Nat /\ Aligned(D[j - 1]) \in Nat
    BY <1>4
  <2>4. K[i - 1] < K[j - 1] /\ Aligned(D[i - 1]) + es[i].max <= Aligned(D[j - 1])
    BY <2>2, <2>3
  <2> QED
    BY <1>7, <2>4
<1>13. KeyFrom(es, i) \in Nat /\ ValueFrom(es, i) \in Nat
  BY <1>4, <1>7
<1>14. K[0] <= KeyFrom(es, i) /\ KeyFrom(es, i) < D[0]
  <2>1. K[i - 1] < K[i] /\ K[i - 1] \in Nat /\ K[i] \in Nat
    BY <1>4
  <2> QED
    BY <1>3, <1>7, <1>9, <1>10, <2>1
<1>15. D[0] <= ValueFrom(es, i) /\ ValueFrom(es, i) + es[i].max <= D[n]
  <2>1. /\ D[i - 1] <= Aligned(D[i - 1]) /\ D[i] = Aligned(D[i - 1]) + es[i].max /\ D[i - 1] \in Nat
        /\ D[i] \in Nat /\ Aligned(D[i - 1]) \in Nat /\ es[i].max \in Nat
    BY <1>4
  <2> QED
    BY <1>7, <1>9, <1>11, <2>1
<1> QED
  BY <1>2, <1>3, <1>12, <1>13, <1>14, <1>15

\* What is written of an entry with a value.
LEMMA StoredIs ==
  ASSUME NEW e, e.val # NoValue, ValueRight(e)
  PROVE  /\ e.val \in Seq(Byte) /\ e.fmt \in Formats /\ StoredAs(e) \in Seq(Byte)
         /\ e.fmt # "Text" => StoredAs(e) = e.val
         /\ e.fmt = "Text" => /\ StoredAs(e) = Append(e.val, 0) /\ Len(StoredAs(e)) = Len(e.val) + 1
                              /\ StoredAs(e)[Len(e.val) + 1] = 0 /\ 0 \notin Range(e.val)
                              /\ \A k \in 1 .. Len(e.val) : StoredAs(e)[k] = e.val[k]
         /\ e.fmt = "Integer" => Len(e.val) = 4
<1>1. PICK v \in Seq(Byte) : v = e.val
  BY DEF ValueRight
<1>2. e.fmt \in Formats /\ (e.fmt = "Text" => 0 \notin Range(v)) /\ (e.fmt = "Integer" => Len(v) = 4)
  BY <1>1 DEF ValueRight
<1>3. 0 \in Byte
  BY DEF Byte
<1>4. CASE e.fmt = "Text"
  <2>1. StoredAs(e) = Append(v, 0)
    BY <1>1, <1>4 DEF StoredAs, Sized
  <2>2. /\ Append(v, 0) \in Seq(Byte) /\ Len(Append(v, 0)) = Len(v) + 1
        /\ Append(v, 0)[Len(v) + 1] = 0
        /\ \A k \in 1 .. Len(v) : Append(v, 0)[k] = v[k]
    BY <1>3
  <2> QED
    BY <1>1, <1>2, <1>4, <2>1, <2>2
<1>5. CASE e.fmt # "Text"
  <2>1. StoredAs(e) = v
    BY <1>1, <1>5 DEF StoredAs, Sized
  <2> QED
    BY <1>1, <1>2, <1>5, <2>1
<1> QED
  BY <1>4, <1>5

\* The fields of an encoded list.
LEMMA EncodedIs ==
  ASSUME NEW es, NEW c
  PROVE  /\ Encoded(es).size = DataEnds(es)[Len(es)] /\ Encoded(es).keyOff = KeyEnds(es)[0]
         /\ Cut(es, c).own = TRUE /\ Cut(es, c).size = c /\ Cut(es, c).magic = TRUE
         /\ Cut(es, c).version = TRUE /\ Cut(es, c).keys = EncodedKeys(es)
         /\ Cut(es, c).data = EncodedData(es) /\ Cut(es, c).keyOff = KeyEnds(es)[0]
         /\ Cut(es, c).dataOff = DataEnds(es)[0] /\ DOMAIN Cut(es, c).raw = DOMAIN es
BY DEF Cut, Encoded

\* What is written of an entry.
LEMMA RawIs ==
  ASSUME NEW es, NEW c, NEW i \in DOMAIN es
  PROVE  Cut(es, c).raw[i] =
           [keyOff |-> KeyPlace(es, i), dataOff |-> ValueFrom(es, i) - DataEnds(es)[0],
            max |-> es[i].max, fmt |-> es[i].fmt, len |-> Len(StoredAs(es[i]))]
BY DEF Cut, Encoded

\* A remainder is at most the number, and the number when that is small.
LEMMA RemainderIs ==
  ASSUME NEW c \in Nat \ {0}, NEW n \in Nat
  PROVE  n % c \in Nat /\ n % c <= n /\ (n < c => n % c = n)
<1> DEFINE q == n \div c
           r == n % c
<1>1. q \in Int /\ r \in 0 .. c - 1 /\ n = c * q + r
  OBVIOUS
<1> HIDE DEF q, r
<1>2. CASE q <= -1
  <2>1. c * q <= -c
    BY <1>1, <1>2
  <2> QED
    BY <1>1, <2>1
<1>3. CASE q = 0
  BY <1>1, <1>3 DEF r
<1>4. CASE q >= 1
  <2>1. c * q >= c
    BY <1>1, <1>4
  <2> QED
    BY <1>1, <2>1 DEF r
<1> QED
  BY <1>1, <1>2, <1>3, <1>4

\* The place that is kept of a name is not behind it, and is its own when the names fit.
LEMMA KeyPlaceIs ==
  ASSUME NEW es \in Seq(PsfEntries), NEW n, n = Len(es), NEW i \in 1 .. n
  PROVE  /\ KeyPlace(es, i) \in Nat /\ KeyEnds(es)[0] + KeyPlace(es, i) <= KeyFrom(es, i)
         /\ NamesFit(es) => KeyEnds(es)[0] + KeyPlace(es, i) = KeyFrom(es, i)
<1>1. PICK keyOff \in Nat, key \in Nat : keyOff = KeyEnds(es)[0] /\ key = KeyFrom(es, i) /\ keyOff <= key
  <2>1. 0 \in 0 .. n /\ KeyEnds(es) \in [0 .. n -> Nat]
    BY KeyEndsAre
  <2>2. KeyEnds(es)[0] \in Nat
    BY <2>1
  <2>3. KeyFrom(es, i) \in Nat /\ KeyEnds(es)[0] <= KeyFrom(es, i)
    BY LayoutIs
  <2> QED
    BY <2>2, <2>3
<1>2. PICK d \in Nat : d = key - keyOff
  BY <1>1
<1>3. KeyWidth \in Nat \ {0}
  BY PsfAssumption
<1>4. PICK m \in Nat : m = d % KeyWidth /\ m <= d /\ (d < KeyWidth => m = d)
  BY <1>3, RemainderIs
<1>5. KeyPlace(es, i) = m
  BY <1>1, <1>2, <1>4 DEF KeyPlace
<1>6. NamesFit(es) => d < KeyWidth
  BY <1>1, <1>2 DEF NamesFit
<1> QED
  BY <1>1, <1>2, <1>4, <1>5, <1>6

\* The place of a key and of a byte says which entry it belongs to.
LEMMA PlacesTell ==
  ASSUME NEW es \in Seq(PsfEntries), NEW n, n = Len(es), Whole(es), NEW i \in 1 .. n
  PROVE  /\ KeyFrom(es, i) \in DOMAIN EncodedKeys(es)
         /\ EncodedKeys(es)[KeyFrom(es, i)] = es[i].key
         /\ \A k \in 1 .. Len(StoredAs(es[i])) :
              /\ ValueFrom(es, i) + k - 1 \in DOMAIN EncodedData(es)
              /\ EncodedData(es)[ValueFrom(es, i) + k - 1] = StoredAs(es[i])[k]
<1>1. n \in Nat /\ DOMAIN es = 1 .. n
  OBVIOUS
<1>2. ASSUME NEW a \in 1 .. n
      PROVE  /\ KeyFrom(es, a) \in Nat /\ ValueFrom(es, a) \in Nat /\ es[a].max \in Nat
             /\ Len(StoredAs(es[a])) \in Nat /\ Len(StoredAs(es[a])) <= es[a].max
  <2>1. es[a].val # NoValue /\ Fits(es[a])
    BY <1>1 DEF Whole
  <2>2. ValueRight(es[a]) /\ es[a].max \in Nat
    BY <1>1, EntryIs
  <2>3. StoredAs(es[a]) \in Seq(Byte)
    BY <2>1, <2>2, StoredIs
  <2> QED
    BY <2>1, <2>2, <2>3, LayoutIs DEF Fits
<1>3. ASSUME NEW a \in 1 .. n, NEW b \in 1 .. n, a < b
      PROVE  /\ KeyFrom(es, a) < KeyFrom(es, b)
             /\ ValueFrom(es, a) + es[a].max <= ValueFrom(es, b)
  BY <1>3, LayoutIs
<1>4. ASSUME NEW b \in 1 .. n, KeyFrom(es, b) = KeyFrom(es, i) PROVE b = i
  <2>1. CASE b < i
    BY <1>2, <1>3, <1>4, <2>1
  <2>2. CASE i < b
    BY <1>2, <1>3, <1>4, <2>2
  <2> QED
    BY <1>1, <2>1, <2>2
<1>5. /\ KeyFrom(es, i) \in DOMAIN EncodedKeys(es)
      /\ EncodedKeys(es)[KeyFrom(es, i)] = es[i].key
  <2>1. (CHOOSE b \in DOMAIN es : KeyFrom(es, b) = KeyFrom(es, i)) = i
    BY <1>1, <1>4
  <2> QED
    BY <1>1, <2>1 DEF EncodedKeys
<1>7. ASSUME NEW a \in 1 .. n, NEW p \in ValuePlaces(es, a)
      PROVE  ValueFrom(es, a) <= p /\ p < ValueFrom(es, a) + es[a].max
  <2>1. PICK from \in Nat, l \in Nat, max \in Nat :
          from = ValueFrom(es, a) /\ l = Len(StoredAs(es[a])) /\ max = es[a].max /\ l <= max
    BY <1>2
  <2>2. p \in from .. from + l - 1
    BY <1>7, <2>1 DEF ValuePlaces
  <2>3. from <= p /\ p < from + max
    BY <2>1, <2>2
  <2> QED
    BY <2>1, <2>3
<1>6. ASSUME NEW k \in 1 .. Len(StoredAs(es[i]))
      PROVE  /\ ValueFrom(es, i) + k - 1 \in DOMAIN EncodedData(es)
             /\ EncodedData(es)[ValueFrom(es, i) + k - 1] = StoredAs(es[i])[k]
  <2>1. PICK p \in Nat : p = ValueFrom(es, i) + k - 1
    BY <1>2
  <2>2. k \in Nat /\ k <= Len(StoredAs(es[i])) /\ k >= 1
    BY <1>2
  <2>3. p \in ValuePlaces(es, i)
    <3>1. PICK from \in Nat, l \in Nat : from = ValueFrom(es, i) /\ l = Len(StoredAs(es[i]))
      BY <1>2
    <3>2. p \in from .. from + l - 1
      BY <2>1, <2>2, <3>1
    <3> QED
      BY <3>1, <3>2 DEF ValuePlaces
  <2>4. ASSUME NEW b \in 1 .. n, p \in ValuePlaces(es, b) PROVE b = i
    <3>1. ValueFrom(es, b) <= p /\ p < ValueFrom(es, b) + es[b].max
      BY <1>7, <2>4
    <3>2. ValueFrom(es, i) <= p /\ p < ValueFrom(es, i) + es[i].max
      BY <1>7, <2>3
    <3>3. CASE b < i
      <4>1. ValueFrom(es, b) + es[b].max <= ValueFrom(es, i)
        BY <1>3, <3>3
      <4> QED
        BY <1>2, <3>1, <3>2, <4>1
    <3>4. CASE i < b
      <4>1. ValueFrom(es, i) + es[i].max <= ValueFrom(es, b)
        BY <1>3, <3>4
      <4> QED
        BY <1>2, <3>1, <3>2, <4>1
    <3> QED
      BY <1>1, <3>3, <3>4
  <2>5. (CHOOSE b \in DOMAIN es : p \in ValuePlaces(es, b)) = i
    BY <1>1, <2>3, <2>4
  <2>6. p \in UNION {ValuePlaces(es, b) : b \in DOMAIN es}
    BY <1>1, <2>3
  <2>7. p \in DOMAIN EncodedData(es) /\ EncodedData(es)[p] = StoredAs(es[i])[p - ValueFrom(es, i) + 1]
    BY <2>5, <2>6 DEF EncodedData
  <2>8. p - ValueFrom(es, i) + 1 = k
    BY <1>2, <2>1, <2>2
  <2> QED
    BY <2>1, <2>7, <2>8
<1> QED
  BY <1>5, <1>6

\* The least of some numbers.
LEMMA LeastOf ==
  ASSUME NEW I, I \subseteq Nat, I # {}
  PROVE  Min(I) \in I /\ \A a \in I : Min(I) <= a
<1>1. PICK b \in I : \A a \in I : ~(<<a, b>> \in OpToRel(<, Nat))
  BY NatLessThanWellFounded, WFMin
<1>2. \A a \in I : b <= a
  <2>1. \A a \in I : ~(a < b)
    BY <1>1 DEF OpToRel
  <2> QED
    BY <2>1
<1> QED
  BY <1>2 DEF Min

\* Bytes without a zero.
LEMMA NotThere ==
  ASSUME NEW s \in Seq(Byte), \A k \in 1 .. Len(s) : s[k] # 0
  PROVE  0 \notin Range(s)
<1>1. DOMAIN s = 1 .. Len(s)
  OBVIOUS
<1> QED
  BY <1>1 DEF Range

\* The first zero of some bytes.
LEMMA ZeroIs ==
  ASSUME NEW s \in Seq(Byte)
  PROVE  /\ FirstZero(s) = 0 => \A k \in 1 .. Len(s) : s[k] # 0
         /\ FirstZero(s) # 0 => /\ FirstZero(s) \in 1 .. Len(s) /\ s[FirstZero(s)] = 0
                                /\ \A k \in 1 .. Len(s) : k < FirstZero(s) => s[k] # 0
<1> DEFINE I == {k \in 1 .. Len(s) : s[k] = 0}
<1>1. FirstZero(s) = IF I # {} THEN Min(I) ELSE 0
  BY DEF FirstZero, SelectInSeq
<1>2. I \subseteq Nat
  OBVIOUS
<1>3. I # {} => Min(I) \in I /\ \A a \in I : Min(I) <= a
  <2> HIDE DEF I
  <2> QED
    BY <1>2, LeastOf
<1>4. CASE I = {}
  BY <1>1, <1>4
<1>5. CASE I # {}
  <2>1. PICK m : m = Min(I)
    OBVIOUS
  <2>2. FirstZero(s) = m /\ m \in I /\ \A a \in I : m <= a
    BY <1>1, <1>3, <1>5, <2>1
  <2>3. m \in 1 .. Len(s) /\ s[m] = 0
    BY <2>2
  <2>4. \A k \in 1 .. Len(s) : k < m => s[k] # 0
    <3> SUFFICES ASSUME NEW k \in 1 .. Len(s), k < m, s[k] = 0 PROVE FALSE
      OBVIOUS
    <3>1. k \in I
      OBVIOUS
    <3> QED
      BY <2>2, <2>3, <3>1
  <2> HIDE DEF I
  <2>5. m # 0
    BY <2>3
  <2> QED
    BY <2>2, <2>3, <2>4, <2>5
<1> QED
  BY <1>4, <1>5

\* The value that is read from the bytes of an entry is the entry's.
LEMMA ReadAsStored ==
  ASSUME NEW e, e.val # NoValue, ValueRight(e)
  PROVE  ReadAs(e.fmt, StoredAs(e)) = e.val
<1>1. PICK v \in Seq(Byte) : v = e.val
  BY StoredIs
<1>2. PICK s \in Seq(Byte) : s = StoredAs(e)
  BY StoredIs
<1>3. CASE e.fmt = "Binary"
  <2>1. StoredAs(e) = e.val
    BY <1>3, StoredIs
  <2> QED
    BY <1>3, <2>1 DEF ReadAs
<1>4. CASE e.fmt = "Text"
  <2>1. /\ Len(s) = Len(v) + 1 /\ s[Len(v) + 1] = 0 /\ 0 \notin Range(v)
        /\ \A k \in 1 .. Len(v) : s[k] = v[k]
    BY <1>1, <1>2, <1>4, StoredIs
  <2>2. \A k \in 1 .. Len(v) : v[k] # 0
    BY <2>1 DEF Range
  <2>3. PICK z : z = FirstZero(s)
    OBVIOUS
  <2>4. Len(v) \in Nat /\ Len(v) + 1 \in 1 .. Len(s)
    BY <2>1
  <2>5. z # 0
    BY <2>1, <2>3, <2>4, ZeroIs
  <2>6. z \in 1 .. Len(s) /\ s[z] = 0 /\ \A k \in 1 .. Len(s) : k < z => s[k] # 0
    BY <2>3, <2>5, ZeroIs
  <2>7. z = Len(v) + 1
    <3>1. CASE z < Len(v) + 1
      <4>1. z \in 1 .. Len(v)
        BY <2>4, <2>6, <3>1
      <4> QED
        BY <2>1, <2>2, <2>6, <4>1
    <3>2. CASE z > Len(v) + 1
      BY <2>1, <2>4, <2>6, <3>2
    <3> QED
      BY <2>4, <2>6, <3>1, <3>2
  <2>8. ReadAs(e.fmt, s) = SubSeq(s, 1, Len(v))
    <3>1. z - 1 = Len(v)
      BY <2>4, <2>7
    <3> QED
      BY <1>4, <2>3, <2>5, <3>1 DEF ReadAs
  <2>9. SubSeq(s, 1, Len(v)) = v
    BY <2>1, <2>4
  <2> QED
    BY <1>1, <1>2, <2>8, <2>9
<1>5. CASE e.fmt = "Integer"
  <2>1. s = v /\ Len(v) = 4
    BY <1>1, <1>2, <1>5, StoredIs
  <2>2. SubSeq(v, 1, 4) = v
    BY <2>1
  <2>3. ReadAs(e.fmt, s) = SubSeq(s, 1, 4)
    BY <1>5, <2>1 DEF ReadAs
  <2> QED
    BY <1>1, <1>2, <2>1, <2>2, <2>3
<1>6. e.fmt \in Formats
  BY StoredIs
<1> QED
  BY <1>3, <1>4, <1>5, <1>6 DEF Formats

\* What is read of bytes is a value of the format, or none.
LEMMA ReadAsRight ==
  ASSUME NEW s \in Seq(Byte), NEW fmt \in SfoFormats
  PROVE  /\ ReadAs(fmt, s) \in Seq(Byte) \cup {NoValue}
         /\ ReadAs(fmt, s) # NoValue =>
              /\ ReadAs(fmt, s) \in Seq(Byte) /\ fmt \in Formats
              /\ fmt = "Text" => 0 \notin Range(ReadAs(fmt, s))
              /\ fmt = "Integer" => Len(ReadAs(fmt, s)) = 4
<1>1. CASE fmt = "Binary"
  BY <1>1 DEF ReadAs, Formats
<1>2. CASE fmt = "Text"
  <2>1. PICK z : z = FirstZero(s)
    OBVIOUS
  <2>2. CASE z = 0
    <3>1. ReadAs(fmt, s) = s
      BY <1>2, <2>1, <2>2 DEF ReadAs
    <3>2. \A k \in 1 .. Len(s) : s[k] # 0
      BY <2>1, <2>2, ZeroIs
    <3>3. 0 \notin Range(s)
      BY <3>2, NotThere
    <3> QED
      BY <1>2, <3>1, <3>3 DEF Formats
  <2>3. CASE z # 0
    <3>1. z \in 1 .. Len(s) /\ \A k \in 1 .. Len(s) : k < z => s[k] # 0
      BY <2>1, <2>3, ZeroIs
    <3>2. ReadAs(fmt, s) = SubSeq(s, 1, z - 1)
      BY <1>2, <2>1, <2>3 DEF ReadAs
    <3>3. PICK m \in Nat : m = z - 1 /\ m <= Len(s)
      BY <3>1
    <3>4. PICK t : t = SubSeq(s, 1, m)
      OBVIOUS
    <3>5. t \in Seq(Byte) /\ Len(t) = m /\ \A k \in 1 .. m : t[k] = s[k]
      BY <3>3, <3>4
    <3>6. \A k \in 1 .. m : s[k] # 0
      BY <3>1, <3>3
    <3>7. 0 \notin Range(t)
      BY <3>5, <3>6, NotThere
    <3> QED
      BY <1>2, <3>2, <3>3, <3>4, <3>5, <3>7 DEF Formats
  <2> QED
    BY <2>2, <2>3
<1>3. CASE fmt = "Integer"
  <2>1. CASE Len(s) >= 4
    <3>1. ReadAs(fmt, s) = SubSeq(s, 1, 4)
      BY <1>3, <2>1 DEF ReadAs
    <3>2. SubSeq(s, 1, 4) \in Seq(Byte) /\ Len(SubSeq(s, 1, 4)) = 4
      BY <2>1
    <3> QED
      BY <1>3, <3>1, <3>2 DEF Formats
  <2>2. CASE ~(Len(s) >= 4)
    BY <1>3, <2>2 DEF ReadAs
  <2> QED
    BY <2>1, <2>2
<1>4. CASE fmt = "Unknown"
  BY <1>4 DEF ReadAs
<1> QED
  BY <1>1, <1>2, <1>3, <1>4 DEF SfoFormats, Formats

-----------------------------------------------------------------------------
\* The bytes of an entry, inside the file or not.
LEMMA BytesAre ==
  ASSUME NEW file \in SfoFiles, NEW r \in RawEntries
  PROVE  Bytes(file, r) \in Seq(Byte)
<1>1. r.len \in Nat
  BY DEF RawEntries
<1>2. \A p \in DOMAIN file.data : file.data[p] \in Byte
  BY DEF SfoFiles, DataMaps
<1>3. 0 \in Byte
  BY DEF Byte
<1> DEFINE At(i) == LET p == file.dataOff + r.dataOff + i - 1
                    IN IF p < file.size /\ p \in DOMAIN file.data THEN file.data[p] ELSE 0
<1>4. \A i \in 1 .. r.len : At(i) \in Byte
  BY <1>2, <1>3
<1>5. Bytes(file, r) = [i \in 1 .. r.len |-> At(i)]
  BY DEF Bytes
<1> HIDE DEF At
<1>6. Bytes(file, r) \in [1 .. r.len -> Byte]
  BY <1>4, <1>5
<1> QED
  BY <1>1, <1>6

\* What is read of an entry in bounds is an entry.
LEMMA EntryRead ==
  ASSUME NEW file \in SfoFiles, NEW r \in RawEntries, InBounds(file, r), NEW tail \in PsfKeys
  PROVE  EntryFrom(file, r, tail) \in PsfEntries
<1>1. r.fmt \in SfoFormats /\ r.max \in Nat
  BY DEF RawEntries
<1>2. PICK name \in PsfKeys :
        name = IF KeyAt(file, r) \in DOMAIN file.keys THEN file.keys[KeyAt(file, r)] ELSE tail
  BY DEF SfoFiles, KeyMaps
<1>3. PICK v : v = ValueOf(file, r)
  OBVIOUS
<1>4. PICK s \in Seq(Byte) : s = Bytes(file, r)
  BY BytesAre
<1>5. /\ v \in Seq(Byte) \cup {NoValue}
      /\ v # NoValue => /\ v \in Seq(Byte) /\ r.fmt \in Formats
                        /\ r.fmt = "Text" => 0 \notin Range(v)
                        /\ r.fmt = "Integer" => Len(v) = 4
  BY <1>1, <1>3, <1>4, ReadAsRight DEF ValueOf
<1>6. PICK e : e = EntryFrom(file, r, tail)
  OBVIOUS
<1>7. e = [key |-> name, fmt |-> r.fmt, max |-> r.max, val |-> v]
  BY <1>2, <1>3, <1>6 DEF EntryFrom
<1>8. e \in SfoEntries /\ e.fmt = r.fmt /\ e.val = v
  BY <1>1, <1>2, <1>5, <1>7 DEF SfoEntries
<1>9. ValueRight(e)
  BY <1>5, <1>8 DEF ValueRight
<1> QED
  BY <1>6, <1>8, <1>9 DEF PsfEntries

\* What Open finds in a file.
LEMMA ParseIs ==
  ASSUME NEW file \in SfoFiles, NEW tails \in [DOMAIN file.raw -> PsfKeys]
  PROVE  /\ Parse(file, tails).es \in Seq(PsfEntries)
         /\ Parse(file, tails).ok \in BOOLEAN
         /\ Parse(file, tails).ok <=> \A i \in DOMAIN file.raw : /\ InBounds(file, file.raw[i])
                                                          /\ ValueOf(file, file.raw[i]) # NoValue
         /\ Parse(file, tails).ok =>
              Parse(file, tails).es = [i \in DOMAIN file.raw |-> EntryFrom(file, file.raw[i], tails[i])]
<1>1. file.raw \in Seq(RawEntries)
  BY DEF SfoFiles
<1>2. PICK n \in Nat : n = Len(file.raw) /\ DOMAIN file.raw = 1 .. n
  BY <1>1
<1>3. \A i \in 1 .. n : file.raw[i] \in RawEntries
  BY <1>1, <1>2
<1> DEFINE bad == {i \in 1 .. n : ~InBounds(file, file.raw[i]) \/ ValueOf(file, file.raw[i]) = NoValue}
           read == IF bad = {} THEN n
                   ELSE IF InBounds(file, file.raw[Min(bad)]) THEN Min(bad) ELSE Min(bad) - 1
<1>4. Parse(file, tails) = [ok |-> bad = {}, es |-> [i \in 1 .. read |-> EntryFrom(file, file.raw[i], tails[i])]]
  BY <1>2 DEF Parse
<1>5. bad \subseteq 1 .. n /\ bad \subseteq Nat
  OBVIOUS
<1>6. bad # {} => Min(bad) \in bad /\ \A a \in bad : Min(bad) <= a
  <2> HIDE DEF bad
  <2> QED
    BY <1>5, LeastOf
<1>7. \A i \in 1 .. n : i \notin bad => InBounds(file, file.raw[i])
  OBVIOUS
<1>8. read \in 0 .. n /\ \A i \in 1 .. read : InBounds(file, file.raw[i])
  <2> HIDE DEF bad
  <2>1. CASE bad = {}
    BY <1>2, <1>7, <2>1
  <2>2. CASE bad # {}
    <3>1. PICK m \in 1 .. n : m = Min(bad)
      BY <1>5, <1>6, <2>2
    <3>2. \A a \in bad : m <= a
      BY <1>6, <2>2, <3>1
    <3>3. ASSUME NEW i \in 1 .. m - 1 PROVE InBounds(file, file.raw[i])
      <4>1. i \in 1 .. n /\ i \notin bad
        BY <1>5, <3>2
      <4> QED
        BY <1>7, <4>1
    <3>4. CASE InBounds(file, file.raw[m])
      <4>1. read = m
        BY <2>2, <3>1, <3>4
      <4> QED
        BY <3>3, <3>4, <4>1
    <3>5. CASE ~InBounds(file, file.raw[m])
      <4>1. read = m - 1
        BY <2>2, <3>1, <3>5
      <4> QED
        BY <3>3, <4>1
    <3> QED
      BY <3>4, <3>5
  <2> QED
    BY <2>1, <2>2
<1>9. (bad = {}) <=> \A i \in 1 .. n : /\ InBounds(file, file.raw[i])
                                       /\ ValueOf(file, file.raw[i]) # NoValue
  OBVIOUS
<1> HIDE DEF bad
<1>10. ASSUME NEW i \in 1 .. read PROVE EntryFrom(file, file.raw[i], tails[i]) \in PsfEntries
  <2> HIDE DEF read
  <2>1. i \in 1 .. n
    BY <1>8
  <2>2. PICK tail \in PsfKeys : tail = tails[i]
    BY <1>2, <2>1
  <2>3. EntryFrom(file, file.raw[i], tail) \in PsfEntries
    BY <1>3, <1>8, <2>1, EntryRead
  <2> QED
    BY <2>2, <2>3
<1>11. bad = {} => read = n
  OBVIOUS
<1> HIDE DEF read
<1>12. [i \in 1 .. read |-> EntryFrom(file, file.raw[i], tails[i])] \in Seq(PsfEntries)
  <2>1. [i \in 1 .. read |-> EntryFrom(file, file.raw[i], tails[i])] \in [1 .. read -> PsfEntries]
    BY <1>10
  <2>2. read \in Nat
    BY <1>8
  <2> QED
    BY <2>1, <2>2
<1>13. /\ Parse(file, tails).ok = (bad = {})
       /\ Parse(file, tails).es = [i \in 1 .. read |-> EntryFrom(file, file.raw[i], tails[i])]
  BY <1>4
<1> QED
  BY <1>2, <1>9, <1>11, <1>12, <1>13

\* An entry of the file that was made of a list: its name may be another one.
LEMMA ReadBack ==
  ASSUME NEW es \in Seq(PsfEntries), NEW n, n = Len(es), Whole(es), NEW c \in Nat, NEW i \in 1 .. n,
         NEW file, file = Cut(es, c), NEW tail \in PsfKeys
  PROVE  /\ InBounds(file, file.raw[i]) =>
              /\ EntryFrom(file, file.raw[i], tail).fmt = es[i].fmt
              /\ EntryFrom(file, file.raw[i], tail).max = es[i].max
              /\ EntryFrom(file, file.raw[i], tail).val = es[i].val
              /\ ValueOf(file, file.raw[i]) = es[i].val
              /\ NamesFit(es) => EntryFrom(file, file.raw[i], tail) = es[i]
         /\ c = DataEnds(es)[n] => InBounds(file, file.raw[i])
<1>1. n \in Nat /\ DOMAIN es = 1 .. n
  OBVIOUS
<1>2. PICK r : r = file.raw[i]
  OBVIOUS
<1>3. PICK keyOff, dataOff \in Nat : keyOff = KeyEnds(es)[0] /\ dataOff = DataEnds(es)[0]
  BY <1>1, KeyEndsAre, DataEndsAre
<1>4. PICK key \in Nat, from \in Nat : key = KeyFrom(es, i) /\ from = ValueFrom(es, i)
  BY LayoutIs
<1>5. keyOff <= key /\ key < dataOff /\ dataOff <= from /\ from + es[i].max <= DataEnds(es)[n]
  BY <1>3, <1>4, LayoutIs
<1>6. /\ r.keyOff = KeyPlace(es, i) /\ r.dataOff = from - dataOff /\ r.max = es[i].max
      /\ r.fmt = es[i].fmt /\ r.len = Len(StoredAs(es[i]))
  <2>1. i \in DOMAIN es
    BY <1>1
  <2>2. r = [keyOff |-> KeyPlace(es, i), dataOff |-> ValueFrom(es, i) - DataEnds(es)[0],
             max |-> es[i].max, fmt |-> es[i].fmt, len |-> Len(StoredAs(es[i]))]
    BY <1>2, <2>1, RawIs
  <2> QED
    BY <1>3, <1>4, <2>2
<1>7. /\ file.size = c /\ file.keys = EncodedKeys(es) /\ file.data = EncodedData(es)
      /\ file.keyOff = keyOff /\ file.dataOff = dataOff
  BY <1>3, EncodedIs
<1>8. PICK keyPlace \in Nat : /\ KeyAt(file, r) = keyPlace /\ keyPlace <= key /\ (NamesFit(es) => keyPlace = key)
                       /\ file.dataOff + r.dataOff = from
  <2>1. /\ KeyPlace(es, i) \in Nat /\ keyOff + KeyPlace(es, i) <= key
        /\ NamesFit(es) => keyOff + KeyPlace(es, i) = key
    BY <1>3, <1>4, KeyPlaceIs
  <2> QED
    BY <1>3, <1>4, <1>5, <1>6, <1>7, <2>1 DEF KeyAt
<1>9. es[i].val # NoValue /\ Fits(es[i]) /\ ValueRight(es[i]) /\ es[i] \in SfoEntries /\ es[i].max \in Nat
  BY <1>1, EntryIs DEF Whole
<1>10. PICK s \in Seq(Byte) : s = StoredAs(es[i])
  BY <1>9, StoredIs
<1>11. Len(s) \in Nat /\ Len(s) <= es[i].max /\ r.len = Len(s)
  BY <1>6, <1>9, <1>10 DEF Fits
<1>12. /\ key \in DOMAIN file.keys /\ file.keys[key] = es[i].key
       /\ \A k \in 1 .. Len(s) : from + k - 1 \in DOMAIN file.data /\ file.data[from + k - 1] = s[k]
  <2>1. /\ KeyFrom(es, i) \in DOMAIN EncodedKeys(es)
        /\ EncodedKeys(es)[KeyFrom(es, i)] = es[i].key
        /\ \A k \in 1 .. Len(StoredAs(es[i])) :
             /\ ValueFrom(es, i) + k - 1 \in DOMAIN EncodedData(es)
             /\ EncodedData(es)[ValueFrom(es, i) + k - 1] = StoredAs(es[i])[k]
    BY PlacesTell
  <2> QED
    BY <1>4, <1>7, <1>10, <2>1
<1>13. InBounds(file, r) <=> from <= c /\ Len(s) <= c - from
  BY <1>5, <1>7, <1>8, <1>11, <1>12 DEF InBounds
<1>14. c = DataEnds(es)[n] => InBounds(file, r)
  BY <1>5, <1>9, <1>11, <1>13
<1>15. ASSUME InBounds(file, r)
       PROVE  /\ EntryFrom(file, r, tail).fmt = es[i].fmt /\ EntryFrom(file, r, tail).max = es[i].max
              /\ EntryFrom(file, r, tail).val = es[i].val /\ ValueOf(file, r) = es[i].val
              /\ NamesFit(es) => EntryFrom(file, r, tail) = es[i]
  <2>1. from <= c /\ Len(s) <= c - from
    BY <1>13, <1>15
  <2>2. Bytes(file, r) = s
    <3> DEFINE At(k) == LET p == file.dataOff + r.dataOff + k - 1
                        IN IF p < file.size /\ p \in DOMAIN file.data THEN file.data[p] ELSE 0
    <3>1. Bytes(file, r) = [k \in 1 .. Len(s) |-> At(k)]
      BY <1>11 DEF Bytes
    <3>2. ASSUME NEW k \in 1 .. Len(s) PROVE At(k) = s[k]
      <4>1. file.dataOff + r.dataOff + k - 1 = from + k - 1
        BY <1>8
      <4>2. from + k - 1 < file.size
        BY <1>7, <1>11, <2>1
      <4> QED
        BY <1>12, <4>1, <4>2
    <3> HIDE DEF At
    <3>3. s = [k \in 1 .. Len(s) |-> s[k]]
      OBVIOUS
    <3> QED
      BY <3>1, <3>2, <3>3
  <2>3. ValueOf(file, r) = es[i].val
    BY <1>6, <1>9, <1>10, <2>2, ReadAsStored DEF ValueOf
  <2>4. PICK name : EntryFrom(file, r, tail) = [key |-> name, fmt |-> es[i].fmt, max |-> es[i].max,
                                                val |-> es[i].val]
    BY <1>6, <2>3 DEF EntryFrom
  <2>5. ASSUME NamesFit(es) PROVE EntryFrom(file, r, tail) = es[i]
    <3>1. EntryFrom(file, r, tail) = [key |-> es[i].key, fmt |-> es[i].fmt, max |-> es[i].max,
                                      val |-> es[i].val]
      BY <1>6, <1>8, <1>12, <2>3, <2>5 DEF EntryFrom
    <3> QED
      BY <1>9, <3>1 DEF SfoEntries
  <2> QED
    BY <2>3, <2>4, <2>5
<1> QED
  BY <1>2, <1>14, <1>15

-----------------------------------------------------------------------------
\* The file of a list is a file.
LEMMA CutIsFile ==
  ASSUME NEW es \in Seq(PsfEntries), Whole(es), NEW c \in Nat
  PROVE  Cut(es, c) \in SfoFiles
<1>1. PICK n \in Nat : n = Len(es) /\ DOMAIN es = 1 .. n
  OBVIOUS
<1>2. PICK file : file = Cut(es, c)
  OBVIOUS
<1>3. PICK keyOff, dataOff \in Nat : keyOff = KeyEnds(es)[0] /\ dataOff = DataEnds(es)[0]
  BY <1>1, KeyEndsAre, DataEndsAre
<1>4. ASSUME NEW i \in 1 .. n
      PROVE  /\ KeyFrom(es, i) \in Nat /\ ValueFrom(es, i) \in Nat
             /\ keyOff <= KeyFrom(es, i) /\ dataOff <= ValueFrom(es, i)
             /\ es[i].key \in PsfKeys /\ es[i].fmt \in SfoFormats /\ es[i].max \in Nat
             /\ StoredAs(es[i]) \in Seq(Byte)
  <2>1. es[i].val # NoValue /\ ValueRight(es[i])
    BY <1>1, EntryIs DEF Whole
  <2> QED
    BY <1>1, <1>3, <2>1, LayoutIs, StoredIs, EntryIs
<1>5. EncodedKeys(es) \in KeyMaps
  <2> DEFINE P == {KeyFrom(es, i) : i \in 1 .. n}
             K(p) == es[CHOOSE i \in 1 .. n : KeyFrom(es, i) = p].key
  <2>1. P \in SUBSET Int
    BY <1>4
  <2>2. ASSUME NEW p \in P PROVE K(p) \in PsfKeys
    <3>1. PICK i \in 1 .. n : KeyFrom(es, i) = p
      OBVIOUS
    <3>2. (CHOOSE j \in 1 .. n : KeyFrom(es, j) = p) \in 1 .. n
      BY <3>1
    <3> QED
      BY <1>4, <3>2
  <2>3. EncodedKeys(es) = [p \in P |-> K(p)]
    BY <1>1 DEF EncodedKeys
  <2> HIDE DEF P, K
  <2>4. EncodedKeys(es) \in [P -> PsfKeys]
    BY <2>2, <2>3
  <2> QED
    BY <2>1, <2>4 DEF KeyMaps
<1>6. EncodedData(es) \in DataMaps
  <2> DEFINE P == UNION {ValuePlaces(es, i) : i \in 1 .. n}
             I(p) == CHOOSE i \in 1 .. n : p \in ValuePlaces(es, i)
             B(p) == StoredAs(es[I(p)])[p - ValueFrom(es, I(p)) + 1]
  <2>1. P \in SUBSET Int
    BY <1>4 DEF ValuePlaces
  <2>2. ASSUME NEW p \in P PROVE B(p) \in Byte
    <3>1. PICK i \in 1 .. n : i = I(p) /\ p \in ValuePlaces(es, i)
      <4>1. PICK i \in 1 .. n : p \in ValuePlaces(es, i)
        OBVIOUS
      <4> QED
        BY <4>1
    <3>2. PICK s \in Seq(Byte) : s = StoredAs(es[i])
      BY <1>4
    <3>3. PICK from \in Nat, l \in Nat : from = ValueFrom(es, i) /\ l = Len(s)
      BY <1>4
    <3>4. p - ValueFrom(es, i) + 1 \in 1 .. Len(s)
      <4>1. p \in from .. from + l - 1
        BY <3>1, <3>2, <3>3 DEF ValuePlaces
      <4>2. p - from + 1 \in 1 .. l
        BY <4>1
      <4> QED
        BY <3>3, <4>2
    <3>5. B(p) = s[p - ValueFrom(es, i) + 1]
      BY <3>1, <3>2
    <3> QED
      BY <3>4, <3>5
  <2>3. EncodedData(es) = [p \in P |-> B(p)]
    BY <1>1 DEF EncodedData
  <2> HIDE DEF P, I, B
  <2>4. EncodedData(es) \in [P -> Byte]
    BY <2>2, <2>3
  <2> QED
    BY <2>1, <2>4 DEF DataMaps
<1>7. PICK raw : raw = file.raw
  OBVIOUS
<1>8. raw \in Seq(RawEntries)
  <2> DEFINE R(i) == [keyOff |-> KeyPlace(es, i), dataOff |-> ValueFrom(es, i) - dataOff,
                      max |-> es[i].max, fmt |-> es[i].fmt, len |-> Len(StoredAs(es[i]))]
  <2>1. raw = [i \in 1 .. n |-> R(i)]
    BY <1>1, <1>2, <1>3, <1>7 DEF Cut, Encoded
  <2>2. ASSUME NEW i \in 1 .. n PROVE R(i) \in RawEntries
    <3>1. PICK len \in Nat : len = Len(StoredAs(es[i]))
      BY <1>4
    <3>2. PICK a \in Nat, b \in Nat : a = KeyPlace(es, i) /\ b = ValueFrom(es, i) - dataOff
      <4>1. KeyPlace(es, i) \in Nat
        BY <1>1, KeyPlaceIs
      <4> QED
        BY <1>3, <1>4, <4>1
    <3>3. R(i) = [keyOff |-> a, dataOff |-> b, max |-> es[i].max, fmt |-> es[i].fmt, len |-> len]
      BY <3>1, <3>2
    <3> QED
      BY <1>4, <3>3 DEF RawEntries
  <2> HIDE DEF R
  <2>3. raw \in [1 .. n -> RawEntries]
    BY <2>1, <2>2
  <2> QED
    BY <2>3
<1>9. file = [own |-> TRUE, size |-> c, magic |-> TRUE, version |-> TRUE, keys |-> EncodedKeys(es),
              data |-> EncodedData(es), keyOff |-> keyOff, dataOff |-> dataOff, raw |-> raw]
  BY <1>2, <1>3, <1>7 DEF Cut, Encoded
<1>10. file \in SfoFiles
  BY <1>3, <1>5, <1>6, <1>8, <1>9 DEF SfoFiles
<1> QED
  BY <1>2, <1>10

\* The whole file of a list.
LEMMA WholeIsCut ==
  ASSUME NEW es \in Seq(PsfEntries), NEW n, n = Len(es)
  PROVE  /\ Encoded(es).size \in Nat /\ Encoded(es).size = DataEnds(es)[n] /\ Header <= Encoded(es).size
         /\ Header + RawEntry * n <= KeyEnds(es)[0] /\ KeyEnds(es)[0] \in Nat /\ DataEnds(es)[0] \in Nat
         /\ n = 0 => KeyEnds(es)[0] = DataEnds(es)[n]
         /\ n # 0 => KeyEnds(es)[0] < DataEnds(es)[0]
         /\ DataEnds(es)[0] <= DataEnds(es)[n]
<1>1. n \in Nat /\ DOMAIN es = 1 .. n
  OBVIOUS
<1>2. PICK K \in [0 .. n -> Nat] : K = KeyEnds(es) /\ K[0] = Header + RawEntry * n
  BY KeyEndsAre
<1>3. PICK D \in [0 .. n -> Nat] : D = DataEnds(es) /\ D[0] = K[n]
  BY <1>2, DataEndsAre
<1>4. 0 \in 0 .. n /\ n \in 0 .. n
  BY <1>1
<1>5. K[0] \in Nat /\ K[n] \in Nat /\ D[0] \in Nat /\ D[n] \in Nat
  BY <1>4
<1>6. Header <= K[0] /\ Header + RawEntry * n <= K[0]
  BY <1>1, <1>2 DEF Header, RawEntry
<1>7. Encoded(es).size = D[n]
  BY <1>1, <1>3 DEF Encoded
<1>8. CASE n = 0
  BY <1>2, <1>3, <1>5, <1>6, <1>7, <1>8 DEF Header
<1>9. CASE n # 0
  <2>1. n \in 1 .. n /\ es[n].max \in Nat
    BY <1>1, <1>9, EntryIs
  <2>2. /\ KeyFrom(es, n) \in Nat /\ ValueFrom(es, n) \in Nat /\ K[0] <= KeyFrom(es, n)
        /\ KeyFrom(es, n) < D[0] /\ D[0] <= ValueFrom(es, n) /\ ValueFrom(es, n) + es[n].max <= D[n]
    BY <1>2, <1>3, <2>1, LayoutIs
  <2>3. K[0] < D[0] /\ D[0] <= D[n]
    BY <1>5, <2>1, <2>2
  <2>4. Header <= D[n]
    BY <1>5, <1>6, <2>3 DEF Header
  <2> QED
    BY <1>2, <1>3, <1>5, <1>6, <1>7, <1>9, <2>3, <2>4
<1> QED
  BY <1>8, <1>9

\* What Open reads of the file of a list are the contents of the list, and the
\* list itself when the names fit, and it reads the whole file.
LEMMA CutParsed ==
  ASSUME NEW es \in Seq(PsfEntries), Whole(es), NEW c \in Nat, NEW file, file = Cut(es, c),
         NEW tails \in [DOMAIN file.raw -> PsfKeys]
  PROVE  /\ Parse(file, tails).ok => /\ Contents(Parse(file, tails).es) = Contents(es)
                                     /\ NamesFit(es) => Parse(file, tails).es = es
         /\ c = DataEnds(es)[Len(es)] => Parse(file, tails).ok
<1>1. PICK n \in Nat : n = Len(es) /\ DOMAIN es = 1 .. n
  OBVIOUS
<1>2. file \in SfoFiles
  BY CutIsFile
<1>3. DOMAIN file.raw = 1 .. n
  <2>1. DOMAIN file.raw = DOMAIN es
    BY EncodedIs
  <2> QED
    BY <1>1, <2>1
<1>4. ASSUME NEW i \in 1 .. n, InBounds(file, file.raw[i])
      PROVE  /\ EntryFrom(file, file.raw[i], tails[i]).fmt = es[i].fmt
             /\ EntryFrom(file, file.raw[i], tails[i]).max = es[i].max
             /\ EntryFrom(file, file.raw[i], tails[i]).val = es[i].val
             /\ ValueOf(file, file.raw[i]) = es[i].val
             /\ NamesFit(es) => EntryFrom(file, file.raw[i], tails[i]) = es[i]
  <2>1. PICK tail \in PsfKeys : tail = tails[i]
    BY <1>3
  <2> QED
    BY <1>1, <1>4, <2>1, ReadBack
<1>5. ASSUME Parse(file, tails).ok
      PROVE  /\ Contents(Parse(file, tails).es) = Contents(es)
             /\ NamesFit(es) => Parse(file, tails).es = es
  <2>1. PICK got : got = Parse(file, tails).es
    OBVIOUS
  <2>2. /\ got = [i \in 1 .. n |-> EntryFrom(file, file.raw[i], tails[i])]
        /\ \A i \in 1 .. n : InBounds(file, file.raw[i])
    BY <1>2, <1>3, <1>5, <2>1, ParseIs
  <2>3. Contents(got) = Contents(es)
    <3>1. DOMAIN got = 1 .. n
      BY <2>2
    <3>2. ASSUME NEW i \in 1 .. n
          PROVE  got[i].fmt = es[i].fmt /\ got[i].max = es[i].max /\ got[i].val = es[i].val
      <4>1. got[i] = EntryFrom(file, file.raw[i], tails[i])
        BY <2>2
      <4> QED
        BY <1>4, <2>2, <4>1
    <3> QED
      BY <1>1, <3>1, <3>2 DEF Contents
  <2>4. ASSUME NamesFit(es) PROVE got = es
    <3>1. \A i \in 1 .. n : EntryFrom(file, file.raw[i], tails[i]) = es[i]
      BY <1>4, <2>2, <2>4
    <3>2. es = [i \in 1 .. n |-> es[i]]
      BY <1>1
    <3> QED
      BY <2>2, <3>1, <3>2
  <2> QED
    BY <2>1, <2>3, <2>4
<1>6. ASSUME c = DataEnds(es)[n] PROVE Parse(file, tails).ok
  <2>1. ASSUME NEW i \in 1 .. n
        PROVE  InBounds(file, file.raw[i]) /\ ValueOf(file, file.raw[i]) # NoValue
    <3>1. PICK tail \in PsfKeys : tail = tails[i]
      BY <1>3
    <3>2. InBounds(file, file.raw[i])
      BY <1>1, <1>6, <3>1, ReadBack
    <3>3. ValueOf(file, file.raw[i]) = es[i].val
      BY <1>4, <3>2
    <3> QED
      BY <1>1, <3>2, <3>3 DEF Whole
  <2> QED
    BY <1>2, <1>3, <2>1, ParseIs
<1> QED
  BY <1>1, <1>5, <1>6

-----------------------------------------------------------------------------
LEMMA PsfInitInv == PsfInit => PsfInv
BY DEF PsfInit, PsfInv, Nowhere

\* A number of bytes that an entry has room for.
LEMMA RoomIs ==
  ASSUME NEW key, NEW size \in Nat
  PROVE  MaxSize(key, size) \in Nat
BY DEF MaxSize, KnownSizes

\* Adding keeps entries.
LEMMA PutKeeps ==
  ASSUME PsfInv, NEW key \in PsfKeys, NEW fmt \in Formats, NEW val \in Seq(Byte), NEW update \in BOOLEAN,
         fmt = "Text" => 0 \notin Range(val), fmt = "Integer" => Len(val) = 4,
         Put(key, fmt, val, update)
  PROVE  PsfInv'
<1> DEFINE new == [key |-> key, fmt |-> fmt, val |-> val,
                   max |-> IF fmt = "Integer" THEN 4 ELSE MaxSize(key, Len(Sized(fmt, val)))]
<1>1. new \in PsfEntries
  <2>1. Len(Sized(fmt, val)) \in Nat
    <3>1. 0 \in Byte
      BY DEF Byte
    <3> QED
      BY <3>1 DEF Sized
  <2>2. new.max \in Nat
    BY <2>1, RoomIs
  <2>3. new \in SfoEntries
    BY <2>2 DEF SfoEntries, SfoFormats
  <2>4. ValueRight(new)
    BY DEF ValueRight
  <2> HIDE DEF new
  <2> QED
    BY <2>3, <2>4 DEF PsfEntries
<1>2. \E place : \/ psf' = psf
              \/ psf' = Append(psf, new)
              \/ psf' = [psf EXCEPT ![place] = new]
  BY DEF Put
<1>3. psf \in Seq(PsfEntries)
  BY DEF PsfInv
<1> HIDE DEF new
<1>4. psf' \in Seq(PsfEntries)
  <2>1. Append(psf, new) \in Seq(PsfEntries)
    BY <1>1, <1>3
  <2>2. ASSUME NEW place PROVE [psf EXCEPT ![place] = new] \in Seq(PsfEntries)
    <3>1. PICK n \in Nat : psf \in [1 .. n -> PsfEntries]
      BY <1>3
    <3>2. CASE place \in 1 .. n
      <4>1. PICK es \in [1 .. n -> PsfEntries] : es = [psf EXCEPT ![place] = new]
        BY <1>1, <3>1, <3>2
      <4>2. es \in Seq(PsfEntries)
        OBVIOUS
      <4> QED
        BY <4>1, <4>2
    <3>3. CASE place \notin 1 .. n
      <4>1. [psf EXCEPT ![place] = new] = psf
        BY <3>1, <3>3
      <4> QED
        BY <1>3, <4>1
    <3> QED
      BY <3>2, <3>3
  <2> QED
    BY <1>2, <1>3, <2>1, <2>2
<1>5. UNCHANGED <<disk, stored>>
  BY DEF Put
<1> QED
  BY <1>4, <1>5 DEF PsfInv

LEMMA AddKeepsSfo == PsfInv /\ Add => PsfInv'
<1> SUFFICES ASSUME PsfInv, Add PROVE PsfInv'
  OBVIOUS
<1>1. PICK key \in PsfKeys, update \in BOOLEAN :
        \/ \E val \in PsfBytes : Put(key, "Binary", val, update)
        \/ \E val \in PsfBytes : 0 \notin Range(val) /\ Put(key, "Text", val, update)
        \/ Put(key, "Integer", <<7, 0, 0, 0>>, update)
  BY DEF Add
<1>2. "Binary" \in Formats /\ "Text" \in Formats /\ "Integer" \in Formats
  BY DEF Formats
<1>3. ASSUME NEW val \in PsfBytes, Put(key, "Binary", val, update) PROVE PsfInv'
  <2>1. PICK fmt \in Formats : fmt = "Binary"
    BY <1>2
  <2>2. val \in Seq(Byte)
    BY PsfAssumption
  <2> QED
    BY <1>3, <2>1, <2>2, PutKeeps
<1>4. ASSUME NEW val \in PsfBytes, 0 \notin Range(val), Put(key, "Text", val, update) PROVE PsfInv'
  <2>1. PICK fmt \in Formats : fmt = "Text"
    BY <1>2
  <2>2. val \in Seq(Byte)
    BY PsfAssumption
  <2> QED
    BY <1>4, <2>1, <2>2, PutKeeps
<1>5. ASSUME Put(key, "Integer", <<7, 0, 0, 0>>, update) PROVE PsfInv'
  <2>1. PICK fmt \in Formats : fmt = "Integer"
    BY <1>2
  <2>2. PICK val \in Seq(Byte) : val = <<7, 0, 0, 0>> /\ Len(val) = 4
    <3>1. 7 \in Byte /\ 0 \in Byte
      BY DEF Byte
    <3>2. <<7, 0, 0, 0>> \in Seq(Byte) /\ Len(<<7, 0, 0, 0>>) = 4
      BY <3>1
    <3> QED
      BY <3>2
  <2> QED
    BY <1>5, <2>1, <2>2, PutKeeps
<1> QED
  BY <1>1, <1>3, <1>4, <1>5

\* A list that nothing hinders to be written.
LEMMA WholeList ==
  ASSUME NEW es \in Seq(PsfEntries), ~ \E e \in Range(es) : e.val = NoValue, ~ \E e \in Range(es) : ~Fits(e)
  PROVE  Whole(es)
BY DEF Whole, Range

LEMMA EncodeKeepsSfo == PsfInv /\ Encode => PsfInv'
<1> SUFFICES ASSUME PsfInv, Encode PROVE PsfInv'
  OBVIOUS
<1>1. psf' = psf /\ psf \in Seq(PsfEntries)
  BY DEF Encode, PsfInv
<1>2. CASE UNCHANGED <<disk, stored>>
  BY <1>1, <1>2 DEF PsfInv
<1>3. CASE EncodeInto(psf) /\ disk' = Nowhere
  <2>1. stored' = psf
    BY <1>3 DEF EncodeInto
  <2> QED
    BY <1>1, <1>3, <2>1 DEF PsfInv
<1>4. CASE EncodeInto(psf) /\ disk' # Nowhere
  <2>1. (~ \E e \in Range(psf) : e.val = NoValue) /\ (~ \E e \in Range(psf) : ~Fits(e))
    BY <1>4 DEF EncodeInto
  <2>2. Whole(psf)
    BY <1>1, <2>1, WholeList
  <2>3. PICK cut \in {0, Header - 1, Header} \cup (Encoded(psf).keyOff - 1 .. Encoded(psf).size) :
          disk' = IF cut = 0 THEN Nowhere ELSE [Encoded(psf) EXCEPT !.size = cut]
    BY <1>4, <2>1 DEF EncodeInto
  <2>4. Encoded(psf).keyOff \in Nat /\ Encoded(psf).keyOff >= Header
    <3>1. PICK n \in Nat : n = Len(psf)
      BY <1>1
    <3>2. /\ Encoded(psf).keyOff = KeyEnds(psf)[0] /\ KeyEnds(psf)[0] \in Nat
          /\ Header + RawEntry * n <= KeyEnds(psf)[0]
      BY <1>1, <3>1, EncodedIs, WholeIsCut
    <3> QED
      BY <3>2 DEF Header, RawEntry
  <2>5. cut \in Nat
    <3>1. Encoded(psf).size \in Nat
      BY <1>1, WholeIsCut
    <3> QED
      BY <2>4, <3>1 DEF Header
  <2>6. disk' = Cut(psf, cut)
    BY <1>4, <2>3 DEF Cut
  <2>7. disk' \in SfoFiles
    BY <1>1, <2>2, <2>5, <2>6, CutIsFile
  <2>8. stored' = psf
    BY <1>4 DEF EncodeInto
  <2> QED
    BY <1>1, <2>2, <2>5, <2>6, <2>7, <2>8 DEF PsfInv
<1> QED
  BY <1>2, <1>3, <1>4 DEF Encode

LEMMA OpenKeepsSfo == PsfInv /\ OpenPsf => PsfInv'
<1> SUFFICES ASSUME PsfInv, OpenPsf PROVE PsfInv'
  OBVIOUS
<1>1. psf \in Seq(PsfEntries) /\ disk \in SfoFiles \cup {Nowhere} /\ UNCHANGED <<disk, stored>>
  BY DEF PsfInv, OpenPsf
<1>2. \/ psf' = psf \/ psf' = <<>>
      \/ disk.size >= Header /\ \E tails \in [DOMAIN disk.raw -> PsfKeys] : psf' = Parse(disk, tails).es
  <2>1. disk.size \in Int
    BY <1>1 DEF SfoFiles, Nowhere
  <2>2. disk.size < Header \/ disk.size >= Header
    BY <2>1 DEF Header
  <2> QED
    BY <2>2 DEF OpenPsf
<1>3. disk.size >= Header => disk \in SfoFiles
  BY <1>1 DEF Nowhere, Header
<1>4. psf' \in Seq(PsfEntries)
  <2>1. CASE disk.size >= Header /\ \E tails \in [DOMAIN disk.raw -> PsfKeys] : psf' = Parse(disk, tails).es
    BY <1>3, <2>1, ParseIs
  <2>2. CASE psf' = psf
    BY <1>1, <2>2
  <2>3. CASE psf' = <<>>
    BY <2>3
  <2> QED
    BY <1>2, <2>1, <2>2, <2>3
<1> QED
  BY <1>1, <1>4 DEF PsfInv

\* A file with another field is a file.
LEMMA ForeignKeepsSfo == PsfInv /\ Foreign => PsfInv'
<1> SUFFICES ASSUME PsfInv, Foreign PROVE PsfInv'
  OBVIOUS
<1>1. disk \in SfoFiles /\ disk.raw # <<>> /\ UNCHANGED <<psf, stored>>
  BY DEF PsfInv, Foreign, Nowhere, Header
<1>2. disk.raw \in Seq(RawEntries) /\ 1 \in DOMAIN disk.raw /\ disk.raw[1] \in RawEntries
  BY <1>1 DEF SfoFiles
<1>3. disk.dataOff \in Nat /\ disk.keyOff \in Nat /\ disk.size \in Nat
  BY <1>1 DEF SfoFiles, Foreign, Header
<1>4. <<>> \in KeyMaps
  <2>1. <<>> \in [{} -> PsfKeys]
    OBVIOUS
  <2> QED
    BY <2>1 DEF KeyMaps
<1>5. "Unknown" \in SfoFormats
  BY DEF SfoFormats
<1>6. ASSUME disk' \in SfoFiles, disk'.own = FALSE PROVE PsfInv'
  BY <1>1, <1>6 DEF PsfInv
<1>7. ASSUME NEW r \in RawEntries, disk' = [disk EXCEPT !.own = FALSE, !.raw[1] = r] PROVE PsfInv'
  <2>1. [disk.raw EXCEPT ![1] = r] \in Seq(RawEntries)
    BY <1>2
  <2>2. disk' = [disk EXCEPT !.own = FALSE, !.raw = [disk.raw EXCEPT ![1] = r]]
    BY <1>1, <1>7 DEF SfoFiles
  <2>3. disk' \in SfoFiles /\ disk'.own = FALSE
    BY <1>1, <2>1, <2>2 DEF SfoFiles
  <2> QED
    BY <1>6, <2>3
<1>8. CASE disk' = [disk EXCEPT !.own = FALSE, !.magic = FALSE]
  <2>1. disk' \in SfoFiles /\ disk'.own = FALSE
    BY <1>1, <1>3, <1>4, <1>8 DEF SfoFiles
  <2> QED
    BY <1>6, <2>1
<1>9. CASE disk' = [disk EXCEPT !.own = FALSE, !.version = FALSE]
  <2>1. disk' \in SfoFiles /\ disk'.own = FALSE
    BY <1>1, <1>3, <1>4, <1>9 DEF SfoFiles
  <2> QED
    BY <1>6, <2>1
<1>10. CASE disk' = [disk EXCEPT !.own = FALSE, !.keyOff = disk.dataOff + 1]
  <2>1. PICK off \in Nat : off = disk.dataOff + 1
    BY <1>3
  <2>2. disk' = [disk EXCEPT !.own = FALSE, !.keyOff = off]
    BY <1>10, <2>1
  <2>3. disk' \in SfoFiles /\ disk'.own = FALSE
    BY <1>1, <2>2 DEF SfoFiles
  <2> QED
    BY <1>6, <2>3
<1>11. CASE disk' = [disk EXCEPT !.own = FALSE, !.keys = <<>>]
  <2>1. PICK none \in KeyMaps : none = <<>>
    BY <1>4
  <2>2. disk' = [disk EXCEPT !.own = FALSE, !.keys = none]
    BY <1>11, <2>1
  <2>3. none \in KeyMaps
    BY <2>1
  <2>4. disk' \in SfoFiles /\ disk'.own = FALSE
    <3>1. disk' = [own |-> FALSE, size |-> disk.size, magic |-> disk.magic, version |-> disk.version,
                   keys |-> none, data |-> disk.data, keyOff |-> disk.keyOff,
                   dataOff |-> disk.dataOff, raw |-> disk.raw]
      BY <1>1, <2>2 DEF SfoFiles
    <3> QED
      BY <1>1, <2>3, <3>1 DEF SfoFiles
  <2> QED
    BY <1>6, <2>4
<1>12. CASE disk' = [disk EXCEPT !.own = FALSE, !.raw[1].keyOff = disk.dataOff]
  <2>1. [disk.raw[1] EXCEPT !.keyOff = disk.dataOff] \in RawEntries
    BY <1>2, <1>3, <1>5 DEF RawEntries
  <2>2. disk' = [disk EXCEPT !.own = FALSE, !.raw[1] = [disk.raw[1] EXCEPT !.keyOff = disk.dataOff]]
    BY <1>1, <1>2, <1>12 DEF SfoFiles
  <2> QED
    BY <1>7, <2>1, <2>2
<1>13. CASE disk' = [disk EXCEPT !.own = FALSE, !.raw[1].dataOff = disk.size]
  <2>1. [disk.raw[1] EXCEPT !.dataOff = disk.size] \in RawEntries
    BY <1>2, <1>3, <1>5 DEF RawEntries
  <2>2. disk' = [disk EXCEPT !.own = FALSE, !.raw[1] = [disk.raw[1] EXCEPT !.dataOff = disk.size]]
    BY <1>1, <1>2, <1>13 DEF SfoFiles
  <2> QED
    BY <1>7, <2>1, <2>2
<1>14. CASE disk' = [disk EXCEPT !.own = FALSE, !.raw[1].len = 3]
  <2>1. [disk.raw[1] EXCEPT !.len = 3] \in RawEntries
    BY <1>2, <1>3, <1>5 DEF RawEntries
  <2>2. disk' = [disk EXCEPT !.own = FALSE, !.raw[1] = [disk.raw[1] EXCEPT !.len = 3]]
    BY <1>1, <1>2, <1>14 DEF SfoFiles
  <2> QED
    BY <1>7, <2>1, <2>2
<1>15. CASE disk' = [disk EXCEPT !.own = FALSE, !.raw[1].fmt = "Unknown"]
  <2>1. [disk.raw[1] EXCEPT !.fmt = "Unknown"] \in RawEntries
    BY <1>2, <1>3, <1>5 DEF RawEntries
  <2>2. disk' = [disk EXCEPT !.own = FALSE, !.raw[1] = [disk.raw[1] EXCEPT !.fmt = "Unknown"]]
    BY <1>1, <1>2, <1>15 DEF SfoFiles
  <2> QED
    BY <1>7, <2>1, <2>2
<1>16. CASE disk' = [disk EXCEPT !.own = FALSE, !.raw[1].max = 0]
  <2>1. [disk.raw[1] EXCEPT !.max = 0] \in RawEntries
    BY <1>2, <1>3, <1>5 DEF RawEntries
  <2>2. disk' = [disk EXCEPT !.own = FALSE, !.raw[1] = [disk.raw[1] EXCEPT !.max = 0]]
    BY <1>1, <1>2, <1>16 DEF SfoFiles
  <2> QED
    BY <1>7, <2>1, <2>2
<1> QED
  BY <1>8, <1>9, <1>10, <1>11, <1>12, <1>13, <1>14, <1>15, <1>16 DEF Foreign

LEMMA PsfStepInv == PsfInv /\ [PsfNext]_psfVars => PsfInv'
<1>1. PsfInv /\ UNCHANGED psfVars => PsfInv'
  BY DEF psfVars, PsfInv
<1> QED
  BY <1>1, AddKeepsSfo, EncodeKeepsSfo, OpenKeepsSfo, ForeignKeepsSfo DEF PsfNext

\* Whatever happened before, the lists are lists of entries and a file that Encode
\* left is a part of the list it was made of (psf.cpp:161-253).
THEOREM PsfInvariant == PsfSpec => []PsfInv
<1> QED
  BY PsfInitInv, PsfStepInv, PTL DEF PsfSpec

\* One call of Open of a file that Encode left.
LEMMA OpenStep ==
  ASSUME PsfInv, OpenPsf, disk.own
  PROVE  /\ answer' = "yes" => /\ Contents(psf') = Contents(stored)
                               /\ NamesFit(stored) => psf' = stored
         /\ disk = Encoded(stored) => answer' = Answer(stored # <<>>)
<1>1. stored \in Seq(PsfEntries) /\ disk \in SfoFiles \cup {Nowhere}
  BY DEF PsfInv
<1>2. PICK n \in Nat : n = Len(stored)
  BY <1>1
<1>3. disk.size \in Int
  BY <1>1 DEF SfoFiles, Nowhere
<1>4. disk.size < Header \/ disk.size >= Header
  BY <1>3 DEF Header
<1>5. ASSUME disk.size >= Header
      PROVE  Whole(stored) /\ \E c \in Nat : disk = Cut(stored, c)
  BY <1>5 DEF PsfInv, Nowhere, Header
<1>6. Answer(FALSE) = "no" /\ Answer(TRUE) = "yes"
  BY DEF Answer
<1>7. ASSUME answer' = "yes"
      PROVE  Contents(psf') = Contents(stored) /\ (NamesFit(stored) => psf' = stored)
  <2>1. /\ disk.size >= Header
        /\ \E tails \in [DOMAIN disk.raw -> PsfKeys] :
             answer' = Answer(Parse(disk, tails).ok) /\ psf' = Parse(disk, tails).es
    BY <1>4, <1>7 DEF OpenPsf
  <2>2. PICK tails \in [DOMAIN disk.raw -> PsfKeys] :
          answer' = Answer(Parse(disk, tails).ok) /\ psf' = Parse(disk, tails).es
    BY <2>1
  <2>3. PICK c \in Nat : disk = Cut(stored, c)
    BY <1>5, <2>1
  <2>4. Parse(disk, tails).ok
    BY <1>7, <2>2 DEF Answer
  <2>5. /\ Contents(Parse(disk, tails).es) = Contents(stored)
        /\ NamesFit(stored) => Parse(disk, tails).es = stored
    BY <1>1, <1>5, <2>1, <2>3, <2>4, CutParsed
  <2>6. PICK got : got = psf'
    OBVIOUS
  <2>7. Contents(got) = Contents(stored) /\ (NamesFit(stored) => got = stored)
    BY <2>2, <2>5, <2>6
  <2> QED
    BY <2>6, <2>7 DEF Contents
<1>8. ASSUME disk = Encoded(stored) PROVE answer' = Answer(stored # <<>>)
  <2>1. disk.size = DataEnds(stored)[n] /\ Header <= disk.size /\ disk.size \in Nat
    BY <1>1, <1>2, <1>8, WholeIsCut
  <2>2. disk.size >= Header /\ ~(disk.size < Header)
    BY <2>1 DEF Header
  <2>3. PICK c \in Nat : disk = Cut(stored, c)
    BY <1>5, <2>2
  <2>4. /\ disk.size = c /\ disk.magic /\ disk.version /\ disk.keyOff = KeyEnds(stored)[0]
        /\ disk.dataOff = DataEnds(stored)[0] /\ DOMAIN disk.raw = DOMAIN stored
    BY <2>3, EncodedIs
  <2>5. disk.raw \in Seq(RawEntries)
    BY <1>1, <2>2 DEF SfoFiles, Nowhere, Header
  <2>6. Len(disk.raw) = n
    BY <1>1, <1>2, <2>4, <2>5
  <2>7. /\ Header + RawEntry * n <= KeyEnds(stored)[0] /\ KeyEnds(stored)[0] \in Nat
        /\ DataEnds(stored)[0] \in Nat /\ DataEnds(stored)[0] <= disk.size
        /\ n = 0 => KeyEnds(stored)[0] = disk.size
        /\ n # 0 => KeyEnds(stored)[0] < DataEnds(stored)[0]
    BY <1>1, <1>2, <2>1, WholeIsCut
  <2>8. CASE stored = <<>>
    <3>1. ~(disk.keyOff < disk.size)
      BY <1>2, <2>1, <2>4, <2>7, <2>8
    <3>2. ~Sound(disk)
      BY <3>1 DEF Sound
    <3>3. answer' = "no"
      BY <2>2, <3>2 DEF OpenPsf
    <3> QED
      BY <1>6, <2>8, <3>3
  <2>9. CASE stored # <<>>
    <3>1. n # 0
      BY <1>1, <1>2, <2>9
    <3>2. PICK room \in Int : room = Header + RawEntry * n
      BY DEF Header, RawEntry
    <3>3. /\ room <= disk.size /\ disk.keyOff < disk.size /\ disk.dataOff <= disk.size
          /\ disk.keyOff <= disk.dataOff
      BY <2>1, <2>4, <2>7, <3>1, <3>2
    <3>4. Sound(disk)
      BY <2>4, <2>6, <3>2, <3>3 DEF Sound
    <3>5. PICK tails \in [DOMAIN disk.raw -> PsfKeys] : answer' = Answer(Parse(disk, tails).ok)
      BY <2>2, <3>4 DEF OpenPsf
    <3>6. Parse(disk, tails).ok
      BY <1>1, <1>2, <1>5, <2>1, <2>2, <2>3, <2>4, CutParsed
    <3>7. answer' = "yes"
      BY <3>5, <3>6 DEF Answer
    <3> QED
      BY <1>6, <2>9, <3>7
  <2> QED
    BY <2>8, <2>9
<1> QED
  BY <1>7, <1>8

\* Open gives back the contents that Encode wrote, or refuses, for any keys and
\* values, any list of entries, any width of a key's place and wherever the file was
\* cut off; under their keys when the names fit in that width (psf.cpp:51-165,
\* 191-253, psf.h:29).
THEOREM EncodedTheorem == PsfSpec => OpenFindsTheEncoded
<1>1. PsfInv /\ [PsfNext]_psfVars =>
        [OpenPsf /\ disk.own =>
           /\ answer' = "yes" =>
                /\ Contents(psf') = Contents(stored)
                /\ NamesFit(stored) =>
                     \A key \in PsfKeys, fmt \in Formats : ValueUnder(psf', key, fmt) = ValueUnder(stored, key, fmt)
           /\ disk = Encoded(stored) => answer' = Answer(stored # <<>>)]_psfVars
  BY OpenStep
<1> QED
  BY <1>1, PsfInvariant, PTL DEF PsfSpec, OpenFindsTheEncoded

(***************************************************************************)
(* LockRange.                                                               *)
(***************************************************************************)
\* What a call of LockRange can be.
Calls == [begin : Nat, next : Nat, first : BOOLEAN,
          place : {"top", "wait", "guarded", "try", "drop", "return"},
          from : Nat, k : Nat, upto : Nat, todo : Seq(Nat)]

\* The locks of a thread.
HeldBy(t) == {l \in RangeLocks : owner[l] = t}

\* The places in its range of the locks that a call at work has.
Indices(t, c) ==
  CASE c.place = "guarded" -> c.next .. End(t) - 1
    [] c.place = "return" -> c.begin .. End(t) - 1
    [] c.place = "try" -> {c.begin} \cup (c.from .. c.k - 1)
                            \cup (IF c.first THEN {} ELSE c.next .. End(t) - 1)
    [] c.place = "drop" -> Range(c.todo)
    [] OTHER -> {}

\* Different places of these stand for different locks.
Apart(t, I) == \A i, k \in I : LockAt(t, i) = LockAt(t, k) => i = k

\* Where the places of a call stand in its range.
CallOK(t, c) ==
  /\ c.begin \in 1 .. End(t)
  /\ c.first => c.next = c.begin + 1
  /\ ~c.first => c.next \in c.begin + 1 .. End(t) - 1
  /\ c.place = "guarded" => ~c.first
  /\ c.place = "wait" => c.first
  /\ c.place \in {"wait", "try"} => c.begin < End(t)
  /\ c.place = "try" => /\ c.from = c.begin + 1 /\ c.k \in c.from .. c.upto
                        /\ c.upto = IF c.first THEN End(t) ELSE c.next
  /\ c.place = "drop" => /\ \A i, k \in DOMAIN c.todo : c.todo[i] = c.todo[k] => i = k
                         /\ Range(c.todo) \subseteq 1 .. End(t) - 1

\* The calls of a thread: all but the innermost wait for their guard, which is a
\* call for the rest of their range.
Stack(t) ==
  /\ \A i \in 1 .. Len(calls[t]) : CallOK(t, calls[t][i])
  /\ \A i \in 1 .. Len(calls[t]) - 1 :
       calls[t][i].place = "guarded" /\ calls[t][i + 1].begin = calls[t][i].next
  /\ calls[t] # <<>> => calls[t][1].begin = 1

\* What a thread has is what its innermost call has, and each of it once.
Holds(t) ==
  /\ calls[t] = <<>> => HeldBy(t) \in {{}, Range(Ranges[t])}
  /\ calls[t] # <<>> => /\ HeldBy(t) = {LockAt(t, k) : k \in Indices(t, Top(t))}
                        /\ Apart(t, Indices(t, Top(t)))

\* The types.
RangeTyped ==
  /\ owner \in [RangeLocks -> Lockers \cup {Free}]
  /\ calls \in [Lockers -> Seq(Calls)]

\* The inductive invariant.  The property speaks of a thread that waits or leaves;
\* what is held on the way there is known by the place of the innermost call alone,
\* since a call waits only with what its guard has.
RangeInv == RangeTyped /\ \A t \in Lockers : Stack(t) /\ Holds(t)

-----------------------------------------------------------------------------
\* A sequence whose last element is put in again, or another put after it.
LEMMA LastReplaced ==
  ASSUME NEW S, NEW s \in Seq(S), s # <<>>, NEW c \in S
  PROVE  /\ Front(s) \in Seq(S) /\ Len(Front(s)) = Len(s) - 1
         /\ \A i \in 1 .. Len(s) - 1 : Front(s)[i] = s[i]
         /\ Append(Front(s), c) \in Seq(S) /\ Append(Front(s), c) # <<>>
         /\ Len(Append(Front(s), c)) = Len(s)
         /\ \A i \in 1 .. Len(s) - 1 : Append(Front(s), c)[i] = s[i]
         /\ Append(Front(s), c)[Len(s)] = c
<1>1. Len(s) \in Nat \ {0} /\ \A i \in 1 .. Len(s) : s[i] \in S
  BY EmptySeq, LenProperties, ElementOfSeq
<1> DEFINE n == Len(s) - 1
<1>2. n \in Nat /\ \A i \in 1 .. n : s[i] \in S
  BY <1>1
<1>3. /\ SubSeq(s, 1, n) \in Seq(S)
      /\ Len(SubSeq(s, 1, n)) = IF 1 <= n THEN n - 1 + 1 ELSE 0
      /\ \A i \in 1 .. n - 1 + 1 : SubSeq(s, 1, n)[i] = s[1 + i - 1]
  <2> HIDE DEF n
  <2> QED
    BY <1>2, SubSeqProperties
<1>4. Front(s) \in Seq(S) /\ Len(Front(s)) = n /\ \A i \in 1 .. n : Front(s)[i] = s[i]
  <2>1. \A i \in 1 .. n : 1 + i - 1 = i /\ i \in 1 .. n - 1 + 1
    BY <1>2
  <2>2. (IF 1 <= n THEN n - 1 + 1 ELSE 0) = n
    <3>1. n \in Nat
      BY <1>2
    <3> HIDE DEF n
    <3> QED
      BY <3>1
  <2> HIDE DEF n
  <2> QED
    BY <1>3, <2>1, <2>2 DEF Front, n
<1> HIDE DEF n
<1>5. /\ Append(Front(s), c) \in Seq(S) /\ Append(Front(s), c) # <<>>
      /\ Len(Append(Front(s), c)) = n + 1
      /\ \A i \in 1 .. n : Append(Front(s), c)[i] = Front(s)[i]
      /\ Append(Front(s), c)[n + 1] = c
  BY <1>4, AppendProperties
<1>6. n + 1 = Len(s) /\ n = Len(s) - 1
  BY <1>1 DEF n
<1> QED
  BY <1>4, <1>5, <1>6

\* The locks of one thread are no other's.
LEMMA LockTaken ==
  ASSUME RangeTyped, NEW t \in Lockers, NEW l \in RangeLocks, owner[l] = Free,
         owner' = [owner EXCEPT ![l] = t]
  PROVE  /\ owner' \in [RangeLocks -> Lockers \cup {Free}]
         /\ l \notin HeldBy(t) /\ HeldBy(t)' = HeldBy(t) \cup {l}
         /\ \A u \in Lockers \ {t} : HeldBy(u)' = HeldBy(u)
BY RangeAssumption DEF RangeTyped, HeldBy

LEMMA LockGivenUp ==
  ASSUME RangeTyped, NEW t \in Lockers, NEW l \in HeldBy(t), owner' = [owner EXCEPT ![l] = Free]
  PROVE  /\ owner' \in [RangeLocks -> Lockers \cup {Free}]
         /\ HeldBy(t)' = HeldBy(t) \ {l}
         /\ \A u \in Lockers \ {t} : HeldBy(u)' = HeldBy(u)
BY RangeAssumption DEF RangeTyped, HeldBy

LEMMA LocksStay ==
  ASSUME RangeTyped, UNCHANGED owner
  PROVE  owner' \in [RangeLocks -> Lockers \cup {Free}] /\ \A u \in Lockers : HeldBy(u)' = HeldBy(u)
BY DEF RangeTyped, HeldBy

\* A step of one thread leaves the others as they were.
LEMMA OneThread ==
  ASSUME RangeInv, NEW t \in Lockers, RangeTyped',
         \A u \in Lockers \ {t} : calls'[u] = calls[u] /\ HeldBy(u)' = HeldBy(u),
         Stack(t)', Holds(t)'
  PROVE  RangeInv'
<1>1. ASSUME NEW u \in Lockers \ {t}
      PROVE  Stack(u)' /\ Holds(u)'
  <2>1. Stack(u) /\ Holds(u) /\ calls'[u] = calls[u] /\ HeldBy(u)' = HeldBy(u)
    BY DEF RangeInv
  <2> QED
    BY <2>1 DEF Stack, Holds, Top
<1> QED
  BY <1>1 DEF RangeInv

\* What is known of the call at work.
LEMMA TopCall ==
  ASSUME RangeInv, NEW t \in Lockers, calls[t] # <<>>
  PROVE  /\ Top(t) \in Calls /\ CallOK(t, Top(t))
         /\ HeldBy(t) = {LockAt(t, k) : k \in Indices(t, Top(t))}
         /\ Apart(t, Indices(t, Top(t)))
         /\ Len(calls[t]) \in Nat \ {0} /\ Top(t) = calls[t][Len(calls[t])]
<1>1. calls[t] \in Seq(Calls) /\ Stack(t) /\ Holds(t)
  BY DEF RangeInv, RangeTyped
<1>2. Len(calls[t]) \in Nat \ {0} /\ Top(t) = calls[t][Len(calls[t])]
  BY <1>1, EmptySeq DEF Top, Last
<1>3. Top(t) \in Calls
  BY <1>1, <1>2, ElementOfSeq
<1> QED
  BY <1>1, <1>2, <1>3 DEF Stack, Holds

\* The range is a sequence of locks.
LEMMA RangeOf ==
  ASSUME NEW t \in Lockers
  PROVE  /\ End(t) \in Nat \ {0}
         /\ \A k \in 1 .. End(t) - 1 : LockAt(t, k) \in RangeLocks
         /\ Range(Ranges[t]) = {LockAt(t, k) : k \in 1 .. End(t) - 1}
<1>1. Ranges[t] \in Seq(RangeLocks)
  BY RangeAssumption
<1>2. Len(Ranges[t]) \in Nat /\ \A k \in 1 .. Len(Ranges[t]) : Ranges[t][k] \in RangeLocks
  BY <1>1, LenProperties, ElementOfSeq
<1>3. Range(Ranges[t]) = {Ranges[t][k] : k \in 1 .. Len(Ranges[t])}
  BY <1>1, RangeEquality
<1>4. End(t) \in Nat \ {0} /\ End(t) - 1 = Len(Ranges[t])
  BY <1>2 DEF End
<1> QED
  BY <1>2, <1>3, <1>4 DEF LockAt

\* The call at work goes on to c, with the locks of c.
LEMMA CallReplaced ==
  ASSUME RangeInv, NEW t \in Lockers, calls[t] # <<>>, NEW c \in Calls,
         CallOK(t, c), c.begin = Top(t).begin, Replace(t, c),
         owner' \in [RangeLocks -> Lockers \cup {Free}],
         \A u \in Lockers \ {t} : HeldBy(u)' = HeldBy(u),
         HeldBy(t)' = {LockAt(t, k) : k \in Indices(t, c)}, Apart(t, Indices(t, c))
  PROVE  RangeInv'
<1>1. calls[t] \in Seq(Calls) /\ Stack(t) /\ calls \in [Lockers -> Seq(Calls)]
  BY DEF RangeInv, RangeTyped
<1> DEFINE s == calls[t]
           r == Append(Front(s), c)
<1>2. /\ r \in Seq(Calls) /\ r # <<>> /\ Len(r) = Len(s)
      /\ \A i \in 1 .. Len(s) - 1 : r[i] = s[i]
      /\ r[Len(s)] = c /\ Len(s) \in Nat \ {0} /\ Top(t) = s[Len(s)]
  BY <1>1, LastReplaced, TopCall
<1>3. calls' = [calls EXCEPT ![t] = r]
  BY DEF Replace
<1> HIDE DEF r
<1>4. calls' \in [Lockers -> Seq(Calls)] /\ calls'[t] = r /\ \A u \in Lockers \ {t} : calls'[u] = calls[u]
  BY <1>1, <1>2, <1>3
<1>5. Top(t)' = c
  BY <1>2, <1>4 DEF Top, Last
<1>6. Stack(t)'
  <2>1. \A i \in 1 .. Len(r) : CallOK(t, r[i])
    BY <1>1, <1>2 DEF Stack
  <2>2. ASSUME NEW i \in 1 .. Len(r) - 1
        PROVE  r[i].place = "guarded" /\ r[i + 1].begin = r[i].next
    <3>1. s[i].place = "guarded" /\ s[i + 1].begin = s[i].next /\ r[i] = s[i]
      BY <1>1, <1>2 DEF Stack
    <3>2. i + 1 = Len(s) \/ i + 1 \in 1 .. Len(s) - 1
      BY <1>2
    <3> QED
      BY <1>2, <3>1, <3>2
  <2>3. r[1].begin = 1
    <3>1. s[1].begin = 1
      BY <1>1 DEF Stack
    <3>2. PICK n \in Nat \ {0} : n = Len(s)
      BY <1>2
    <3>3. CASE n = 1
      BY <1>2, <3>1, <3>2, <3>3
    <3>4. CASE n # 1
      <4>1. 1 \in 1 .. n - 1
        BY <3>4
      <4> QED
        BY <1>2, <3>1, <3>2, <4>1
    <3> QED
      BY <3>3, <3>4
  <2> QED
    BY <1>4, <2>1, <2>2, <2>3 DEF Stack
<1>7. Holds(t)'
  BY <1>2, <1>4, <1>5 DEF Holds
<1> QED
  BY <1>4, <1>6, <1>7, OneThread DEF RangeTyped

-----------------------------------------------------------------------------
\* A call for the locks from a place of the range on.
LEMMA NewCall ==
  ASSUME NEW t \in Lockers, NEW b \in 1 .. End(t)
  PROVE  /\ CallOf(b) \in Calls /\ CallOK(t, CallOf(b)) /\ CallOf(b).begin = b
         /\ Indices(t, CallOf(b)) = {}
<1>1. b \in Nat /\ b + 1 \in Nat /\ <<>> \in Seq(Nat)
  BY RangeOf
<1> QED
  BY <1>1 DEF CallOf, Calls, CallOK, Indices

\* A call that only moves on to another place keeps its range.
LEMMA PlaceSet ==
  ASSUME NEW t \in Lockers, NEW c \in Calls, CallOK(t, c), NEW p \in {"wait", "guarded", "return"},
         p = "guarded" => ~c.first, p = "wait" => c.first /\ c.begin < End(t)
  PROVE  LET d == [c EXCEPT !.place = p]
         IN /\ d \in Calls /\ CallOK(t, d)
            /\ d.begin = c.begin /\ d.next = c.next /\ d.place = p
<1>1. PICK d : d = [c EXCEPT !.place = p]
  OBVIOUS
<1>2. /\ d.begin = c.begin /\ d.next = c.next /\ d.first = c.first /\ d.place = p
      /\ d.from = c.from /\ d.k = c.k /\ d.upto = c.upto /\ d.todo = c.todo
  BY <1>1 DEF Calls
<1>3. d \in Calls
  BY <1>1 DEF Calls
<1>4. CallOK(t, d)
  <2>1. /\ c.begin \in 1 .. End(t) /\ (c.first => c.next = c.begin + 1)
        /\ (~c.first => c.next \in c.begin + 1 .. End(t) - 1)
    BY DEF CallOK
  <2> QED
    BY <1>2, <2>1 DEF CallOK
<1> QED
  BY <1>1, <1>2, <1>3, <1>4

\* The steps, one by one.
LEMMA LockRangeStep ==
  ASSUME RangeInv, NEW t \in Lockers, LockRange(t)
  PROVE  RangeInv'
<1>1. /\ calls[t] = <<>> /\ calls' = [calls EXCEPT ![t] = <<CallOf(1)>>]
      /\ RangeTyped /\ HeldBy(t) = {}
  BY DEF LockRange, RangeInv, HeldBy
<1>2. 1 \in 1 .. End(t)
  BY RangeOf
<1>3. CallOf(1) \in Calls /\ CallOK(t, CallOf(1)) /\ CallOf(1).begin = 1
      /\ Indices(t, CallOf(1)) = {}
  BY <1>2, NewCall
<1> DEFINE r == <<CallOf(1)>>
<1>4. r \in Seq(Calls) /\ Len(r) = 1 /\ r[1] = CallOf(1) /\ r # <<>>
  BY <1>3
<1> HIDE DEF r
<1>5. calls' \in [Lockers -> Seq(Calls)] /\ calls'[t] = r /\ \A u \in Lockers \ {t} : calls'[u] = calls[u]
  BY <1>1, <1>4 DEF RangeTyped, r
<1>6. owner' \in [RangeLocks -> Lockers \cup {Free}] /\ \A u \in Lockers : HeldBy(u)' = HeldBy(u)
  BY <1>1, LocksStay DEF LockRange
<1>7. Top(t)' = CallOf(1)
  BY <1>4, <1>5 DEF Top, Last
<1>8. Stack(t)'
  <2>1. \A i \in 1 .. Len(r) : r[i] = CallOf(1)
    BY <1>4
  <2>2. 1 .. Len(r) - 1 = {}
    BY <1>4
  <2> QED
    BY <1>3, <1>4, <1>5, <2>1, <2>2 DEF Stack
<1>9. Holds(t)'
  BY <1>1, <1>3, <1>4, <1>5, <1>6, <1>7 DEF Holds, Apart
<1> QED
  BY <1>5, <1>6, <1>8, <1>9, OneThread DEF RangeTyped

LEMMA ReleaseStep ==
  ASSUME RangeInv, NEW t \in Lockers, Release(t)
  PROVE  RangeInv'
<1>1. calls[t] = <<>> /\ UNCHANGED calls /\ RangeTyped /\ Stack(t)
  BY DEF Release, RangeInv
<1>2. owner' = [l \in RangeLocks |-> IF owner[l] = t THEN Free ELSE owner[l]]
  BY DEF Release
<1>3. owner' \in [RangeLocks -> Lockers \cup {Free}]
  BY <1>1, <1>2 DEF RangeTyped
<1>4. HeldBy(t)' = {} /\ \A u \in Lockers \ {t} : HeldBy(u)' = HeldBy(u)
  BY <1>1, <1>2, RangeAssumption DEF RangeTyped, HeldBy
<1>5. Stack(t)' /\ Holds(t)'
  BY <1>1, <1>4 DEF Stack, Holds
<1> QED
  BY <1>1, <1>3, <1>4, <1>5, OneThread DEF RangeTyped

LEMMA TurnStep ==
  ASSUME RangeInv, NEW t \in Lockers, calls[t] # <<>>, Turn(t)
  PROVE  RangeInv'
<1> DEFINE c == Top(t)
<1>1. /\ c \in Calls /\ CallOK(t, c) /\ c.place = "top"
      /\ HeldBy(t) = {LockAt(t, k) : k \in Indices(t, c)} /\ End(t) \in Nat \ {0}
  BY TopCall, RangeOf DEF Turn
<1>2. HeldBy(t) = {}
  BY <1>1 DEF Indices
<1>3. RangeTyped /\ owner' \in [RangeLocks -> Lockers \cup {Free}] /\ \A u \in Lockers : HeldBy(u)' = HeldBy(u)
  BY LocksStay DEF RangeInv, Turn
<1>4. CASE c.begin = End(t) /\ Replace(t, [c EXCEPT !.place = "return"])
  <2> DEFINE d == [c EXCEPT !.place = "return"]
  <2>1. d \in Calls /\ CallOK(t, d) /\ d.begin = c.begin /\ d.place = "return"
    BY <1>1, PlaceSet
  <2>2. Indices(t, d) = {}
    BY <1>1, <1>4, <2>1 DEF Indices
  <2> HIDE DEF d
  <2>3. Apart(t, Indices(t, d)) /\ {LockAt(t, k) : k \in Indices(t, d)} = {}
    BY <2>2 DEF Apart
  <2> QED
    BY <1>2, <1>3, <1>4, <2>1, <2>3, CallReplaced DEF d
<1>5. CASE c.begin # End(t) /\ c.first /\ Replace(t, [c EXCEPT !.place = "wait"])
  <2> DEFINE d == [c EXCEPT !.place = "wait"]
  <2>0. c.begin < End(t)
    BY <1>1, <1>5 DEF CallOK
  <2>1. d \in Calls /\ CallOK(t, d) /\ d.begin = c.begin /\ d.place = "wait"
    BY <1>1, <1>5, <2>0, PlaceSet
  <2>2. Indices(t, d) = {}
    BY <2>1 DEF Indices
  <2> HIDE DEF d
  <2>3. Apart(t, Indices(t, d)) /\ {LockAt(t, k) : k \in Indices(t, d)} = {}
    BY <2>2 DEF Apart
  <2> QED
    BY <1>2, <1>3, <1>5, <2>1, <2>3, CallReplaced DEF d
<1>6. CASE c.begin # End(t) /\ ~c.first
  <2> DEFINE g == [c EXCEPT !.place = "guarded"]
             f == Append(Front(calls[t]), g)
             r == Append(f, CallOf(c.next))
             s == calls[t]
  <2>1. g \in Calls /\ CallOK(t, g) /\ g.begin = c.begin /\ g.next = c.next /\ g.place = "guarded"
    BY <1>1, <1>6, PlaceSet
  <2>2. c.next \in 1 .. End(t)
    BY <1>1, <1>6 DEF Calls, CallOK
  <2>3. CallOf(c.next) \in Calls /\ CallOK(t, CallOf(c.next)) /\ CallOf(c.next).begin = c.next
        /\ Indices(t, CallOf(c.next)) = {}
    BY <2>2, NewCall
  <2>4. s \in Seq(Calls) /\ Stack(t) /\ Len(s) \in Nat \ {0} /\ c = s[Len(s)]
    BY <1>3, TopCall DEF RangeInv, RangeTyped
  <2> HIDE DEF g
  <2>5. /\ f \in Seq(Calls) /\ Len(f) = Len(s) /\ f[Len(s)] = g
        /\ \A i \in 1 .. Len(s) - 1 : f[i] = s[i]
    BY <2>1, <2>4, LastReplaced
  <2> HIDE DEF f
  <2>6. /\ r \in Seq(Calls) /\ Len(r) = Len(s) + 1 /\ r # <<>>
        /\ \A i \in 1 .. Len(s) : r[i] = f[i]
        /\ r[Len(s) + 1] = CallOf(c.next)
    BY <2>3, <2>5, AppendProperties
  <2>7. calls' = [calls EXCEPT ![t] = r]
    BY <1>6 DEF Turn, f, g
  <2> HIDE DEF r
  <2>8. calls' \in [Lockers -> Seq(Calls)] /\ calls'[t] = r /\ \A u \in Lockers \ {t} : calls'[u] = calls[u]
    BY <1>3, <2>6, <2>7 DEF RangeTyped
  <2>9. Top(t)' = CallOf(c.next)
    BY <2>6, <2>8 DEF Top, Last
  <2>10. Stack(t)'
    <3>0. PICK n \in Nat \ {0} : n = Len(s) /\ Len(r) = n + 1
      BY <2>4, <2>6
    <3>1. ASSUME NEW i \in 1 .. Len(r) PROVE CallOK(t, r[i])
      <4>1. i = n + 1 \/ i = n \/ i \in 1 .. n - 1
        BY <3>0
      <4>2. CASE i = n + 1
        BY <2>3, <2>6, <3>0, <4>2
      <4>3. CASE i = n
        <5>1. r[i] = g
          BY <2>5, <2>6, <3>0, <4>3
        <5> QED
          BY <2>1, <5>1
      <4>4. CASE i \in 1 .. n - 1
        <5>1. r[i] = s[i] /\ i \in 1 .. Len(s)
          BY <2>5, <2>6, <3>0, <4>4
        <5> QED
          BY <2>4, <5>1 DEF Stack
      <4> QED
        BY <4>1, <4>2, <4>3, <4>4
    <3>2. ASSUME NEW i \in 1 .. Len(r) - 1
          PROVE  r[i].place = "guarded" /\ r[i + 1].begin = r[i].next
      <4>1. CASE i = n
        <5>1. r[i] = g /\ r[i + 1] = CallOf(c.next)
          BY <2>5, <2>6, <3>0, <4>1
        <5> QED
          BY <2>1, <2>3, <5>1
      <4>2. CASE i \in 1 .. n - 1
        <5>1. s[i].place = "guarded" /\ s[i + 1].begin = s[i].next
          BY <2>4, <3>0, <4>2 DEF Stack
        <5>2. r[i] = s[i]
          BY <2>5, <2>6, <3>0, <4>2
        <5>3. CASE i + 1 = n
          <6>1. r[i + 1] = g /\ s[i + 1] = c
            BY <2>4, <2>5, <2>6, <3>0, <5>3
          <6> QED
            BY <2>1, <5>1, <5>2, <6>1
        <5>4. CASE i + 1 \in 1 .. n - 1
          <6>1. r[i + 1] = s[i + 1]
            <7>1. f[i + 1] = s[i + 1]
              BY <2>5, <3>0, <5>4
            <7>2. i + 1 \in 1 .. n
              BY <5>4
            <7> QED
              BY <2>6, <3>0, <7>1, <7>2
          <6> QED
            BY <5>1, <5>2, <6>1
        <5> QED
          BY <4>2, <5>3, <5>4
      <4> QED
        BY <3>0, <4>1, <4>2
    <3>3. r[1].begin = 1
      <4>1. s[1].begin = 1
        BY <2>4 DEF Stack
      <4>2. CASE n = 1
        <5>1. r[1] = g /\ s[1] = c
          BY <2>4, <2>5, <2>6, <3>0, <4>2
        <5> QED
          BY <2>1, <4>1, <5>1
      <4>3. CASE n # 1
        <5>1. 1 \in 1 .. n - 1 /\ 1 \in 1 .. n
          BY <4>3
        <5>2. r[1] = s[1]
          BY <2>5, <2>6, <3>0, <5>1
        <5> QED
          BY <4>1, <5>2
      <4> QED
        BY <4>2, <4>3
    <3> QED
      BY <2>8, <3>1, <3>2, <3>3 DEF Stack
  <2>11. Holds(t)'
    BY <1>2, <1>3, <2>3, <2>6, <2>8, <2>9 DEF Holds, Apart
  <2> QED
    BY <1>3, <2>8, <2>10, <2>11, OneThread DEF RangeTyped
<1> QED
  BY <1>4, <1>5, <1>6 DEF Turn

-----------------------------------------------------------------------------
\* Neighbouring places, upwards and downwards.
LEMMA UpsAre ==
  ASSUME NEW a \in Nat, NEW b \in Nat, a <= b
  PROVE  /\ Ups(a, b) \in Seq(Nat) /\ Len(Ups(a, b)) = b - a
         /\ \A i \in 1 .. b - a : Ups(a, b)[i] = a + i - 1
<1> DEFINE n == b - a
           u == [i \in 1 .. n |-> a + i - 1]
<1>1. n \in Nat
  OBVIOUS
<1>2. u = Ups(a, b)
  BY DEF Ups
<1>3. u \in [1 .. n -> Nat]
  BY <1>1
<1>4. \A i \in 1 .. n : u[i] = a + i - 1
  OBVIOUS
<1> HIDE DEF u
<1>5. u \in Seq(Nat) /\ Len(u) = n
  <2>1. u \in Seq(Nat)
    BY <1>1, <1>3, SeqDef
  <2>2. DOMAIN u = 1 .. n /\ DOMAIN u = 1 .. Len(u) /\ Len(u) \in Nat
    BY <1>3, <2>1, LenProperties
  <2> HIDE DEF n
  <2> QED
    BY <1>1, <2>1, <2>2
<1> QED
  BY <1>2, <1>4, <1>5

LEMMA ReverseIs ==
  ASSUME NEW u \in Seq(Nat)
  PROVE  /\ Reverse(u) \in Seq(Nat) /\ Len(Reverse(u)) = Len(u)
         /\ \A i \in 1 .. Len(u) : Reverse(u)[i] = u[Len(u) - i + 1]
<1> DEFINE n == Len(u)
           v == [i \in 1 .. n |-> u[(n - i) + 1]]
<1>1. n \in Nat /\ \A i \in 1 .. n : u[i] \in Nat
  BY LenProperties, ElementOfSeq
<1>2. v = Reverse(u)
  BY DEF Reverse
<1> HIDE DEF n
<1>3. v \in [1 .. n -> Nat] /\ \A i \in 1 .. n : v[i] = u[n - i + 1]
  <2>1. \A i \in 1 .. n : (n - i) + 1 \in 1 .. n /\ (n - i) + 1 = n - i + 1
    BY <1>1
  <2> QED
    BY <1>1, <2>1
<1> HIDE DEF v
<1>4. v \in Seq(Nat) /\ Len(v) = n
  <2>1. v \in Seq(Nat)
    BY <1>1, <1>3, SeqDef
  <2>2. DOMAIN v = 1 .. n /\ DOMAIN v = 1 .. Len(v) /\ Len(v) \in Nat
    BY <1>3, <2>1, LenProperties
  <2> QED
    BY <1>1, <2>1, <2>2
<1> QED
  BY <1>2, <1>3, <1>4 DEF n

\* The locks given up after a failed attempt are those that the call has, each once.
LEMMA GivenUpAre ==
  ASSUME NEW t \in Lockers, NEW c \in Calls, CallOK(t, c), c.place = "try"
  PROVE  /\ GivenUp(t, c) \in Seq(Nat) /\ Range(GivenUp(t, c)) = Indices(t, c)
         /\ \A i, k \in DOMAIN GivenUp(t, c) : GivenUp(t, c)[i] = GivenUp(t, c)[k] => i = k
         /\ Indices(t, c) \subseteq 1 .. End(t) - 1
<1> DEFINE N == End(t)
           A == Reverse(Ups(c.from, c.k))
           m == IF c.first THEN N ELSE c.next
           B == IF c.first THEN <<>> ELSE Ups(c.next, N)
           C == <<c.begin>>
           G == GivenUp(t, c)
           x == c.k - c.from
           y == N - m
           z == c.begin
           k == c.k
<1>1. /\ N \in Nat /\ k \in Nat /\ z \in Nat /\ m \in Nat /\ z >= 1
      /\ c.from = z + 1 /\ z + 1 <= k /\ k <= m /\ m <= N /\ x = k - (z + 1)
  BY RangeOf DEF Calls, CallOK
<1>2. Indices(t, c) = {z} \cup (z + 1 .. k - 1) \cup (m .. N - 1)
  <2>1. c.first => N .. N - 1 = {}
    BY <1>1
  <2> QED
    BY <1>1, <2>1 DEF Indices
<1>3. A \in Seq(Nat) /\ Len(A) = x /\ \A i \in 1 .. x : A[i] = k - i
  <2> DEFINE u == Ups(c.from, c.k)
  <2>1. u \in Seq(Nat) /\ Len(u) = x /\ \A i \in 1 .. x : u[i] = c.from + i - 1
    <3>1. c.from \in Nat /\ c.k \in Nat /\ c.from <= c.k
      BY <1>1
    <3> QED
      BY <3>1, UpsAre
  <2>2. A \in Seq(Nat) /\ Len(A) = x /\ \A i \in 1 .. x : A[i] = u[x - i + 1]
    <3> HIDE DEF u
    <3> QED
      BY <2>1, ReverseIs DEF u
  <2>3. ASSUME NEW i \in 1 .. x PROVE A[i] = k - i
    <3>1. x - i + 1 \in 1 .. x /\ c.from + (x - i + 1) - 1 = k - i
      BY <1>1
    <3> HIDE DEF A, u, x
    <3> QED
      BY <2>1, <2>2, <3>1
  <2> QED
    BY <2>2, <2>3
<1>4. B \in Seq(Nat) /\ Len(B) = y /\ \A i \in 1 .. y : B[i] = m + i - 1
  <2>1. CASE c.first
    BY <1>1, <2>1
  <2>2. CASE ~c.first
    BY <1>1, <2>2, UpsAre
  <2> QED
    BY <2>1, <2>2
<1>5. C \in Seq(Nat) /\ Len(C) = 1 /\ C[1] = z
  BY <1>1
<1>6. G = (A \o B) \o C
  BY DEF GivenUp
<1>7. x \in Nat /\ y \in Nat
  BY <1>1
<1> HIDE DEF A, B, C, G, x, y, m, k, z, N
<1> DEFINE D == A \o B
<1>8. /\ D \in Seq(Nat) /\ Len(D) = x + y
      /\ \A i \in 1 .. x + y : D[i] = IF i <= x THEN A[i] ELSE B[i - x]
  <2>1. /\ D \in Seq(Nat) /\ Len(D) = Len(A) + Len(B)
        /\ \A i \in 1 .. Len(A) + Len(B) : D[i] = IF i <= Len(A) THEN A[i] ELSE B[i - Len(A)]
    BY <1>3, <1>4, ConcatProperties
  <2>2. Len(A) = x /\ Len(B) = y
    BY <1>3, <1>4
  <2> HIDE DEF D
  <2> QED
    BY <2>1, <2>2
<1>9. G = D \o C
  BY <1>6
<1> HIDE DEF D
<1>10. /\ G \in Seq(Nat) /\ Len(G) = x + y + 1
       /\ \A i \in 1 .. x + y + 1 : G[i] = IF i <= x + y THEN D[i] ELSE C[i - (x + y)]
  <2>1. /\ G \in Seq(Nat) /\ Len(G) = Len(D) + Len(C)
        /\ \A i \in 1 .. Len(D) + Len(C) : G[i] = IF i <= Len(D) THEN D[i] ELSE C[i - Len(D)]
    BY <1>5, <1>8, <1>9, ConcatProperties
  <2>2. Len(D) + Len(C) = x + y + 1 /\ Len(D) = x + y
    BY <1>5, <1>7, <1>8
  <2> QED
    BY <2>1, <2>2
<1>11. DOMAIN G = 1 .. x + y + 1
  BY <1>10, LenProperties
<1>12. \A i \in 1 .. x : G[i] = k - i
  BY <1>3, <1>7, <1>8, <1>10
<1>13. \A i \in x + 1 .. x + y : G[i] = m + (i - x) - 1
  <2> TAKE i \in x + 1 .. x + y
  <2>1. i \in 1 .. x + y + 1 /\ i \in 1 .. x + y /\ ~(i <= x) /\ i <= x + y /\ i - x \in 1 .. y
    BY <1>7
  <2>2. G[i] = D[i] /\ D[i] = B[i - x]
    BY <1>8, <1>10, <2>1
  <2> QED
    BY <1>4, <2>1, <2>2
<1>14. G[x + y + 1] = z
  <2> DEFINE i == x + y + 1
  <2>1. i \in 1 .. x + y + 1 /\ ~(i <= x + y) /\ i - (x + y) = 1
    BY <1>7
  <2> HIDE DEF i
  <2>2. G[i] = C[i - (x + y)]
    BY <1>10, <2>1
  <2>3. G[i] = z
    BY <1>5, <2>1, <2>2
  <2> USE DEF i
  <2> QED
    BY <2>3
<1>15. x = k - (z + 1) /\ y = N - m
  BY <1>1 DEF y
<1>16. ASSUME NEW i \in 1 .. x + y + 1
       PROVE  \/ i \in 1 .. x /\ G[i] = k - i /\ G[i] \in z + 1 .. k - 1
              \/ i \in x + 1 .. x + y /\ G[i] = m + (i - x) - 1 /\ G[i] \in m .. N - 1
              \/ i = x + y + 1 /\ G[i] = z
  <2>1. i \in 1 .. x \/ i \in x + 1 .. x + y \/ i = x + y + 1
    BY <1>7
  <2>2. CASE i \in 1 .. x
    BY <1>1, <1>12, <1>15, <2>2
  <2>3. CASE i \in x + 1 .. x + y
    BY <1>1, <1>7, <1>13, <1>15, <2>3
  <2> QED
    BY <1>14, <2>1, <2>2, <2>3
<1>17. ASSUME NEW i \in DOMAIN G, NEW j \in DOMAIN G, G[i] = G[j]
       PROVE  i = j
  <2>1. G[i] \in z + 1 .. k - 1 => ~(G[i] \in m .. N - 1) /\ G[i] # z
    BY <1>1
  <2>2. G[i] \in m .. N - 1 => G[i] # z
    BY <1>1
  <2> QED
    BY <1>1, <1>7, <1>11, <1>16, <1>17, <2>1, <2>2
<1>18. \A v \in {z} \cup (z + 1 .. k - 1) \cup (m .. N - 1) : \E i \in DOMAIN G : G[i] = v
  <2> TAKE v \in {z} \cup (z + 1 .. k - 1) \cup (m .. N - 1)
  <2>1. CASE v = z
    BY <1>7, <1>11, <1>14, <2>1
  <2>2. CASE v \in z + 1 .. k - 1
    <3>1. k - v \in 1 .. x /\ k - (k - v) = v
      BY <1>1, <1>15, <2>2
    <3> QED
      BY <1>7, <1>11, <1>12, <3>1
  <2>3. CASE v \in m .. N - 1
    <3> DEFINE i == v - m + 1 + x
    <3>2. i \in x + 1 .. x + y /\ m + (i - x) - 1 = v
      BY <1>1, <1>7, <1>15, <2>3
    <3> HIDE DEF i
    <3>3. i \in 1 .. x + y + 1
      BY <1>7, <3>2
    <3> QED
      BY <1>11, <1>13, <3>2, <3>3
  <2> QED
    BY <2>1, <2>2, <2>3
<1>19. Range(G) = {z} \cup (z + 1 .. k - 1) \cup (m .. N - 1)
  <2>1. \A i \in DOMAIN G : G[i] \in {z} \cup (z + 1 .. k - 1) \cup (m .. N - 1)
    BY <1>11, <1>16
  <2> QED
    BY <1>18, <2>1 DEF Range
<1>20. {z} \cup (z + 1 .. k - 1) \cup (m .. N - 1) \subseteq 1 .. N - 1
  BY <1>1
<1> QED
  BY <1>2, <1>10, <1>17, <1>19, <1>20 DEF G, N

-----------------------------------------------------------------------------
\* One lock more.
LEMMA OneLockMore ==
  ASSUME NEW t \in Lockers, NEW I, NEW i, Apart(t, I),
         HeldBy(t) = {LockAt(t, k) : k \in I}, LockAt(t, i) \notin HeldBy(t)
  PROVE  /\ {LockAt(t, k) : k \in I \cup {i}} = HeldBy(t) \cup {LockAt(t, i)}
         /\ Apart(t, I \cup {i})
BY DEF Apart

LEMMA WaitForBeginStep ==
  ASSUME RangeInv, NEW t \in Lockers, calls[t] # <<>>, WaitForBegin(t)
  PROVE  RangeInv'
<1> DEFINE c == Top(t)
           d == [c EXCEPT !.place = "try", !.from = c.next, !.k = c.next, !.upto = End(t)]
           l == LockAt(t, c.begin)
<1>1. /\ c \in Calls /\ CallOK(t, c) /\ c.place = "wait"
      /\ HeldBy(t) = {LockAt(t, k) : k \in Indices(t, c)} /\ End(t) \in Nat \ {0}
  BY TopCall, RangeOf DEF WaitForBegin
<1>2. HeldBy(t) = {} /\ RangeTyped
  BY <1>1 DEF Indices, RangeInv
<1>3. c.begin \in 1 .. End(t) - 1 /\ c.next = c.begin + 1 /\ c.first = TRUE
  BY <1>1 DEF CallOK, Calls
<1>4. l \in RangeLocks /\ owner[l] = Free /\ owner' = [owner EXCEPT ![l] = t]
  BY <1>3, RangeOf DEF WaitForBegin, IsFree, Own
<1>5. /\ d \in Calls /\ d.begin = c.begin /\ d.place = "try" /\ d.from = c.next
      /\ d.k = c.next /\ d.upto = End(t) /\ d.first = TRUE /\ d.next = c.next
  <2> DEFINE n1 == c.next
             n2 == End(t)
  <2>1. n1 \in Nat /\ n2 \in Nat
    BY <1>1, <1>3
  <2> HIDE DEF n1, n2
  <2>2. d = [c EXCEPT !.place = "try", !.from = n1, !.k = n1, !.upto = n2]
    BY DEF n1, n2
  <2> HIDE DEF d
  <2>3. d \in Calls
    BY <1>1, <2>1, <2>2 DEF Calls
  <2>4. d.begin = c.begin /\ d.place = "try" /\ d.from = n1 /\ d.k = n1 /\ d.upto = n2
        /\ d.first = c.first /\ d.next = c.next
    BY <1>1, <2>2 DEF Calls
  <2> QED
    BY <1>3, <2>3, <2>4 DEF n1, n2
<1>7. Replace(t, d)
  BY DEF WaitForBegin
<1> HIDE DEF d
<1>10. CallOK(t, d)
  BY <1>1, <1>3, <1>5 DEF CallOK
<1>6. Indices(t, d) = {c.begin}
  <2>1. c.next .. c.next - 1 = {}
    BY <1>3
  <2> QED
    BY <1>5, <2>1 DEF Indices
<1>8. {LockAt(t, k) : k \in Indices(t, d)} = {l} /\ Apart(t, Indices(t, d))
  BY <1>6 DEF Apart
<1>9. /\ owner' \in [RangeLocks -> Lockers \cup {Free}] /\ HeldBy(t)' = {l}
      /\ \A u \in Lockers \ {t} : HeldBy(u)' = HeldBy(u)
  <2>1. PICK k \in RangeLocks : k = l
    BY <1>4
  <2> HIDE DEF l
  <2>2. owner[k] = Free /\ owner' = [owner EXCEPT ![k] = t]
    BY <1>4, <2>1
  <2>3. /\ owner' \in [RangeLocks -> Lockers \cup {Free}] /\ HeldBy(t)' = HeldBy(t) \cup {k}
        /\ \A u \in Lockers \ {t} : HeldBy(u)' = HeldBy(u)
    BY <1>2, <2>2, LockTaken
  <2> QED
    BY <1>2, <2>1, <2>3
<1> QED
  BY <1>5, <1>7, <1>8, <1>9, <1>10, CallReplaced

LEMMA GuardedStep ==
  ASSUME RangeInv, NEW t \in Lockers, calls[t] # <<>>, Guarded(t)
  PROVE  RangeInv'
<1> DEFINE c == Top(t)
           l == LockAt(t, c.begin)
           I == c.next .. End(t) - 1
<1>1. /\ c \in Calls /\ CallOK(t, c) /\ c.place = "guarded"
      /\ HeldBy(t) = {LockAt(t, k) : k \in Indices(t, c)} /\ End(t) \in Nat \ {0}
      /\ Apart(t, Indices(t, c)) /\ RangeTyped
  BY TopCall, RangeOf DEF Guarded, RangeInv
<1>2. Indices(t, c) = I
  BY <1>1 DEF Indices
<1>3. c.begin \in 1 .. End(t) - 1 /\ c.next \in c.begin + 1 .. End(t) - 1 /\ c.first = FALSE
  BY <1>1 DEF CallOK, Calls
<1>4. CASE /\ IsFree(t, c.begin) /\ Own(t, c.begin)
           /\ Replace(t, [c EXCEPT !.place = "try", !.from = c.begin + 1, !.k = c.begin + 1,
                                   !.upto = c.next])
  <2> DEFINE d == [c EXCEPT !.place = "try", !.from = c.begin + 1, !.k = c.begin + 1,
                            !.upto = c.next]
  <2>1. l \in RangeLocks /\ owner[l] = Free /\ owner' = [owner EXCEPT ![l] = t]
    BY <1>3, <1>4, RangeOf DEF IsFree, Own
  <2>2. /\ d \in Calls /\ d.begin = c.begin /\ d.place = "try" /\ d.from = c.begin + 1
        /\ d.k = c.begin + 1 /\ d.upto = c.next /\ d.first = FALSE /\ d.next = c.next
    <3> DEFINE n1 == c.begin + 1
               n2 == c.next
    <3>1. n1 \in Nat /\ n2 \in Nat
      BY <1>3
    <3> HIDE DEF n1, n2
    <3>2. d = [c EXCEPT !.place = "try", !.from = n1, !.k = n1, !.upto = n2]
      BY DEF n1, n2
    <3> HIDE DEF d
    <3>3. d \in Calls
      BY <1>1, <3>1, <3>2 DEF Calls
    <3>4. d.begin = c.begin /\ d.place = "try" /\ d.from = n1 /\ d.k = n1 /\ d.upto = n2
          /\ d.first = c.first /\ d.next = c.next
      BY <1>1, <3>2 DEF Calls
    <3> QED
      BY <1>3, <3>3, <3>4 DEF n1, n2
  <2> HIDE DEF d
  <2>7. CallOK(t, d)
    BY <1>1, <1>3, <2>2 DEF CallOK
  <2>3. Indices(t, d) = I \cup {c.begin}
    <3>1. c.begin + 1 .. (c.begin + 1) - 1 = {}
      BY <1>3
    <3> QED
      BY <2>2, <3>1 DEF Indices
  <2>4. /\ owner' \in [RangeLocks -> Lockers \cup {Free}] /\ HeldBy(t)' = HeldBy(t) \cup {l}
        /\ l \notin HeldBy(t) /\ \A u \in Lockers \ {t} : HeldBy(u)' = HeldBy(u)
    BY <1>1, <2>1, LockTaken
  <2>5. {LockAt(t, k) : k \in Indices(t, d)} = HeldBy(t) \cup {l} /\ Apart(t, Indices(t, d))
    <3>1. Apart(t, I) /\ HeldBy(t) = {LockAt(t, k) : k \in I} /\ LockAt(t, c.begin) \notin HeldBy(t)
      BY <1>1, <1>2, <2>4
    <3> HIDE DEF I
    <3>2. /\ {LockAt(t, k) : k \in I \cup {c.begin}} = HeldBy(t) \cup {LockAt(t, c.begin)}
          /\ Apart(t, I \cup {c.begin})
      BY <3>1, OneLockMore
    <3> QED
      BY <2>3, <3>2
  <2>6. Replace(t, d)
    BY <1>4 DEF d
  <2> QED
    BY <2>2, <2>4, <2>5, <2>6, <2>7, CallReplaced
<1>5. CASE /\ ~IsFree(t, c.begin) /\ UNCHANGED owner
           /\ Replace(t, [c EXCEPT !.place = "drop", !.first = TRUE, !.next = c.begin + 1,
                                   !.todo = Ups(c.next, End(t))])
  <2> DEFINE u == Ups(c.next, End(t))
             d == [c EXCEPT !.place = "drop", !.first = TRUE, !.next = c.begin + 1, !.todo = u]
             n == End(t) - c.next
  <2>1. n \in Nat /\ c.next \in Nat /\ End(t) \in Nat /\ c.next <= End(t)
    BY <1>1, <1>3
  <2>2. u \in Seq(Nat) /\ Len(u) = n /\ \A i \in 1 .. n : u[i] = c.next + i - 1
    BY <2>1, UpsAre
  <2> HIDE DEF u
  <2>3. DOMAIN u = 1 .. n
    BY <2>2, LenProperties
  <2>4. \A i, k \in DOMAIN u : u[i] = u[k] => i = k
    BY <2>1, <2>2, <2>3
  <2>5. Range(u) = I
    <3>1. \A v \in I : v - c.next + 1 \in 1 .. n /\ u[v - c.next + 1] = v
      <4> TAKE v \in I
      <4> DEFINE i == v - c.next + 1
      <4>1. i \in 1 .. n /\ c.next + i - 1 = v
        BY <2>1
      <4> HIDE DEF i
      <4>2. i \in 1 .. n /\ u[i] = v
        BY <2>2, <4>1
      <4> QED
        BY <4>2 DEF i
    <3>2. \A i \in 1 .. n : u[i] \in I
      <4> TAKE i \in 1 .. n
      <4>1. c.next + i - 1 \in I
        BY <2>1
      <4>2. u[i] = c.next + i - 1
        BY <2>2
      <4> QED
        BY <4>1, <4>2
    <3> QED
      BY <2>3, <3>1, <3>2 DEF Range
  <2>6. I \subseteq 1 .. End(t) - 1
    BY <1>3, <2>1
  <2>7. d \in Calls /\ d.begin = c.begin /\ d.place = "drop" /\ d.first = TRUE
        /\ d.next = c.begin + 1 /\ d.todo = u
    <3> DEFINE n1 == c.begin + 1
    <3>1. n1 \in Nat
      BY <1>3
    <3> HIDE DEF n1
    <3>2. d = [c EXCEPT !.place = "drop", !.first = TRUE, !.next = n1, !.todo = u]
      BY DEF n1
    <3> HIDE DEF d
    <3>3. d \in Calls
      BY <1>1, <2>2, <3>1, <3>2 DEF Calls
    <3>4. d.begin = c.begin /\ d.place = "drop" /\ d.first = TRUE /\ d.next = n1 /\ d.todo = u
      BY <1>1, <3>2 DEF Calls
    <3> QED
      BY <3>3, <3>4 DEF n1
  <2>8. Replace(t, d)
    BY <1>5 DEF u
  <2> HIDE DEF d
  <2>9. CallOK(t, d)
    BY <1>3, <2>1, <2>4, <2>5, <2>6, <2>7 DEF CallOK
  <2>10. Indices(t, d) = I
    BY <2>5, <2>7 DEF Indices
  <2>11. owner' \in [RangeLocks -> Lockers \cup {Free}] /\ \A v \in Lockers : HeldBy(v)' = HeldBy(v)
    BY <1>1, <1>5, LocksStay
  <2>12. HeldBy(t)' = {LockAt(t, k) : k \in Indices(t, d)} /\ Apart(t, Indices(t, d))
    BY <1>1, <1>2, <2>10, <2>11
  <2> QED
    BY <2>7, <2>8, <2>9, <2>11, <2>12, CallReplaced
<1> QED
  BY <1>4, <1>5 DEF Guarded

LEMMA TryOneStep ==
  ASSUME RangeInv, NEW t \in Lockers, calls[t] # <<>>, TryOne(t)
  PROVE  RangeInv'
<1> DEFINE c == Top(t)
           l == LockAt(t, c.k)
<1>1. /\ c \in Calls /\ CallOK(t, c) /\ c.place = "try" /\ c.k < c.upto
      /\ HeldBy(t) = {LockAt(t, k) : k \in Indices(t, c)} /\ End(t) \in Nat \ {0}
      /\ Apart(t, Indices(t, c)) /\ RangeTyped
  BY TopCall, RangeOf DEF TryOne, RangeInv
<1>2. /\ c.begin \in Nat /\ c.k \in Nat /\ c.from = c.begin + 1 /\ c.begin >= 1
      /\ c.k \in c.begin + 1 .. End(t) - 1
      /\ c.upto = (IF c.first THEN End(t) ELSE c.next) /\ c.first \in BOOLEAN
  BY <1>1 DEF CallOK, Calls
<1>3. CASE IsFree(t, c.k) /\ Own(t, c.k) /\ Replace(t, [c EXCEPT !.k = @ + 1])
  <2> DEFINE d == [c EXCEPT !.k = @ + 1]
  <2>1. l \in RangeLocks /\ owner[l] = Free /\ owner' = [owner EXCEPT ![l] = t]
    BY <1>2, <1>3, RangeOf DEF IsFree, Own
  <2>2. d \in Calls /\ d.k = c.k + 1 /\ d.begin = c.begin /\ d.from = c.from /\ d.upto = c.upto
        /\ d.place = "try" /\ d.next = c.next /\ d.first = c.first
    <3>1. c.k + 1 \in Nat
      BY <1>2
    <3> DEFINE n == c.k + 1
    <3>2. d = [c EXCEPT !.k = n]
      BY <1>1 DEF Calls
    <3> HIDE DEF d, n
    <3>3. d \in Calls
      BY <1>1, <3>1, <3>2 DEF Calls, n
    <3>4. d.k = n /\ d.begin = c.begin /\ d.from = c.from /\ d.upto = c.upto
          /\ d.place = c.place /\ d.next = c.next /\ d.first = c.first
      BY <1>1, <3>2 DEF Calls
    <3> QED
      BY <1>1, <3>3, <3>4 DEF n
  <2>3. Replace(t, d)
    BY <1>3
  <2> HIDE DEF d
  <2>4. CallOK(t, d)
    BY <1>1, <1>2, <2>2 DEF CallOK, Calls
  <2>5. Indices(t, d) = Indices(t, c) \cup {c.k}
    <3>1. c.from .. (c.k + 1) - 1 = (c.from .. c.k - 1) \cup {c.k}
      BY <1>2
    <3> QED
      BY <1>1, <2>2, <3>1 DEF Indices
  <2>6. /\ owner' \in [RangeLocks -> Lockers \cup {Free}] /\ HeldBy(t)' = HeldBy(t) \cup {l}
        /\ l \notin HeldBy(t) /\ \A u \in Lockers \ {t} : HeldBy(u)' = HeldBy(u)
    BY <1>1, <2>1, LockTaken
  <2>7. {LockAt(t, k) : k \in Indices(t, d)} = HeldBy(t) \cup {l} /\ Apart(t, Indices(t, d))
    <3> DEFINE J == Indices(t, c)
    <3>1. Apart(t, J) /\ HeldBy(t) = {LockAt(t, k) : k \in J} /\ LockAt(t, c.k) \notin HeldBy(t)
      BY <1>1, <2>6
    <3> HIDE DEF J
    <3>2. {LockAt(t, k) : k \in J \cup {c.k}} = HeldBy(t) \cup {LockAt(t, c.k)} /\ Apart(t, J \cup {c.k})
      BY <3>1, OneLockMore
    <3> QED
      BY <2>5, <3>2 DEF J
  <2> QED
    BY <2>2, <2>3, <2>4, <2>6, <2>7, CallReplaced
<1>4. CASE /\ ~IsFree(t, c.k) /\ UNCHANGED owner
           /\ Replace(t, [c EXCEPT !.place = "drop", !.first = FALSE, !.next = c.k,
                                   !.todo = GivenUp(t, c)])
  <2> DEFINE u == GivenUp(t, c)
             d == [c EXCEPT !.place = "drop", !.first = FALSE, !.next = c.k, !.todo = u]
  <2>1. /\ u \in Seq(Nat) /\ Range(u) = Indices(t, c)
        /\ \A i, k \in DOMAIN u : u[i] = u[k] => i = k
        /\ Indices(t, c) \subseteq 1 .. End(t) - 1
    BY <1>1, GivenUpAre
  <2> HIDE DEF u
  <2>2. d \in Calls /\ d.begin = c.begin /\ d.place = "drop" /\ d.first = FALSE
        /\ d.next = c.k /\ d.todo = u
    BY <1>1, <1>2, <2>1 DEF Calls
  <2>3. Replace(t, d)
    BY <1>4 DEF u
  <2> HIDE DEF d
  <2>4. CallOK(t, d)
    BY <1>1, <1>2, <2>1, <2>2 DEF CallOK
  <2>5. Indices(t, d) = Indices(t, c)
    BY <2>1, <2>2 DEF Indices
  <2>6. owner' \in [RangeLocks -> Lockers \cup {Free}] /\ \A v \in Lockers : HeldBy(v)' = HeldBy(v)
    BY <1>1, <1>4, LocksStay
  <2> QED
    BY <1>1, <2>2, <2>3, <2>4, <2>5, <2>6, CallReplaced
<1> QED
  BY <1>3, <1>4 DEF TryOne

LEMMA TriedAllStep ==
  ASSUME RangeInv, NEW t \in Lockers, calls[t] # <<>>, TriedAll(t)
  PROVE  RangeInv'
<1> DEFINE c == Top(t)
           d == [c EXCEPT !.place = "return"]
<1>1. /\ c \in Calls /\ CallOK(t, c) /\ c.place = "try" /\ c.k = c.upto
      /\ HeldBy(t) = {LockAt(t, k) : k \in Indices(t, c)} /\ End(t) \in Nat \ {0}
      /\ Apart(t, Indices(t, c)) /\ RangeTyped /\ Replace(t, d) /\ UNCHANGED owner
  BY TopCall, RangeOf DEF TriedAll, RangeInv
<1>2. /\ c.begin \in Nat /\ c.next \in Nat /\ c.from = c.begin + 1 /\ c.first \in BOOLEAN
      /\ c.k = (IF c.first THEN End(t) ELSE c.next) /\ c.begin < c.k /\ c.k <= End(t)
  BY <1>1 DEF CallOK, Calls
<1>3. d \in Calls /\ d.place = "return" /\ d.begin = c.begin
  BY <1>1 DEF Calls
<1>4. CallOK(t, d)
  BY <1>1 DEF CallOK, Calls
<1> HIDE DEF d
<1>5. Indices(t, d) = Indices(t, c)
  <2>1. Indices(t, d) = c.begin .. End(t) - 1
    BY <1>3 DEF Indices
  <2>2. Indices(t, c) = {c.begin} \cup (c.begin + 1 .. c.k - 1)
                          \cup (IF c.first THEN {} ELSE c.next .. End(t) - 1)
    BY <1>1, <1>2 DEF Indices
  <2>3. CASE c.first
    BY <1>1, <1>2, <2>1, <2>2, <2>3
  <2>4. CASE ~c.first
    BY <1>1, <1>2, <2>1, <2>2, <2>4
  <2> QED
    BY <2>3, <2>4
<1>6. owner' \in [RangeLocks -> Lockers \cup {Free}] /\ \A v \in Lockers : HeldBy(v)' = HeldBy(v)
  BY <1>1, LocksStay
<1> QED
  BY <1>1, <1>3, <1>4, <1>5, <1>6, CallReplaced

LEMMA DropOneStep ==
  ASSUME RangeInv, NEW t \in Lockers, calls[t] # <<>>, DropOne(t)
  PROVE  RangeInv'
<1> DEFINE c == Top(t)
<1>1. /\ c \in Calls /\ CallOK(t, c) /\ c.place = "drop"
      /\ HeldBy(t) = {LockAt(t, k) : k \in Indices(t, c)} /\ End(t) \in Nat \ {0}
      /\ Apart(t, Indices(t, c)) /\ RangeTyped
  BY TopCall, RangeOf DEF DropOne, RangeInv
<1>2. Indices(t, c) = Range(c.todo) /\ c.todo \in Seq(Nat)
  BY <1>1 DEF Indices, Calls
<1>3. CASE c.todo = <<>> /\ Replace(t, [c EXCEPT !.place = "top"]) /\ UNCHANGED owner
  <2> DEFINE d == [c EXCEPT !.place = "top"]
  <2>1. d \in Calls /\ CallOK(t, d) /\ d.begin = c.begin /\ d.place = "top"
    BY <1>1 DEF Calls, CallOK
  <2>2. Replace(t, d)
    BY <1>3
  <2> HIDE DEF d
  <2>3. Indices(t, d) = {}
    BY <2>1 DEF Indices
  <2>4. Range(c.todo) = {}
    BY <1>3 DEF Range
  <2>5. {LockAt(t, k) : k \in Indices(t, d)} = {} /\ Apart(t, Indices(t, d)) /\ HeldBy(t) = {}
    BY <1>1, <1>2, <2>3, <2>4 DEF Apart
  <2>6. owner' \in [RangeLocks -> Lockers \cup {Free}] /\ \A v \in Lockers : HeldBy(v)' = HeldBy(v)
    BY <1>1, <1>3, LocksStay
  <2> QED
    BY <2>1, <2>2, <2>5, <2>6, CallReplaced
<1>4. CASE /\ c.todo # <<>>
           /\ GiveUp(t, Head(c.todo)) /\ Replace(t, [c EXCEPT !.todo = Tail(@)])
  <2> DEFINE u == c.todo
             v == Tail(u)
             l == LockAt(t, Head(u))
             d == [c EXCEPT !.todo = v]
  <2>1. /\ v \in Seq(Nat) /\ Len(v) = Len(u) - 1 /\ Len(u) \in Nat \ {0} /\ Head(u) = u[1]
        /\ \A i \in 1 .. Len(v) : v[i] = u[i + 1]
        /\ DOMAIN u = 1 .. Len(u) /\ DOMAIN v = 1 .. Len(v)
    BY <1>2, <1>4, HeadTailProperties, EmptySeq, LenProperties
  <2>2. \A i, k \in DOMAIN u : u[i] = u[k] => i = k
    BY <1>1 DEF CallOK
  <2>3. Replace(t, d) /\ owner' = [owner EXCEPT ![l] = Free]
    BY <1>4 DEF GiveUp
  <2>4. d \in Calls /\ d.todo = v /\ d.place = "drop" /\ d.begin = c.begin
        /\ d.first = c.first /\ d.next = c.next
    <3> HIDE DEF v
    <3> QED
      BY <1>1, <2>1 DEF Calls
  <2> HIDE DEF v, d, u
  <2>5. PICK n \in Nat : Len(v) = n /\ Len(u) = n + 1
    BY <2>1
  <2>6. \A i, k \in DOMAIN v : v[i] = v[k] => i = k
    <3> TAKE i \in DOMAIN v, k \in DOMAIN v
    <3>1. i \in 1 .. n /\ k \in 1 .. n /\ i + 1 \in 1 .. n + 1 /\ k + 1 \in 1 .. n + 1
      BY <2>1, <2>5
    <3>2. v[i] = u[i + 1] /\ v[k] = u[k + 1]
      BY <2>1, <2>5, <3>1
    <3>3. u[i + 1] = u[k + 1] => i + 1 = k + 1
      BY <2>1, <2>2, <2>5, <3>1
    <3> QED
      BY <3>1, <3>2, <3>3
  <2>7. Range(v) = Range(u) \ {Head(u)}
    <3>1. ASSUME NEW i \in 1 .. n PROVE v[i] \in Range(u) \ {Head(u)}
      <4>1. i + 1 \in 1 .. n + 1 /\ 1 \in 1 .. n + 1 /\ i + 1 # 1
        BY <3>1
      <4>2. v[i] = u[i + 1]
        BY <2>1, <2>5
      <4>3. i + 1 \in DOMAIN u /\ 1 \in DOMAIN u
        BY <2>1, <2>5, <4>1
      <4>4. u[i + 1] # u[1]
        BY <2>2, <4>1, <4>3
      <4> QED
        BY <2>1, <4>2, <4>3, <4>4 DEF Range
    <3>2. ASSUME NEW i \in 1 .. n + 1, u[i] # Head(u) PROVE u[i] \in Range(v)
      <4>1. i # 1
        BY <2>1, <3>2
      <4> DEFINE k == i - 1
      <4>2. k \in 1 .. n /\ k + 1 = i
        BY <4>1
      <4> HIDE DEF k
      <4>3. v[k] = u[k + 1]
        BY <2>1, <2>5, <4>2
      <4>4. k \in DOMAIN v /\ v[k] = u[i]
        BY <2>1, <2>5, <4>2, <4>3
      <4> QED
        BY <4>4 DEF Range
    <3>3. Range(v) \subseteq Range(u) \ {Head(u)}
      BY <2>1, <2>5, <3>1 DEF Range
    <3>4. Range(u) \ {Head(u)} \subseteq Range(v)
      <4> SUFFICES ASSUME NEW i \in DOMAIN u, u[i] # Head(u) PROVE u[i] \in Range(v)
        BY DEF Range
      <4> QED
        BY <2>1, <2>5, <3>2
    <3> QED
      BY <3>3, <3>4
  <2>8. Head(u) \in Range(u)
    <3>1. 1 \in 1 .. n + 1
      OBVIOUS
    <3> QED
      BY <2>1, <2>5, <3>1 DEF Range
  <2>9. CallOK(t, d)
    BY <1>1, <2>4, <2>6, <2>7 DEF CallOK, u
  <2>10. Indices(t, d) = Range(u) \ {Head(u)}
    BY <2>4, <2>7 DEF Indices
  <2>11. Indices(t, c) = Range(u)
    BY <1>2 DEF u
  <2>12. l \in HeldBy(t)
    BY <1>1, <2>8, <2>11
  <2>13. /\ owner' \in [RangeLocks -> Lockers \cup {Free}] /\ HeldBy(t)' = HeldBy(t) \ {l}
         /\ \A w \in Lockers \ {t} : HeldBy(w)' = HeldBy(w)
    BY <1>1, <2>3, <2>12, LockGivenUp
  <2>14. Apart(t, Indices(t, d))
    BY <1>1, <2>10, <2>11 DEF Apart
  <2>15. HeldBy(t) \ {l} = {LockAt(t, k) : k \in Indices(t, d)}
    BY <1>1, <2>8, <2>10, <2>11 DEF Apart
  <2> QED
    BY <2>3, <2>4, <2>9, <2>13, <2>14, <2>15, CallReplaced
<1> QED
  BY <1>3, <1>4 DEF DropOne

LEMMA ReturnsStep ==
  ASSUME RangeInv, NEW t \in Lockers, calls[t] # <<>>, Returns(t)
  PROVE  RangeInv'
<1> DEFINE c == Top(t)
           s == calls[t]
           f == Front(s)
<1>1. /\ c \in Calls /\ CallOK(t, c) /\ c.place = "return"
      /\ HeldBy(t) = {LockAt(t, k) : k \in Indices(t, c)} /\ End(t) \in Nat \ {0}
      /\ Apart(t, Indices(t, c)) /\ RangeTyped /\ Stack(t) /\ s \in Seq(Calls)
      /\ Len(s) \in Nat \ {0} /\ c = s[Len(s)]
  <2>1. c.place = "return"
    BY DEF Returns
  <2>2. s \in Seq(Calls) /\ RangeTyped /\ Stack(t) /\ Holds(t) /\ s # <<>>
    BY DEF RangeInv, RangeTyped
  <2>3. Len(s) \in Nat \ {0} /\ c = s[Len(s)]
    BY <2>2 DEF Top, Last
  <2>4. HeldBy(t) = {LockAt(t, k) : k \in Indices(t, c)} /\ Apart(t, Indices(t, c))
    BY <2>2 DEF Holds
  <2> QED
    BY <2>1, <2>2, <2>3, <2>4, TopCall, RangeOf
<1>2. f \in Seq(Calls) /\ Len(f) = Len(s) - 1 /\ \A i \in 1 .. Len(s) - 1 : f[i] = s[i]
  BY <1>1, LastReplaced
<1>3. calls' = [calls EXCEPT ![t] = f] /\ UNCHANGED owner
  BY DEF Returns
<1>4. Indices(t, c) = c.begin .. End(t) - 1
  BY <1>1 DEF Indices
<1> HIDE DEF f
<1>5. calls' \in [Lockers -> Seq(Calls)] /\ calls'[t] = f /\ \A u \in Lockers \ {t} : calls'[u] = calls[u]
  BY <1>1, <1>2, <1>3 DEF RangeTyped
<1>6. owner' \in [RangeLocks -> Lockers \cup {Free}] /\ \A v \in Lockers : HeldBy(v)' = HeldBy(v)
  BY <1>1, <1>3, LocksStay
<1>7. PICK n \in Nat : Len(s) = n + 1 /\ Len(f) = n
  <2>1. Len(s) - 1 \in Nat /\ Len(s) = (Len(s) - 1) + 1
    BY <1>1
  <2> QED
    BY <1>2, <2>1
<1>8. \A i \in 1 .. n : f[i] = s[i]
  BY <1>2, <1>7
<1>9. Stack(t)'
  <2>1. ASSUME NEW i \in 1 .. n PROVE CallOK(t, f[i])
    <3>1. i \in 1 .. n + 1
      OBVIOUS
    <3> QED
      BY <1>1, <1>7, <1>8, <3>1 DEF Stack
  <2>2. ASSUME NEW i \in 1 .. n - 1
        PROVE  f[i].place = "guarded" /\ f[i + 1].begin = f[i].next
    <3>1. i \in 1 .. n /\ i + 1 \in 1 .. n /\ i \in 1 .. (n + 1) - 1
      OBVIOUS
    <3> QED
      BY <1>1, <1>7, <1>8, <3>1 DEF Stack
  <2>3. f # <<>> => f[1].begin = 1
    <3> SUFFICES ASSUME f # <<>> PROVE f[1].begin = 1
      OBVIOUS
    <3>1. 1 \in 1 .. n
      BY <1>2, <1>7, EmptySeq
    <3> QED
      BY <1>1, <1>8, <3>1 DEF Stack
  <2> QED
    BY <1>5, <1>7, <2>1, <2>2, <2>3 DEF Stack
<1>10. CASE n = 0
  <2>1. f = <<>>
    BY <1>2, <1>7, <1>10, EmptySeq
  <2>2. c.begin = 1
    BY <1>1, <1>7, <1>10 DEF Stack
  <2>3. HeldBy(t)' = Range(Ranges[t])
    BY <1>1, <1>4, <1>6, <2>2, RangeOf
  <2>4. Holds(t)'
    BY <1>5, <2>1, <2>3 DEF Holds
  <2> QED
    BY <1>5, <1>6, <1>9, <2>4, OneThread DEF RangeTyped
<1>11. CASE n # 0
  <2>1. n \in 1 .. n /\ n \in 1 .. (n + 1) - 1
    BY <1>11
  <2>2. f[n] = s[n] /\ s[n].place = "guarded" /\ c.begin = s[n].next
    BY <1>1, <1>7, <1>8, <2>1 DEF Stack
  <2>3. f # <<>> /\ Top(t)' = f[n]
    <3>1. Len(<<>>) = 0
      BY EmptySeq
    <3> QED
      BY <1>5, <1>7, <1>11, <3>1 DEF Top, Last
  <2>4. Indices(t, f[n]) = Indices(t, c)
    BY <1>4, <2>2 DEF Indices
  <2>5. Holds(t)'
    BY <1>1, <1>5, <1>6, <2>3, <2>4 DEF Holds
  <2> QED
    BY <1>5, <1>6, <1>9, <2>5, OneThread DEF RangeTyped
<1> QED
  BY <1>10, <1>11

LEMMA RangeInvHolds == RangeSpec => []RangeInv
<1>1. RangeInit => RangeInv
  <2> SUFFICES ASSUME RangeInit PROVE RangeInv
    OBVIOUS
  <2>1. owner \in [RangeLocks -> Lockers \cup {Free}] /\ \A l \in RangeLocks : owner[l] = Free
    BY DEF RangeInit
  <2>2. calls \in [Lockers -> Seq(Calls)] /\ \A t \in Lockers : calls[t] = <<>>
    BY DEF RangeInit
  <2>3. ASSUME NEW t \in Lockers PROVE Stack(t) /\ Holds(t)
    <3>1. calls[t] = <<>> /\ Len(<<>>) = 0 /\ 1 .. 0 = {} /\ 1 .. 0 - 1 = {}
      BY <2>2, EmptySeq
    <3>2. HeldBy(t) = {}
      BY <2>1, RangeAssumption DEF HeldBy
    <3> QED
      BY <3>1, <3>2 DEF Stack, Holds
  <2> QED
    BY <2>1, <2>2, <2>3 DEF RangeInv, RangeTyped
<1>2. RangeInv /\ [RangeNext]_rangeVars => RangeInv'
  <2>1. ASSUME RangeInv, UNCHANGED rangeVars
        PROVE  RangeInv'
    BY <2>1 DEF rangeVars, RangeInv, RangeTyped, Stack, Holds, HeldBy, Top
  <2>2. ASSUME RangeInv, RangeNext
        PROVE  RangeInv'
    BY <2>2, LockRangeStep, ReleaseStep, TurnStep, WaitForBeginStep, GuardedStep, TryOneStep,
      TriedAllStep, DropOneStep, ReturnsStep DEF RangeNext
  <2> QED
    BY <2>1, <2>2
<1> QED
  BY <1>1, <1>2, PTL DEF RangeSpec

\* A thread that waits inside LockRange holds nothing, a guard has its whole part
\* of the range when the call goes on, and a thread leaves LockRange with every
\* lock of its range, for any threads and any ranges, in any order.
THEOREM NoHoldAndWaitHolds == RangeSpec => []NoHoldAndWait
<1>1. RangeInv => NoHoldAndWait
  <2> SUFFICES ASSUME RangeInv, NEW t \in Lockers
      PROVE  /\ calls[t] # <<>> /\ Top(t).place \in {"wait", "guarded"} =>
                  IF Top(t).place = "wait" THEN HeldBy(t) = {}
                  ELSE HeldBy(t) = {LockAt(t, k) : k \in Top(t).next .. End(t) - 1}
             /\ calls[t] = <<>> => HeldBy(t) \in {{}, Range(Ranges[t])}
    BY DEF NoHoldAndWait, HeldBy
  <2>1. Holds(t)
    BY DEF RangeInv
  <2>2. ASSUME calls[t] # <<>>, Top(t).place = "wait"
        PROVE  HeldBy(t) = {}
    BY <2>1, <2>2 DEF Holds, Indices
  <2>3. ASSUME calls[t] # <<>>, Top(t).place = "guarded"
        PROVE  HeldBy(t) = {LockAt(t, k) : k \in Top(t).next .. End(t) - 1}
    BY <2>1, <2>3 DEF Holds, Indices
  <2> QED
    BY <2>1, <2>2, <2>3 DEF Holds
<1> QED
  BY <1>1, RangeInvHolds, PTL
-----------------------------------------------------------------------------
(***************************************************************************)
(* The stop state and the waits on it.                                      *)
(***************************************************************************)
\* Where a wait with a callback can stand, and where one holds its mutex.
Registered == {"check", "lock", "sleep", "asleep", "timeout", "unlock", "remove"}
Places == Registered \cup {"outside", "first", "insert", "self", "return", "returned"}
WithMutex == {"first", "insert", "self", "check", "sleep", "remove", "return"}
\* No element twice.
Distinct(s) == \A i, j \in DOMAIN s : s[i] = s[j] => i = j

\* The types.
StopTyped ==
  /\ requested \in BOOLEAN /\ callbacks \in Seq(Waiters) /\ lock \in Waiters \cup {Stopper, Nobody}
  /\ mutex \in [Mutexes -> Waiters \cup {Nobody}] /\ at \in [Waiters -> Places]
  /\ stop \in {"idle", "loop", "lock", "notify", "done"} \X (Waiters \cup {Nobody})
  /\ flag \in [TimedWaiters -> BOOLEAN]

\* Who holds what.
Holders ==
  /\ \A w \in CondWaiters :
       /\ at[w] \notin {"timeout", "unlock"}
       /\ at[w] \in WithMutex => mutex["shared"] = w
  /\ \A w \in TimedWaiters : mutex[w] = w <=> at[w] \in {"check", "sleep", "unlock"}
  /\ \A w \in Waiters : at[w] = "self" => lock = w /\ requested
  /\ stop[1] \in {"loop", "lock", "notify"} => lock = Stopper
  /\ stop[1] # "idle" => requested
  /\ stop[2] # Nobody <=> stop[1] \in {"lock", "notify"}
  /\ stop[1] = "notify" /\ stop[2] \in TimedWaiters => flag[stop[2]]

\* A callback that is due is that of one wait that has not returned.
Due ==
  /\ Distinct(callbacks)
  /\ \A w \in Waiters : w \in Range(callbacks) \/ stop[2] = w =>
       w \in numbered /\ at[w] \in Registered

\* Who is going to sleep, or sleeps, is still to be woken by a stop.
Woken(w) ==
  /\ at[w] = "sleep" => w \in Range(callbacks) \/ stop = <<"lock", w>>
  /\ at[w] = "asleep" => w \in Range(callbacks) \/ stop[2] = w
  /\ at[w] \in {"lock", "check"} =>
       IF w \in TimedWaiters THEN flag[w] \/ w \in Range(callbacks) \/ stop = <<"lock", w>>
                             ELSE requested \/ w \in Range(callbacks)
ToBeWoken == \A w \in Waiters : Woken(w)

\* The inductive invariant.  That a sleeper is still to be woken is inductive only
\* with who is about to sleep, and who is about to look: each of them is woken, or
\* will see the stop, because callback and look both take the mutex.
StopInv == StopTyped /\ Holders /\ Due /\ ToBeWoken

\* What RemoveFirst, Append and Tail leave of a sequence without repetitions.
LEMMA RemovedIs ==
  ASSUME NEW S, NEW s \in Seq(S), NEW w, Distinct(s)
  PROVE  /\ RemoveFirst(s, w) \in Seq(S) /\ Distinct(RemoveFirst(s, w))
         /\ Range(RemoveFirst(s, w)) = Range(s) \ {w}
<1>1. CASE \E i \in 1 .. Len(s) : s[i] = w
  <2>1. PICK k \in 1 .. Len(s) : s[k] = w
    BY <1>1
  <2>2. RemoveFirst(s, w) = RemoveAt(s, k)
    <3>1. {i \in 1 .. Len(s) : s[i] = w} = {k}
      BY <2>1 DEF Distinct
    <3>2. SelectInSeq(s, LAMBDA v : v = w) = k
      BY <3>1 DEF SelectInSeq, Min
    <3> QED
      BY <1>1, <3>2 DEF RemoveFirst
  <2> DEFINE t == RemoveAt(s, k)
  <2>3. PICK n \in Nat : n = Len(s)
    OBVIOUS
  <2>4. k \in Int /\ k >= 1 /\ k <= n
    BY <2>3
  <2>5. /\ SubSeq(s, 1, k-1) \in Seq(S) /\ Len(SubSeq(s, 1, k-1)) = k - 1
        /\ \A i \in 1 .. k-1 : SubSeq(s, 1, k-1)[i] = s[i]
    BY <2>3, <2>4, SubSeqProperties
  <2>6. /\ SubSeq(s, k+1, n) \in Seq(S) /\ Len(SubSeq(s, k+1, n)) = n - k
        /\ \A i \in 1 .. n-k : SubSeq(s, k+1, n)[i] = s[k + i]
    BY <2>3, <2>4, SubSeqProperties
  <2> DEFINE u == SubSeq(s, 1, k-1)
             v == SubSeq(s, k+1, n)
  <2>7. t = u \o v
    BY <2>3 DEF RemoveAt
  <2> HIDE DEF t, u, v
  <2>8. t \in Seq(S) /\ Len(t) = n - 1
        /\ \A i \in 1 .. n - 1 : t[i] = IF i <= k - 1 THEN u[i] ELSE v[i - (k - 1)]
    <3>1. u \in Seq(S) /\ v \in Seq(S) /\ Len(u) = k - 1 /\ Len(v) = n - k
      BY <2>5, <2>6 DEF u, v
    <3>2. PICK a \in Nat : a = k - 1
      BY <2>4
    <3>3. PICK b \in Nat : b = n - k
      <4>1. n - k \in Nat
        BY <2>4
      <4> QED
        BY <4>1
    <3>4. a + b = n - 1
      BY <2>3, <2>4, <3>2, <3>3
    <3>5. Len(u) = a /\ Len(v) = b
      BY <3>1, <3>2, <3>3
    <3>6. /\ t \in Seq(S) /\ Len(t) = a + b
          /\ \A i \in 1 .. a + b : t[i] = IF i <= a THEN u[i] ELSE v[i - a]
      BY <2>7, <3>1, <3>5, ConcatProperties
    <3> QED
      BY <3>2, <3>4, <3>6
  <2>9. \A i \in 1 .. n - 1 : t[i] = IF i < k THEN s[i] ELSE s[i + 1]
    <3>1. ASSUME NEW i \in 1 .. n - 1, i < k
          PROVE  t[i] = s[i]
      <4>1. i <= k - 1 /\ i \in 1 .. k - 1
        BY <2>4, <3>1
      <4> QED
        BY <2>5, <2>8, <4>1 DEF u
    <3>2. ASSUME NEW i \in 1 .. n - 1, ~(i < k)
          PROVE  t[i] = s[i + 1]
      <4>1. ~(i <= k - 1) /\ i - (k - 1) \in 1 .. n - k /\ k + (i - (k - 1)) = i + 1
        BY <2>4, <3>2
      <4>2. v[i - (k - 1)] = s[k + (i - (k - 1))]
        BY <2>6, <4>1 DEF v
      <4> QED
        BY <2>8, <4>1, <4>2
    <3> QED
      BY <3>1, <3>2
  <2>10. DOMAIN s = 1 .. n /\ DOMAIN t = 1 .. n - 1
    BY <2>3, <2>8
  <2>11. Distinct(t)
    <3>1. ASSUME NEW i \in DOMAIN t, NEW j \in DOMAIN t, t[i] = t[j]
          PROVE  i = j
      <4>1. \A a, b \in 1 .. n : s[a] = s[b] => a = b
        BY <2>10 DEF Distinct
      <4>2. i \in 1 .. n /\ j \in 1 .. n /\ i + 1 \in 1 .. n /\ j + 1 \in 1 .. n
        BY <2>10
      <4>3. (IF i < k THEN i ELSE i + 1) = (IF j < k THEN j ELSE j + 1)
        BY <2>9, <2>10, <3>1, <4>1, <4>2
      <4> QED
        BY <2>4, <4>2, <4>3
    <3> QED
      BY <3>1 DEF Distinct
  <2>12. \A x : x \in Range(t) <=> \E i \in 1 .. n - 1 : x = t[i]
    BY <2>10 DEF Range
  <2>13. \A x : x \in Range(s) <=> \E i \in 1 .. n : x = s[i]
    BY <2>10 DEF Range
  <2>14. ASSUME NEW x \in Range(t)
         PROVE  x \in Range(s) \ {w}
    <3>1. PICK i \in 1 .. n - 1 : x = t[i]
      BY <2>12
    <3>2. PICK j \in 1 .. n : x = s[j] /\ j # k
      <4>1. CASE i < k
        BY <2>9, <3>1, <4>1
      <4>2. CASE ~(i < k)
        BY <2>4, <2>9, <3>1, <4>2
      <4> QED
        BY <4>1, <4>2
    <3>3. x # w
      BY <2>1, <2>3, <2>10, <3>2 DEF Distinct
    <3> QED
      BY <2>13, <3>2, <3>3
  <2>15. ASSUME NEW x \in Range(s) \ {w}
         PROVE  x \in Range(t)
    <3>1. PICK j \in 1 .. n : x = s[j]
      BY <2>13
    <3>2. j # k
      BY <2>1, <3>1
    <3>3. CASE j < k
      <4>1. j \in 1 .. n - 1 /\ t[j] = s[j]
        BY <2>4, <2>9, <3>3
      <4> QED
        BY <2>12, <3>1, <4>1
    <3>4. CASE j > k
      <4>1. j - 1 \in 1 .. n - 1 /\ ~(j - 1 < k) /\ (j - 1) + 1 = j
        BY <2>4, <3>4
      <4>2. t[j - 1] = s[j]
        BY <2>9, <4>1
      <4> QED
        BY <2>12, <3>1, <4>1, <4>2
    <3> QED
      BY <2>4, <3>2, <3>3, <3>4
  <2> QED
    BY <2>2, <2>8, <2>11, <2>14, <2>15 DEF t
<1>2. CASE ~ \E i \in 1 .. Len(s) : s[i] = w
  BY <1>2 DEF RemoveFirst, Range
<1> QED
  BY <1>1, <1>2

LEMMA AppendedIs ==
  ASSUME NEW S, NEW s \in Seq(S), NEW w \in S, Distinct(s), w \notin Range(s)
  PROVE  /\ Append(s, w) \in Seq(S) /\ Distinct(Append(s, w))
         /\ Range(Append(s, w)) = Range(s) \cup {w}
<1>1. PICK n \in Nat : n = Len(s)
  OBVIOUS
<1>2. /\ Append(s, w) \in Seq(S) /\ DOMAIN Append(s, w) = 1 .. n + 1 /\ DOMAIN s = 1 .. n
      /\ Append(s, w)[n + 1] = w /\ \A i \in 1 .. n : Append(s, w)[i] = s[i]
  BY <1>1, AppendProperties
<1> DEFINE t == Append(s, w)
<1> HIDE DEF t
<1>3. \A i \in 1 .. n + 1 : i \in 1 .. n \/ i = n + 1
  BY <1>1
<1>4. \A i \in 1 .. n : s[i] # w
  BY <1>2 DEF Range
<1>5. Distinct(t)
  <2>1. ASSUME NEW i \in 1 .. n + 1, NEW j \in 1 .. n + 1, t[i] = t[j]
        PROVE  i = j
    <3>1. CASE i \in 1 .. n /\ j \in 1 .. n
      BY <1>2, <2>1, <3>1 DEF t, Distinct
    <3>2. CASE i = n + 1 /\ j \in 1 .. n
      BY <1>2, <1>4, <2>1, <3>2 DEF t
    <3>3. CASE i \in 1 .. n /\ j = n + 1
      BY <1>2, <1>4, <2>1, <3>3 DEF t
    <3> QED
      BY <1>3, <3>1, <3>2, <3>3
  <2> QED
    BY <1>2, <2>1 DEF Distinct, t
<1>6. \A x : x \in Range(t) <=> \E i \in 1 .. n + 1 : x = t[i]
  BY <1>2 DEF Range, t
<1>7. \A x : x \in Range(s) <=> \E i \in 1 .. n : x = s[i]
  BY <1>2 DEF Range
<1>8. \A i \in 1 .. n : i \in 1 .. n + 1
  BY <1>1
<1>9. n + 1 \in 1 .. n + 1
  BY <1>1
<1>10. Range(t) = Range(s) \cup {w}
  <2>1. \A x : x \in Range(t) => x \in Range(s) \cup {w}
    BY <1>2, <1>3, <1>6, <1>7 DEF t
  <2>2. \A x : x \in Range(s) \cup {w} => x \in Range(t)
    BY <1>2, <1>6, <1>7, <1>8, <1>9 DEF t
  <2> QED
    BY <2>1, <2>2
<1> QED
  BY <1>2, <1>5, <1>10 DEF t

LEMMA TailIs ==
  ASSUME NEW S, NEW s \in Seq(S), s # <<>>, Distinct(s)
  PROVE  /\ Tail(s) \in Seq(S) /\ Distinct(Tail(s)) /\ Head(s) \in S /\ Head(s) \in Range(s)
         /\ Range(Tail(s)) = Range(s) \ {Head(s)}
<1>1. PICK n \in Nat : n = Len(s)
  OBVIOUS
<1>2. n >= 1 /\ DOMAIN s = 1 .. n /\ Head(s) = s[1]
  BY <1>1
<1>3. /\ Tail(s) \in Seq(S) /\ DOMAIN Tail(s) = 1 .. n - 1
      /\ \A i \in 1 .. n - 1 : Tail(s)[i] = s[i + 1]
  BY <1>1, HeadTailProperties
<1> DEFINE t == Tail(s)
<1> HIDE DEF t
<1>4. \A a, b \in 1 .. n : s[a] = s[b] => a = b
  BY <1>2 DEF Distinct
<1>5. Distinct(t)
  <2>1. ASSUME NEW i \in 1 .. n - 1, NEW j \in 1 .. n - 1, t[i] = t[j]
        PROVE  i = j
    <3>1. i + 1 \in 1 .. n /\ j + 1 \in 1 .. n /\ s[i + 1] = s[j + 1]
      BY <1>3, <2>1 DEF t
    <3>2. i + 1 = j + 1
      BY <1>4, <3>1
    <3> QED
      BY <3>2
  <2> QED
    BY <1>3, <2>1 DEF Distinct, t
<1>6. \A x : x \in Range(t) <=> \E i \in 1 .. n - 1 : x = t[i]
  BY <1>3 DEF Range, t
<1>7. \A x : x \in Range(s) <=> \E i \in 1 .. n : x = s[i]
  BY <1>2 DEF Range
<1>8. ASSUME NEW x \in Range(t)
      PROVE  x \in Range(s) \ {s[1]}
  <2>1. PICK i \in 1 .. n - 1 : x = t[i]
    BY <1>6
  <2>2. i + 1 \in 1 .. n /\ x = s[i + 1] /\ i + 1 # 1 /\ 1 \in 1 .. n
    BY <1>2, <1>3, <2>1 DEF t
  <2> QED
    BY <1>4, <1>7, <2>2
<1>9. ASSUME NEW x \in Range(s) \ {s[1]}
      PROVE  x \in Range(t)
  <2>1. PICK i \in 1 .. n : x = s[i] /\ i # 1
    BY <1>7
  <2>2. i - 1 \in 1 .. n - 1 /\ (i - 1) + 1 = i
    BY <2>1
  <2>3. x = t[i - 1]
    BY <1>3, <2>1, <2>2 DEF t
  <2> QED
    BY <1>6, <2>2, <2>3
<1>10. Head(s) \in S /\ s[1] \in Range(s)
  BY <1>1, <1>2, <1>7
<1> QED
  BY <1>2, <1>3, <1>5, <1>8, <1>9, <1>10 DEF t

-----------------------------------------------------------------------------
LEMMA WaitersApart ==
  /\ \A w \in Waiters : /\ w \notin {"shared", Stopper, Nobody}
                        /\ w \in CondWaiters \/ w \in TimedWaiters
  /\ \A w \in CondWaiters : w \in Waiters /\ w \notin TimedWaiters /\ MutexOf(w) = "shared"
  /\ \A w \in TimedWaiters : w \in Waiters /\ w \notin CondWaiters /\ MutexOf(w) = w
  /\ \A w \in Waiters : MutexOf(w) \in Mutexes
  /\ "shared" \in Mutexes /\ TimedWaiters \subseteq Mutexes
BY StopAssumption DEF Waiters, MutexOf, Mutexes

LEMMA MovedIs ==
  ASSUME StopInv, NEW w \in Waiters, NEW place \in Places, Goto(w, place)
  PROVE  /\ at' \in [Waiters -> Places] /\ at'[w] = place
         /\ \A v \in Waiters \ {w} : at'[v] = at[v]
BY DEF StopInv, StopTyped, Goto

\* The mutex that a waiter takes, and the one it drops.
LEMMA HeldIs ==
  ASSUME StopInv, NEW w \in Waiters, Hold(w)
  PROVE  /\ mutex' \in [Mutexes -> Waiters \cup {Nobody}]
         /\ mutex[MutexOf(w)] = Nobody /\ mutex'[MutexOf(w)] = w
         /\ \A m \in Mutexes \ {MutexOf(w)} : mutex'[m] = mutex[m]
BY WaitersApart DEF StopInv, StopTyped, Hold

LEMMA DroppedIs ==
  ASSUME StopInv, NEW w \in Waiters, Drop(w)
  PROVE  /\ mutex' \in [Mutexes -> Waiters \cup {Nobody}]
         /\ mutex'[MutexOf(w)] = Nobody
         /\ \A m \in Mutexes \ {MutexOf(w)} : mutex'[m] = mutex[m]
BY WaitersApart DEF StopInv, StopTyped, Drop

\* A step of one waiter, which leaves the stop state alone.
LEMMA WaiterMoves ==
  ASSUME StopInv, NEW w \in Waiters, NEW place \in Places, Goto(w, place), place # "self",
         UNCHANGED <<requested, callbacks, lock, stop, flag, numbered>>,
         mutex' \in [Mutexes -> Waiters \cup {Nobody}],
         w \in CondWaiters => /\ place \notin {"timeout", "unlock"}
                              /\ place \in WithMutex => mutex'["shared"] = w,
         w \in TimedWaiters => (mutex'[w] = w <=> place \in {"check", "sleep", "unlock"}),
         \A v \in CondWaiters \ {w} : at[v] \in WithMutex => mutex'["shared"] = v,
         \A v \in TimedWaiters \ {w} : mutex'[v] = mutex[v],
         w \in Range(callbacks) \/ stop[2] = w => place \in Registered,
         Woken(w)'
  PROVE  StopInv'
<1>1. /\ at' \in [Waiters -> Places] /\ at'[w] = place
      /\ \A v \in Waiters \ {w} : at'[v] = at[v]
  BY MovedIs
<1>2. StopTyped'
  BY <1>1 DEF StopInv, StopTyped
<1>3. Holders'
  <2>1. ASSUME NEW v \in CondWaiters
        PROVE  /\ at'[v] \notin {"timeout", "unlock"}
               /\ at'[v] \in WithMutex => mutex'["shared"] = v
    BY <1>1, WaitersApart DEF StopInv, Holders
  <2>2. ASSUME NEW v \in TimedWaiters
        PROVE  mutex'[v] = v <=> at'[v] \in {"check", "sleep", "unlock"}
    BY <1>1, WaitersApart DEF StopInv, Holders
  <2>3. ASSUME NEW v \in Waiters, at'[v] = "self"
        PROVE  lock' = v /\ requested'
    BY <1>1, <2>3 DEF StopInv, Holders
  <2> QED
    BY <2>1, <2>2, <2>3 DEF StopInv, Holders
<1>4. Due'
  BY <1>1 DEF StopInv, Due
<1>5. ToBeWoken'
  <2>1. ASSUME NEW v \in Waiters
        PROVE  Woken(v)'
    <3>1. CASE v # w
      BY <1>1, <3>1 DEF StopInv, ToBeWoken, Woken
    <3> QED
      BY <3>1
  <2> QED
    BY <2>1 DEF ToBeWoken
<1> QED
  BY <1>2, <1>3, <1>4, <1>5 DEF StopInv

\* A step that leaves the mutexes alone too.
LEMMA WaiterKeepsMutex ==
  ASSUME StopInv, NEW w \in Waiters, NEW place \in Places, Goto(w, place), place # "self",
         UNCHANGED <<requested, callbacks, lock, stop, flag, numbered, mutex>>,
         w \in CondWaiters => /\ place \notin {"timeout", "unlock"}
                              /\ place \in WithMutex => at[w] \in WithMutex,
         w \in TimedWaiters => (place \in {"check", "sleep", "unlock"} <=> at[w] \in {"check", "sleep", "unlock"}),
         w \in Range(callbacks) \/ stop[2] = w => place \in Registered,
         Woken(w)'
  PROVE  StopInv'
<1>1. mutex' \in [Mutexes -> Waiters \cup {Nobody}]
  BY DEF StopInv, StopTyped
<1>2. /\ w \in CondWaiters => (place \in WithMutex => mutex'["shared"] = w)
      /\ w \in TimedWaiters => (mutex'[w] = w <=> place \in {"check", "sleep", "unlock"})
      /\ \A v \in CondWaiters \ {w} : at[v] \in WithMutex => mutex'["shared"] = v
      /\ \A v \in TimedWaiters \ {w} : mutex'[v] = mutex[v]
  BY DEF StopInv, Holders
<1> QED
  BY <1>1, <1>2, WaiterMoves

LEMMA EnterStep ==
  ASSUME StopInv, NEW w \in Waiters, Enter(w)
  PROVE  StopInv'
<1>1. /\ at[w] = "outside" /\ Goto(w, "first")
      /\ UNCHANGED <<requested, callbacks, lock, stop, flag, numbered>>
      /\ IF w \in CondWaiters THEN Hold(w) ELSE UNCHANGED mutex
  BY DEF Enter
<1>2. "first" \in Places /\ "first" # "self" /\ "outside" \notin Registered
  BY DEF Places, Registered
<1>3. ~(w \in Range(callbacks) \/ stop[2] = w)
  BY <1>1, <1>2 DEF StopInv, Due
<1>4. Woken(w)'
  BY <1>1, <1>2, MovedIs DEF Woken
<1>5. CASE w \in CondWaiters
  <2>1. /\ mutex' \in [Mutexes -> Waiters \cup {Nobody}]
        /\ mutex["shared"] = Nobody /\ mutex'["shared"] = w
        /\ \A v \in TimedWaiters : mutex'[v] = mutex[v]
    BY <1>1, <1>5, HeldIs, WaitersApart
  <2>2. \A v \in CondWaiters : at[v] \notin WithMutex
    BY <2>1, WaitersApart DEF StopInv, Holders
  <2> QED
    BY <1>1, <1>2, <1>3, <1>4, <1>5, <2>1, <2>2, WaitersApart, WaiterMoves
<1>6. CASE w \notin CondWaiters
  BY <1>1, <1>2, <1>3, <1>4, <1>6, WaiterKeepsMutex
<1> QED
  BY <1>5, <1>6

LEMMA FirstStep ==
  ASSUME StopInv, NEW w \in Waiters, First(w)
  PROVE  StopInv'
<1>1. /\ Goto(w, "return") \/ Goto(w, "insert")
      /\ UNCHANGED <<requested, callbacks, lock, stop, flag, numbered, mutex>>
  BY DEF First
<1>2. at[w] = "first"
  BY DEF First
<1>3. ~(w \in Range(callbacks) \/ stop[2] = w)
  BY <1>2 DEF StopInv, Due, Registered
<1>4. ASSUME NEW place \in {"return", "insert"}, Goto(w, place)
      PROVE  StopInv'
  <2>1. /\ place \in Places /\ place # "self" /\ place \in WithMutex /\ at[w] \in WithMutex
        /\ place \notin {"timeout", "unlock", "check", "sleep", "asleep", "lock"}
        /\ at[w] \notin {"timeout", "unlock", "check", "sleep", "asleep", "lock"}
    BY <1>2 DEF Places, WithMutex
  <2>2. Woken(w)'
    BY <1>4, <2>1, MovedIs DEF Woken
  <2> QED
    BY <1>1, <1>3, <1>4, <2>1, <2>2, WaiterKeepsMutex
<1> QED
  BY <1>1, <1>4

\* The predicate is false, no stop is requested and no flag set: the callback is
\* still to come.
LEMMA CheckStep ==
  ASSUME StopInv, NEW w \in Waiters, Check(w)
  PROVE  StopInv'
<1>1. at[w] = "check" /\ UNCHANGED <<requested, callbacks, lock, stop, flag, numbered, mutex>>
  BY DEF Check
<1>2. Woken(w)
  BY DEF StopInv, ToBeWoken
<1>3. CASE Goto(w, "remove") /\ w \in CondWaiters
  <2>1. Woken(w)'
    BY <1>3, MovedIs DEF Woken, Places, Registered
  <2>2. "remove" \in Places /\ "remove" \in Registered /\ "remove" # "self" /\ w \notin TimedWaiters
        /\ "remove" \notin {"timeout", "unlock"} /\ at[w] \in WithMutex
    BY <1>1, <1>3, WaitersApart DEF Places, Registered, WithMutex
  <2> QED
    BY <1>1, <1>3, <2>1, <2>2, WaiterKeepsMutex
<1>4. CASE Goto(w, "unlock") /\ w \in TimedWaiters
  <2>1. Woken(w)'
    BY <1>4, MovedIs DEF Woken, Places, Registered
  <2>2. "unlock" \in Places /\ "unlock" \in Registered /\ "unlock" # "self" /\ w \notin CondWaiters
        /\ at[w] \in {"check", "sleep", "unlock"}
    BY <1>1, <1>4, WaitersApart DEF Places, Registered
  <2> QED
    BY <1>1, <1>4, <2>1, <2>2, WaiterKeepsMutex
<1>5. CASE /\ Goto(w, "sleep")
           /\ IF w \in TimedWaiters THEN ~flag[w] ELSE ~requested
  <2>1. at'[w] = "sleep"
    BY <1>5, MovedIs DEF Places, Registered
  <2>2. w \in Range(callbacks) \/ stop = <<"lock", w>>
    BY <1>1, <1>2, <1>5 DEF Woken
  <2>3. Woken(w)'
    BY <1>1, <2>1, <2>2 DEF Woken
  <2>4. /\ "sleep" \in Places /\ "sleep" \in Registered /\ "sleep" # "self"
        /\ "sleep" \notin {"timeout", "unlock"} /\ at[w] \in WithMutex
        /\ at[w] \in {"check", "sleep", "unlock"} /\ "sleep" \in {"check", "sleep", "unlock"}
    BY <1>1 DEF Places, Registered, WithMutex
  <2> QED
    BY <1>1, <1>5, <2>3, <2>4, WaiterKeepsMutex
<1> QED
  BY <1>3, <1>4, <1>5, WaitersApart DEF Check, Asked

LEMMA SleepStep ==
  ASSUME StopInv, NEW w \in Waiters, Sleep(w)
  PROVE  StopInv'
<1>1. at[w] = "sleep" /\ Goto(w, "asleep") /\ Drop(w)
      /\ UNCHANGED <<requested, callbacks, lock, stop, flag, numbered>>
  BY DEF Sleep
<1>2. "asleep" \in Places /\ "asleep" \in Registered /\ "asleep" # "self"
      /\ "asleep" \notin WithMutex /\ "asleep" \notin {"timeout", "unlock"}
      /\ "asleep" \notin {"check", "sleep", "unlock"} /\ "sleep" \in WithMutex
  BY DEF Places, Registered, WithMutex
<1>3. at'[w] = "asleep"
  BY <1>1, <1>2, MovedIs
<1>4. Woken(w)'
  BY <1>1, <1>3 DEF StopInv, ToBeWoken, Woken
<1>5. /\ mutex' \in [Mutexes -> Waiters \cup {Nobody}] /\ mutex'[MutexOf(w)] = Nobody
      /\ \A m \in Mutexes \ {MutexOf(w)} : mutex'[m] = mutex[m]
  BY <1>1, DroppedIs
<1>6. \A v \in TimedWaiters \ {w} : mutex'[v] = mutex[v]
  BY <1>5, WaitersApart
<1>7. \A v \in CondWaiters \ {w} : at[v] \in WithMutex => mutex'["shared"] = v
  <2>1. CASE w \in CondWaiters
    BY <1>1, <1>2, <2>1, WaitersApart DEF StopInv, Holders
  <2>2. CASE w \in TimedWaiters
    BY <1>5, <2>2, WaitersApart DEF StopInv, Holders
  <2> QED
    BY <2>1, <2>2, WaitersApart
<1>8. w \in TimedWaiters => mutex'[w] # w
  BY <1>5, WaitersApart
<1> QED
  BY <1>1, <1>2, <1>4, <1>5, <1>6, <1>7, <1>8, WaiterMoves

LEMMA AwakeStep ==
  ASSUME StopInv, NEW w \in Waiters, Awake(w)
  PROVE  StopInv'
<1>1. /\ at[w] = "asleep" /\ UNCHANGED <<requested, callbacks, lock, stop, flag, numbered, mutex>>
      /\ Goto(w, "lock") \/ (Goto(w, "timeout") /\ at'[w] = "timeout")
      /\ at'[w] = "timeout" => w \in TimedWaiters
  <2>1. Goto(w, "timeout") => at'[w] = "timeout"
    BY MovedIs DEF Places, Registered
  <2> QED
    BY <2>1 DEF Awake, Goto
<1>2. ASSUME NEW place \in {"lock", "timeout"}, Goto(w, place), place = "timeout" => w \in TimedWaiters
      PROVE  StopInv'
  <2>1. /\ place \in Places /\ place # "self" /\ place \in Registered
        /\ place \notin {"check", "sleep", "unlock", "asleep"} /\ place \notin WithMutex
        /\ at[w] \notin {"check", "sleep", "unlock"}
    BY <1>1, <1>2 DEF Places, Registered, WithMutex
  <2>2. at'[w] = place
    BY <1>2, <2>1, MovedIs
  <2>3. w \in Range(callbacks) \/ stop[2] = w
    BY <1>1 DEF StopInv, ToBeWoken, Woken
  <2>4. stop[2] = w => requested /\ (stop = <<"lock", w>> \/ (w \in TimedWaiters => flag[w]))
    BY WaitersApart DEF StopInv, Holders, StopTyped
  <2>5. Woken(w)'
    BY <1>1, <2>1, <2>2, <2>3, <2>4 DEF Woken
  <2>6. w \in CondWaiters => place \notin {"timeout", "unlock"}
    BY <1>2, <2>1, WaitersApart
  <2> QED
    BY <1>1, <1>2, <2>1, <2>5, <2>6, WaiterKeepsMutex
<1> QED
  BY <1>1, <1>2

LEMMA RelockStep ==
  ASSUME StopInv, NEW w \in Waiters, Relock(w)
  PROVE  StopInv'
<1> DEFINE place == IF at[w] = "lock" THEN "check" ELSE "unlock"
<1>1. at[w] \in {"lock", "timeout"} /\ Hold(w) /\ Goto(w, place)
      /\ UNCHANGED <<requested, callbacks, lock, stop, flag, numbered>>
  BY DEF Relock
<1>2. /\ place \in Places /\ place # "self" /\ place \in Registered
      /\ place \in {"check", "sleep", "unlock"} /\ place \notin {"sleep", "asleep", "lock"}
      /\ w \in CondWaiters => place = "check" /\ place \notin {"timeout", "unlock"}
      /\ place = "check" => at[w] = "lock"
  BY <1>1 DEF Places, Registered, StopInv, Holders
<1> HIDE DEF place
<1>3. at'[w] = place
  BY <1>1, <1>2, MovedIs
<1>4. Woken(w)'
  BY <1>1, <1>2, <1>3 DEF StopInv, ToBeWoken, Woken
<1>5. /\ mutex' \in [Mutexes -> Waiters \cup {Nobody}]
      /\ mutex[MutexOf(w)] = Nobody /\ mutex'[MutexOf(w)] = w
      /\ \A m \in Mutexes \ {MutexOf(w)} : mutex'[m] = mutex[m]
  BY <1>1, HeldIs
<1>6. \A v \in TimedWaiters \ {w} : mutex'[v] = mutex[v]
  BY <1>5, WaitersApart
<1>7. \A v \in CondWaiters \ {w} : at[v] \in WithMutex => mutex'["shared"] = v
  <2>1. CASE w \in CondWaiters
    BY <1>5, <2>1, WaitersApart DEF StopInv, Holders
  <2>2. CASE w \in TimedWaiters
    BY <1>5, <2>2, WaitersApart DEF StopInv, Holders
  <2> QED
    BY <2>1, <2>2, WaitersApart
<1>8. /\ w \in TimedWaiters => mutex'[w] = w
      /\ w \in CondWaiters => mutex'["shared"] = w
  BY <1>5, WaitersApart
<1> QED
  BY <1>1, <1>2, <1>4, <1>5, <1>6, <1>7, <1>8, WaiterMoves

LEMMA UnlockStep ==
  ASSUME StopInv, NEW w \in Waiters, Unlock(w)
  PROVE  StopInv'
<1>1. at[w] = "unlock" /\ Goto(w, "remove") /\ Drop(w)
      /\ UNCHANGED <<requested, callbacks, lock, stop, flag, numbered>>
  BY DEF Unlock
<1>2. /\ "remove" \in Places /\ "remove" \in Registered /\ "remove" # "self"
      /\ "remove" \notin {"check", "sleep", "unlock", "asleep", "lock"}
  BY DEF Places, Registered
<1>3. w \in TimedWaiters /\ w \notin CondWaiters
  BY <1>1, WaitersApart DEF StopInv, Holders
<1>4. Woken(w)'
  BY <1>1, <1>2, MovedIs DEF Woken
<1>5. /\ mutex' \in [Mutexes -> Waiters \cup {Nobody}] /\ mutex'[w] = Nobody
      /\ \A m \in Mutexes \ {w} : mutex'[m] = mutex[m]
  BY <1>1, <1>3, DroppedIs, WaitersApart
<1>6. /\ \A v \in TimedWaiters \ {w} : mutex'[v] = mutex[v]
      /\ \A v \in CondWaiters \ {w} : at[v] \in WithMutex => mutex'["shared"] = v
      /\ mutex'[w] # w
  BY <1>3, <1>5, WaitersApart DEF StopInv, Holders
<1> QED
  BY <1>1, <1>2, <1>3, <1>4, <1>5, <1>6, WaiterMoves

LEMMA ReturnStep ==
  ASSUME StopInv, NEW w \in Waiters, Return(w)
  PROVE  StopInv'
<1>1. at[w] = "return" /\ Goto(w, "returned")
      /\ UNCHANGED <<requested, callbacks, lock, stop, flag, numbered>>
      /\ IF w \in CondWaiters THEN Drop(w) ELSE UNCHANGED mutex
  BY DEF Return
<1>2. /\ "returned" \in Places /\ "returned" # "self" /\ "returned" \notin WithMutex
      /\ "returned" \notin {"timeout", "check", "sleep", "unlock", "asleep", "lock"}
      /\ "return" \notin Registered /\ "return" \in WithMutex
      /\ "return" \notin {"check", "sleep", "unlock"}
  BY DEF Places, Registered, WithMutex
<1>3. ~(w \in Range(callbacks) \/ stop[2] = w)
  BY <1>1, <1>2 DEF StopInv, Due
<1>4. Woken(w)'
  BY <1>1, <1>2, MovedIs DEF Woken
<1>5. CASE w \in CondWaiters
  <2>1. /\ mutex' \in [Mutexes -> Waiters \cup {Nobody}]
        /\ \A m \in Mutexes \ {"shared"} : mutex'[m] = mutex[m]
    BY <1>1, <1>5, DroppedIs, WaitersApart
  <2>2. /\ \A v \in TimedWaiters : mutex'[v] = mutex[v]
        /\ \A v \in CondWaiters \ {w} : at[v] \in WithMutex => mutex'["shared"] = v
    BY <1>1, <1>2, <1>5, <2>1, WaitersApart DEF StopInv, Holders
  <2> QED
    BY <1>1, <1>2, <1>3, <1>4, <1>5, <2>1, <2>2, WaitersApart, WaiterMoves
<1>6. CASE w \notin CondWaiters
  BY <1>1, <1>2, <1>3, <1>4, <1>6, WaiterKeepsMutex
<1> QED
  BY <1>5, <1>6

-----------------------------------------------------------------------------
\* The callbacks and who calls them.
LEMMA InsertCallbackStep ==
  ASSUME StopInv, NEW w \in Waiters, InsertCallback(w)
  PROVE  StopInv'
<1>1. /\ at[w] = "insert" /\ lock = Nobody /\ UNCHANGED <<requested, mutex, stop, flag>>
      /\ w \notin Range(callbacks) /\ stop[2] # w
  BY DEF InsertCallback, StopInv, Due, Registered
<1> DEFINE place == IF w \in CondWaiters THEN "check" ELSE "lock"
<1>2. CASE requested /\ lock' = w /\ Goto(w, "self") /\ UNCHANGED <<callbacks, numbered>>
  <2>1. at' \in [Waiters -> Places] /\ at'[w] = "self" /\ \A v \in Waiters \ {w} : at'[v] = at[v]
    BY <1>2, MovedIs DEF Places
  <2>2. StopTyped'
    BY <1>1, <1>2, <2>1 DEF StopInv, StopTyped
  <2>3. Holders'
    <3>1. \A v \in CondWaiters :
             /\ at'[v] \notin {"timeout", "unlock"}
             /\ at'[v] \in WithMutex => mutex'["shared"] = v
      BY <1>1, <2>1, WaitersApart DEF StopInv, Holders, WithMutex
    <3>2. \A v \in TimedWaiters : mutex'[v] = v <=> at'[v] \in {"check", "sleep", "unlock"}
      BY <1>1, <2>1, WaitersApart DEF StopInv, Holders
    <3>3. \A v \in Waiters : at'[v] = "self" => lock' = v /\ requested'
      BY <1>1, <1>2, <2>1, WaitersApart DEF StopInv, Holders
    <3>4. stop[1] \notin {"loop", "lock", "notify"}
      BY <1>1 DEF StopInv, Holders, Stopper, Nobody
    <3> QED
      BY <1>1, <3>1, <3>2, <3>3, <3>4 DEF StopInv, Holders
  <2>4. Due'
    BY <1>1, <1>2, <2>1 DEF StopInv, Due
  <2>5. ToBeWoken'
    <3>1. ASSUME NEW v \in Waiters
          PROVE  Woken(v)'
      BY <1>1, <1>2, <2>1 DEF StopInv, ToBeWoken, Woken
    <3> QED
      BY <3>1 DEF ToBeWoken
  <2> QED
    BY <2>2, <2>3, <2>4, <2>5 DEF StopInv
<1>3. CASE /\ ~requested /\ callbacks' = Append(callbacks, w) /\ UNCHANGED lock
           /\ numbered' = numbered \cup {w} /\ Goto(w, place)
  <2>1. /\ place \in Places /\ place \in Registered /\ place # "self"
        /\ place \notin {"timeout", "unlock", "sleep", "asleep"}
        /\ w \in TimedWaiters => place \notin {"check", "sleep", "unlock"}
        /\ w \in CondWaiters => at[w] \in WithMutex
    BY <1>1, WaitersApart DEF Places, Registered, WithMutex
  <2> HIDE DEF place
  <2>2. at' \in [Waiters -> Places] /\ at'[w] = place /\ \A v \in Waiters \ {w} : at'[v] = at[v]
    BY <1>3, <2>1, MovedIs
  <2>3. /\ callbacks' \in Seq(Waiters) /\ Distinct(callbacks')
        /\ Range(callbacks') = Range(callbacks) \cup {w}
    BY <1>1, <1>3, AppendedIs DEF StopInv, StopTyped, Due
  <2>4. StopTyped'
    BY <1>1, <1>3, <2>2, <2>3 DEF StopInv, StopTyped
  <2>5. Holders'
    <3>1. \A v \in CondWaiters :
             /\ at'[v] \notin {"timeout", "unlock"}
             /\ at'[v] \in WithMutex => mutex'["shared"] = v
      BY <1>1, <2>1, <2>2, WaitersApart DEF StopInv, Holders
    <3>2. \A v \in TimedWaiters : mutex'[v] = v <=> at'[v] \in {"check", "sleep", "unlock"}
      BY <1>1, <2>1, <2>2, WaitersApart DEF StopInv, Holders
    <3>3. \A v \in Waiters : at'[v] = "self" => lock' = v /\ requested'
      BY <1>1, <1>3, <2>1, <2>2, WaitersApart DEF StopInv, Holders
    <3> QED
      BY <1>1, <1>3, <3>1, <3>2, <3>3 DEF StopInv, Holders
  <2>6. Due'
    BY <1>1, <1>3, <2>1, <2>2, <2>3 DEF StopInv, Due
  <2>7. ToBeWoken'
    <3>1. ASSUME NEW v \in Waiters
          PROVE  Woken(v)'
      BY <1>1, <1>3, <2>1, <2>2, <2>3 DEF StopInv, ToBeWoken, Woken
    <3> QED
      BY <3>1 DEF ToBeWoken
  <2> QED
    BY <2>4, <2>5, <2>6, <2>7 DEF StopInv
<1> QED
  BY <1>2, <1>3 DEF InsertCallback

LEMMA RemoveCallbackStep ==
  ASSUME StopInv, NEW w \in Waiters, RemoveCallback(w)
  PROVE  StopInv'
<1>1. /\ at[w] = "remove" /\ RemoveLocks(w) /\ Goto(w, "return")
      /\ callbacks' = RemoveFirst(callbacks, w)
      /\ UNCHANGED <<requested, lock, mutex, stop, flag, numbered>>
  BY DEF RemoveCallback
<1>2. at' \in [Waiters -> Places] /\ at'[w] = "return" /\ \A v \in Waiters \ {w} : at'[v] = at[v]
  BY <1>1, MovedIs DEF Places
<1>3. /\ callbacks' \in Seq(Waiters) /\ Distinct(callbacks')
      /\ Range(callbacks') = Range(callbacks) \ {w}
  BY <1>1, RemovedIs DEF StopInv, StopTyped, Due
\* request_stop holds the lock while it runs a callback.
<1>4. stop[2] # w
  <2>1. stop[2] = w => w \in numbered /\ lock = Stopper
    BY WaitersApart DEF StopInv, Holders, Due
  <2> QED
    BY <1>1, <2>1 DEF RemoveLocks, Stopper, Nobody
<1>5. StopTyped'
  BY <1>1, <1>2, <1>3 DEF StopInv, StopTyped
<1>6. Holders'
  <2>1. \A v \in CondWaiters :
           /\ at'[v] \notin {"timeout", "unlock"}
           /\ at'[v] \in WithMutex => mutex'["shared"] = v
    BY <1>1, <1>2, WaitersApart DEF StopInv, Holders, WithMutex
  <2>2. \A v \in TimedWaiters : mutex'[v] = v <=> at'[v] \in {"check", "sleep", "unlock"}
    BY <1>1, <1>2, WaitersApart DEF StopInv, Holders
  <2>3. \A v \in Waiters : at'[v] = "self" => lock' = v /\ requested'
    BY <1>1, <1>2, WaitersApart DEF StopInv, Holders
  <2> QED
    BY <1>1, <2>1, <2>2, <2>3 DEF StopInv, Holders
<1>7. Due'
  BY <1>1, <1>2, <1>3, <1>4 DEF StopInv, Due
<1>8. ToBeWoken'
  <2>1. ASSUME NEW v \in Waiters
        PROVE  Woken(v)'
    BY <1>1, <1>2, <1>3 DEF StopInv, ToBeWoken, Woken
  <2> QED
    BY <2>1 DEF ToBeWoken
<1> QED
  BY <1>5, <1>6, <1>7, <1>8 DEF StopInv

\* Who sleeps on the mutex of a callback is woken by it.
LEMMA NotifiedIs ==
  ASSUME StopInv, NEW w \in Waiters, NEW v \in Waiters
  PROVE  /\ Notified(w)[v] = at[v] \/ (at[v] = "asleep" /\ Notified(w)[v] = "lock")
         /\ Notified(w)[v] = "asleep" => v # w
         /\ v \in TimedWaiters /\ v # w => Notified(w)[v] = at[v]
         /\ Notified(w) \in [Waiters -> Places]
<1>1. "lock" \in Places /\ at \in [Waiters -> Places]
  BY DEF Places, Registered, StopInv, StopTyped
<1>2. v \in TimedWaiters /\ v # w => MutexOf(v) # MutexOf(w)
  BY WaitersApart
<1> QED
  BY <1>1, <1>2 DEF Notified

LEMMA FlaggedIs ==
  ASSUME StopInv, NEW w \in Waiters, Flagged(w)
  PROVE  /\ flag' \in [TimedWaiters -> BOOLEAN]
         /\ w \in TimedWaiters => flag'[w]
         /\ \A v \in TimedWaiters : flag[v] => flag'[v]
BY DEF StopInv, StopTyped, Flagged

LEMMA OwnCallbackStep ==
  ASSUME StopInv, NEW w \in Waiters, OwnCallback(w)
  PROVE  StopInv'
<1>1. /\ at[w] = "self" /\ Flagged(w) /\ lock' = Nobody /\ at' = [Notified(w) EXCEPT ![w] = "lock"]
      /\ UNCHANGED <<requested, callbacks, mutex, stop, numbered>>
  BY DEF OwnCallback
<1>2. lock = w /\ requested /\ stop[1] \notin {"loop", "lock", "notify"} /\ stop[2] # w
  BY <1>1, WaitersApart DEF StopInv, Holders
<1>3. /\ at' \in [Waiters -> Places] /\ at'[w] = "lock"
      /\ \A v \in Waiters \ {w} : at'[v] = at[v] \/ (at[v] = "asleep" /\ at'[v] = "lock" /\ v \in CondWaiters)
  <2>1. "lock" \in Places
    BY DEF Places, Registered
  <2>2. ASSUME NEW v \in Waiters, v # w
        PROVE  at'[v] = at[v] \/ (at[v] = "asleep" /\ at'[v] = "lock" /\ v \in CondWaiters)
    BY <1>1, <2>2, NotifiedIs, WaitersApart
  <2> QED
    BY <1>1, <2>1, <2>2, NotifiedIs
<1>4. w \notin Range(callbacks)
  BY <1>1 DEF StopInv, Due, Registered
<1>5. StopTyped'
  BY <1>1, <1>3, FlaggedIs DEF StopInv, StopTyped
<1>6. Holders'
  <2>1. \A v \in CondWaiters :
           /\ at'[v] \notin {"timeout", "unlock"}
           /\ at'[v] \in WithMutex => mutex'["shared"] = v
    BY <1>1, <1>3, WaitersApart DEF StopInv, Holders, WithMutex
  <2>2. \A v \in TimedWaiters : mutex'[v] = v <=> at'[v] \in {"check", "sleep", "unlock"}
    BY <1>1, <1>3, WaitersApart DEF StopInv, Holders
  <2>3. \A v \in Waiters : at'[v] # "self"
    BY <1>1, <1>2, <1>3 DEF StopInv, Holders
  <2> QED
    BY <1>1, <1>2, <2>1, <2>2, <2>3 DEF StopInv, Holders
<1>7. Due'
  BY <1>1, <1>2, <1>3, <1>4 DEF StopInv, Due, Registered
<1>8. ToBeWoken'
  <2>1. ASSUME NEW v \in Waiters
        PROVE  Woken(v)'
    <3>1. CASE v = w
      BY <1>1, <1>2, <1>3, <3>1, FlaggedIs DEF Woken
    <3>2. CASE v # w /\ at'[v] = at[v]
      BY <1>1, <1>2, <1>3, <3>2, FlaggedIs DEF StopInv, ToBeWoken, Woken
    <3>3. CASE v # w /\ at'[v] = "lock" /\ v \in CondWaiters
      BY <1>1, <1>2, <3>3, WaitersApart DEF Woken
    <3> QED
      BY <1>3, <3>1, <3>2, <3>3
  <2> QED
    BY <2>1 DEF ToBeWoken
<1> QED
  BY <1>5, <1>6, <1>7, <1>8 DEF StopInv

LEMMA RequestStopStep ==
  ASSUME StopInv, RequestStop
  PROVE  StopInv'
<1>1. /\ stop[1] = "idle" /\ lock = Nobody /\ lock' = Stopper /\ requested' = TRUE
      /\ stop' = <<"loop", Nobody>> /\ UNCHANGED <<callbacks, mutex, at, flag, numbered>>
  BY DEF RequestStop
<1>2. stop[2] = Nobody /\ \A v \in Waiters : stop # <<"lock", v>> /\ stop[2] # v
  BY <1>1, WaitersApart DEF StopInv, Holders
<1>3. StopTyped'
  BY <1>1 DEF StopInv, StopTyped
<1>4. Holders'
  <2>1. \A v \in Waiters : at'[v] # "self"
    BY <1>1, WaitersApart DEF StopInv, Holders
  <2> QED
    BY <1>1, <2>1 DEF StopInv, Holders
<1>5. Due'
  BY <1>1, <1>2, WaitersApart DEF StopInv, Due
<1>6. ToBeWoken'
  <2>1. ASSUME NEW v \in Waiters
        PROVE  Woken(v)'
    BY <1>1, <1>2 DEF StopInv, ToBeWoken, Woken
  <2> QED
    BY <2>1 DEF ToBeWoken
<1> QED
  BY <1>3, <1>4, <1>5, <1>6 DEF StopInv

LEMMA NextCallbackStep ==
  ASSUME StopInv, NextCallback
  PROVE  StopInv'
<1>1. /\ stop[1] = "loop" /\ UNCHANGED <<requested, mutex, at, flag, numbered>>
  BY DEF NextCallback
<1>2. /\ lock = Stopper /\ requested /\ stop[2] = Nobody
      /\ \A v \in Waiters : stop # <<"lock", v>> /\ stop[2] # v
  BY <1>1, WaitersApart DEF StopInv, Holders
<1>3. \A v \in Waiters : at[v] # "self"
  BY <1>2, WaitersApart DEF StopInv, Holders
<1>4. CASE callbacks = <<>> /\ stop' = <<"done", Nobody>> /\ lock' = Nobody /\ UNCHANGED callbacks
  <2>1. StopTyped'
    BY <1>1, <1>4 DEF StopInv, StopTyped
  <2>2. Holders'
    BY <1>1, <1>2, <1>3, <1>4 DEF StopInv, Holders
  <2>3. Due'
    BY <1>1, <1>4, WaitersApart DEF StopInv, Due
  <2>4. ToBeWoken'
    <3>1. ASSUME NEW v \in Waiters
          PROVE  Woken(v)'
      BY <1>1, <1>2, <1>4 DEF StopInv, ToBeWoken, Woken
    <3> QED
      BY <3>1 DEF ToBeWoken
  <2> QED
    BY <2>1, <2>2, <2>3, <2>4 DEF StopInv
<1>5. CASE /\ callbacks # <<>> /\ stop' = <<"lock", Head(callbacks)>>
           /\ callbacks' = Tail(callbacks) /\ UNCHANGED lock
  <2> DEFINE h == Head(callbacks)
  <2>1. /\ callbacks' \in Seq(Waiters) /\ Distinct(callbacks') /\ h \in Waiters /\ h \in Range(callbacks)
        /\ Range(callbacks') = Range(callbacks) \ {h}
    BY <1>5, TailIs DEF StopInv, StopTyped, Due
  <2> HIDE DEF h
  <2>2. stop' = <<"lock", h>>
    BY <1>5 DEF h
  <2>3. StopTyped'
    BY <1>1, <1>5, <2>1, <2>2 DEF StopInv, StopTyped
  <2>4. Holders'
    BY <1>1, <1>2, <1>3, <1>5, <2>1, <2>2, WaitersApart DEF StopInv, Holders
  <2>5. Due'
    BY <1>1, <2>1, <2>2 DEF StopInv, Due
  <2>6. ToBeWoken'
    <3>1. ASSUME NEW v \in Waiters
          PROVE  Woken(v)'
      <4>1. v \in Range(callbacks) => v \in Range(callbacks') \/ stop' = <<"lock", v>>
        BY <2>1, <2>2
      <4>2. stop' = <<"lock", v>> => stop'[2] = v
        OBVIOUS
      <4> QED
        BY <1>1, <1>2, <4>1, <4>2 DEF StopInv, ToBeWoken, Woken
    <3> QED
      BY <3>1 DEF ToBeWoken
  <2> QED
    BY <2>3, <2>4, <2>5, <2>6 DEF StopInv
<1> QED
  BY <1>4, <1>5 DEF NextCallback

\* The callback cannot come between the look at the flag and the sleep: that is
\* what it takes the mutex for.
LEMMA RunCallbackStep ==
  ASSUME StopInv, RunCallback
  PROVE  StopInv'
<1> DEFINE h == stop[2]
<1>1. /\ stop[1] = "lock" /\ mutex[MutexOf(h)] = Nobody /\ Flagged(h) /\ stop' = <<"notify", h>>
      /\ UNCHANGED <<requested, callbacks, lock, mutex, at, numbered>>
  BY DEF RunCallback, CallbackLocks
<1>2. h \in Waiters /\ h # Nobody
  BY <1>1 DEF StopInv, Holders, StopTyped
<1>3. /\ requested /\ lock = Stopper
      /\ \A v \in Waiters : stop = <<"lock", v>> => v = h
  BY <1>1 DEF StopInv, Holders
<1>4. at[h] # "sleep"
  <2>1. h \in CondWaiters => mutex["shared"] = Nobody
    BY <1>1, WaitersApart
  <2>2. h \in TimedWaiters => mutex[h] = Nobody
    BY <1>1, WaitersApart
  <2> QED
    BY <1>2, <2>1, <2>2, WaitersApart DEF StopInv, Holders, WithMutex
<1> HIDE DEF h
<1>5. StopTyped'
  BY <1>1, <1>2, FlaggedIs DEF StopInv, StopTyped
<1>6. Holders'
  BY <1>1, <1>2, <1>3, FlaggedIs DEF StopInv, Holders
<1>7. Due'
  BY <1>1 DEF StopInv, Due, h
<1>8. ToBeWoken'
  <2>1. ASSUME NEW v \in Waiters
        PROVE  Woken(v)'
    <3>1. stop = <<"lock", v>> => v = h
      BY <1>3
    <3>2. stop[2] = v <=> stop'[2] = v
      BY <1>1 DEF h
    <3> QED
      BY <1>1, <1>2, <1>3, <1>4, <3>1, <3>2, FlaggedIs DEF StopInv, ToBeWoken, Woken
  <2> QED
    BY <2>1 DEF ToBeWoken
<1> QED
  BY <1>5, <1>6, <1>7, <1>8 DEF StopInv

LEMMA NotifyStep ==
  ASSUME StopInv, Notify
  PROVE  StopInv'
<1> DEFINE h == stop[2]
<1>1. /\ stop[1] = "notify" /\ at' = Notified(h) /\ stop' = <<"loop", Nobody>>
      /\ UNCHANGED <<requested, callbacks, lock, mutex, flag, numbered>>
  BY DEF Notify
<1>2. h \in Waiters /\ h # Nobody
  BY <1>1 DEF StopInv, Holders, StopTyped
<1>3. /\ requested /\ lock = Stopper /\ (h \in TimedWaiters => flag[h])
      /\ \A v \in Waiters : stop # <<"lock", v>>
  BY <1>1 DEF StopInv, Holders
<1> HIDE DEF h
<1>4. at' \in [Waiters -> Places]
  BY <1>1, <1>2, NotifiedIs
<1>5. ASSUME NEW v \in Waiters
      PROVE  /\ at'[v] = at[v] \/ (at[v] = "asleep" /\ at'[v] = "lock" /\ (v \in TimedWaiters => v = h))
             /\ at'[v] = "asleep" => v # h
  BY <1>1, <1>2, NotifiedIs
<1>6. StopTyped'
  BY <1>1, <1>4 DEF StopInv, StopTyped
<1>7. Holders'
  <2>1. \A v \in CondWaiters :
           /\ at'[v] \notin {"timeout", "unlock"}
           /\ at'[v] \in WithMutex => mutex'["shared"] = v
    BY <1>1, <1>5, WaitersApart DEF StopInv, Holders, WithMutex
  <2>2. \A v \in TimedWaiters : mutex'[v] = v <=> at'[v] \in {"check", "sleep", "unlock"}
    BY <1>1, <1>5, WaitersApart DEF StopInv, Holders
  <2>3. \A v \in Waiters : at'[v] # "self"
    BY <1>3, <1>5, WaitersApart DEF StopInv, Holders
  <2> QED
    BY <1>1, <1>3, <2>1, <2>2, <2>3 DEF StopInv, Holders
<1>8. Due'
  <2>1. stop'[2] \notin Waiters
    BY <1>1, WaitersApart
  <2> QED
    BY <1>1, <1>5, <2>1 DEF StopInv, Due, Registered
<1>9. ToBeWoken'
  <2>1. ASSUME NEW v \in Waiters
        PROVE  Woken(v)'
    <3>1. CASE at'[v] = at[v]
      <4>1. at'[v] = "asleep" => stop[2] # v
        BY <1>5 DEF h
      <4> QED
        BY <1>1, <1>3, <3>1, <4>1 DEF StopInv, ToBeWoken, Woken
    <3>2. CASE at'[v] = "lock" /\ (v \in TimedWaiters => v = h)
      BY <1>1, <1>3, <3>2 DEF Woken
    <3> QED
      BY <1>5, <3>1, <3>2
  <2> QED
    BY <2>1 DEF ToBeWoken
<1> QED
  BY <1>6, <1>7, <1>8, <1>9 DEF StopInv

LEMMA ProduceStep ==
  ASSUME StopInv, Produce
  PROVE  StopInv'
<1>1. /\ at' = [w \in Waiters |-> IF at[w] = "asleep" /\ w \in CondWaiters THEN "lock" ELSE at[w]]
      /\ UNCHANGED <<requested, callbacks, lock, mutex, stop, flag, numbered>>
  BY DEF Produce
<1>2. at' \in [Waiters -> Places]
  BY <1>1 DEF StopInv, StopTyped, Places, Registered
<1>3. \A v \in Waiters : at'[v] = at[v] \/ (at[v] = "asleep" /\ at'[v] = "lock" /\ v \in CondWaiters)
  BY <1>1
<1>4. StopTyped'
  BY <1>1, <1>2 DEF StopInv, StopTyped
<1>5. Holders'
  <2>1. \A v \in CondWaiters :
           /\ at'[v] \notin {"timeout", "unlock"}
           /\ at'[v] \in WithMutex => mutex'["shared"] = v
    BY <1>1, <1>3, WaitersApart DEF StopInv, Holders, WithMutex
  <2>2. \A v \in TimedWaiters : mutex'[v] = v <=> at'[v] \in {"check", "sleep", "unlock"}
    BY <1>1, <1>3, WaitersApart DEF StopInv, Holders
  <2>3. \A v \in Waiters : at'[v] = "self" => lock' = v /\ requested'
    BY <1>1, <1>3 DEF StopInv, Holders
  <2> QED
    BY <1>1, <2>1, <2>2, <2>3 DEF StopInv, Holders
<1>6. Due'
  BY <1>1, <1>3 DEF StopInv, Due, Registered
<1>7. ToBeWoken'
  <2>1. ASSUME NEW v \in Waiters
        PROVE  Woken(v)'
    <3>1. CASE at'[v] = at[v]
      BY <1>1, <3>1 DEF StopInv, ToBeWoken, Woken
    <3>2. CASE at[v] = "asleep" /\ at'[v] = "lock" /\ v \in CondWaiters
      <4>1. stop[2] = v => requested
        BY WaitersApart DEF StopInv, Holders
      <4>2. v \in Range(callbacks) \/ stop[2] = v
        BY <3>2 DEF StopInv, ToBeWoken, Woken
      <4> QED
        BY <1>1, <3>2, <4>1, <4>2, WaitersApart DEF Woken
    <3> QED
      BY <1>3, <3>1, <3>2
  <2> QED
    BY <2>1 DEF ToBeWoken
<1> QED
  BY <1>4, <1>5, <1>6, <1>7 DEF StopInv

LEMMA StopInvHolds == StopSpec => []StopInv
<1>1. StopInit => StopInv
  <2> SUFFICES ASSUME StopInit PROVE StopInv
    OBVIOUS
  <2>1. StopTyped
    <3>1. at \in [Waiters -> Places] /\ mutex \in [Mutexes -> Waiters \cup {Nobody}]
          /\ flag \in [TimedWaiters -> BOOLEAN]
      BY DEF StopInit, Places
    <3>2. callbacks = <<>> /\ requested \in BOOLEAN /\ lock \in {Nobody}
      BY DEF StopInit
    <3>4. callbacks \in Seq(Waiters)
      BY <3>2
    <3>3. stop \in {"idle"} \X {Nobody}
      BY DEF StopInit
    <3> QED
      BY <3>1, <3>2, <3>3, <3>4 DEF StopTyped
  <2>2. Holders
    <3>1. \A w \in Waiters : at[w] = "outside" /\ w # Nobody
      BY WaitersApart DEF StopInit
    <3>2. \A w \in TimedWaiters : mutex[w] = Nobody
      BY WaitersApart DEF StopInit
    <3> QED
      BY <3>1, <3>2, WaitersApart DEF StopInit, Holders, WithMutex
  <2>3. Due
    <3>1. callbacks = <<>> /\ Range(callbacks) = {}
      BY DEF StopInit, Range
    <3> QED
      BY <3>1, WaitersApart DEF StopInit, Due, Distinct
  <2>4. ToBeWoken
    BY DEF StopInit, ToBeWoken, Woken
  <2> QED
    BY <2>1, <2>2, <2>3, <2>4 DEF StopInv
<1>2. StopInv /\ [StopNext]_stopVars => StopInv'
  <2> SUFFICES ASSUME StopInv, [StopNext]_stopVars PROVE StopInv'
    OBVIOUS
  <2>1. CASE UNCHANGED stopVars
    BY <2>1 DEF stopVars, StopInv, StopTyped, Holders, Due, ToBeWoken, Woken
  <2>2. CASE RequestStop \/ NextCallback \/ RunCallback \/ Notify \/ Produce
    BY <2>2, RequestStopStep, NextCallbackStep, RunCallbackStep, NotifyStep, ProduceStep
  <2>3. ASSUME NEW w \in Waiters,
               \/ Enter(w) \/ First(w) \/ InsertCallback(w) \/ OwnCallback(w) \/ Check(w) \/ Sleep(w)
               \/ Awake(w) \/ Relock(w) \/ Unlock(w) \/ RemoveCallback(w) \/ Return(w)
        PROVE  StopInv'
    BY <2>3, EnterStep, FirstStep, InsertCallbackStep, OwnCallbackStep, CheckStep, SleepStep,
       AwakeStep, RelockStep, UnlockStep, RemoveCallbackStep, ReturnStep
  <2> QED
    BY <2>1, <2>2, <2>3 DEF StopNext
<1> QED
  BY <1>1, <1>2, PTL DEF StopSpec

\* No wait sleeps through a stop: who is asleep after the request still has its
\* callback before it.  No callback touches a wait that has returned.  And a
\* timed wait does not hold the mutex its callback takes while it waits for the
\* lock of the stop state.  For any number of waits of either kind.
THEOREM StopReachesTheorem == StopSpec => []StopReachesWaits
<1>1. StopInv => StopReachesWaits
  <2> SUFFICES ASSUME StopInv PROVE StopReachesWaits
    OBVIOUS
  <2>1. \A w \in Waiters : at[w] = "asleep" => stop[2] = w \/ w \in Range(callbacks)
    BY DEF StopInv, ToBeWoken, Woken
  <2>2. stop[2] # Nobody => at[stop[2]] \notin {"outside", "returned", "return"}
    BY DEF StopInv, StopTyped, Due, Registered
  <2>3. \A w \in TimedWaiters : mutex[w] = w => at[w] \notin {"first", "insert", "self", "remove"}
    BY DEF StopInv, Holders
  <2> QED
    BY <2>1, <2>2, <2>3 DEF StopReachesWaits
<1> QED
  BY <1>1, StopInvHolds, PTL
=============================================================================
