------------------------------- MODULE Config -------------------------------
(***************************************************************************)
(* common/config.cpp: the settings in memory, their file and the files of   *)
(* single games.  No entry bears on another, so the model follows one of    *)
(* them, any one, through the calls of the program, exits and crashes.      *)
(* That the mode can be any one of three when it matters stands for         *)
(* setConfigMode.                                                           *)
(***************************************************************************)
EXTENDS ConfigEntries, Naturals

CONSTANTS Followed,    \* the entries and plain values a behaviour may follow
          Games,       \* files of single games
          HandFiles,   \* files that may be there before, written by hand
          MaxSettings  \* bound of the model: calls in a behaviour, restarts apart

None == "none"
Values == {"initial", "x"}
Held == Values \cup {"cut"}  \* "cut": what is left of a number
Global == "config.toml"
ConfigFiles == {Global} \cup Games

ASSUME ConfigAssumption == Followed \subseteq Entries \cup Plain /\ Global \notin Games

VARIABLES
  entry,   \* what is followed
  base,    \* its base_value, or the plain variable
  game,    \* its game_specific_value
  files,   \* what each file holds: see NoFile
  task,    \* <<>>, or the save that has yet to write its file
  kept,    \* history: what the file of all games may give back
  origin,  \* history: the file the game value is from, or "call"
  own,     \* history: game files that only save has ever written
  life,    \* history: "restarted", "loaded" right after it, or "running"
  settings \* calls so far

configVars == <<entry, base, game, files, task, kept, origin, own, life, settings>>

\* A file is missing, does not parse, or holds the section of the entry or not,
\* the value under its key (None: absent or of another type) and a version.
NoFile == [is |-> "missing"]
Broken == [is |-> "broken"]
Empty == [is |-> "toml", sec |-> FALSE, val |-> None, ver |-> None]
ByHand == {NoFile} \cup {[Empty EXCEPT !.sec = TRUE, !.val = v] : v \in {"x", None}}
Parsed(f) == files[f].is = "toml"
IsGame(f) == f \in Games

ConfigInit ==
  /\ entry \in Followed /\ base = "initial" /\ game = None
  /\ \E written \in [HandFiles -> ByHand] :
       files = [f \in ConfigFiles |-> IF f \in HandFiles THEN written[f] ELSE NoFile]
  /\ task = <<>>
  /\ kept = Held /\ origin = None /\ life = "restarted" /\ settings = 0
  /\ own = {f \in Games : files[f] = NoFile}

Call == task = <<>> /\ settings < MaxSettings /\ settings' = settings + 1
Running == life' = "running"

-----------------------------------------------------------------------------
\* ConfigEntry::get, by the mode that is set.
Shown(m) == CASE m = "Default" -> IF game = None THEN base ELSE game
            [] m = "Global"  -> base
            [] m = "Clean"   -> "initial"

\* set and the setters: none for some entries, one that forgets its argument.
SetEntry ==
  /\ Call /\ Running /\ UNCHANGED <<entry, files, task, kept, own>>
  /\ \E v \in Values :
       \/ entry \in ByMode /\ game' = v /\ origin' = "call" /\ UNCHANGED base
       \/ entry \in ByMode \cup ByBase /\ base' = v /\ UNCHANGED <<game, origin>>
       \/ entry \in SettersToRpc.zero /\ base' = "initial" /\ UNCHANGED <<game, origin>>

\* vblankFreq raises the base to the initial 60 when what shows ("x": 30) is less.
VblankFreq ==
  /\ Call /\ Running /\ entry = "vblankFrequency"
  /\ \E m \in {"Default", "Global", "Clean"} : Shown(m) \in {"x", "cut"}
  /\ base' = "initial" /\ UNCHANGED <<entry, game, files, task, kept, origin, own>>

\* setDefaultValues: userName becomes another value than the declared one.
DefaultOf == IF entry = "userName" THEN "x" ELSE "initial"
SetDefaultValues(gs) ==
  /\ Call /\ Running /\ UNCHANGED <<entry, files, task, kept, own>>
  /\ IF gs /\ entry \in GameDefaults \cup ModeDefaults
     THEN game' = DefaultOf /\ origin' = "call" ELSE UNCHANGED <<game, origin>>
  /\ base' = IF \/ ~gs /\ entry \in ModeDefaults \cup BaseDefaults
                \/ entry = "separateupdatefolder"
             THEN DefaultOf ELSE base

ResetGameSpecificValue ==
  /\ Call /\ Running /\ entry = "volumeSlider" /\ game' = None /\ origin' = None
  /\ UNCHANGED <<entry, base, files, task, kept, own>>

-----------------------------------------------------------------------------
\* setFromToml and find_or: a key that is absent empties the game value, and
\* leaves the base; the list of packages is emptied, a path never is.
GameFrom(file) ==
  IF file.sec /\ entry \in Loaded(TRUE) THEN file.val ELSE game
BaseFrom(file, gs) ==
  LET taken == file.sec /\ entry \in Plain \cup (IF gs THEN {} ELSE Loaded(FALSE))
      paths == {"sys_modules_path", "settings_addon_install_dir", "save_data_path"} IN
  CASE ~taken -> base
    [] taken /\ file.val = None -> IF entry = "m_pkg_viewer" THEN "initial" ELSE base
    [] taken /\ file.val # None ->
         IF entry \in paths /\ file.val = "initial" THEN base ELSE file.val

\* save up to the write: what the file held stays where no value is written,
\* and the values of the game leave the memory.
Written(f) ==
  LET old == IF files[f] = NoFile THEN Empty ELSE files[f]
      gs == IsGame(f) IN
  [is  |-> "toml",
   sec |-> old.sec \/ ~gs \/ entry \notin GuiPlain \cup {"trophyKey"},
   val |-> IF entry \notin Saved(gs) THEN old.val
           ELSE IF gs /\ game # None THEN game ELSE base,
   ver |-> IF gs THEN old.ver ELSE "this"]
Gone(f) == IsGame(f) /\ entry \in Saved(TRUE)

LoadNow(f) ==
  /\ Call /\ life' = IF f = Global /\ life = "restarted" THEN "loaded" ELSE "running"
  /\ UNCHANGED <<entry, files, kept, own>>
  /\ \/ /\ Parsed(f)
        /\ base' = BaseFrom(files[f], IsGame(f))
        /\ game' = IF IsGame(f) THEN GameFrom(files[f]) ELSE game
        /\ origin' = IF game' = None THEN None
                     ELSE IF IsGame(f) /\ files[f].sec /\ game' = files[f].val THEN f
                     ELSE origin
        /\ task' = IF IsGame(f) \/ files[f].ver = "this" THEN <<>>
                   ELSE <<f, [Written(f) EXCEPT
                                !.val = IF entry \in Saved(FALSE) THEN base' ELSE @]>>
     \/ /\ files[f] = NoFile /\ UNCHANGED <<base, game, origin>>
        /\ task' = IF IsGame(f) THEN <<>> ELSE <<f, Written(f)>>
     \/ files[f] = Broken /\ UNCHANGED <<base, game, origin, task>>

SaveNow(f) ==
  /\ Call /\ Running /\ UNCHANGED <<entry, base, files, kept, own>>
  /\ \/ /\ files[f] # Broken /\ task' = <<f, Written(f)>>
        /\ IF Gone(f) THEN game' = None /\ origin' = None ELSE UNCHANGED <<game, origin>>
     \/ files[f] = Broken /\ UNCHANGED <<game, origin, task>>

-----------------------------------------------------------------------------
\* The stream truncates the file, then writes it: a crash or a full disk leaves
\* a beginning.  One that ends in a string, a word or a list does not parse; one
\* that ends in a number parses, with another number.  An open that fails leaves
\* the old file.
CutNumber(file) == IF entry \in Numbers /\ file.val # None THEN {"cut"} ELSE {}
Beginnings(file) ==
  {Broken, Empty, [file EXCEPT !.ver = None]}
    \cup {[file EXCEPT !.val = v] : v \in {None} \cup CutNumber(file)}
    \cup {[file EXCEPT !.val = v, !.ver = None] : v \in {None} \cup CutNumber(file)}
Torn(file) == files' = [files EXCEPT ![task[1]] = file]
Stored == IF entry \in {"m_pkg_viewer", "extraDmemInMbytes"} THEN Held ELSE {base}

SaveWrite ==
  /\ task # <<>> /\ task' = <<>>
  /\ \/ Torn(task[2]) /\ kept' = IF task[1] = Global THEN Stored ELSE kept
     \/ \E cut \in Beginnings(task[2]) :
          /\ Torn(cut)
          /\ kept' = IF task[1] = Global
                     THEN Stored \cup {"initial"} \cup CutNumber(task[2]) ELSE kept
     \/ UNCHANGED <<files, kept>>
  /\ UNCHANGED <<entry, base, game, origin, own, life, settings>>

\* The program ends or dies (inside a save: after a SaveWrite that was cut, or
\* left the old file), and starts again, perhaps as another version.
Restart ==
  /\ task = <<>> /\ base' = "initial" /\ game' = None /\ origin' = None
  /\ life' = "restarted"
  /\ files' \in {files, [files EXCEPT ![Global] =
                           IF Parsed(Global) THEN [@ EXCEPT !.ver = None] ELSE @]}
  /\ UNCHANGED <<entry, task, kept, own, settings>>

ConfigNext ==
  \/ SetEntry \/ VblankFreq \/ ResetGameSpecificValue \/ SaveWrite \/ Restart
  \/ \E gs \in BOOLEAN : SetDefaultValues(gs)
  \/ \E f \in ConfigFiles : LoadNow(f) \/ SaveNow(f)

ConfigSpec == ConfigInit /\ [][ConfigNext]_configVars

-----------------------------------------------------------------------------
\* Settings outlive the program: whatever was saved before, and however the
\* save ended, the first load gives what the last save stored; when the file was
\* torn, that, the initial value, or, of a number, what was left of its digits,
\* which no one ever set (config.cpp:1202-1204 truncates in place).  The list of
\* packages and the extra memory are the two that no save stores
\* (config.cpp:855-1023, 1056-1205).
RestartKeeps == life = "loaded" => base \in kept

\* Games share the file of all and nothing else: loading or saving the file of
\* a game leaves what all share, as long as save alone wrote that file (save
\* keeps the plain values, which load takes from any file, out of it); and once
\* the file of a game is loaded that is whole, no value of the game before it
\* shows (config.cpp:109-115, 875-1013, 1117).
GamesApart ==
  [][\A f \in Games :
       /\ LoadNow(f) =>
            /\ (entry \in Plain => f \in own) => base' = base
            /\ f \in own /\ Parsed(f) /\ files[f].sec => origin' \in {f, None}
       /\ SaveNow(f) => base' = base
    ]_configVars
=============================================================================
