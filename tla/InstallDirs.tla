---------------------------- MODULE InstallDirs ----------------------------
(***************************************************************************)
(* common/config.cpp: the folders of games, which load and save keep as two *)
(* lists, the paths and whether each is enabled.  load fills the second one *)
(* up in a variable that outlives the call.  Paths are ordered as save does,*)
(* by their small letters: two may be of one rank.                          *)
(***************************************************************************)
EXTENDS Naturals, Sequences, SequencesExt

CONSTANTS InstallPaths, \* the paths, with their rank
          HandLists,    \* [list, on] of files that somebody wrote
          MaxDirs,      \* bound of the model: folders in the list
          MaxInstall    \* bound of the model: calls

VARIABLES
  dirs,      \* settings_install_dirs
  enabledBy, \* install_dirs_enabled
  dirsFile,  \* [is, list, on, hasOn, ver]: hasOn, it has a list of flags
  saved,     \* history: the folders when save last wrote
  wrote,     \* history: what wrote the file: "hand", "save", or "cut" inside save
  dirsFrom,  \* history: "start", "load" right after a start, or "running"
  dirsCalls
dirsVars == <<dirs, enabledBy, dirsFile, saved, wrote, dirsFrom, dirsCalls>>

Folders == DOMAIN InstallPaths
\* The lists of such a file are of folders and of flags.
ASSUME HandAssumption == \A h \in HandLists : h.list \in Seq(Folders) /\ h.on \in Seq(BOOLEAN)

DirsFile(is, list, on, hasOn, ver) ==
  [is |-> is, list |-> list, on |-> on, hasOn |-> hasOn, ver |-> ver]
DirsCall(from) == dirsCalls < MaxInstall /\ dirsCalls' = dirsCalls + 1 /\ dirsFrom' = from

DirsInit ==
  /\ dirs = <<>> /\ enabledBy = <<>> /\ saved = <<>> /\ dirsFrom = "start" /\ dirsCalls = 0
  /\ wrote = "hand"
  /\ dirsFile \in {DirsFile("missing", <<>>, <<>>, FALSE, FALSE)} \cup
                    {DirsFile("toml", h.list, h.on, h.on # <<>>, FALSE) : h \in HandLists}

-----------------------------------------------------------------------------
\* addGameInstallDir refuses a path that is there; the other two find the first.
IndexOf(p) == SelectInSeq(dirs, LAMBDA d : d.path = p)
AddInstallDir(p, on) ==
  /\ DirsCall("running") /\ Len(dirs) < MaxDirs
  /\ dirs' = IF IndexOf(p) = 0 THEN Append(dirs, [path |-> p, enabled |-> on]) ELSE dirs
  /\ UNCHANGED <<enabledBy, dirsFile, saved, wrote>>
RemoveInstallDir(p) ==
  /\ DirsCall("running") /\ dirs' = IF IndexOf(p) = 0 THEN dirs ELSE RemoveAt(dirs, IndexOf(p))
  /\ UNCHANGED <<enabledBy, dirsFile, saved, wrote>>
SetInstallDirEnabled(p, on) ==
  /\ DirsCall("running")
  /\ dirs' = IF IndexOf(p) = 0 THEN dirs ELSE [dirs EXCEPT ![IndexOf(p)].enabled = on]
  /\ UNCHANGED <<enabledBy, dirsFile, saved, wrote>>

\* setGameInstallDirs and setAllGameInstallDirs take what they are given.
SetInstallDirs ==
  /\ DirsCall("running")
  /\ \E ps \in BoundedSeq(Folders, 2), on \in BOOLEAN :
       dirs' = [k \in DOMAIN ps |-> [path |-> ps[k], enabled |-> IF k = 1 THEN on ELSE TRUE]]
  /\ UNCHANGED <<enabledBy, dirsFile, saved, wrote>>

-----------------------------------------------------------------------------
\* save sorts pairs; folders of one rank come in any order.
Orders(ds) ==
  {[k \in DOMAIN ds |-> ds[f[k]]] : f \in
     {g \in Bijection(DOMAIN ds, DOMAIN ds) :
        \A j, k \in DOMAIN ds : j < k =>
          InstallPaths[ds[g[j]].path] <= InstallPaths[ds[g[k]].path]}}
Column(ds, field) == [k \in DOMAIN ds |-> ds[k][field]]

\* Mutation: the flags are not sorted with the paths.
ColumnsApart(ds) ==
  {DirsFile("toml", Column(s, "path"), Column(ds, "enabled"), TRUE, TRUE) : s \in Orders(ds)}

Columns(ds) ==
  {DirsFile("toml", Column(s, "path"), Column(s, "enabled"), TRUE, TRUE) : s \in Orders(ds)}

\* A file that cannot be written stays. A crash or a full disk leaves the
\* beginning of one: it does not parse, or ends before the version, the section
\* of the folders ("bare"), the list or the flags.
CutShort(f) ==
  {[f EXCEPT !.is = "broken"], [f EXCEPT !.on = <<>>, !.hasOn = FALSE],
   [f EXCEPT !.list = <<>>, !.on = <<>>, !.hasOn = FALSE],
   DirsFile("bare", <<>>, <<>>, FALSE, TRUE), DirsFile("bare", <<>>, <<>>, FALSE, FALSE)}
SavesTo(ds) ==
  \/ saved' = ds /\ wrote' = "save" /\ dirsFile' \in Columns(ds)
  \/ saved' = ds /\ wrote' = "cut" /\ \E f \in Columns(ds) : dirsFile' \in CutShort(f)
  \/ UNCHANGED <<dirsFile, saved, wrote>>
SaveDirs ==
  /\ DirsCall("running") /\ UNCHANGED <<dirs, enabledBy>>
  /\ IF dirsFile.is = "broken" THEN UNCHANGED <<dirsFile, saved, wrote>> ELSE SavesTo(dirs)

Grown(flags, n) == [k \in 1 .. n |-> IF k <= Len(flags) THEN flags[k] ELSE TRUE]
FlagsFor(file) ==
  LET n == Len(file.list) IN
  CASE ~file.hasOn -> Grown(enabledBy, n)
    [] file.hasOn /\ Len(file.on) < n -> Grown(file.on, n)
    [] file.hasOn /\ Len(file.on) >= n -> file.on
Versioned == IF dirsFile.ver THEN UNCHANGED <<dirsFile, saved, wrote>> ELSE SavesTo(dirs')
LoadDirs ==
  /\ DirsCall(IF dirsFrom = "start" THEN "load" ELSE "running")
  /\ CASE dirsFile.is = "missing" -> SavesTo(dirs) /\ UNCHANGED <<dirs, enabledBy>>
       [] dirsFile.is = "broken" -> UNCHANGED <<dirs, enabledBy, dirsFile, saved, wrote>>
       [] dirsFile.is = "bare" -> UNCHANGED <<dirs, enabledBy>> /\ Versioned
       [] dirsFile.is = "toml" ->
            /\ enabledBy' = FlagsFor(dirsFile)
            /\ dirs' = [k \in DOMAIN dirsFile.list |->
                          [path |-> dirsFile.list[k], enabled |-> enabledBy'[k]]]
            /\ Versioned

\* The program starts again, perhaps as another version.
StartAgain ==
  /\ DirsCall("start") /\ dirs' = <<>> /\ enabledBy' = <<>>
  /\ dirsFile' \in {dirsFile, [dirsFile EXCEPT !.ver = FALSE]} /\ UNCHANGED <<saved, wrote>>

DirsNext ==
  \/ SetInstallDirs \/ SaveDirs \/ LoadDirs \/ StartAgain
  \/ \E p \in Folders : RemoveInstallDir(p)
  \/ \E p \in Folders, on \in BOOLEAN : AddInstallDir(p, on) \/ SetInstallDirEnabled(p, on)
DirsSpec == DirsInit /\ [][DirsNext]_dirsVars

-----------------------------------------------------------------------------
\* The first load of a run finds the folders that save stored, each with its
\* own flag; of a save that was cut, none of them, or all of them enabled
\* (config.cpp:717-785, 977-1003, 1142-1172).  A later load of a list without
\* flags takes those of the load before.
Times(s, d) == Cardinality({k \in DOMAIN s : s[k] = d})
SameFolders(s, t) == \A d \in Range(s) \cup Range(t) : Times(s, d) = Times(t, d)
FoldersReturn ==
  [][dirsFrom = "start" /\ dirsFrom' = "load" =>
       /\ wrote = "save" => SameFolders(dirs', saved)
       /\ wrote = "cut" =>
            \/ dirs' = <<>>
            \/ SameFolders(dirs', [k \in DOMAIN saved |-> [saved[k] EXCEPT !.enabled = TRUE]])
    ]_dirsVars
=============================================================================
