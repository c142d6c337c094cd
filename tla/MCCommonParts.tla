---------------------------- MODULE MCCommonParts ----------------------------
(* The parts that share no state with the window's job, nor with each other: *)
(* the settings, the folders of games, a param.sfo, trophies, waits that can *)
(* be stopped, a range of locks, the cache, IOFile objects and the package   *)
(* pane.  A behaviour runs one of them, the others rest where they began.    *)
EXTENDS Config, InstallDirs, PsfFile, TrophyFiles, StopToken, RangeLock, LruCache, IoFile,
        PackagePane

VARIABLE part

MCFollowed == Entries \cup Plain
MCKeySize == [FORMAT |-> 6, APP |-> 3]
MCPsfBytes == {<<>>, <<0, 7>>, <<7, 7, 7, 7, 7>>}
MCDump(cid, title, ver, addon, sfo) ==
  [cid |-> cid, title |-> title, ver |-> ver, addon |-> addon, sfo |-> sfo,
   ok |-> TRUE, icon |-> sfo, pic |-> ~addon]
MCDumpList ==
  <<MCDump("C", "T", "0100", FALSE, TRUE), MCDump("C", "U", "0100", TRUE, TRUE),
    MCDump("", "V", "0100", FALSE, FALSE),
    [MCDump("E", "V", "", FALSE, FALSE) EXCEPT !.ok = FALSE]>>
MCDumps == Range(MCDumpList)
MCFreeNames == {<<"a", "">>, <<"b", "">>}

MCInstallPaths == [A |-> 1, a |-> 1, b |-> 2]
MCHandLists ==
  {[list |-> <<"b", "a">>, on |-> <<>>], [list |-> <<"b", "A">>, on |-> <<FALSE>>],
   [list |-> <<"b">>, on |-> <<TRUE, FALSE>>]}
MCRanges == [p |-> <<"l1", "l2", "l3">>, q |-> <<"l3", "l1", "l2">>, r |-> <<"l2", "l3">>]
MCTrp(kinds) == [file |-> TRUE, magic |-> TRUE, entries |-> kinds]
MCFolder == [file |-> FALSE, magic |-> FALSE, entries |-> <<>>]
MCTrophyDirs ==
  {<<>>, <<MCTrp(<<"png", "esfm">>)>>,
   <<MCFolder, MCTrp(<<"esfm">>), MCTrp(<<"esfm", "png">>)>>,
   <<MCTrp(<<"esfm", "other", "esfm">>), MCTrp(<<"short">>)>>,
   <<MCTrp(<<"esfm">>), [MCTrp(<<>>) EXCEPT !.magic = FALSE]>>, <<MCTrp(<<"png", "lost">>)>>}
MCBindings == {<<>>, <<"NP1">>, <<"NP1", "zero">>, <<"NP1", "NP2", "NP3">>}

AtRest(p, some) == part # p => some
PartsInit ==
  /\ part \in {"config", "dirs", "psf", "trp", "stop", "range", "lru", "io", "pane"}
  /\ ConfigInit /\ DirsInit /\ PsfInit /\ TrpInit /\ StopInit
  /\ RangeInit /\ LruInit /\ IoInit /\ PaneInit
  /\ AtRest("config", entry = "m_language" /\ \A f \in ConfigFiles : files[f] = NoFile)
  /\ AtRest("dirs", dirsFile.is = "missing")
  \* The two names of the pane's folder may change places.
  /\ \E i, j \in DOMAIN MCDumpList :
       /\ i <= j /\ dir[<<"a", "">>] = MCDumpList[i] /\ dir[<<"b", "">>] = MCDumpList[j]
       /\ AtRest("pane", i = 4)

PartsNext ==
  \/ /\ part = "config" /\ ConfigNext
     /\ UNCHANGED <<part, dirsVars, psfVars, trpVars, stopVars, rangeVars, lruVars, ioVars, paneVars>>
  \/ /\ part = "dirs" /\ DirsNext
     /\ UNCHANGED <<part, configVars, psfVars, trpVars, stopVars, rangeVars, lruVars, ioVars, paneVars>>
  \/ /\ part = "psf" /\ PsfNext
     /\ UNCHANGED <<part, configVars, dirsVars, trpVars, stopVars, rangeVars, lruVars, ioVars, paneVars>>
  \/ /\ part = "trp" /\ TrpNext
     /\ UNCHANGED <<part, configVars, dirsVars, psfVars, stopVars, rangeVars, lruVars, ioVars, paneVars>>
  \/ /\ part = "stop" /\ StopNext
     /\ UNCHANGED <<part, configVars, dirsVars, psfVars, trpVars, rangeVars, lruVars, ioVars, paneVars>>
  \/ /\ part = "range" /\ RangeNext
     /\ UNCHANGED <<part, configVars, dirsVars, psfVars, trpVars, stopVars, lruVars, ioVars, paneVars>>
  \/ /\ part = "lru" /\ LruNext
     /\ UNCHANGED <<part, configVars, dirsVars, psfVars, trpVars, stopVars, rangeVars, ioVars, paneVars>>
  \/ /\ part = "io" /\ IoNext
     /\ UNCHANGED <<part, configVars, dirsVars, psfVars, trpVars, stopVars, rangeVars, lruVars, paneVars>>
  \/ /\ part = "pane" /\ PaneNext
     /\ UNCHANGED <<part, configVars, dirsVars, psfVars, trpVars, stopVars, rangeVars, lruVars, ioVars>>

partsVars == <<part, configVars, dirsVars, psfVars, trpVars, stopVars, rangeVars, lruVars, ioVars, paneVars>>
PartsSpec == PartsInit /\ [][PartsNext]_partsVars
=============================================================================
