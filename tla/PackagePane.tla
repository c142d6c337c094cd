---------------------------- MODULE PackagePane ----------------------------
(***************************************************************************)
(* The package pane of the window (tools/pkgxtractor/gui.cpp): the editable *)
(* path, the preview of the package, its icon that opens a picture, and the *)
(* rename to the content id; all of it on the window's thread, while other  *)
(* programs use the folder.  A path is <<name, version>> without folder and *)
(* extension.                                                               *)
(***************************************************************************)
EXTENDS Naturals, FiniteSets

CONSTANTS Dumps,     \* packages, each one file: [cid, title, ver, addon, sfo, ok, icon, pic]
          FreeNames, \* paths that users and other programs give
          MaxPane    \* bound of the model: steps of the user and of others

ASSUME DumpsAssumption == \A d \in Dumps : d.ok \in BOOLEAN

VARIABLES
  dir,     \* the file at each path, NoDump where there is none
  field,   \* m_pkgPathInput
  root,    \* m_outputPathInput is set
  outs,    \* whose pictures the output folder of a title holds
  label,   \* m_iconPreview: m_pkgPath, m_pkgLoaded and m_outputPath
  view,    \* whose text and whose icon show, NoDump for the fallbacks
  viewer,  \* m_activeViewer: closed, or whose picture under which content id
  renaming,\* the rename past its checks: <<from, to>>
  lost,    \* history: files that a rename replaced
  raced,   \* history: another program acted inside a rename
  calm,    \* history: since the preview, nobody but the pane touched its file
  steps

paneVars == <<dir, field, root, outs, label, view, viewer, renaming, lost, raced, calm, steps>>

NoDump == [cid |-> "", title |-> "", ver |-> "", addon |-> FALSE, sfo |-> FALSE,
           ok |-> FALSE, icon |-> FALSE, pic |-> FALSE]
NoPath == <<"", "">>
Titles == {d.title : d \in Dumps}
NoViewer == [shown |-> FALSE, image |-> NoDump, id |-> ""]

\* The name by the content id, and by the version too unless an add-on.
Target(d) == <<d.cid, IF d.sfo /\ ~d.addon THEN d.ver ELSE "">>
PanePaths == FreeNames \cup {Target(d) : d \in Dumps}

PaneInit ==
  /\ \E given \in [FreeNames -> Dumps] :
       dir = [p \in PanePaths |-> IF p \in FreeNames THEN given[p] ELSE NoDump]
  /\ field = NoPath /\ root = FALSE /\ outs = [t \in Titles |-> NoDump]
  /\ label = [pkg |-> NoPath, loaded |-> FALSE, out |-> ""]
  /\ view = [text |-> NoDump, icon |-> NoDump] /\ viewer = NoViewer
  /\ renaming = <<>> /\ lost = {} /\ raced = FALSE /\ calm = TRUE /\ steps = 0

PaneStep == steps < MaxPane /\ steps' = steps + 1
ByUser == PaneStep /\ renaming = <<>>
DumpAt(p) == IF p \in PanePaths THEN dir[p] ELSE NoDump
Opens(p) == DumpAt(p).ok  \* OpenPkgWithRetry

-----------------------------------------------------------------------------
\* onBrowsePkg and dropEvent: the path, then updateSfoPreview.  Nothing is kept
\* of the package before; the folder of pictures is that of the title.
UpdateSfoPreview(p) ==
  /\ label' = [pkg |-> p, loaded |-> Opens(p),
               out |-> IF Opens(p) /\ root THEN DumpAt(p).title ELSE ""]
  /\ view' = [text |-> IF Opens(p) THEN DumpAt(p) ELSE NoDump,
              icon |-> IF Opens(p) /\ DumpAt(p).icon THEN DumpAt(p) ELSE NoDump]
  /\ calm' = Opens(p)
ChoosePkg ==
  /\ ByUser
  /\ \E p \in PanePaths : DumpAt(p) # NoDump /\ field' = p /\ UpdateSfoPreview(p)
  /\ UNCHANGED <<dir, root, outs, viewer, renaming, lost, raced>>

\* The path may be typed, which previews nothing.
TypePath ==
  /\ ByUser /\ field' \in PanePaths \cup {NoPath}
  /\ UNCHANGED <<dir, root, outs, label, view, viewer, renaming, lost, raced, calm>>

BrowseOutput ==
  /\ ByUser /\ root' = TRUE
  /\ UNCHANGED <<dir, field, outs, label, view, viewer, renaming, lost, raced, calm>>

-----------------------------------------------------------------------------
\* A click on the icon: a picture in the folder of the title, else one in the
\* package; a window that is open already is raised, whatever it shows.
PreviewImage == IF label.out = "" THEN NoDump ELSE outs[label.out]
ClickIcon ==
  /\ ByUser /\ ~viewer.shown
  /\ \/ /\ PreviewImage.pic
        /\ viewer' = [shown |-> TRUE, image |-> PreviewImage,
                      id |-> IF Opens(label.pkg) THEN DumpAt(label.pkg).cid ELSE ""]
     \/ /\ ~PreviewImage.pic /\ Opens(label.pkg) /\ DumpAt(label.pkg).pic
        /\ viewer' = [shown |-> TRUE, image |-> DumpAt(label.pkg), id |-> DumpAt(label.pkg).cid]
  /\ UNCHANGED <<dir, field, root, outs, label, view, renaming, lost, raced, calm>>
CloseViewer ==
  /\ ByUser /\ viewer.shown /\ viewer' = NoViewer
  /\ UNCHANGED <<dir, field, root, outs, label, view, renaming, lost, raced, calm>>

\* A worker extracts the package at the path into the folder of its title.
Extracted ==
  /\ ByUser /\ root /\ Opens(field)
  /\ outs' = [outs EXCEPT ![DumpAt(field).title] = IF @ = NoDump THEN DumpAt(field) ELSE @]
  /\ UNCHANGED <<dir, field, root, label, view, viewer, renaming, lost, raced, calm>>

-----------------------------------------------------------------------------

\* Mutation: the new name is not looked for.
NameIsFreeTrusts(p) == TRUE

\* onRenamePkgToContentId: the checks, in their order, then the rename, which
\* replaces what it finds; the box tells of every refusal.
NameIsFree(p) == DumpAt(p) = NoDump
RenameChecks ==
  /\ ByUser /\ DumpAt(field) # NoDump /\ Opens(field) /\ DumpAt(field).cid # ""
  /\ Target(DumpAt(field)) # field /\ NameIsFree(Target(DumpAt(field)))
  /\ renaming' = <<field, Target(DumpAt(field))>>
  /\ UNCHANGED <<dir, field, root, outs, label, view, viewer, lost, raced, calm>>

\* Mutation: the icon keeps the old path.
NowAtFieldOnly(p) == field' = p /\ label' = label

NowAt(p) == field' = p /\ label' = [label EXCEPT !.pkg = p]
RenameFile ==
  /\ renaming # <<>> /\ renaming' = <<>>
  /\ LET from == renaming[1] to == renaming[2] IN
     \/ /\ DumpAt(from) # NoDump
        /\ dir' = [dir EXCEPT ![to] = dir[from], ![from] = NoDump]
        /\ lost' = lost \cup ({DumpAt(to)} \ {NoDump})
        /\ NowAt(to) /\ calm' = (calm /\ label.pkg = from)
     \/ UNCHANGED <<dir, lost, field, label, calm>>  \* gone, in use, or not permitted
  /\ UNCHANGED <<root, outs, view, viewer, raced, steps>>

\* Another program moves a file, over another one or not, or copies a package.
Others ==
  /\ PaneStep /\ raced' = (raced \/ renaming # <<>>) /\ calm' = FALSE
  /\ \E p, q \in PanePaths : /\ p # q /\ DumpAt(p) # NoDump
       /\ dir' \in {[dir EXCEPT ![q] = dir[p], ![p] = NoDump], [dir EXCEPT ![q] = dir[p]]}
  /\ UNCHANGED <<field, root, outs, label, view, viewer, renaming, lost>>

PaneNext ==
  \/ ChoosePkg \/ TypePath \/ BrowseOutput \/ ClickIcon \/ CloseViewer \/ Extracted
  \/ RenameChecks \/ RenameFile \/ Others
PaneSpec == PaneInit /\ [][PaneNext]_paneVars

-----------------------------------------------------------------------------
\* A rename replaces a file only if another program put it there after the name
\* was found free (gui.cpp:1395-1403): renaming packages of one content id and
\* version one after the other loses none of them.
RenameLosesNothing == lost # {} => raced

\* As long as nobody else touches the package and the path renamed is the one
\* that was previewed, whatever the order of renames, extractions and clicks:
\* the path of the icon leads to the package whose text and icon show, and its
\* folder of pictures is that of the package's title (gui.cpp:1412-1415,
\* 1428-1551).
PreviewIsOfThePackage ==
  calm /\ view.text # NoDump =>
    /\ DumpAt(label.pkg) = view.text /\ view.icon \in {NoDump, view.text}
    /\ label.out \in {"", view.text.title}
=============================================================================
