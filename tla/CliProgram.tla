----------------------------- MODULE CliProgram -----------------------------
(***************************************************************************)
(* The command line program: one package, detected by its magic, extracted  *)
(* through one PKG object, announced by the titles of its param.sfo.  It    *)
(* answers 0 whatever happened, unless an exception of the file system,     *)
(* which it never catches, ends it.                                         *)
(***************************************************************************)
EXTENDS PkgTable

VARIABLES
  cli,      \* "off", or where main stands
  folder    \* the folder it announces

cliVars == <<cli, folder>>
cliAll == <<tableVars, cliVars>>

CliInit == cli = "arguments" /\ folder = <<>>

CliArguments ==
  /\ cli = "arguments" /\ cli' \in {"done", "detect"}
  /\ UNCHANGED <<folder, tableVars>>

\* DetectFileType compares a variable that is left unset when the file cannot
\* be opened or holds less than the four bytes: then either answer may come.
Detected(p, unread) == p.hdr # "magic" \/ unread
CliDetect ==
  /\ cli = "detect"
  /\ \E p \in Packages, unread \in BOOLEAN :
       IF Detected(p, unread) THEN ExtractCall(p) /\ cli' = "extract"
                              ELSE cli' = "done" /\ UNCHANGED tableVars
  /\ UNCHANGED folder

CliExtract ==
  /\ cli = "extract"
  /\ \/ CallEntry /\ UNCHANGED cli
     \/ op = "dead" /\ cli' = "terminated" /\ UNCHANGED tableVars
     \/ /\ op = "idle"
        /\ cli' = CASE last.end = "ok" -> "sfo" [] last.end = "thrown" -> "terminated"
                     [] OTHER -> "done"
        /\ UNCHANGED tableVars
  /\ UNCHANGED folder

\* psf.Open(pkg.sfo) refuses an empty buffer and may refuse any other one;
\* the title of what sfo is about then names the folder.
CliSfo ==
  /\ cli = "sfo"
  /\ \/ cli' = "done" /\ UNCHANGED folder
     \/ sfo # <<>> /\ cli' = "files" /\ folder' = <<pkg.title, sfo>>
  /\ UNCHANGED tableVars

\* ExtractFiles for every index: each may throw.
CliFiles ==
  /\ cli = "files" /\ cli' \in {"done", "terminated"}
  /\ UNCHANGED <<folder, tableVars>>

CliNext == CliArguments \/ CliDetect \/ CliExtract \/ CliSfo \/ CliFiles

-----------------------------------------------------------------------------
\* The program announces a folder and goes on to the files only for a package
\* whose header is sound, and names it by that package's own param.sfo: that a
\* file may be taken for a package by what the memory of DetectFileType held
\* has no other effect than a refusal (main.cpp:47-98, loader.cpp:15-24).
CliOnlyPackages ==
  cli = "files" => /\ pkg.hdr = "ok"
                   /\ DistinctIds(pkg) => folder[2] = RawOf(pkg, RowOf(pkg, \h1000))
=============================================================================
