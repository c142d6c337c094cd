----------------------------- MODULE MCPkgTable -----------------------------
(***************************************************************************)
(* Five packages for one PKG object.  The first has the usual table, the    *)
(* sfo between other entries and two entries without a name; the second has *)
(* no sfo and lists the image key before the entry keys; the third puts the *)
(* sfo between the two keys; two more are refused by their headers.  cells: *)
(* the table, then the data.                                                *)
(***************************************************************************)
EXTENDS CliProgram

Row(id, off, size) == [id |-> id, off |-> off, size |-> size]
Data == Row(7, 1, 1)

Game == [name |-> "game", title |-> "TITLE", hdr |-> "ok", tab |-> 2, n |-> 6,
         cells |-> <<Data, Row(\h10, 8, 1), Row(\h20, 9, 1), Row(3, 10, 1),
                     Row(4, 1, 1), Row(\h402, 11, 1), Row(\h1000, 9, 2),
                     Data, Data, Data, Data>>]
Addon == [name |-> "addon", title |-> "TITLE_ID", hdr |-> "ok", tab |-> 1, n |-> 3,
          cells |-> <<Row(\h20, 4, 1), Row(\h10, 5, 1), Row(\h1200, 4, 3), Data, Data>>]
Preview == [name |-> "preview", title |-> "TITLE", hdr |-> "ok", tab |-> 1, n |-> 3,
            cells |-> <<Row(\h10, 4, 1), Row(\h1000, 4, 1), Row(\h20, 5, 1), Data, Data>>]
Bad(why) == [Preview EXCEPT !.hdr = why, !.name = why]
MCPackages == {Game, Addon, Preview, Bad("magic"), Bad("size")}

Init == TableInit /\ (CliInit \/ (cli = "off" /\ folder = <<>>))
Next == \/ cli = "off" /\ TableNext /\ UNCHANGED cliVars
        \/ CliNext

Spec == Init /\ [][Next]_cliAll
=============================================================================
