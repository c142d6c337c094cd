---------------------------- MODULE MCGuiSession ----------------------------
(* GuiSession with packages of up to two entries, checked by TLC.           *)
EXTENDS GuiSessionProps
=============================================================================
