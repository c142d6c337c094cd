---------------------------- MODULE MCLogBackend ----------------------------
(***************************************************************************)
(* Two threads that log, a queue of two, one message written after a stop.  *)
(* The filter strings are: an empty one, one with an unknown class, an      *)
(* unknown level and "*" between two classes, and one that resets to Debug. *)
(***************************************************************************)
EXTENDS LogBackend

Rule(c, l) == [class |-> c, level |-> l]
MCRuleStrings ==
  {<<>>,
   <<Rule("Core", Critical), Rule("Nothing", Trace), Rule("*", Warning), Rule("Log", Count),
     Rule("Log", Error)>>,
   <<Rule("*", Debug), Rule("Core", Info)>>}

MCKinds == {<<"Core", Debug>>, <<"Log", Error>>}
=============================================================================
