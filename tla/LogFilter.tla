----------------------------- MODULE LogFilter -----------------------------
(***************************************************************************)
(* The filter of the log: a least severity for each class of messages, set  *)
(* from a string of rules.  A rule is what its text says: a class, "*" or a *)
(* word that is no class, and a level, Count when the text has none that    *)
(* the code knows.                                                          *)
(***************************************************************************)
EXTENDS Integers, Sequences

CONSTANTS Classes,
          RuleStrings  \* the filter strings there may be, each a sequence of rules

Trace == 0
Debug == 1
Info == 2
Warning == 3
Error == 4
Critical == 5
Count == 6
Levels == Trace..Critical
Rules == [class : STRING, level : Levels \cup {Count}]

ASSUME FilterAssumption == "*" \notin Classes /\ \A r \in RuleStrings : r \in Seq(Rules)

ResetAll(level) == [c \in Classes |-> level]
SetClassLevel(levels, c, level) == [levels EXCEPT ![c] = level]

\* Mutation: "*" gives way to what an earlier rule said of a class.
ParseFilterRuleWeak(levels, rule) ==
  IF rule.level = Count THEN levels
  ELSE IF rule.class = "*"
       THEN [c \in Classes |-> IF levels[c] # Info THEN levels[c] ELSE rule.level]
       ELSE IF rule.class \in Classes THEN SetClassLevel(levels, rule.class, rule.level)
            ELSE levels

\* A rule without a known level or class is reported and passed over.
ParseFilterRule(levels, rule) ==
  IF rule.level = Count THEN levels
  ELSE IF rule.class = "*" THEN ResetAll(rule.level)
       ELSE IF rule.class \in Classes THEN SetClassLevel(levels, rule.class, rule.level)
            ELSE levels

\* ParseFilterString: the levels after each rule, from left to right.
ParsedUpTo(rules) ==
  LET levels[k \in 0 .. Len(rules)] ==
        IF k = 0 THEN ResetAll(Info) ELSE ParseFilterRule(levels[k - 1], rules[k])
  IN levels
ParseFilterString(rules) == ParsedUpTo(rules)[Len(rules)]

CheckMessage(levels, class, level) == level >= levels[class]
IsDebug(levels) == \E c \in Classes : levels[c] <= Debug

\* What the filter string says of class c: the last rule that speaks of it.
SpeaksOf(rule, c) == rule.level # Count /\ rule.class \in {"*", c}
LevelSaid(rules, c) ==
  LET about == {k \in 1..Len(rules) : SpeaksOf(rules[k], c)} IN
  IF about = {} THEN Info ELSE rules[CHOOSE k \in about : \A j \in about : j <= k].level
=============================================================================
