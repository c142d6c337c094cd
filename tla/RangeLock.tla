----------------------------- MODULE RangeLock -----------------------------
(***************************************************************************)
(* common/range_lock.h: LockRange takes all the locks of a range, whatever  *)
(* the order in which other threads name the same locks, and gives all of   *)
(* them up before it waits for one.  The guard of its second branch is a    *)
(* LockRange of its own, so that a thread has a stack of calls.             *)
(***************************************************************************)
EXTENDS Naturals, Sequences, SequencesExt

CONSTANTS Ranges  \* for each thread the locks of its range, in its order
Lockers == DOMAIN Ranges
RangeLocks == UNION {Range(Ranges[t]) : t \in Lockers}

VARIABLES owner,  \* who holds each lock
          calls   \* the LockRange calls of each thread, the innermost last
rangeVars == <<owner, calls>>

Free == "free"
ASSUME RangeAssumption ==
  Free \notin Lockers /\ \A t \in Lockers : Ranges[t] \in Seq(RangeLocks)

End(t) == Len(Ranges[t]) + 1
\* begin, next and start_with_begin; place is where the call stands, from, k and
\* upto are those of TryLockRange, todo the locks that guards still have to free.
CallOf(begin) == [begin |-> begin, next |-> begin + 1, first |-> TRUE, place |-> "top",
                  from |-> 0, k |-> 0, upto |-> 0, todo |-> <<>>]
Top(t) == Last(calls[t])
LockAt(t, k) == Ranges[t][k]
Replace(t, c) == calls' = [calls EXCEPT ![t] = Append(Front(@), c)]
IsFree(t, k) == owner[LockAt(t, k)] = Free
Own(t, k) == owner' = [owner EXCEPT ![LockAt(t, k)] = t]
GiveUp(t, k) == owner' = [owner EXCEPT ![LockAt(t, k)] = Free]
Ups(a, b) == [j \in 1 .. b - a |-> a + j - 1]  \* a, ..., b - 1

RangeInit == owner = [l \in RangeLocks |-> Free] /\ calls = [t \in Lockers |-> <<>>]

-----------------------------------------------------------------------------
LockRange(t) ==
  /\ calls[t] = <<>> /\ \A l \in RangeLocks : owner[l] # t
  /\ calls' = [calls EXCEPT ![t] = <<CallOf(1)>>] /\ UNCHANGED owner

Turn(t) ==
  /\ Top(t).place = "top" /\ UNCHANGED owner
  /\ IF Top(t).begin = End(t)
     THEN Replace(t, [Top(t) EXCEPT !.place = "return"])  \* an empty range
     ELSE IF Top(t).first THEN Replace(t, [Top(t) EXCEPT !.place = "wait"])
     ELSE calls' = [calls EXCEPT ![t] =
            Append(Append(Front(@), [Top(t) EXCEPT !.place = "guarded"]), CallOf(Top(t).next))]

\* begin_lock.lock(), then TryLockRange(next, end).
WaitForBegin(t) ==
  /\ Top(t).place = "wait" /\ IsFree(t, Top(t).begin) /\ Own(t, Top(t).begin)
  /\ Replace(t, [Top(t) EXCEPT !.place = "try", !.from = Top(t).next,
                               !.k = Top(t).next, !.upto = End(t)])

\* The guard has its locks: begin_lock.try_lock(), then TryLockRange(second, next).
Guarded(t) ==
  LET c == Top(t) IN
  /\ c.place = "guarded"
  /\ \/ /\ IsFree(t, c.begin) /\ Own(t, c.begin)
        /\ Replace(t, [c EXCEPT !.place = "try", !.from = c.begin + 1, !.k = c.begin + 1,
                                !.upto = c.next])
     \/ /\ ~IsFree(t, c.begin) /\ UNCHANGED owner
        /\ Replace(t, [c EXCEPT !.place = "drop", !.first = TRUE, !.next = c.begin + 1,
                                !.todo = Ups(c.next, End(t))])

\* Mutation: the first lock is kept.
GivenUpButBegin(t, c) ==
  Reverse(Ups(c.from, c.k)) \o (IF c.first THEN <<>> ELSE Ups(c.next, End(t)))

\* TryLockRange: the locks it took are freed, the last one first, when one of
\* them cannot be had, then those of the guard, then begin.
GivenUp(t, c) ==
  Reverse(Ups(c.from, c.k)) \o (IF c.first THEN <<>> ELSE Ups(c.next, End(t))) \o <<c.begin>>
TryOne(t) ==
  LET c == Top(t) IN
  /\ c.place = "try" /\ c.k < c.upto
  /\ \/ IsFree(t, c.k) /\ Own(t, c.k) /\ Replace(t, [c EXCEPT !.k = @ + 1])
     \/ /\ ~IsFree(t, c.k) /\ UNCHANGED owner
        /\ Replace(t, [c EXCEPT !.place = "drop", !.first = FALSE, !.next = c.k,
                                !.todo = GivenUp(t, c)])
TriedAll(t) ==
  /\ Top(t).place = "try" /\ Top(t).k = Top(t).upto /\ UNCHANGED owner
  /\ Replace(t, [Top(t) EXCEPT !.place = "return"])

DropOne(t) ==
  LET c == Top(t) IN
  /\ c.place = "drop"
  /\ IF c.todo = <<>> THEN Replace(t, [c EXCEPT !.place = "top"]) /\ UNCHANGED owner
     ELSE GiveUp(t, Head(c.todo)) /\ Replace(t, [c EXCEPT !.todo = Tail(@)])

Returns(t) ==
  /\ Top(t).place = "return" /\ calls' = [calls EXCEPT ![t] = Front(@)] /\ UNCHANGED owner
Release(t) ==
  /\ calls[t] = <<>> /\ \E l \in RangeLocks : owner[l] = t
  /\ owner' = [l \in RangeLocks |-> IF owner[l] = t THEN Free ELSE owner[l]]
  /\ UNCHANGED calls

RangeNext == \E t \in Lockers :
  \/ LockRange(t) \/ Release(t)
  \/ /\ calls[t] # <<>>
     /\ \/ Turn(t) \/ WaitForBegin(t) \/ Guarded(t) \/ TryOne(t) \/ TriedAll(t)
        \/ DropOne(t) \/ Returns(t)
RangeSpec == RangeInit /\ [][RangeNext]_rangeVars

-----------------------------------------------------------------------------
\* A thread that waits inside LockRange holds nothing, so that threads that name
\* the same locks in any order never wait for each other in a circle; a guard
\* has its whole part of the range when the call goes on, and a thread leaves
\* LockRange with every lock of its range (range_lock.h:58-101).
NoHoldAndWait ==
  \A t \in Lockers :
    LET held == {l \in RangeLocks : owner[l] = t} IN
    /\ calls[t] # <<>> /\ Top(t).place \in {"wait", "guarded"} =>
         IF Top(t).place = "wait" THEN held = {}
         ELSE held = {LockAt(t, k) : k \in Top(t).next .. End(t) - 1}
    /\ calls[t] = <<>> => held \in {{}, Range(Ranges[t])}
=============================================================================
