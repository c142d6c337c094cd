------------------------------ MODULE LruCache ------------------------------
(***************************************************************************)
(* common/lru_cache.h: a pool of items, a queue of free ids and a list that *)
(* links the items in use in the order of their last touch.  The caller's   *)
(* clock does not run backwards; its function may free the item it is given.*)
(***************************************************************************)
EXTENDS Naturals, Sequences, FiniteSets, SequencesExt

CONSTANTS MaxTick, MaxPool  \* bounds of the model: the clock and the pool

ASSUME LruAssumption == MaxTick \in Nat /\ MaxPool \in Nat

VARIABLES
  pool,      \* item_pool: tick, next and prev of each item, 0 for the null pointer
  freeIds,   \* free_items
  firstItem, lastItem,
  tick,      \* the clock of the caller
  touched,   \* history: the ids in use with their ticks, the oldest touch first
  visited    \* the ids the last ForEachItemBelow passed to its function
lruVars == <<pool, freeIds, firstItem, lastItem, tick, touched, visited>>

NoItem == [tick |-> 0, next |-> 0, prev |-> 0]
List == [pool |-> pool, first |-> firstItem, last |-> lastItem]
IsNow(l) == pool' = l.pool /\ firstItem' = l.first /\ lastItem' = l.last
InUse == {touched[k].id : k \in DOMAIN touched}
PlaceOf(id) == CHOOSE k \in DOMAIN touched : touched[k].id = id
Without(id) == RemoveAt(touched, PlaceOf(id))
LinkNext(p, id, to) == IF id = 0 THEN p ELSE [p EXCEPT ![id].next = to]
LinkPrev(p, id, to) == IF id = 0 THEN p ELSE [p EXCEPT ![id].prev = to]

LruInit == /\ pool = <<>> /\ freeIds = <<>> /\ firstItem = 0 /\ lastItem = 0
           /\ tick = 0 /\ touched = <<>> /\ visited = <<>>

-----------------------------------------------------------------------------
\* An item that comes back to the list may still point where it pointed.
Attach(l, id) ==
  [pool |-> IF l.last = 0 THEN l.pool
            ELSE LinkNext(LinkNext(LinkPrev(l.pool, id, l.last), id, 0), l.last, id),
   first |-> IF l.first = 0 THEN id ELSE l.first, last |-> id]

Detach(l, id) ==
  LET item == l.pool[id]
      around == LinkPrev(LinkNext(l.pool, item.prev, item.next), item.next, item.prev)
      isFirst == id = l.first
      isLast == id = l.last
  IN [pool |-> LinkNext(IF isFirst THEN LinkPrev(around, item.next, 0) ELSE around,
                        IF isLast THEN item.prev ELSE 0, 0),
      first |-> IF isFirst THEN item.next ELSE l.first,
      last |-> IF isLast THEN item.prev ELSE l.last]

\* The id of a free item is used again, the longest free first.
Insert ==
  /\ freeIds # <<>> \/ Len(pool) < MaxPool
  /\ LET id == IF freeIds = <<>> THEN Len(pool) + 1 ELSE Head(freeIds)
         fresh == [NoItem EXCEPT !.tick = tick]
         built == IF freeIds = <<>> THEN Append(pool, fresh) ELSE [pool EXCEPT ![id] = fresh]
     IN /\ IsNow(Attach([List EXCEPT !.pool = built], id))
        /\ touched' = Append(touched, [id |-> id, tick |-> tick])
  /\ freeIds' = IF freeIds = <<>> THEN freeIds ELSE Tail(freeIds)
  /\ UNCHANGED tick /\ visited' = <<>>

\* A touch counts once a tick, and the last item stays where it is.
Touch(id) ==
  /\ pool[id].tick < tick /\ UNCHANGED <<freeIds, tick>> /\ visited' = <<>>
  /\ LET marked == [List EXCEPT !.pool = [pool EXCEPT ![id].tick = tick]] IN
     IsNow(IF id = lastItem THEN marked ELSE Attach(Detach(marked, id), id))
  /\ touched' = Append(Without(id), [id |-> id, tick |-> tick])

\* Mutation: the links of the neighbours stay.
FreedInList(l, id) == [l EXCEPT !.pool[id].prev = 0, !.pool[id].next = 0]

Freed(l, id) ==
  LET apart == Detach(l, id) IN
  [apart EXCEPT !.pool = LinkNext(LinkPrev(apart.pool, id, 0), id, 0)]
FreeItem(id) ==
  /\ IsNow(Freed(List, id)) /\ freeIds' = Append(freeIds, id)
  /\ touched' = Without(id) /\ UNCHANGED tick /\ visited' = <<>>

\* ForEachItemBelow goes from the first item to one above the tick, or until the
\* function says so; next is read before the function may free the item.
ListWalk ==
  LET item[n \in 1 .. MaxPool + 1] ==
        IF n = 1 THEN firstItem ELSE IF item[n - 1] = 0 THEN 0 ELSE pool[item[n - 1]].next
  IN item
Below(t) ==
  LET ends == {n \in 1 .. MaxPool + 1 : ListWalk[n] = 0 \/ pool[ListWalk[n]].tick > t}
  IN [n \in 1 .. Min(ends) - 1 |-> ListWalk[n]]

ForEachItemBelow(t) ==
  /\ \E stop \in 1 .. Len(Below(t)) : visited' = SubSeq(Below(t), 1, stop)
  /\ UNCHANGED <<pool, freeIds, firstItem, lastItem, tick, touched>>
FreedOneByOne(ids) ==
  LET l[n \in 0 .. Len(ids)] == IF n = 0 THEN List ELSE Freed(l[n - 1], ids[n])
  IN l
FreeAllBelow(t) ==
  /\ Below(t) # <<>> /\ visited' = Below(t)
  /\ IsNow(FreedOneByOne(Below(t))[Len(Below(t))]) /\ freeIds' = freeIds \o Below(t)
  /\ touched' = SubSeq(touched, Cardinality({k \in DOMAIN touched : touched[k].tick <= t}) + 1,
                       Len(touched))
  /\ UNCHANGED tick

Clock == tick < MaxTick /\ tick' = tick + 1 /\ visited' = <<>>
         /\ UNCHANGED <<pool, freeIds, firstItem, lastItem, touched>>

LruNext == \/ Insert \/ Clock
           \/ \E id \in InUse : Touch(id) \/ FreeItem(id)
           \/ \E t \in 0 .. MaxTick : ForEachItemBelow(t) \/ FreeAllBelow(t)
LruSpec == LruInit /\ [][LruNext]_lruVars

-----------------------------------------------------------------------------
\* The list holds the items in use, each once, from the oldest touch to the
\* newest, forwards by next as backwards by prev, and no freed one; the free ids
\* are the others, each once; and a walk below a tick reaches the items last
\* touched by then and no other
\* (lru_cache.h:28-135).
ListIsTheOrder ==
  /\ DOMAIN pool = InUse \cup Range(freeIds) /\ InUse \cap Range(freeIds) = {}
  /\ Len(touched) + Len(freeIds) = Len(pool)
  /\ LET n == Len(touched)
         id(k) == IF k \in 1 .. n THEN touched[k].id ELSE 0 IN
     /\ firstItem = id(1) /\ lastItem = id(n)
     /\ \A k \in 1 .. n : /\ pool[id(k)].next = id(k + 1) /\ pool[id(k)].prev = id(k - 1)
                          /\ pool[id(k)].tick = touched[k].tick
     /\ \A t \in 0 .. MaxTick :
          Range(Below(t)) = {x.id : x \in {y \in Range(touched) : y.tick <= t}}
=============================================================================
