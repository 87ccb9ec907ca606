------------------------- MODULE PrefetchScheduler -------------------------
(***************************************************************************)
(* src/tiered-kv-cache/prefetch_scheduler.py: the consumer thread, over    *)
(* the cache of TieredKVCache, which other threads call meanwhile, as the  *)
(* sessions of benchmark_cache.py do.                                      *)
(*                                                                         *)
(* The callers of the cache are alike and hold its lock one at a time, so  *)
(* "caller" stands for any of them.  Hints are ordered by the clock and    *)
(* the place in their list; the model takes any of them.                   *)
(***************************************************************************)
EXTENDS TieredKVCache

CONSTANT MaxHints       \* bound: block ids handed to hint()

ASSUME PrefetchAssumption == MaxHints \in Nat

VARIABLES
    hints,          \* the heap, as a sequence of blocks in push order
    hinted,         \* bound: ids pushed so far
    stop,           \* _stop
    consumer,       \* where the thread is: "waiting", "holding", "reading", "exited"
    upcoming,       \* the block it has popped and not yet read, or none
    join            \* of stop(): "no", "waiting", "joined", "timed out"

prefetchVars == <<hints, hinted, stop, consumer, upcoming, join>>
vars == <<tieredVars, prefetchVars>>

PrefetchInit ==
    /\ Init
    /\ hints = <<>>
    /\ hinted = 0
    /\ stop = FALSE
    /\ consumer = "waiting"
    /\ upcoming = {}
    /\ join = "no"

TypeOK ==
    /\ budget \in Budgets
    /\ cache \in CacheType
    /\ call = Idle \/ call \in [by : {"caller", "consumer"}, key : Keys,
                                to : Memory, copy : Copy]
    /\ latest \in [Keys -> 0..MaxVersion]
    /\ forked \in [Keys -> BOOLEAN]
    /\ hints \in Seq(Keys)
    /\ hinted \in 0..MaxHints
    /\ stop \in BOOLEAN
    /\ consumer \in {"waiting", "holding", "reading", "exited"}
    /\ upcoming \in {{}} \union {{k} : k \in Keys}
    /\ join \in {"no", "waiting", "joined", "timed out"}

-----------------------------------------------------------------------------
(* The callers of the cache and of the scheduler.                          *)

CallCache ==
    /\ \E k \in Keys : AllocateBlock(k) \/ WriteBlock(k) \/ Read("caller", k)
    /\ UNCHANGED prefetchVars

CallEvict ==
    /\ \E t \in Memory : EvictOne(t)
    /\ UNCHANGED prefetchVars

CallContinues ==
    /\ ~LockFree
    /\ call.by = "caller"
    /\ ContinueRead
    /\ UNCHANGED prefetchVars

Hint(k) ==
    /\ hinted < MaxHints
    /\ hints' = Append(hints, k)
    /\ hinted' = hinted + 1
    /\ UNCHANGED <<tieredVars, stop, consumer, upcoming, join>>

(* stop() sets the flag, then joins for a second.                          *)
Stop ==
    /\ join = "no"
    /\ stop' = TRUE
    /\ join' = "waiting"
    /\ UNCHANGED <<tieredVars, hints, hinted, consumer, upcoming>>

(* The join returns when the thread has ended, or a second has passed.     *)
EndJoin ==
    /\ join = "waiting"
    /\ join' \in {"timed out"} \union (IF consumer = "exited" THEN {"joined"} ELSE {})
    /\ UNCHANGED <<tieredVars, hints, hinted, stop, consumer, upcoming>>

-----------------------------------------------------------------------------
(* The thread.                                                             *)

Pop ==
    /\ consumer = "waiting"
    /\ ~stop
    /\ \E i \in DOMAIN hints :
        /\ upcoming' = {hints[i]}
        /\ hints' = RemoveAt(hints, i)
    /\ consumer' = "holding"
    /\ UNCHANGED <<tieredVars, hinted, stop, join>>

Exit ==
    /\ consumer = "waiting"
    /\ stop
    /\ consumer' = "exited"
    /\ UNCHANGED <<tieredVars, hints, hinted, stop, upcoming, join>>

(* Mutant: an exception of the read ends the thread.                       *)
ReadAheadDies ==
    /\ consumer = "holding"
    /\ \E k \in upcoming :
        /\ Read("consumer", k)
        /\ consumer' = IF ReadRaises("consumer", k) THEN "exited"
                       ELSE IF LockFree' THEN "waiting" ELSE "reading"
    /\ upcoming' = {}
    /\ UNCHANGED <<hints, hinted, stop, join>>

(* The thread gets the lock of the cache.  An exception of the read is     *)
(* swallowed.                                                              *)
ReadAhead ==
    /\ consumer = "holding"
    /\ \E k \in upcoming : Read("consumer", k)
    /\ upcoming' = {}
    /\ consumer' = IF LockFree' THEN "waiting" ELSE "reading"
    /\ UNCHANGED <<hints, hinted, stop, join>>

ReadAheadContinues ==
    /\ consumer = "reading"
    /\ ContinueRead
    /\ consumer' = IF LockFree' THEN "waiting" ELSE "reading"
    /\ UNCHANGED <<hints, hinted, stop, upcoming, join>>

Consume == Pop \/ Exit \/ ReadAhead \/ ReadAheadContinues

Next ==
    \/ CallCache \/ CallEvict \/ CallContinues
    \/ \E k \in Keys : Hint(k)
    \/ Stop \/ EndJoin
    \/ Consume

-----------------------------------------------------------------------------
(* A thread inside a read runs, and the consumer's is one of them; the     *)
(* consumer wakes by itself every 0.1 s; the lock is not withheld from it  *)
(* for ever by others that keep taking it.                                 *)
Fairness ==
    /\ WF_vars(CallContinues)
    /\ WF_vars(Pop \/ Exit)
    /\ WF_vars(ReadAheadContinues)
    /\ SF_vars(ReadAhead)
    /\ WF_vars(EndJoin)

Spec == PrefetchInit /\ [][Next]_vars /\ Fairness

-----------------------------------------------------------------------------
(* Properties.                                                             *)

(* Every hinted block is read, whatever the read raises, and the thread    *)
(* waits for the next; once stopped it ends, with hints still queued or a  *)
(* read under way; unless a read is stuck with the lock.                   *)
ConsumerAnswers ==
    (hints # <<>> \/ stop \/ consumer \in {"holding", "reading"})
        ~> \/ hints = <<>> /\ consumer = "waiting" /\ ~stop
           \/ stop /\ consumer = "exited"
           \/ Stuck

=============================================================================
