------------------------- MODULE AvailabilityCache -------------------------
(***************************************************************************)
(* The availability cache of one contractor in one process                 *)
(* (server/services/availability-cache.ts) and the computation that fills  *)
(* it (getAvailabilityForDate, server/scheduling/availability.ts).  What a *)
(* computation reads is the environment's: the free salespeople of a date. *)
(***************************************************************************)
CONSTANTS Date,
          None  \* no entry, nothing read

VARIABLES
  open,      \* per date, the free salespeople in the database (the environment's)
  entry,     \* cache: per date, the free salespeople stored, or None
  flight,    \* inFlightRequests: per date "none", "reading" or "read"
  found,     \* per date, what its computation read, or None
  overtaken, \* dates whose computation had read before an invalidation (history)
  late       \* dates whose entry comes from such a computation (history)

Init ==
  /\ entry = [d \in Date |-> None]
  /\ flight = [d \in Date |-> "none"] /\ found = [d \in Date |-> None]
  /\ overtaken = {} /\ late = {}

(* getAvailabilityForDate misses the cache and no computation runs that it  *)
(* could join.  A customer asks, a warm-up or the recompute of an           *)
(* invalidation; where there is an entry, the two store it again as it is.  *)
Ask(d) ==
  /\ entry[d] = None /\ flight[d] = "none"
  /\ flight' = [flight EXCEPT ![d] = "reading"]
  /\ UNCHANGED <<entry, found, overtaken, late>>

(* getUnifiedAvailability reads the busy windows.                           *)
Look(d) ==
  /\ flight[d] = "reading"
  /\ flight' = [flight EXCEPT ![d] = "read"]
  /\ found' = [found EXCEPT ![d] = open[d]]
  /\ UNCHANGED <<entry, overtaken, late>>

(* The computation ends: it is stored and no longer in flight.              *)
Fill(d) ==
  /\ flight[d] = "read"
  /\ entry' = [entry EXCEPT ![d] = found[d]]
  /\ flight' = [flight EXCEPT ![d] = "none"]
  /\ found' = [found EXCEPT ![d] = None]
  /\ late' = IF d \in overtaken THEN late \cup {d} ELSE late \ {d}
  /\ overtaken' = overtaken \ {d}

(* A query of it fails.                                                     *)
FillFails(d) ==
  /\ flight[d] = "reading"
  /\ flight' = [flight EXCEPT ![d] = "none"]
  /\ UNCHANGED <<entry, found, overtaken, late>>

(* The entry outlives its time to live.                                     *)
Expire(d) ==
  /\ entry[d] # None
  /\ entry' = [entry EXCEPT ![d] = None]
  /\ late' = late \ {d}
  /\ UNCHANGED <<flight, found, overtaken>>

(* A bug: a recompute is asked for and the entries stay until it ends.      *)
InvalidateLater(dates) == UNCHANGED <<entry, flight, found, overtaken, late>>

(* invalidateAndRecompute: the entries go at once.  The recompute that it   *)
(* schedules is an Ask, which a customer may make at any time.              *)
Invalidate(dates) ==
  /\ entry' = [d \in Date |-> IF d \in dates THEN None ELSE entry[d]]
  /\ late' = late \ dates
  /\ overtaken' = overtaken \cup {d \in Date \cap dates : flight[d] = "read"}
  /\ UNCHANGED <<flight, found>>

(* The process ends; the next one begins with an empty cache.               *)
Forget ==
  /\ entry' = [d \in Date |-> None]
  /\ flight' = [d \in Date |-> "none"] /\ found' = [d \in Date |-> None]
  /\ overtaken' = {} /\ late' = {}

Next == \E d \in Date : Ask(d) \/ Look(d) \/ Fill(d) \/ FillFails(d) \/ Expire(d)
=============================================================================
