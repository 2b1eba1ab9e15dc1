------------------------------- MODULE RateLimit -------------------------------
(***************************************************************************)
(* The limit on requests, in the memory of the process or in Redis, for    *)
(* each identifier (a category and a credential or an address).             *)
(*                                                                         *)
(* Reading the clock, counting and answering are one step: between them the *)
(* code waits for its lock or for one round trip, which is nothing against  *)
(* the length of a window.                                                 *)
(***************************************************************************)
EXTENDS Integers, FiniteSetsExt, Sequences

CONSTANTS
  Identifier,
  Allowance,     \* requests in a window
  Window,        \* ticks of the clock
  Horizon,       \* where the clock stops: bounds the model
  Capacity,      \* how many identifiers are kept before old ones are dropped
  NoEntry

ASSUME RateLimitAssumption ==
  /\ Allowance \in Nat \ {0} /\ Window \in Nat \ {0}
  /\ Horizon \in Nat /\ Capacity \in Nat
  /\ NoEntry \notin [count : Nat, reset : Nat]

Backend == {"memory", "redis", "production"}

VARIABLES
  backend,   \* "memory", "redis", or "production": Redis, and no way past it
  now,
  memory,    \* of each identifier the count and the end of its window
  bucket,    \* Redis: the count of each identifier in each window of the clock
  admitted,  \* when the requests of each identifier were let in
  restarts

rateVars == <<backend, now, memory, bucket, admitted, restarts>>

RateTypeOK ==
  /\ backend \in Backend
  /\ now \in 0..Horizon
  /\ memory \in [Identifier -> [count : Nat, reset : Nat] \cup {NoEntry}]
  /\ bucket \in [Identifier -> [0..Horizon -> Nat]]
  /\ admitted \in [Identifier -> Seq(0..Horizon)]
  /\ restarts \in Nat

RateInit ==
  /\ backend \in Backend
  /\ now = 0
  /\ memory = [i \in Identifier |-> NoEntry]
  /\ bucket = [i \in Identifier |-> [b \in 0..Horizon |-> 0]]
  /\ admitted = [i \in Identifier |-> <<>>]
  /\ restarts = 0

Tick ==
  /\ now < Horizon
  /\ now' = now + 1
  /\ UNCHANGED <<backend, memory, bucket, admitted, restarts>>

Admit(i, allowed) ==
  admitted' = IF allowed THEN [admitted EXCEPT ![i] = Append(@, now)] ELSE admitted

Fresh == [count |-> 0, reset |-> now + Window]
Entry(i) == IF memory[i] = NoEntry \/ memory[i].reset <= now THEN Fresh ELSE memory[i]

(* Beyond the capacity, the windows that are over are dropped. *)
Evicted(m) ==
  IF Cardinality({i \in Identifier : m[i] # NoEntry}) <= Capacity THEN m
  ELSE [i \in Identifier |-> IF m[i] # NoEntry /\ m[i].reset > now THEN m[i] ELSE NoEntry]

(* With a fault: the request itself is not counted when it is compared. *)
ConsumeMemoryFault(i, allowed) ==
  /\ allowed = (Entry(i).count <= Allowance)
  /\ memory' = Evicted([memory EXCEPT ![i] = [Entry(i) EXCEPT !.count = @ + 1]])
  /\ Admit(i, allowed)

ConsumeMemory(i, allowed) ==
  LET entry == [Entry(i) EXCEPT !.count = @ + 1] IN
  /\ allowed = (entry.count <= Allowance)
  /\ memory' = Evicted([memory EXCEPT ![i] = entry])
  /\ Admit(i, allowed)

Counted(i) == [bucket EXCEPT ![i][now \div Window] = @ + 1]

ConsumeRedis(i, allowed) ==
  /\ bucket' = Counted(i)
  /\ allowed = (bucket'[i][now \div Window] <= Allowance)
  /\ Admit(i, allowed)
  /\ UNCHANGED memory

(* consume; Redis may fail at any call, before or after it has counted. *)
Consume(i, allowed) ==
  /\ \/ backend # "memory" /\ ConsumeRedis(i, allowed)
     \/ backend # "production" /\ ConsumeMemory(i, allowed)
     \/ backend = "production" /\ ~allowed /\ UNCHANGED <<memory, admitted>>
  /\ bucket' \in IF backend = "memory" THEN {bucket} ELSE {bucket, Counted(i)}
  /\ UNCHANGED <<backend, now, restarts>>

(* The process starts again: what was in its memory is gone. *)
RateRestart ==
  /\ memory' = [i \in Identifier |-> NoEntry]
  /\ restarts' = restarts + 1
  /\ UNCHANGED <<backend, now, bucket, admitted>>

RateNext == Tick \/ RateRestart \/ \E i \in Identifier, allowed \in BOOLEAN : Consume(i, allowed)

RateSpec == RateInit /\ [][RateNext]_rateVars
-----------------------------------------------------------------------------
(* The windows that a stretch of time as long as a window can meet: one that *)
(* ends in it and one that begins.  A restart forgets a window, and going   *)
(* back and forth between Redis and the memory counts in both.              *)
Windows ==
  CASE backend = "memory" -> 2 + restarts
    [] backend = "production" -> 2
    [] OTHER -> 4 + restarts

(* In no stretch of time as long as a window are more requests of an        *)
(* identifier let in than the windows it can meet allow.                    *)
AdmittedWithinLimit ==
  \A i \in Identifier, t \in 0..Horizon :
    Cardinality({n \in DOMAIN admitted[i] : admitted[i][n] \in t..(t + Window - 1)})
      <= Windows * Allowance
=============================================================================
