---------------------------- MODULE StreamLeases ----------------------------
(***************************************************************************)
(* The connection slots of the observation stream in one API process:      *)
(* ObservationStreamConnectionLimiter with its two counters, and the       *)
(* leases that the stream requests acquire and give back.                  *)
(*                                                                         *)
(* A lease is given back by whoever comes first: the except clause of the  *)
(* preflight, the finally clause of the event generator, or the background *)
(* task of the response.  The last two run independently: when a client    *)
(* goes away, the response stops iterating and runs its background task,   *)
(* while the suspended generator is closed only when the event loop        *)
(* finalizes it, and a generator that was never iterated has no finally    *)
(* clause to run.                                                          *)
(*                                                                         *)
(* try_acquire and release are atomic: they take the asyncio lock, and no  *)
(* coroutine is suspended while it holds it.                               *)
(***************************************************************************)
EXTENDS Naturals, FiniteSets

CONSTANTS
    Request,            \* concurrent stream requests
    Collector,          \* tenant-qualified collectors
    MaxConnections,
    MaxPerCollector

ASSUME LimitsAssumption ==
    /\ IsFiniteSet(Request)
    /\ MaxConnections \in Nat \ {0}
    /\ MaxPerCollector \in 1..MaxConnections

VARIABLES
    total,          \* _total
    per_collector,  \* _per; an absent key counts zero
    stage,          \* where each request is
    key,            \* the collector each request last acquired for
    generator,      \* the event generator of each request
    released        \* _released of each request's lease; TRUE without one

leaseVars ==
    << total, per_collector, stage, key, generator, released >>

LeasesInit ==
    /\ total = 0
    /\ per_collector = [c \in Collector |-> 0]
    /\ stage = [r \in Request |-> "idle"]
    /\ key \in [Request -> Collector]
    /\ generator = [r \in Request |-> "none"]
    /\ released = [r \in Request |-> TRUE]

-----------------------------------------------------------------------------

Full(c) == total >= MaxConnections \/ per_collector[c] >= MaxPerCollector

\* Fault: a collector is let in once more than it may.
AcquireOneTooMany(r, c) ==
    /\ stage[r] = "idle" /\ generator[r] = "none"
    /\ total < MaxConnections /\ per_collector[c] <= MaxPerCollector
    /\ total' = total + 1
    /\ per_collector' = [per_collector EXCEPT ![c] = @ + 1]
    /\ released' = [released EXCEPT ![r] = FALSE]
    /\ key' = [key EXCEPT ![r] = c]
    /\ stage' = [stage EXCEPT ![r] = "preflight"]
    /\ UNCHANGED generator

\* A refused request gets status 429 and changes nothing.
Acquire(r, c) ==
    /\ stage[r] = "idle" /\ generator[r] = "none"
    /\ ~Full(c)
    /\ total' = total + 1
    /\ per_collector' = [per_collector EXCEPT ![c] = @ + 1]
    /\ released' = [released EXCEPT ![r] = FALSE]
    /\ key' = [key EXCEPT ![r] = c]
    /\ stage' = [stage EXCEPT ![r] = "preflight"]
    /\ UNCHANGED generator

\* Fault: the lease does not remember that it was released.
ReleaseEveryTime(r) ==
    /\ released' = [released EXCEPT ![r] = TRUE]
    /\ total' = IF total > 0 THEN total - 1 ELSE total
    /\ per_collector' =
          [per_collector EXCEPT ![key[r]] = IF @ <= 1 THEN 0 ELSE @ - 1]

\* ObservationStreamLease.release
Release(r) ==
    /\ released' = [released EXCEPT ![r] = TRUE]
    /\ total' = IF ~released[r] /\ total > 0 THEN total - 1 ELSE total
    /\ per_collector' =
          [per_collector EXCEPT ![key[r]] =
              IF released[r] THEN @ ELSE IF @ <= 1 THEN 0 ELSE @ - 1]

\* Status 409 or 503.
PreflightFails(r) ==
    /\ stage[r] = "preflight"
    /\ Release(r)
    /\ stage' = [stage EXCEPT ![r] = "idle"]
    /\ UNCHANGED << key, generator >>

Respond(r) ==
    /\ stage[r] = "preflight"
    /\ stage' = [stage EXCEPT ![r] = "responding"]
    /\ generator' = [generator EXCEPT ![r] = "unstarted"]
    /\ UNCHANGED << total, per_collector, key, released >>

\* The response asks for the first event.
StartGenerator(r) ==
    /\ stage[r] = "responding" /\ generator[r] = "unstarted"
    /\ generator' = [generator EXCEPT ![r] = "suspended"]
    /\ UNCHANGED << total, per_collector, stage, key, released >>

\* The generator returns, or is cancelled while it runs: finally.
GeneratorEnds(r) ==
    /\ stage[r] = "responding" /\ generator[r] = "suspended"
    /\ Release(r)
    /\ generator' = [generator EXCEPT ![r] = "none"]
    /\ stage' = [stage EXCEPT ![r] = "background"]
    /\ UNCHANGED key

\* The client goes away: the response stops iterating its generator.
ClientLeaves(r) ==
    /\ stage[r] = "responding"
    /\ stage' = [stage EXCEPT ![r] = "background"]
    /\ UNCHANGED << total, per_collector, key, generator, released >>

\* Fault: the response has no background task.
BackgroundOmitted(r) ==
    /\ stage[r] = "background"
    /\ stage' = [stage EXCEPT ![r] = "idle"]
    /\ UNCHANGED << total, per_collector, key, generator, released >>

Background(r) ==
    /\ stage[r] = "background"
    /\ Release(r)
    /\ stage' = [stage EXCEPT ![r] = "idle"]
    /\ UNCHANGED << key, generator >>

\* The event loop closes a generator nobody iterates any more.
Finalize(r) ==
    /\ stage[r] \in {"background", "idle"} /\ generator[r] # "none"
    /\ generator' = [generator EXCEPT ![r] = "none"]
    /\ IF generator[r] = "suspended"
       THEN Release(r)
       ELSE UNCHANGED << total, per_collector, released >>
    /\ UNCHANGED << stage, key >>

-----------------------------------------------------------------------------

LeasesNext ==
    \E r \in Request :
        \/ \E c \in Collector : Acquire(r, c)
        \/ PreflightFails(r) \/ Respond(r) \/ StartGenerator(r)
        \/ GeneratorEnds(r) \/ ClientLeaves(r) \/ Background(r) \/ Finalize(r)

LeasesSpec == LeasesInit /\ [][LeasesNext]_leaseVars

-----------------------------------------------------------------------------

Typed ==
    /\ total \in Nat
    /\ per_collector \in [Collector -> Nat]
    /\ stage \in [Request -> {"idle", "preflight", "responding", "background"}]
    /\ key \in [Request -> Collector]
    /\ generator \in [Request -> {"none", "unstarted", "suspended"}]
    /\ released \in [Request -> BOOLEAN]

\* The counters never pass the limits.
LeasesWithinLimits ==
    /\ total <= MaxConnections
    /\ \A c \in Collector : per_collector[c] <= MaxPerCollector

LeasesTypeOK == Typed /\ LeasesWithinLimits

Leased == {r \in Request : ~released[r]}
LeasedTo(c) == {r \in Leased : key[r] = c}

(* The counters are exactly the leases that are out, however the three     *)
(* places that release one of them interleave with other requests: no slot *)
(* is freed twice, which would admit too many streams, and none is lost.   *)
CountersExact ==
    /\ total = Cardinality(Leased)
    /\ \A c \in Collector : per_collector[c] = Cardinality(LeasedTo(c))

Served(r) == stage[r] \in {"preflight", "responding"}

(* No more streams are served at once, in all and for any collector, than  *)
(* the limits allow.                                                       *)
WithinLimits ==
    /\ Cardinality({r \in Request : Served(r)}) <= MaxConnections
    /\ \A c \in Collector :
          Cardinality({r \in Request : Served(r) /\ key[r] = c})
              <= MaxPerCollector

(* A request keeps its lease for as long as it is served, and none when    *)
(* it is over, whether or not its generator was ever started, finished or  *)
(* finalized.                                                              *)
LeaseMatches ==
    \A r \in Request :
        /\ Served(r) => ~released[r]
        /\ stage[r] = "idle" => released[r]

-----------------------------------------------------------------------------
(* The inductive invariant.                                                *)

\* A request that still has its preflight ahead has no generator.
GeneratorShape ==
    \A r \in Request : stage[r] = "preflight" => generator[r] = "none"

IInv ==
    /\ Typed /\ GeneratorShape /\ LeaseMatches
    /\ CountersExact /\ LeasesWithinLimits

=============================================================================
