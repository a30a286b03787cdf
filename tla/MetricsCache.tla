---------------------------- MODULE MetricsCache ----------------------------
(***************************************************************************)
(* The cached status of one server (services/metrics.cache.ts): one        *)
(* measurement serves every caller for 20 s, callers share the one in      *)
(* flight, and the end of a maintenance job drops both.  The two servers'  *)
(* halves are the same code on disjoint state.                             *)
(***************************************************************************)
EXTENDS Integers

CONSTANTS
  Askers,       \* requests and workers that ask
  MaxReadings,  \* bound: changes of what is measured
  MaxFetches    \* bound: measurements begun

ASSUME CacheAssumption == MaxReadings \in Nat /\ MaxFetches \in Nat

VARIABLES
  reading,    \* what a measurement would read now
  cached,     \* cacheB, NoReading when empty or expired
  fetching,   \* fetchingB: the measurement it tracks, 0 for none
  fetches,    \* the measurements: NotRead, or what was read, or Settled
  asked,      \* the measurement each asker awaits, 0 for none
  floor,      \* what was current at the last invalidation before it asked
  invalidated \* what was current at the last invalidation

cacheVars == <<reading, cached, fetching, fetches, asked, floor, invalidated>>

NoReading == -1
NotRead   == -1
Settled   == -2
Unused    == -3
Fetch     == 1..MaxFetches

CacheTypeOK ==
  /\ reading \in 0..MaxReadings /\ cached \in {NoReading} \cup 0..MaxReadings
  /\ fetching \in 0..MaxFetches
  /\ fetches \in [Fetch -> {Unused, Settled, NotRead} \cup 0..MaxReadings]
  /\ asked \in [Askers -> 0..MaxFetches]
  /\ floor \in [Askers -> 0..MaxReadings] /\ invalidated \in 0..MaxReadings

-----------------------------------------------------------------------------

\* getStatusB with nothing fresh in the cache: join what is in flight, or start.
Ask(a) ==
  /\ asked[a] = 0 /\ cached = NoReading
  /\ \E f \in Fetch :
       /\ IF fetching # 0 THEN f = fetching /\ UNCHANGED fetches
          ELSE /\ fetches[f] = Unused /\ \A g \in 1..(f - 1) : fetches[g] # Unused
               /\ fetches' = [fetches EXCEPT ![f] = NotRead]
       /\ fetching' = f
       /\ asked' = [asked EXCEPT ![a] = f]
  /\ floor' = [floor EXCEPT ![a] = invalidated]
  /\ UNCHANGED <<reading, cached, invalidated>>

\* The commands of a measurement have read the machine.
Measure(f) ==
  /\ fetches[f] = NotRead
  /\ fetches' = [fetches EXCEPT ![f] = reading]
  /\ UNCHANGED <<reading, cached, fetching, asked, floor, invalidated>>

\* Mutant: whichever measurement comes back fills the cache.
Resolve_AnyFills(f) ==
  /\ fetches[f] >= 0
  /\ cached' = fetches[f] /\ fetching' = IF fetching = f THEN 0 ELSE fetching
  /\ fetches' = [fetches EXCEPT ![f] = Settled]
  /\ asked' = [a \in Askers |-> IF asked[a] = f THEN 0 ELSE asked[a]]
  /\ UNCHANGED <<reading, floor, invalidated>>

\* It comes back: only the one still tracked fills the cache, and all who
\* await it have its value.
Resolve(f) ==
  /\ fetches[f] >= 0
  /\ IF fetching = f THEN cached' = fetches[f] /\ fetching' = 0
     ELSE UNCHANGED <<cached, fetching>>
  /\ fetches' = [fetches EXCEPT ![f] = Settled]
  /\ asked' = [a \in Askers |-> IF asked[a] = f THEN 0 ELSE asked[a]]
  /\ UNCHANGED <<reading, floor, invalidated>>

Reject(f) ==
  /\ fetches[f] \in Nat \cup {NotRead}
  /\ fetching' = IF fetching = f THEN 0 ELSE fetching
  /\ fetches' = [fetches EXCEPT ![f] = Settled]
  /\ asked' = [a \in Askers |-> IF asked[a] = f THEN 0 ELSE asked[a]]
  /\ UNCHANGED <<reading, cached, floor, invalidated>>

\* The 20 seconds are over.
Expire ==
  /\ cached # NoReading /\ cached' = NoReading
  /\ UNCHANGED <<reading, fetching, fetches, asked, floor, invalidated>>

\* The machine changes: apt has installed what it was asked to.
Change ==
  /\ reading < MaxReadings /\ reading' = reading + 1
  /\ UNCHANGED <<cached, fetching, fetches, asked, floor, invalidated>>

\* A maintenance job has ended.
Invalidate ==
  /\ cached' = NoReading /\ fetching' = 0
  /\ invalidated' = reading
  /\ UNCHANGED <<reading, fetches, asked, floor>>

CacheInit ==
  /\ reading = 0 /\ cached = NoReading /\ fetching = 0
  /\ fetches = [f \in Fetch |-> Unused]
  /\ asked = [a \in Askers |-> 0]
  /\ floor = [a \in Askers |-> 0] /\ invalidated = 0

CacheNext ==
  \/ \E a \in Askers : Ask(a)
  \/ \E f \in Fetch : Measure(f) \/ Resolve(f) \/ Reject(f)
  \/ Expire \/ Change \/ Invalidate

CacheSpec == CacheInit /\ [][CacheNext]_cacheVars

-----------------------------------------------------------------------------

\* No answer is older than the last invalidation before its question: neither
\* one from the cache, nor one of a measurement that is awaited ("a 20s-stale
\* badge showing '12 updates' straight after a successful update reads as a
\* bug", metrics.cache.ts:82).
NoStaleAnswer ==
  /\ cached # NoReading => cached >= invalidated
  /\ \A a \in Askers : asked[a] # 0 /\ fetches[asked[a]] >= 0 => fetches[asked[a]] >= floor[a]
=============================================================================
