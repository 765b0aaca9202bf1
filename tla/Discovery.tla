------------------------------ MODULE Discovery ------------------------------
(***************************************************************************)
(* The search for events, EventService.Discover: at most                   *)
(* DiscoveryRateLimit searches run at a time, and a user waits             *)
(* DiscoveryCooldown between two of them.  The cooldown is tested under a  *)
(* lock, then a slot is taken, then the cooldown is recorded under the     *)
(* lock again.  The slots and the cooldowns are in the memory of the       *)
(* process.                                                                *)
(***************************************************************************)
EXTENDS Integers, FiniteSets

CONSTANTS
  Searcher,            \* users
  Search,              \* slots for calls of Discover in flight
  DiscoveryRateLimit,  \* slots for searches
  DiscoveryCooldown,   \* time between two searches of a user
  MaxClock,            \* bound on the clock
  Never                \* no entry in discoveryCooldown

ASSUME SearchAssumption == IsFiniteSet(Search)
ASSUME LimitAssumption == DiscoveryRateLimit \in Nat \ {0}
ASSUME CooldownAssumption == DiscoveryCooldown \in Nat /\ MaxClock \in Nat
ASSUME NeverAssumption == Never \notin Nat

VARIABLES
  discoverySem,       \* number of values in the channel of slots
  discoveryCooldown,  \* of every user, the time recorded last
  search,             \* how far every call is
  clock               \* time.Now()

discoveryVars == <<discoverySem, discoveryCooldown, search, clock>>

-----------------------------------------------------------------------------
(* Data *)

\* tested: the entry of the user as this call has tested it.
SearchLocal == [at : {"idle", "slot", "record", "search"},
                user : Searcher \cup {Never}, tested : Nat \cup {Never}]

SearchIdle == [at |-> "idle", user |-> Never, tested |-> Never]

TooSoon(last) == last # Never /\ clock - last < DiscoveryCooldown

HoldsSlot == {c \in Search : search[c].at \in {"record", "search"}}

-----------------------------------------------------------------------------
(* Discover *)

\* Variant without the test.
TestCooldownSkipped(c, u) ==
  /\ search[c].at = "idle"
  /\ search' = [search EXCEPT ![c] = [at |-> "slot", user |-> u,
                                      tested |-> discoveryCooldown[u]]]
  /\ UNCHANGED <<discoverySem, discoveryCooldown, clock>>

\* A call that comes too soon is refused and changes nothing.
TestCooldown(c, u) ==
  /\ search[c].at = "idle"
  /\ ~TooSoon(discoveryCooldown[u])
  /\ search' = [search EXCEPT ![c] = [at |-> "slot", user |-> u,
                                      tested |-> discoveryCooldown[u]]]
  /\ UNCHANGED <<discoverySem, discoveryCooldown, clock>>

TakeSlot(c) ==
  /\ search[c].at = "slot"
  /\ discoverySem < DiscoveryRateLimit
  /\ discoverySem' = discoverySem + 1
  /\ search' = [search EXCEPT ![c].at = "record"]
  /\ UNCHANGED <<discoveryCooldown, clock>>

\* Variant in which the refused call also runs a deferred release.
RefuseAndRelease(c) ==
  /\ search[c].at = "slot"
  /\ discoverySem = DiscoveryRateLimit
  /\ discoverySem' = discoverySem - 1
  /\ search' = [search EXCEPT ![c] = SearchIdle]
  /\ UNCHANGED <<discoveryCooldown, clock>>

\* No slot is free: the call is refused and starts no cooldown.
Refuse(c) ==
  /\ search[c].at = "slot"
  /\ discoverySem = DiscoveryRateLimit
  /\ search' = [search EXCEPT ![c] = SearchIdle]
  /\ UNCHANGED <<discoverySem, discoveryCooldown, clock>>

RecordCooldown(c) ==
  /\ search[c].at = "record"
  /\ discoveryCooldown' = [discoveryCooldown EXCEPT ![search[c].user] = clock]
  /\ search' = [search EXCEPT ![c].at = "search"]
  /\ UNCHANGED <<discoverySem, clock>>

\* The search answers, fails or reaches its own time limit; the deferred
\* receive gives the slot back.
SearchEnds(c) ==
  /\ search[c].at = "search"
  /\ discoverySem' = discoverySem - 1
  /\ search' = [search EXCEPT ![c] = SearchIdle]
  /\ UNCHANGED <<discoveryCooldown, clock>>

TimePasses ==
  /\ clock < MaxClock
  /\ clock' = clock + 1
  /\ UNCHANGED <<discoverySem, discoveryCooldown, search>>

-----------------------------------------------------------------------------
DiscoveryInit ==
  /\ discoverySem = 0
  /\ discoveryCooldown = [u \in Searcher |-> Never]
  /\ search = [c \in Search |-> SearchIdle]
  /\ clock = 0

SearchStep(c) ==
  \/ \E u \in Searcher : TestCooldown(c, u)
  \/ TakeSlot(c)
  \/ Refuse(c)
  \/ RecordCooldown(c)
  \/ SearchEnds(c)

DiscoveryNext == (\E c \in Search : SearchStep(c)) \/ TimePasses

DiscoverySpec == DiscoveryInit /\ [][DiscoveryNext]_discoveryVars

-----------------------------------------------------------------------------
(* Properties *)

DiscoveryTypeOK ==
  /\ discoverySem \in 0..DiscoveryRateLimit
  /\ discoveryCooldown \in [Searcher -> Nat \cup {Never}]
  /\ search \in [Search -> SearchLocal]
  /\ clock \in Nat

\* The slots taken are those of the searches under way: none leaks on a path
\* out of Discover, and no more than DiscoveryRateLimit searches run.
SlotsCounted ==
  /\ discoverySem = Cardinality(HoldsSlot)
  /\ discoverySem <= DiscoveryRateLimit

\* A search starts within the cooldown of the previous one of its user only
\* when that one was recorded after this call had tested the cooldown: the
\* user had two calls between test and record at once.
SearchTooSoon ==
  [][\A c \in Search :
       (search[c].at = "record" /\ search'[c].at = "search"
          /\ TooSoon(discoveryCooldown[search[c].user]))
       => discoveryCooldown[search[c].user] # search[c].tested]_discoveryVars

=============================================================================
