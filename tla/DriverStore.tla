----------------------------- MODULE DriverStore -----------------------------
(***************************************************************************)
(* internal/store/driver.go and internal/matching/candidates.go: drivers'  *)
(* hashes with their TTL, the set of drivers indexed under each cell, and  *)
(* candidate searches that read both while drivers ping, move, lapse and   *)
(* are claimed.                                                            *)
(*                                                                         *)
(* A step is one Redis command; a script is one, and so is a pipeline,     *)
(* whose commands concern one driver each.  Of the ranking's               *)
(* available_since only this is kept: writing it can create the hash.      *)
(***************************************************************************)
EXTENDS StateMachines, Integers, FiniteSets

CONSTANTS
    Drivers,
    Cells,
    Searches,         \* FindCandidates calls in progress
    Writers,          \* SetState calls in progress
    Dist,             \* grid distance of a cell from the searches' origin
    MinCandidates,    \* SearchConfig.MinCandidates
    MaxK,             \* SearchConfig.MaxK
    NoCell, NoDriver

ASSUME CellsAssumption ==
    /\ Dist \in [Cells -> Nat]
    /\ MinCandidates \in Nat /\ MaxK \in Nat
ASSUME NoneAssumption == NoCell \notin Cells /\ NoDriver \notin Drivers

VARIABLES
    hash,             \* driver:<id>: its state and cell fields
    members,          \* cell:<cell>:drivers
    lapsed,           \* history: drivers whose hash has expired once
    pending,          \* the write a SetState call is about to make
    spc,              \* the searches' program counters, and their locals:
    k, scanned, here, ids, stale, found,
    steady            \* history: drivers a search must find if it comes to their cell

searchVars == <<spc, k, scanned, here, ids, stale, found>>
vars == <<hash, members, lapsed, pending, searchVars, steady>>

NoHash == [state |-> "NONE", cell |-> NoCell]
\* A hash with no field but available_since, and no TTL.
BareHash == [state |-> "BARE", cell |-> NoCell]
NoWrite == [driver |-> NoDriver, to |-> "NONE"]

Exists(d) == hash[d] # NoHash

\* A hash that SetState or a ping's HSETNX brought back after it expired: no
\* location, no TTL.
Partial(d) == Exists(d) /\ hash[d].cell = NoCell

\* What Dispatcher.Run asks of SetState.
Targets == {"OFFERED", "EN_ROUTE", "AVAILABLE"}

Init ==
    /\ hash = [d \in Drivers |-> NoHash]
    /\ members = [c \in Cells |-> {}]
    /\ lapsed = {}
    /\ pending = [w \in Writers |-> NoWrite]
    /\ spc = [s \in Searches |-> "idle"]
    /\ k = [s \in Searches |-> 0]
    /\ scanned = [s \in Searches |-> {}]
    /\ here = [s \in Searches |-> NoCell]
    /\ ids = [s \in Searches |-> {}]
    /\ stale = [s \in Searches |-> {}]
    /\ found = [s \in Searches |-> {}]
    /\ steady = [s \in Searches |-> {}]

\* The drivers in D have moved, lapsed or been claimed under the searches.
Unsettle(D) == steady' = [s \in Searches |-> steady[s] \ D]

-----------------------------------------------------------------------------
(* Drivers and their dispatchers.                                          *)

\* Mutant: the script does not take the driver out of its previous cell.
UpdateLocationNoRem(d, c) ==
    /\ members' = [members EXCEPT ![c] = @ \cup {d}]
    /\ hash' = [hash EXCEPT ![d] =
                   [state |-> IF @.state \in DriverStates THEN @.state ELSE "AVAILABLE", cell |-> c]]
    /\ IF c = hash[d].cell THEN UNCHANGED steady ELSE Unsettle({d})
    /\ UNCHANGED <<lapsed, pending, searchVars>>

\* moveDriverScript: the cell the hash names is left for the new one.
UpdateLocation(d, c) ==
    /\ members' = [e \in Cells |-> IF e = c THEN members[e] \cup {d}
                                   ELSE IF e = hash[d].cell THEN members[e] \ {d} ELSE members[e]]
    /\ hash' = [hash EXCEPT ![d] =
                   [state |-> IF @.state \in DriverStates THEN @.state ELSE "AVAILABLE", cell |-> c]]
    /\ IF c = hash[d].cell THEN UNCHANGED steady ELSE Unsettle({d})
    /\ UNCHANGED <<lapsed, pending, searchVars>>

\* The ping's HSETNX comes after its script, and after the hash has expired if
\* the process stalls for that long.  On a hash that is there it changes nothing
\* a search tells apart.
SetAvailableSince(d) ==
    /\ d \in lapsed /\ ~Exists(d)
    /\ hash' = [hash EXCEPT ![d] = BareHash]
    /\ UNCHANGED <<members, lapsed, pending, searchVars, steady>>

\* DriverLocationTTL passes without a ping.  The cell sets have no TTL.
Expire(d) ==
    /\ hash[d].cell # NoCell
    /\ hash' = [hash EXCEPT ![d] = NoHash]
    /\ lapsed' = lapsed \cup {d}
    /\ Unsettle({d})
    /\ UNCHANGED <<members, pending, searchVars>>

\* SetState reads and validates; any error returns here.
SetStateRead(w, d, to) ==
    /\ pending[w] = NoWrite
    /\ Exists(d) /\ ValidDriverTransition(hash[d].state, to)
    /\ pending' = [pending EXCEPT ![w] = [driver |-> d, to |-> to]]
    /\ UNCHANGED <<hash, members, lapsed, searchVars, steady>>

\* HSET writes the one field, to a new hash if need be.
SetStateWrite(w) ==
    /\ pending[w] # NoWrite
    /\ hash' = [hash EXCEPT ![pending[w].driver] = [state |-> pending[w].to, cell |-> @.cell]]
    /\ pending' = [pending EXCEPT ![w] = NoWrite]
    /\ IF pending[w].to = "AVAILABLE" THEN UNCHANGED steady ELSE Unsettle({pending[w].driver})
    /\ UNCHANGED <<members, lapsed, searchVars>>

-----------------------------------------------------------------------------
(* FindCandidates, with DriversInCell and GetDrivers for each cell.        *)

Disk(n) == {c \in Cells : Dist[c] <= n}

Start(s) ==
    /\ spc[s] = "idle"
    /\ spc' = [spc EXCEPT ![s] = "scan"]
    /\ steady' = [steady EXCEPT ![s] =
                     {d \in Drivers \ lapsed : hash[d].state = "AVAILABLE" /\ hash[d].cell # NoCell}]
    /\ UNCHANGED <<hash, members, lapsed, pending, k, scanned, here, ids, stale, found>>

\* SMEMBERS of a cell of the disk that has not been scanned yet.
Members(s, c) ==
    /\ spc[s] = "scan" /\ c \in Disk(k[s]) \ scanned[s]
    /\ scanned' = [scanned EXCEPT ![s] = @ \cup {c}]
    /\ here' = [here EXCEPT ![s] = c]
    /\ ids' = [ids EXCEPT ![s] = members[c]]
    /\ spc' = [spc EXCEPT ![s] = IF members[c] = {} THEN "scan" ELSE "exists"]
    /\ UNCHANGED <<hash, members, lapsed, pending, k, stale, found, steady>>

\* Where DriversInCell returns to: a cell without live members is passed over.
AfterCell(live) == IF live = {} THEN "scan" ELSE "read"

\* EXISTS of every member.
Probe(s) ==
    /\ spc[s] = "exists"
    /\ LET live == {d \in ids[s] : Exists(d)} IN
       /\ ids' = [ids EXCEPT ![s] = live]
       /\ stale' = [stale EXCEPT ![s] = ids[s] \ live]
       /\ spc' = [spc EXCEPT ![s] = IF live # ids[s] THEN "sweep" ELSE AfterCell(live)]
    /\ UNCHANGED <<hash, members, lapsed, pending, k, scanned, here, found, steady>>

\* SREM of the members that had no hash when they were probed.
Sweep(s) ==
    /\ spc[s] = "sweep"
    /\ members' = [members EXCEPT ![here[s]] = @ \ stale[s]]
    /\ stale' = [stale EXCEPT ![s] = {}]
    /\ spc' = [spc EXCEPT ![s] = AfterCell(ids[s])]
    /\ UNCHANGED <<hash, lapsed, pending, k, scanned, here, ids, found, steady>>

\* The locals go out of scope.
Leave(s) ==
    /\ spc' = [spc EXCEPT ![s] = "idle"]
    /\ k' = [k EXCEPT ![s] = 0]
    /\ scanned' = [scanned EXCEPT ![s] = {}]
    /\ here' = [here EXCEPT ![s] = NoCell]
    /\ ids' = [ids EXCEPT ![s] = {}]
    /\ stale' = [stale EXCEPT ![s] = {}]
    /\ found' = [found EXCEPT ![s] = {}]
    /\ steady' = [steady EXCEPT ![s] = {}]
    /\ UNCHANGED <<hash, members, lapsed, pending>>

\* HGETALL of the live ones: AVAILABLE ones are candidates, expired ones are
\* passed over, and one that does not parse fails the search.
Read(s) ==
    /\ spc[s] = "read"
    /\ \/ (\E d \in ids[s] : Partial(d)) /\ Leave(s)
       \/ /\ ~\E d \in ids[s] : Partial(d)
          /\ found' = [found EXCEPT ![s] = @ \cup
                          ({here[s]} \X {d \in ids[s] : hash[d].state = "AVAILABLE"})]
          /\ spc' = [spc EXCEPT ![s] = "scan"]
          /\ ids' = [ids EXCEPT ![s] = {}]
          /\ UNCHANGED <<hash, members, lapsed, pending, k, scanned, here, stale, steady>>

Enough(s) == Cardinality(found[s]) >= MinCandidates

\* Mutant: the ring counter moves on before its disk is searched.
RingDoneEarly(s) ==
    /\ spc[s] = "scan" /\ scanned[s] # {}
    /\ \/ /\ (Enough(s) \/ k[s] = MaxK)
          /\ spc' = [spc EXCEPT ![s] = "done"]
          /\ UNCHANGED k
       \/ /\ ~Enough(s) /\ k[s] < MaxK
          /\ k' = [k EXCEPT ![s] = @ + 1]
          /\ UNCHANGED spc
    /\ UNCHANGED <<hash, members, lapsed, pending, scanned, here, ids, stale, found, steady>>

\* Mutant: the loop's bound is off by one.
RingDoneOneMore(s) ==
    /\ spc[s] = "scan" /\ Disk(k[s]) \subseteq scanned[s]
    /\ \/ /\ (Enough(s) \/ k[s] > MaxK)
          /\ spc' = [spc EXCEPT ![s] = "done"]
          /\ UNCHANGED k
       \/ /\ ~Enough(s) /\ k[s] <= MaxK
          /\ k' = [k EXCEPT ![s] = @ + 1]
          /\ UNCHANGED spc
    /\ UNCHANGED <<hash, members, lapsed, pending, scanned, here, ids, stale, found, steady>>

\* The disk is searched: enough, the last ring, or one ring more.
RingDone(s) ==
    /\ spc[s] = "scan" /\ Disk(k[s]) \subseteq scanned[s]
    /\ \/ /\ (Enough(s) \/ k[s] = MaxK)
          /\ spc' = [spc EXCEPT ![s] = "done"]
          /\ UNCHANGED k
       \/ /\ ~Enough(s) /\ k[s] < MaxK
          /\ k' = [k EXCEPT ![s] = @ + 1]
          /\ UNCHANGED spc
    /\ UNCHANGED <<hash, members, lapsed, pending, scanned, here, ids, stale, found, steady>>

Return(s) == spc[s] = "done" /\ Leave(s)

\* A Redis command of the search fails, and the search with it.
Abort(s) == spc[s] \in {"scan", "exists", "sweep", "read"} /\ Leave(s)

Step(s) ==
    \/ \E c \in Cells : Members(s, c)
    \/ Probe(s) \/ Sweep(s) \/ Read(s) \/ RingDone(s) \/ Return(s) \/ Abort(s)

-----------------------------------------------------------------------------

Next ==
    \/ \E d \in Drivers : Expire(d) \/ SetAvailableSince(d) \/ \E c \in Cells : UpdateLocation(d, c)
    \/ \E w \in Writers : SetStateWrite(w) \/ \E d \in Drivers, to \in Targets : SetStateRead(w, d, to)
    \/ \E s \in Searches : Start(s) \/ Step(s)

Spec == Init /\ [][Next]_vars

-----------------------------------------------------------------------------

TypeOK ==
    /\ hash \in [Drivers -> [state : DriverStates \cup {"NONE", "BARE"}, cell : Cells \cup {NoCell}]]
    /\ members \in [Cells -> SUBSET Drivers]
    /\ lapsed \subseteq Drivers
    /\ pending \in [Writers -> [driver : Drivers, to : Targets] \cup {NoWrite}]
    /\ spc \in [Searches -> {"idle", "scan", "exists", "sweep", "read", "done"}]
    /\ k \in [Searches -> 0 .. MaxK]
    /\ scanned \in [Searches -> SUBSET Cells]
    /\ here \in [Searches -> Cells \cup {NoCell}]
    /\ ids \in [Searches -> SUBSET Drivers] /\ stale \in [Searches -> SUBSET Drivers]
    /\ found \in [Searches -> SUBSET (Cells \X Drivers)]
    /\ steady \in [Searches -> SUBSET Drivers]

IndexedUnder(d) == {c \in Cells : d \in members[c]}

\* A driver that has never lapsed is indexed under the cell of its hash and
\* no other, whatever searches sweep meanwhile.  (moveDriverScript against
\* DriversInCell's SMEMBERS, EXISTS and SREM.)
IndexedOnce ==
    \A d \in Drivers \ lapsed :
        IndexedUnder(d) = IF hash[d].cell = NoCell THEN {} ELSE {hash[d].cell}

\* A search that has ended found every driver that stayed AVAILABLE in one
\* cell of the searched disk all along, exactly once; and it went to the last
\* ring unless it found enough.  (FindCandidates over DriversInCell and
\* GetDrivers, while other drivers come and go.)
SearchFindsSteady ==
    \A s \in Searches : spc[s] = "done" =>
        /\ \A d \in steady[s] :
               {c \in Cells : <<c, d>> \in found[s]} =
                   IF Dist[hash[d].cell] <= k[s] THEN {hash[d].cell} ELSE {}
        /\ (Enough(s) \/ k[s] = MaxK)

\* driver.go:40-41: "keeping each driver indexed under exactly one H3 cell set
\* at all times".  A hash that expired no longer names the cell it leaves.
ExactlyOneCell ==
    \A d \in Drivers : hash[d].cell # NoCell => Cardinality(IndexedUnder(d)) = 1
=============================================================================
