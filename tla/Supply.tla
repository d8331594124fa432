------------------------------- MODULE Supply -------------------------------
(***************************************************************************)
(* The supply of one replica: internal/piston and internal/pipeline.  Each *)
(* shard has a piston with two loops that nobody synchronises: the tally   *)
(* loop scans the shard and reports to the planner, the supply loop plans, *)
(* fetches and replaces the shard's partition of the candidate cache.  The *)
(* pool policy turns a piston idle and back while its loops are anywhere.  *)
(* A candidate is only a hint: the claim decides.                          *)
(*                                                                         *)
(* The database is read by one statement at a time and changed by peers    *)
(* between any two of them.  A step's number is its id and its age: lower  *)
(* ids are older.  Which residue class the replica believes to own may     *)
(* change with every statement.                                            *)
(***************************************************************************)
EXTENDS Planner, SequencesExt

CONSTANTS
    Shards, Steps,
    ShardOf, KeyOf, BandOf,   \* of each step; the lower band is the better one
    Capacity,                 \* of the candidate cache
    Views,                    \* the (replicas, ordinal) pairs partitionOn may report
    MaxEvents                 \* bound: outages, withdrawals, steps that fall due later

ASSUME SupplyAssumption ==
    /\ Shards \subseteq Nat \ {0} /\ Steps \subseteq Nat /\ IsFiniteSet(Shards) /\ IsFiniteSet(Steps)
    /\ ShardOf \in [Steps -> Shards] /\ BandOf \in [Steps -> 1..NoBand - 1]
    /\ DOMAIN KeyOf = Steps
    /\ Capacity \in Nat \ {0} /\ MaxEvents \in Nat
    /\ \A v \in Views : v.replicas \in Nat /\ v.ordinal \in Nat

VARIABLES
    due,       \* the steps that are pending, unparked and due in the database
    waited,    \* how many steal graces each step has been due for
    idle,      \* the pistons that idle
    down,      \* the shards whose database does not answer
    reports,   \* the planner's tallies, by shard
    tally,     \* the tally loop of each shard
    supply,    \* the supply loop of each shard
    items,     \* the cache partition of each shard
    claims,    \* the claims tracker: the steps this replica tried to claim lately
    events

supplyVars == <<due, waited, idle, down, reports, tally, supply, items, claims, events>>

Of(s) == {st \in Steps : ShardOf[st] = s}
Nothing == [band |-> NoBand, keys |-> <<>>]
AtRest == [at |-> "rest", withdrawn |-> TRUE]

-----------------------------------------------------------------------------
(* What the statements return *)

\* The seeded fault: strict residue classes, nobody steals.
AdmittedStrict(v, st) == v.replicas < 2 \/ st % v.replicas = v.ordinal

\* partitionPredicate: the own class, the next one after a grace, any after two.
Admitted(v, st) ==
    \/ v.replicas < 2
    \/ st % v.replicas = v.ordinal
    \/ st % v.replicas = (v.ordinal + 1) % v.replicas /\ waited[st] >= 1
    \/ waited[st] >= 2

\* What ScanBand makes of the rows it selected, all of one band.
Tallied(rows) ==
    LET of(k) == {st \in rows : KeyOf[st] = k}
    IN  IF rows = {} THEN Nothing
        ELSE [band |-> Min({BandOf[st] : st \in rows}),
              keys |-> [k \in {KeyOf[st] : st \in rows} |->
                          [count |-> Min({Capacity, Cardinality(of(k))}), age |-> -Min(of(k))]]]

\* ScanBand: the best band of the shard is that of all its due steps, the keys
\* are those of the steps in it that the replica may select.
Scanned(s, v) ==
    LET band == Min({BandOf[st] : st \in Of(s) \cap due})
    IN  Tallied({st \in Of(s) \cap due : BandOf[st] = band /\ Admitted(v, st)})

Tier(v, st) == IF v.replicas < 2 \/ st % v.replicas = v.ordinal THEN 0
               ELSE IF st % v.replicas = (v.ordinal + 1) % v.replicas THEN 1 ELSE 2

Firsts(q, n) == SubSeq(q, 1, Min({n, Len(q)}))

\* FetchSteps for one key: the oldest admitted steps, more than asked for, then
\* the own class first, then as many as asked for.
FetchedOf(s, v, band, k, perKey) ==
    LET rows == {st \in Of(s) \cap due : BandOf[st] = band /\ KeyOf[st] = k /\ Admitted(v, st)}
        limit == perKey * Max({1, Min({v.replicas, 4})})
        oldest == {st \in rows : Cardinality({r \in rows : r < st}) < limit}
        nearer(a, b) == Tier(v, a) < Tier(v, b) \/ (Tier(v, a) = Tier(v, b) /\ a < b)
    IN  Firsts(SetToSortSeq(oldest, nearer), perKey)

PerKeyCap(slots) == Max({Times(slots, k) : k \in Range(slots)})

\* assemble: the slots in order, each with the next step of its key.
Batch(slots, fetched) ==
    LET wanted == [i \in DOMAIN slots |->
                     [key |-> slots[i], nth |-> Cardinality({j \in 1..i : slots[j] = slots[i]})]]
        found == SelectSeq(wanted, LAMBDA slot : slot.nth <= Len(fetched[slot.key]))
    IN  [i \in DOMAIN found |-> fetched[found[i].key][found[i].nth]]

-----------------------------------------------------------------------------
(* The tally loop *)

\* TallyCycle up to the answer of its scan.
Scan(s) ==
    /\ s \notin idle \cup down /\ tally[s].at = "rest"
    /\ UNCHANGED <<due, waited, idle, down, reports, supply, items, claims, events>>
    /\ \E v \in Views : tally' = [tally EXCEPT ![s] = [at |-> "scanned", withdrawn |-> FALSE,
                                                      found |-> Scanned(s, v)]]

\* planner.Tally: the report replaces the one before.
Told(s, found) == [t \in {s} \cup DOMAIN reports |-> IF t = s THEN found ELSE reports[t]]

Report(s) ==
    /\ tally[s].at = "scanned"
    /\ reports' = Told(s, tally[s].found)
    /\ tally' = [tally EXCEPT ![s] = [at |-> "rest", withdrawn |-> FALSE]]
    /\ UNCHANGED <<due, waited, idle, down, supply, items, claims, events>>

\* planner.Clear.
Cleared(s) == [t \in DOMAIN reports \ {s} |-> reports[t]]

\* A scan that failed says so.
ScanFails(s) ==
    /\ s \in down \ idle /\ tally[s].at = "rest"
    /\ reports' = Cleared(s)
    /\ tally' = [tally EXCEPT ![s].withdrawn = FALSE]
    /\ UNCHANGED <<due, waited, idle, down, supply, items, claims, events>>

\* The seeded fault: the loop relies on SetIdle's own withdrawal.
TallyIdlesTrusting(s) ==
    /\ s \in idle /\ tally[s].at = "rest" /\ ~tally[s].withdrawn
    /\ tally' = [tally EXCEPT ![s].withdrawn = TRUE]
    /\ UNCHANGED <<due, waited, idle, down, reports, supply, items, claims, events>>

\* runTallier finds the piston idle: it takes back what a cycle in flight reported.
TallyIdles(s) ==
    /\ s \in idle /\ tally[s].at = "rest" /\ ~tally[s].withdrawn
    /\ reports' = Cleared(s)
    /\ tally' = [tally EXCEPT ![s].withdrawn = TRUE]
    /\ UNCHANGED <<due, waited, idle, down, supply, items, claims, events>>

-----------------------------------------------------------------------------
(* The supply loop *)

\* SupplyCycle: plan from the reports of now.  An unknown shard keeps what it has
\* cached; one with nothing to dispatch drops it.
Plan(s) ==
    /\ s \notin idle /\ supply[s].at = "rest"
    /\ UNCHANGED <<due, waited, idle, down, reports, tally, claims, events>>
    /\ \E p \in Plans(reports, s, Capacity) :
          IF p.tallied /\ p.slots # <<>>
          THEN /\ supply' = [supply EXCEPT ![s] = [at |-> "planned", withdrawn |-> FALSE,
                                                   band |-> p.band, slots |-> p.slots]]
               /\ UNCHANGED items
          ELSE /\ supply' = [supply EXCEPT ![s].withdrawn = FALSE]
               /\ items' = IF p.tallied THEN [items EXCEPT ![s] = <<>>] ELSE items

\* FetchSteps, against what is due by now and the residue class of now.
Fetch(s) ==
    /\ s \notin down /\ supply[s].at = "planned"
    /\ UNCHANGED <<due, waited, idle, down, reports, tally, items, claims, events>>
    /\ LET slots == supply[s].slots IN
       \E v \in Views : \E fetched \in
             {[k \in Range(slots) |-> FetchedOf(s, v, supply[s].band, k, PerKeyCap(slots))]} :
          supply' = [supply EXCEPT ![s] = [at |-> "fetched", withdrawn |-> FALSE,
                                           batch |-> Batch(slots, fetched)]]

FetchFails(s) ==
    /\ s \in down /\ supply[s].at = "planned"
    /\ supply' = [supply EXCEPT ![s] = [at |-> "rest", withdrawn |-> FALSE]]
    /\ UNCHANGED <<due, waited, idle, down, reports, tally, items, claims, events>>

\* cache.Refill: the batch replaces whatever the partition holds by now.
Push(s) ==
    /\ supply[s].at = "fetched"
    /\ items' = [items EXCEPT ![s] = supply[s].batch]
    /\ supply' = [supply EXCEPT ![s] = [at |-> "rest", withdrawn |-> FALSE]]
    /\ UNCHANGED <<due, waited, idle, down, reports, tally, claims, events>>

\* runSupplier finds the piston idle.
SupplyIdles(s) ==
    /\ s \in idle /\ supply[s].at = "rest" /\ ~supply[s].withdrawn
    /\ items' = [items EXCEPT ![s] = <<>>]
    /\ supply' = [supply EXCEPT ![s].withdrawn = TRUE]
    /\ UNCHANGED <<due, waited, idle, down, reports, tally, claims, events>>

\* applyRole and SetIdle: the prompt half of a withdrawal.
SetIdle(s) ==
    /\ s \notin idle /\ events < MaxEvents
    /\ idle' = idle \cup {s}
    /\ reports' = Cleared(s)
    /\ items' = [items EXCEPT ![s] = <<>>]
    /\ events' = events + 1
    /\ UNCHANGED <<due, waited, down, tally, supply, claims>>

SetBusy(s) ==
    /\ s \in idle
    /\ idle' = idle \ {s}
    /\ UNCHANGED <<due, waited, down, reports, tally, supply, items, claims, events>>

-----------------------------------------------------------------------------
(* Claims *)

\* TryClaim: not a step that this replica tried to claim a moment ago.
TryClaim(st) == st \notin claims

\* A worker pops a candidate; which partition is served first is the crew's
\* matter.  A reserved step is skipped; any other one is reserved, and the claim
\* takes it if it is still due.
Take(s) ==
    /\ items[s] # <<>>
    /\ LET st == Head(items[s])
       IN  /\ due' = IF TryClaim(st) THEN due \ {st} ELSE due
           /\ waited' = IF TryClaim(st) THEN [waited EXCEPT ![st] = 0] ELSE waited
           /\ claims' = claims \cup {st}
    /\ items' = [items EXCEPT ![s] = Tail(@)]
    /\ UNCHANGED <<idle, down, reports, tally, supply, events>>

\* RelinquishClaim.
Relinquish(st) == claims' = claims \ {st}

\* rollMaps: a reservation is dropped one to two seconds after it was made.
AgesOut(st) ==
    /\ st \in claims
    /\ claims' = claims \ {st}
    /\ UNCHANGED <<due, waited, idle, down, reports, tally, supply, items, events>>

PeerTakes(st) ==
    /\ st \in due
    /\ due' = due \ {st}
    /\ waited' = [waited EXCEPT ![st] = 0]
    /\ UNCHANGED <<idle, down, reports, tally, supply, items, claims, events>>

\* A step falls due elsewhere, or here without a doorbell the cache heeds.
FallsDue(st) ==
    /\ st \notin due /\ events < MaxEvents
    /\ due' = due \cup {st}
    /\ events' = events + 1
    /\ UNCHANGED <<waited, idle, down, reports, tally, supply, items, claims>>

\* This replica makes it due: a successor, a retry, a revived caller, a reset.
\* Its own reservation is relinquished, and a dispatcher offers the step to its
\* own cache, which may decline.
Rings(st) ==
    /\ st \notin due /\ events < MaxEvents
    /\ ShardOf[st] \notin idle
    /\ due' = due \cup {st}
    /\ items' = [items EXCEPT ![ShardOf[st]] = Append(@, st)]
    /\ Relinquish(st)
    /\ events' = events + 1
    /\ UNCHANGED <<waited, idle, down, reports, tally, supply>>

GoesDown(s) ==
    /\ s \notin down /\ events < MaxEvents
    /\ down' = down \cup {s}
    /\ events' = events + 1
    /\ UNCHANGED <<due, waited, idle, reports, tally, supply, items, claims>>

ComesBack(s) ==
    /\ s \in down
    /\ down' = down \ {s}
    /\ UNCHANGED <<due, waited, idle, reports, tally, supply, items, claims, events>>

\* A steal grace passes over the steps that are due.
Grace ==
    /\ waited' = [st \in Steps |-> IF st \in due THEN Min({2, waited[st] + 1}) ELSE 0]
    /\ UNCHANGED <<due, idle, down, reports, tally, supply, items, claims, events>>

-----------------------------------------------------------------------------
SupplyInit ==
    /\ due = Steps
    /\ waited = [st \in Steps |-> 0]
    /\ idle = {} /\ down = {}
    /\ reports = <<>>
    /\ tally = [s \in Shards |-> AtRest]
    /\ supply = [s \in Shards |-> AtRest]
    /\ items = [s \in Shards |-> <<>>]
    /\ claims = {}
    /\ events = 0

TallyLoop(s) == Scan(s) \/ ScanFails(s) \/ Report(s) \/ TallyIdles(s)
SupplyLoop(s) == Plan(s) \/ Fetch(s) \/ FetchFails(s) \/ Push(s) \/ SupplyIdles(s)

SupplyNext ==
    \/ \E s \in Shards : TallyLoop(s) \/ SupplyLoop(s)
    \/ \E s \in Shards : SetIdle(s) \/ SetBusy(s) \/ Take(s) \/ GoesDown(s) \/ ComesBack(s)
    \/ \E st \in Steps : PeerTakes(st) \/ FallsDue(st) \/ Rings(st) \/ AgesOut(st)
    \/ Grace

SupplySpec == SupplyInit /\ [][SupplyNext]_supplyVars

\* Every loop goes round, failing while the database does not answer; the crew
\* pops what there is; time passes, over the due and over the reserved.
SupplyFairness ==
    /\ \A s \in Shards : WF_supplyVars(TallyLoop(s)) /\ WF_supplyVars(SupplyLoop(s))
    /\ WF_supplyVars(\E s \in Shards : Take(s))
    /\ WF_supplyVars(Grace) /\ WF_supplyVars(\E st \in Steps : AgesOut(st))

SupplyFairSpec == SupplySpec /\ SupplyFairness

-----------------------------------------------------------------------------
(* Properties *)

\* The backlog drains: again and again no step is due on a shard that this
\* replica dispatches and can read.  It does so whatever residue class the
\* replica is told to own from one statement to the next, however stale the plan
\* or the batch, and although another shard with a better band may have turned
\* unreadable or idle after it reported.
BacklogDrains == []<>(\A st \in due : ShardOf[st] \in idle \cup down)

\* An idle piston comes to rest outside the plan and with an empty partition,
\* although a scan or a fetch that began before it turned idle may end after:
\* its band would hold every other shard back for as long as it idles.
IdleHoldsNothing ==
    \A s \in idle :
        /\ tally[s] = AtRest => s \notin DOMAIN reports
        /\ supply[s] = AtRest => items[s] = <<>>
=============================================================================
