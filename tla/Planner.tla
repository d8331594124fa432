------------------------------ MODULE Planner ------------------------------
(***************************************************************************)
(* internal/planner: what a shard may dispatch, given what every shard of  *)
(* the replica last reported.  A report is the best band a shard has due   *)
(* work in and, for each fairness key it has there, how many steps are due *)
(* and the age of the oldest.  Each shard plans alone, from a snapshot of  *)
(* all reports; the plans meet only because the routing is deterministic.  *)
(*                                                                         *)
(* A snapshot is a function from the shards that have reported.  Weights   *)
(* only bias the lottery, in which every key that has steps left can win:  *)
(* Picks is the set of its outcomes.                                       *)
(***************************************************************************)
EXTENDS Integers, FiniteSets, FiniteSetsExt, Functions, Sequences

NoBand == 999   \* math.MaxInt: nothing is due

Reports(entries, band) == {s \in DOMAIN entries : entries[s].band = band}

\* merge: the best band with due work anywhere.
GlobalBand(entries) ==
    Min({NoBand} \cup {entries[s].band : s \in {t \in DOMAIN entries : DOMAIN entries[t].keys # {}}})

Holders(entries, band, k) == {s \in Reports(entries, band) : k \in DOMAIN entries[s].keys}

\* merge: the keys of that band, and how many steps they have over all shards.
MergedKeys(entries, band) == UNION {DOMAIN entries[s].keys : s \in Reports(entries, band)}
Total(entries, band, k) ==
    MapThenSumSet(LAMBDA s : entries[s].keys[k].count, Holders(entries, band, k))

Times(order, k) == Cardinality({i \in DOMAIN order : order[i] = k})

\* pick: fill the batch slot by slot with keys that have steps left.
Picks(entries, band, capacity) ==
    LET keys == MergedKeys(entries, band)
        all == MapThenSumSet(LAMBDA k : Total(entries, band, k), keys)
        n == Min({capacity, all})
    IN  {order \in [1..n -> keys] : \A k \in keys : Times(order, k) <= Total(entries, band, k)}

-----------------------------------------------------------------------------
(* slice: which shard serves which slot of a key *)

\* The first slot goes to the shard of the oldest step, the lower one on a tie.
OldestHolder(entries, band, k) ==
    CHOOSE s \in Holders(entries, band, k) :
        \A t \in Holders(entries, band, k) :
            \/ entries[s].keys[k].age > entries[t].keys[k].age
            \/ entries[s].keys[k].age = entries[t].keys[k].age /\ s <= t

\* What a holder has beyond that first slot.
Avail(entries, band, k, s) ==
    Max({0, entries[s].keys[k].count - (IF s = OldestHolder(entries, band, k) THEN 1 ELSE 0)})

\* The other n - 1 slots are split by what is left, largest remainder first, the
\* lower shard on a tie.
Extra(entries, band, k, n, s) ==
    LET holders == Holders(entries, band, k)
        avail == [t \in holders |-> Avail(entries, band, k, t)]
        all == MapThenSumSet(LAMBDA t : avail[t], holders)
        rem == Min({n - 1, all})
        base == [t \in holders |-> (rem * avail[t]) \div all]
        rest == [t \in holders |-> (rem * avail[t]) % all]
        short == rem - MapThenSumSet(LAMBDA t : base[t], holders)
        ahead == {t \in holders : /\ base[t] < avail[t]
                                  /\ rest[t] > rest[s] \/ (rest[t] = rest[s] /\ t < s)}
    IN  IF rem = 0 THEN 0
        ELSE base[s] + (IF base[s] < avail[s] /\ Cardinality(ahead) < short THEN 1 ELSE 0)

\* The shard of the o-th of a key's n slots: the oldest holder, then the holders
\* in shard order; none if the reports have shrunk under the order.
Owner(entries, band, k, n, o) ==
    LET holders == Holders(entries, band, k)
        upto(s) == MapThenSumSet(LAMBDA t : Extra(entries, band, k, n, t), {t \in holders : t <= s})
        reach == {s \in holders : upto(s) >= o - 1}
    IN  IF holders = {} THEN 0
        ELSE IF o = 1 THEN OldestHolder(entries, band, k)
        ELSE IF reach = {} THEN 0 ELSE Min(reach)

\* The slots of an order that one shard serves, in the order's order.
Slice(entries, band, order, s) ==
    LET occurrence(i) == Cardinality({j \in 1..i : order[j] = order[i]})
        routed == [i \in DOMAIN order |->
                     [key |-> order[i],
                      owner |-> Owner(entries, band, order[i], Times(order, order[i]), occurrence(i))]]
        mine == SelectSeq(routed, LAMBDA slot : slot.owner = s)
    IN  [i \in DOMAIN mine |-> mine[i].key]

\* Plan: what may be planned for a shard from one snapshot.  A shard that is not
\* in the snapshot learns that it is unknown, which is not the same as having
\* nothing to dispatch.
Plans(entries, s, capacity) ==
    LET band == GlobalBand(entries)
    IN  {[tallied |-> s \in DOMAIN entries, band |-> band, slots |-> slots] :
            slots \in IF band = NoBand THEN {<<>>}
                      ELSE {Slice(entries, band, order, s) : order \in Picks(entries, band, capacity)}}
=============================================================================
