----------------------------- MODULE PriceFeed -----------------------------
(***************************************************************************)
(* The market price service of one worker: batches asked of Jupiter Price, *)
(* the block each mint was last observed at and when, the price cache the  *)
(* engine reads, the store of observations that a service may be given     *)
(* (verify-price-feed.ts) or do without, as the worker's (main.ts:51) and  *)
(* the engine's own (create-bot-engine.ts:53) do, and restarts.            *)
(* A response may carry any block for any mint, also an older one: the     *)
(* source has replicas.                                                    *)
(***************************************************************************)
EXTENDS Integers, FiniteSets

CONSTANTS
    Bases,       \* mints the engine trades
    Quote,       \* the mint prices are divided by
    MaxBlock,    \* bound: blocks are 1..MaxBlock, 0 is a missing or bad block
    MaxNow,      \* bound of the clock
    StaleAfter,  \* PRICE_STALE_AFTER_MS, in ticks
    MaxRestarts, \* bound of restarts
    Lasting      \* whether the history outlives a process that has no store

FeedAssumption ==
    /\ Quote \notin Bases
    /\ {MaxBlock, MaxNow, StaleAfter, MaxRestarts} \subseteq Nat
    /\ Lasting \in BOOLEAN

VARIABLES
    now,       \* the clock
    seen,      \* blockObservations: mint -> observation, or Unseen
    stored,    \* what the store holds
    loaded,    \* observationLoad: "no", "yes" or "failed"
    cached,    \* latestBySymbol: base -> price, or NoPrice
    batch,     \* the batch in flight: a phase and the prices it will publish
    restarts,  \* restarts so far
    firstUse,  \* history: when a block was first part of a published price
    durable    \* whether the service is given an observation store

vars == <<now, seen, stored, loaded, cached, batch, restarts, firstUse, durable>>

Mints == Bases \cup {Quote}
Blocks == 1..MaxBlock
Unseen == [block |-> 0, first |-> 0, advanced |-> FALSE]
NoPrice == [block |-> 0, quoteBlock |-> 0, at |-> 0]
NoPrices == [b \in Bases |-> NoPrice]
Idle == [phase |-> "idle", prices |-> NoPrices]
Never == MaxNow + 1
NotUsed == [m \in Mints |-> [k \in Blocks |-> Never]]
Earlier(a, b) == IF a < b THEN a ELSE b

Init ==
    /\ now = 0 /\ restarts = 0
    /\ seen = [m \in Mints |-> Unseen]
    /\ stored = [m \in Mints |-> Unseen]
    /\ durable \in BOOLEAN /\ loaded = IF durable THEN "no" ELSE "yes"
    /\ cached = NoPrices
    /\ batch = Idle
    /\ firstUse = NotUsed

-----------------------------------------------------------------------------
(* One block of one mint: the observation to keep, and whether to trust it. *)

Regressed(m, k) == k = 0 \/ k < seen[m].block

Renewed(m, k) ==
    IF Regressed(m, k) THEN seen[m]
    ELSE [block |-> k, first |-> now, advanced |-> seen[m] # Unseen]
Sighting(m, k) ==
    CASE Regressed(m, k) -> seen[m]
      [] k = seen[m].block -> seen[m]
      [] OTHER -> [block |-> k, first |-> now, advanced |-> seen[m] # Unseen]

Trusted(m, k) ==
    /\ ~Regressed(m, k)
    /\ Sighting(m, k).advanced
    /\ now - Sighting(m, k).first <= StaleAfter

\* The price of a base under a response: NoPrice when it or the quote is not trusted.
PriceFrom(r, b) ==
    IF r[b].priced /\ Trusted(b, r[b].block)
    THEN [block |-> r[b].block, quoteBlock |-> r[Quote].block,
          at |-> Earlier(Sighting(b, r[b].block).first, Sighting(Quote, r[Quote].block).first)]
    ELSE NoPrice

Responses == [Mints -> [block : 0..MaxBlock, priced : BOOLEAN]]

-----------------------------------------------------------------------------
Fresh(b) ==
    /\ cached[b] # NoPrice
    /\ now - cached[b].at <= StaleAfter

\* The poller's timer, or a run that finds no fresh price. A batch in flight is joined.
Ask ==
    /\ batch = Idle
    /\ loaded # "failed"
    /\ batch' = [Idle EXCEPT !.phase = "asked"]
    /\ UNCHANGED <<now, seen, stored, loaded, cached, restarts, firstUse, durable>>

\* The store is read once per process; a failed read is kept and refuses every later batch.
Load ==
    /\ batch.phase = "asked" /\ loaded = "no"
    /\ \/ seen' = stored /\ loaded' = "yes" /\ UNCHANGED batch
       \/ loaded' = "failed" /\ batch' = Idle /\ UNCHANGED seen
    /\ UNCHANGED <<now, stored, cached, restarts, firstUse, durable>>

\* Timeouts and refused requests, after the retry: nothing is learnt.
RequestFails ==
    /\ batch.phase = "asked" /\ loaded = "yes"
    /\ batch' = Idle
    /\ UNCHANGED <<now, seen, stored, loaded, cached, restarts, firstUse, durable>>

Publish(prices) ==
    /\ cached' = [b \in Bases |-> IF prices[b] = NoPrice THEN cached[b] ELSE prices[b]]
    /\ firstUse' = [m \in Mints |-> [k \in Blocks |->
          IF /\ firstUse[m][k] = Never
             /\ \E b \in Bases : prices[b] # NoPrice /\ k = IF m = b THEN prices[b].block
                                                         ELSE IF m = Quote THEN prices[b].quoteBlock ELSE 0
          THEN now ELSE firstUse[m][k]]]
    /\ batch' = Idle

Withdrawn(keep) == [b \in Bases |-> IF b \in keep THEN cached[b] ELSE NoPrice]

Respond(r) ==
    LET quoteOk == r[Quote].priced /\ Trusted(Quote, r[Quote].block)
        prices == [b \in Bases |-> IF quoteOk THEN PriceFrom(r, b) ELSE NoPrice]
        priced == {b \in Bases : prices[b] # NoPrice}
    IN  /\ batch.phase = "asked" /\ loaded = "yes"
        /\ seen' = [m \in Mints |-> Sighting(m, r[m].block)]
        /\ cached' = Withdrawn(priced)
        /\ batch' = IF priced = {} THEN Idle
                    ELSE [phase |-> IF durable THEN "saving" ELSE "saved", prices |-> prices]
        /\ UNCHANGED <<now, stored, loaded, restarts, firstUse, durable>>

\* The store is written before the price can be read.
Save ==
    /\ batch.phase = "saving"
    /\ \/ stored' = seen /\ batch' = [batch EXCEPT !.phase = "saved"]
       \/ stored' \in {stored, seen} /\ batch' = Idle       \* the save fails
    /\ UNCHANGED <<now, seen, loaded, cached, restarts, firstUse, durable>>

Saved ==
    /\ batch.phase = "saved"
    /\ Publish(batch.prices)
    /\ UNCHANGED <<now, seen, stored, loaded, restarts, durable>>

\* What a process knew is gone, but for the store.
Restart ==
    /\ restarts < MaxRestarts
    /\ restarts' = restarts + 1
    /\ seen' = [m \in Mints |-> Unseen]
    /\ loaded' = IF durable THEN "no" ELSE "yes"
    /\ cached' = NoPrices
    /\ batch' = Idle
    /\ firstUse' = IF durable \/ Lasting THEN firstUse ELSE NotUsed
    /\ UNCHANGED <<now, stored, durable>>

Tick ==
    /\ now < MaxNow
    /\ now' = now + 1
    /\ UNCHANGED <<seen, stored, loaded, cached, batch, restarts, firstUse, durable>>

Next ==
    \/ Ask \/ Load \/ RequestFails \/ Save \/ Saved \/ Restart \/ Tick
    \/ \E r \in Responses : Respond(r)

Spec == Init /\ [][Next]_vars

-----------------------------------------------------------------------------
Observations == [block : 0..MaxBlock, first : 0..MaxNow, advanced : BOOLEAN]
Prices == [block : 0..MaxBlock, quoteBlock : 0..MaxBlock, at : 0..MaxNow]

\* Every variable has its type.
TypeOK ==
    /\ now \in 0..MaxNow /\ restarts \in 0..MaxRestarts
    /\ seen \in [Mints -> Observations] /\ stored \in [Mints -> Observations]
    /\ loaded \in {"no", "yes", "failed"} /\ durable \in BOOLEAN
    /\ cached \in [Bases -> Prices]
    /\ batch \in [phase : {"idle", "asked", "saving", "saved"}, prices : [Bases -> Prices]]
    /\ firstUse \in [Mints -> [Blocks -> 0..Never]]

(* A price the engine accepts as fresh rests on a base block and a quote     *)
(* block that were first used no longer than StaleAfter ago: a block the     *)
(* source keeps serving is never young again, neither by a price that moves, *)
(* by the other mint advancing nor by a regressing replica.  With a store    *)
(* that includes the uses of earlier processes; without one ~Lasting counts  *)
(* this process alone, and Lasting asks it of the service as the comment     *)
(* does ("so a worker restart cannot make a repeatedly served source block   *)
(* fresh again", market-price-service.ts:223), in vain.                      *)
NoRenewal ==
    \A b \in Bases : Fresh(b) =>
        /\ now - firstUse[b][cached[b].block] <= StaleAfter
        /\ now - firstUse[Quote][cached[b].quoteBlock] <= StaleAfter

(* The cached price of a base is the newest one published (in this process,  *)
(* and ever when there is a store): no later response, replica or restart    *)
(* puts an older block back in front of the engine.                          *)
NewestBlock ==
    \A b \in Bases : cached[b] # NoPrice =>
        /\ \A k \in Blocks : k > cached[b].block => firstUse[b][k] = Never
        /\ \A k \in Blocks : k > cached[b].quoteBlock => firstUse[Quote][k] = Never

-----------------------------------------------------------------------------
(* What makes the properties inductive.                                      *)

\* Observations know every block a published price rested on: none is newer,
\* and theirs is not observed later than it was first used.
Knows(observed) ==
    \A m \in Mints : \A k \in Blocks : firstUse[m][k] # Never =>
        k <= observed[m].block /\ (k = observed[m].block => observed[m].first <= firstUse[m][k])

\* The store, if there is one, always knows them, the process once it has read it.
BlocksAreKnown ==
    /\ durable => Knows(stored)
    /\ loaded = "yes" => Knows(seen)
    /\ ~durable => loaded = "yes"

\* Nothing was observed later than now.
NothingFromTheFuture ==
    \A m \in Mints : seen[m].first <= now /\ stored[m].first <= now

\* A price under way is of the observed blocks and as old as the older of them;
\* a base without one has no price either.
BatchIsObserved ==
    batch.phase \in {"saving", "saved"} =>
        /\ loaded = "yes"
        /\ IF batch.phase = "saving" THEN durable ELSE durable => stored = seen
        /\ \A b \in Bases :
             IF batch.prices[b] = NoPrice THEN cached[b] = NoPrice
             ELSE /\ batch.prices[b].block = seen[b].block
                  /\ batch.prices[b].quoteBlock = seen[Quote].block
                  /\ batch.prices[b].block > 0 /\ batch.prices[b].quoteBlock > 0
                  /\ batch.prices[b].at <= seen[b].first /\ batch.prices[b].at <= seen[Quote].first

\* A cached price is not younger than the first use of its blocks.
CachedIsBacked ==
    \A b \in Bases : cached[b] # NoPrice =>
        /\ cached[b].block > 0 /\ cached[b].quoteBlock > 0 /\ cached[b].at <= now
        /\ cached[b].at <= firstUse[b][cached[b].block]
        /\ cached[b].at <= firstUse[Quote][cached[b].quoteBlock]

\* What the histories remember is what the service can know.
FeedInv ==
    /\ TypeOK /\ BlocksAreKnown /\ NothingFromTheFuture /\ BatchIsObserved /\ CachedIsBacked
    /\ NoRenewal /\ NewestBlock
=============================================================================
