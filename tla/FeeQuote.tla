------------------------------ MODULE FeeQuote ------------------------------
(***************************************************************************)
(* The price of a settlement, quoted to a client (routes/fee.ts) and       *)
(* required of its request later (middleware/fee-validation.ts).  Both     *)
(* compute it (gas-cost.ts) from a gas price (dynamic-gas-price.ts) and a  *)
(* token price (token-price.ts), each cached for a while, fetched when the *)
(* cache is out of date and replaced by a static one when the fetch fails. *)
(* Updaters fetch in the background.                                       *)
(*                                                                         *)
(* Gas prices are cached under the network's canonical identifier, token   *)
(* prices under whatever name the caller used, so a network has a token    *)
(* price per name.  A price is represented by the time at which it was     *)
(* current: the market is the functions Gas and Token of time.             *)
(***************************************************************************)
EXTENDS FeeRule

CONSTANTS
    Exchanges,      \* a quote and the request that uses it
    Updaters,       \* background fetches that may be under way at once
    UpdaterKey,     \* [Updaters -> Keys]
    Names,          \* names of the network: its alias, its CAIP-2 identifier
    Alias,          \* the name that the fee validation uses
    GasKey,         \* the network's key in the gas price cache
    TTL,            \* [Keys -> Nat], cacheTTL
    Latency,        \* bound on the time a fetch takes
    MaxTime,
    Gas, Token,     \* [0 .. MaxTime -> Nat]: the prices at the sources
    StaticGas, StaticToken,
    MinFee,         \* minFacilitatorFeeUsd
    Nothing

\* The keys of the two caches.
Keys == Names \cup {GasKey}

Callers == Exchanges \cup Updaters

Times == 0 .. MaxTime

ASSUME FeeQuoteAssumption ==
    /\ Exchanges \cap Updaters = {}
    /\ Alias \in Names /\ GasKey \notin Names
    /\ UpdaterKey \in [Updaters -> Keys]
    /\ TTL \in [Keys -> Nat] /\ Latency \in Nat /\ MaxTime \in Nat
    /\ Gas \in [Times -> Nat] /\ Token \in [Times -> Nat]
    /\ StaticGas \in Nat /\ StaticToken \in Nat /\ MinFee \in Nat

\* In the place of a time: the configured price.
Static == 0 - 1

VARIABLES
    now,
    cache,      \* cache[key]: the price and when it was stored, or Nothing
    asking,     \* asking[caller]: the key being fetched and since when, or Nothing
    step,         \* step[exchange], see Steps
    name,       \* name[exchange]: the name its network goes by
    began,      \* began[exchange]: when its quote and its validation were begun
    gas, token, \* gas[exchange], token[exchange]: the prices it has read
    fallback,   \* exchanges that were given a static price
    fee         \* fee[exchange]: the fee quoted

quoteVars == <<now, cache, asking, step, name, began, gas, token, fallback, fee>>

\* Reading the gas price and then the token price, for the quote and for the check.
Steps == {"new", "quote_gas", "quote_token", "quote_cost", "quoted",
          "check_gas", "check_token", "check_cost", "accepted", "refused"}

Prices == {Static} \cup Times

QuoteTypeOK ==
    /\ now \in Times
    /\ cache \in [Keys -> [asOf: Times, at: Times] \cup {Nothing}]
    /\ asking \in [Callers -> [key: Keys, since: Times] \cup {Nothing}]
    /\ step \in [Exchanges -> Steps]
    /\ name \in [Exchanges -> Names]
    /\ began \in [Exchanges -> [quote: Times, check: Times]]
    /\ gas \in [Exchanges -> Prices] /\ token \in [Exchanges -> Prices]
    /\ fallback \subseteq Exchanges
    /\ fee \in [Exchanges -> Nat]

QuoteInit ==
    /\ now = 0
    /\ cache = [k \in Keys |-> Nothing]
    /\ asking = [c \in Callers |-> Nothing]
    /\ step = [x \in Exchanges |-> "new"]
    /\ name \in [Exchanges -> Names]
    /\ began = [x \in Exchanges |-> [quote |-> 0, check |-> 0]]
    /\ gas = [x \in Exchanges |-> Static] /\ token = [x \in Exchanges |-> Static]
    /\ fallback = {}
    /\ fee = [x \in Exchanges |-> 0]

-----------------------------------------------------------------------------
(* calculateMinFacilitatorFee *)

\* The fee that covers a settlement at the gas price of time g and the token price of
\* time t.
Cost(g, t) ==
    LET cost == (IF g = Static THEN StaticGas ELSE Gas[g])
                    * (IF t = Static THEN StaticToken ELSE Token[t])
    IN  IF cost < MinFee THEN MinFee ELSE cost

Required(x) == Cost(gas[x], token[x])

\* The price that exchange x waits for, and the step it goes on with.
KeyNeeded(x) == IF step[x] \in {"quote_gas", "check_gas"} THEN GasKey ELSE name[x]

AfterPrice ==
    [quote_gas |-> "quote_token", quote_token |-> "quote_cost",
     check_gas |-> "check_token", check_token |-> "check_cost"]

Reading(x) == step[x] \in DOMAIN AfterPrice

\* Exchange x goes on with the price p.
Read(x, p) ==
    /\ step' = [step EXCEPT ![x] = AfterPrice[step[x]]]
    /\ IF KeyNeeded(x) = GasKey
       THEN gas' = [gas EXCEPT ![x] = p] /\ UNCHANGED token
       ELSE token' = [token EXCEPT ![x] = p] /\ UNCHANGED gas
    /\ fallback' = IF p = Static THEN fallback \cup {x} ELSE fallback
    /\ UNCHANGED <<now, name, began, fee>>

-----------------------------------------------------------------------------
(* getDynamicGasPrice and getTokenPrice *)

\* Mutant: an entry does not expire.
CachedForever(k) == cache[k] # Nothing

\* The entry is there and is not out of date.
Cached(k) == cache[k] # Nothing /\ now - cache[k].at < TTL[k]

TakeCached(x) ==
    /\ Reading(x) /\ asking[x] = Nothing
    /\ Cached(KeyNeeded(x))
    /\ Read(x, cache[KeyNeeded(x)].asOf)
    /\ UNCHANGED <<cache, asking>>

Ask(c, k) ==
    /\ asking[c] = Nothing
    /\ ~ Cached(k)
    /\ asking' = [asking EXCEPT ![c] = [key |-> k, since |-> now]]
    /\ UNCHANGED <<now, cache, step, name, began, gas, token, fallback, fee>>

Fetch(x) == Reading(x) /\ Ask(x, KeyNeeded(x))

\* A tick of an updater: it calls the same function, which takes a cached price.
Update(u) == Ask(u, UpdaterKey[u])

\* Caller c is given price p, static or of the market.
Give(c, p) ==
    /\ asking' = [asking EXCEPT ![c] = Nothing]
    /\ IF c \in Exchanges THEN Read(c, p)
       ELSE UNCHANGED <<now, step, name, began, gas, token, fallback, fee>>

\* The source answers with what was current at some time since it was asked.  The
\* entry is stored under the time of the answer, whatever is there.
Answered(c) ==
    /\ asking[c] # Nothing
    /\ \E t \in asking[c].since .. now :
          /\ cache' = [cache EXCEPT ![asking[c].key] = [asOf |-> t, at |-> now]]
          /\ Give(c, t)

Unanswered(c) ==
    /\ asking[c] # Nothing
    /\ Give(c, Static)
    /\ UNCHANGED cache

-----------------------------------------------------------------------------
(* GET /calculate-fee and the fee validation *)

BeginQuote(x) ==
    /\ step[x] = "new"
    /\ step' = [step EXCEPT ![x] = "quote_gas"]
    /\ began' = [began EXCEPT ![x].quote = now]
    /\ UNCHANGED <<now, cache, asking, name, gas, token, fallback, fee>>

Quote(x) ==
    /\ step[x] = "quote_cost"
    /\ step' = [step EXCEPT ![x] = "quoted"]
    /\ fee' = [fee EXCEPT ![x] = Required(x)]
    /\ UNCHANGED <<now, cache, asking, name, began, gas, token, fallback>>

\* The client has signed for the fee quoted and its request arrives, however late; the
\* network goes by its alias now.
BeginCheck(x) ==
    /\ step[x] = "quoted"
    /\ step' = [step EXCEPT ![x] = "check_gas"]
    /\ began' = [began EXCEPT ![x].check = now]
    /\ name' = [name EXCEPT ![x] = Alias]
    /\ UNCHANGED <<now, cache, asking, gas, token, fallback, fee>>

\* Mutant: no tolerance.
CheckStrictly(x) ==
    /\ step[x] = "check_cost"
    /\ step' = [step EXCEPT ![x] = IF fee[x] >= Required(x) THEN "accepted" ELSE "refused"]
    /\ UNCHANGED <<now, cache, asking, name, began, gas, token, fallback, fee>>

\* Mutant: the prices of the quote are kept and not read again.
CheckUnread(x) ==
    /\ step[x] = "check_gas" /\ asking[x] = Nothing
    /\ step' = [step EXCEPT ![x] = "accepted"]
    /\ UNCHANGED <<now, cache, asking, name, began, gas, token, fallback, fee>>

Check(x) ==
    /\ step[x] = "check_cost"
    /\ step' = [step EXCEPT ![x] = IF FeeSuffices(fee[x], Required(x))
                               THEN "accepted" ELSE "refused"]
    /\ UNCHANGED <<now, cache, asking, name, began, gas, token, fallback, fee>>

\* Fetches end in time.
TimePasses ==
    /\ now < MaxTime
    /\ \A c \in Callers : asking[c] # Nothing => now - asking[c].since < Latency
    /\ now' = now + 1
    /\ UNCHANGED <<cache, asking, step, name, began, gas, token, fallback, fee>>

QuoteNext ==
    \/ \E x \in Exchanges : \/ BeginQuote(x) \/ Quote(x) \/ BeginCheck(x) \/ Check(x)
                            \/ TakeCached(x) \/ Fetch(x)
    \/ \E u \in Updaters : Update(u)
    \/ \E c \in Callers : Answered(c) \/ Unanswered(c)
    \/ TimePasses

QuoteSpec == QuoteInit /\ [][QuoteNext]_quoteVars

-----------------------------------------------------------------------------
(* Properties *)

\* The times of which a price read between start and end may be, if it is fetched: a
\* cached one is older by its time to live and the fetch that stored it.
Window(k, start, end) == {t \in Times : start - TTL[k] - Latency <= t /\ t <= end}

\* The costs that were right at some time of the two prices' windows.
CostsOf(n, start, end) ==
    {Cost(g, t) : g \in Window(GasKey, start, end), t \in Window(n, start, end)}

\* A fetched price in use is never older than its time to live and one fetch, although
\* answers are stored in the order they arrive and an older price may replace a newer.
PricesFresh ==
    \A x \in Exchanges :
        LET start == IF step[x] \in {"check_token", "check_cost", "accepted", "refused"}
                     THEN began[x].check ELSE began[x].quote
        IN  /\ gas[x] = Static \/ gas[x] \in Window(GasKey, start, now)
            /\ \/ step[x] \in {"check_gas", "check_token"}    \* still that of the quote
               \/ token[x] = Static \/ token[x] \in Window(name[x], start, now)

\* A fee as quoted is refused only if a static price took part or the market moved by
\* more than the tolerance between the oldest price the quote may rest on and now: two
\* names and two caches alone never cost a client its quote.
QuoteHonoured ==
    \A x \in Exchanges \ fallback :
        step[x] = "refused" =>
            \E n \in Names :
                \E low \in CostsOf(n, began[x].quote, now),
                   high \in CostsOf(Alias, began[x].check, now) :
                    ~ FeeSuffices(low, high)

\* A fee is accepted only if it suffices at prices that were right about the time of the
\* check, however long ago it was quoted.
FeeCovers ==
    \A x \in Exchanges \ fallback :
        step[x] = "accepted" =>
            \E cost \in CostsOf(Alias, began[x].check, now) : FeeSuffices(fee[x], cost)

=============================================================================
