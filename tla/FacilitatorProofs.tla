------------------------- MODULE FacilitatorProofs -------------------------
(***************************************************************************)
(* Proofs about three parts of the facilitator that share no state: its    *)
(* graceful shutdown, its price quotes and its fee claims.  Each theorem   *)
(* is about the specification of one of them, and holds for every value of *)
(* the constants that its own ASSUME allows.                               *)
(*                                                                         *)
(* Shutdown.  The wait ends early only when the counter is zero.  The      *)
(* counter covers the open requests, so none is open then; and none is     *)
(* admitted later, since a shutdown is under way whenever the process does *)
(* not serve.                                                              *)
(*                                                                         *)
(* Quotes.  A price in a cache was current at most one fetch before it was *)
(* stored, and a reading of prices begins no more than a lifetime of the   *)
(* cache after that; what a check recomputes is then bounded by what has   *)
(* moved since.                                                            *)
(*                                                                         *)
(* Claims.  A fee that a call has found stays pending for its owner until  *)
(* some claim for that owner is mined.                                     *)
(***************************************************************************)
EXTENDS GracefulShutdown, FeeQuote, FeeClaim, FiniteSetTheorems, TLAPS

-----------------------------------------------------------------------------
(* Shutdown: nobody is cut off before the counter reaches zero *)

Stopping == pc # "serving" => isShuttingDown

IInv == TypeOK /\ Stopping /\ CountCoversOpen /\ DrainedOrTimedOut

OpenProgress == {"arrived", "admitted", "rejected", "abandoned"}

LEMMA OpenFinite ==
    ASSUME ShutdownAssumption
    PROVE  IsFiniteSet(Open) /\ Cardinality(Open) \in Nat
<1>1. Open \subseteq Requests
  BY DEF Open
<1>2. IsFiniteSet(Open)
  BY <1>1, FS_Subset DEF ShutdownAssumption
<1>. QED  BY <1>2, FS_CardinalityType

LEMMA MoveTypes ==
    ASSUME TypeOK, NEW r \in Requests, NEW from, NEW to \in Progress, Move(r, from, to)
    PROVE  /\ request' \in [Requests -> Progress]
           /\ request[r] = from /\ request'[r] = to
           /\ \A q \in Requests : q # r => request'[q] = request[q]
  BY DEF TypeOK, Move

\* A request that moves into the open states is one open request more.
LEMMA MoveOpens ==
    ASSUME ShutdownAssumption, TypeOK, NEW r \in Requests, NEW to \in OpenProgress,
           Move(r, "none", to)
    PROVE  Cardinality(Open)' = Cardinality(Open) + 1
<1>1. r \notin Open /\ Open' = Open \cup {r}
  BY MoveTypes DEF Open, OpenProgress, Progress
<1>. QED  BY <1>1, OpenFinite, FS_AddElement

\* One that moves out of them is one less.
LEMMA MoveCloses ==
    ASSUME ShutdownAssumption, TypeOK, NEW r \in Requests, NEW from \in OpenProgress,
           NEW to \in Progress \ OpenProgress, Move(r, from, to)
    PROVE  Cardinality(Open)' = Cardinality(Open) - 1 /\ Cardinality(Open) > 0
<1>1. r \in Open /\ Open' = Open \ {r}
  BY MoveTypes DEF Open, OpenProgress, Progress
<1>2. Cardinality(Open \ {r}) = Cardinality(Open) - 1
  BY <1>1, OpenFinite, FS_RemoveElement
<1>3. Cardinality(Open) # 0
  BY <1>1, OpenFinite, FS_EmptySet
<1>. QED  BY <1>1, <1>2, <1>3, OpenFinite

\* One that moves among them changes nothing.
LEMMA MoveStaysOpen ==
    ASSUME TypeOK, NEW r \in Requests, NEW from \in OpenProgress,
           NEW to \in OpenProgress, Move(r, from, to)
    PROVE  Open' = Open
  BY MoveTypes DEF Open, OpenProgress, Progress

-----------------------------------------------------------------------------

LEMMA InitIInv == ASSUME ShutdownAssumption, Init PROVE IInv
<1>1. TypeOK
  <2>1. isShuttingDown \in BOOLEAN
    BY Zenon DEF Init
  <2>2. /\ request \in [Requests -> Progress] /\ activeRequests \in Nat /\ elapsed \in Nat
        /\ pc \in {"serving", "draining", "cleaning", "exited"} /\ handlersRun \in 0 .. Handlers
    BY DEF ShutdownAssumption, Init, Progress
  <2>. QED  BY <2>1, <2>2 DEF TypeOK
<1>2. Open = {} /\ Cardinality(Open) = 0
  BY FS_EmptySet DEF Init, Open
<1>. QED  BY <1>1, <1>2 DEF Init, IInv, Stopping, CountCoversOpen, DrainedOrTimedOut

LEMMA ArriveKeeps ==
    ASSUME ShutdownAssumption, IInv, NEW r \in Requests, Arrive(r) PROVE IInv'
<1>1. TypeOK'
  BY MoveTypes DEF IInv, TypeOK, Arrive, Progress
<1>2. Cardinality(Open)' = Cardinality(Open) + 1
  BY MoveOpens DEF IInv, Arrive, OpenProgress
<1>3. CountCoversOpen'
  BY <1>2, OpenFinite DEF IInv, TypeOK, Arrive, CountCoversOpen
<1>4. Working' = Working
  BY MoveTypes DEF IInv, Arrive, Working, Progress
<1>. QED  BY <1>1, <1>3, <1>4 DEF IInv, Arrive, Stopping, DrainedOrTimedOut

LEMMA AdmitKeeps ==
    ASSUME ShutdownAssumption, IInv, NEW r \in Requests, Admit(r) PROVE IInv'
<1>1. PICK to \in {"admitted", "rejected"} :
        Move(r, "arrived", to) /\ (to = "admitted" => ~ isShuttingDown)
  BY DEF Admit
<1>2. TypeOK'
  BY <1>1, MoveTypes DEF IInv, TypeOK, Admit, Progress
<1>3. Open' = Open
  BY <1>1, MoveStaysOpen DEF IInv, OpenProgress
<1>4. CASE isShuttingDown
  <2>1. Working' = Working
    BY <1>1, <1>4, MoveTypes DEF IInv, Working, Progress
  <2>. QED  BY <1>2, <1>3, <2>1 DEF IInv, Admit, Stopping, CountCoversOpen, DrainedOrTimedOut
<1>5. CASE ~ isShuttingDown
  <2>1. pc = "serving" /\ pc' = "serving"
    BY <1>5 DEF IInv, TypeOK, Stopping, Admit
  <2>. QED  BY <1>2, <1>3, <2>1 DEF IInv, Admit, Stopping, CountCoversOpen, DrainedOrTimedOut
<1>. QED  BY <1>4, <1>5

LEMMA FinishKeeps ==
    ASSUME ShutdownAssumption, IInv, NEW r \in Requests, Finish(r) PROVE IInv'
<1>1. PICK from \in {"admitted", "rejected"} : Move(r, from, "answered")
  BY DEF Finish
<1>2. Cardinality(Open)' = Cardinality(Open) - 1 /\ Cardinality(Open) > 0
  BY <1>1, MoveCloses DEF IInv, OpenProgress, Progress
<1>3. activeRequests' \in Nat /\ CountCoversOpen'
  BY <1>2, OpenFinite DEF IInv, TypeOK, Finish, CountCoversOpen
<1>4. TypeOK'
  BY <1>1, <1>3, MoveTypes DEF IInv, TypeOK, Finish, Progress
<1>5. Working' \subseteq Working
  BY <1>1, MoveTypes DEF IInv, Working, Progress
<1>. QED  BY <1>3, <1>4, <1>5 DEF IInv, Finish, Stopping, DrainedOrTimedOut

LEMMA LoseConnectionKeeps ==
    ASSUME ShutdownAssumption, IInv, NEW r \in Requests, LoseConnection(r) PROVE IInv'
<1>1. CASE \E from \in {"arrived", "rejected"} : Move(r, from, "lost")
  <2>1. PICK from \in {"arrived", "rejected"} : Move(r, from, "lost")
    BY <1>1
  <2>2. Cardinality(Open)' = Cardinality(Open) - 1
    BY <2>1, MoveCloses DEF IInv, OpenProgress, Progress
  <2>3. CountCoversOpen'
    BY <2>2, OpenFinite DEF IInv, TypeOK, LoseConnection, CountCoversOpen
  <2>4. TypeOK'
    BY <2>1, MoveTypes DEF IInv, TypeOK, LoseConnection, Progress
  <2>5. Working' \subseteq Working
    BY <2>1, MoveTypes DEF IInv, Working, Progress
  <2>. QED  BY <2>3, <2>4, <2>5 DEF IInv, LoseConnection, Stopping, DrainedOrTimedOut
<1>2. CASE Move(r, "admitted", "abandoned")
  <2>1. Open' = Open
    BY <1>2, MoveStaysOpen DEF IInv, OpenProgress
  <2>2. TypeOK'
    BY <1>2, MoveTypes DEF IInv, TypeOK, LoseConnection, Progress
  <2>3. Working' = Working
    BY <1>2, MoveTypes DEF IInv, Working, Progress
  <2>. QED  BY <2>1, <2>2, <2>3
            DEF IInv, LoseConnection, Stopping, CountCoversOpen, DrainedOrTimedOut
<1>. QED  BY <1>1, <1>2 DEF LoseConnection

LEMMA EndAbandonedKeeps ==
    ASSUME ShutdownAssumption, IInv, NEW r \in Requests, EndAbandoned(r) PROVE IInv'
<1>1. Move(r, "abandoned", "lost")
  BY DEF EndAbandoned
<1>2. Cardinality(Open)' = Cardinality(Open) - 1
  BY <1>1, MoveCloses DEF IInv, OpenProgress, Progress
<1>3. CountCoversOpen'
  BY <1>2, OpenFinite DEF IInv, TypeOK, EndAbandoned, CountCoversOpen
<1>4. TypeOK'
  BY <1>1, MoveTypes DEF IInv, TypeOK, EndAbandoned, Progress
<1>5. Working' \subseteq Working
  BY <1>1, MoveTypes DEF IInv, Working, Progress
<1>. QED  BY <1>3, <1>4, <1>5 DEF IInv, EndAbandoned, Stopping, DrainedOrTimedOut

\* The steps of the shutdown itself leave the requests alone.
LEMMA ShutdownKeeps ==
    ASSUME ShutdownAssumption, IInv, Signal \/ CheckActive \/ RunHandler \/ Exit PROVE IInv'
<1>1. request' = request /\ activeRequests' = activeRequests
  BY DEF Signal, CheckActive, RunHandler, Exit
<1>2. Open' = Open /\ Working' = Working /\ Working \subseteq Open
  BY <1>1 DEF Open, Working
<1>3. TypeOK'
  <2>1. isShuttingDown' \in BOOLEAN
    BY DEF IInv, TypeOK, Signal, CheckActive, RunHandler, Exit
  <2>2. /\ pc' \in {"serving", "draining", "cleaning", "exited"}
        /\ elapsed' \in Nat /\ handlersRun' \in 0 .. Handlers
    <3>1. CASE Signal
      BY <3>1 DEF IInv, TypeOK, Signal
    <3>2. CASE CheckActive
      BY <3>2 DEF IInv, TypeOK, CheckActive
    <3>3. CASE RunHandler
      BY <3>3 DEF ShutdownAssumption, IInv, TypeOK, RunHandler
    <3>4. CASE Exit
      BY <3>4 DEF IInv, TypeOK, Exit
    <3>. QED  BY <3>1, <3>2, <3>3, <3>4
  <2>. QED  BY <1>1, <2>1, <2>2 DEF IInv, TypeOK
<1>4. CountCoversOpen'
  BY <1>1, <1>2 DEF IInv, CountCoversOpen
<1>5. Stopping'
  BY DEF IInv, TypeOK, Stopping, Signal, CheckActive, RunHandler, Exit
<1>6. DrainedOrTimedOut'
  <2>1. CASE Signal
    BY <1>2, <2>1 DEF IInv, TypeOK, Stopping, DrainedOrTimedOut, Signal, Alive
  <2>2. CASE CheckActive
    <3>1. CASE activeRequests > 0 /\ elapsed < Timeout
      BY <2>2, <3>1 DEF CheckActive, DrainedOrTimedOut
    <3>2. CASE activeRequests = 0
      <4>1. Cardinality(Open) = 0
        BY <3>2, OpenFinite DEF IInv, CountCoversOpen
      <4>2. Open = {}
        BY <4>1, OpenFinite, FS_EmptySet
      <4>. QED  BY <1>2, <4>2 DEF DrainedOrTimedOut
    <3>3. CASE elapsed >= Timeout
      BY <2>2, <3>3 DEF CheckActive, DrainedOrTimedOut, ShutdownAssumption, IInv, TypeOK
    <3>. QED  BY <3>1, <3>2, <3>3 DEF ShutdownAssumption, IInv, TypeOK
  <2>3. CASE RunHandler
    BY <1>2, <2>3 DEF IInv, DrainedOrTimedOut, RunHandler
  <2>4. CASE Exit
    BY <1>2, <2>4 DEF IInv, DrainedOrTimedOut, Exit
  <2>. QED  BY <2>1, <2>2, <2>3, <2>4
<1>. QED  BY <1>3, <1>4, <1>5, <1>6 DEF IInv

LEMMA NextKeeps ==
    ASSUME ShutdownAssumption, IInv, [Next]_vars PROVE IInv'
<1>1. CASE UNCHANGED vars
  BY <1>1 DEF vars, IInv, TypeOK, Stopping, CountCoversOpen, DrainedOrTimedOut, Open, Working
<1>2. CASE Next
  BY <1>2, ArriveKeeps, AdmitKeeps, FinishKeeps, LoseConnectionKeeps, EndAbandonedKeeps,
     ShutdownKeeps DEF Next
<1>. QED  BY <1>1, <1>2

LEMMA Inductive == Init /\ [][Next]_vars => []IInv
<1>1. Init => IInv
  BY ShutdownAssumption, InitIInv
<1>2. IInv /\ [Next]_vars => IInv'
  BY ShutdownAssumption, NextKeeps
<1>. QED  BY <1>1, <1>2, PTL

-----------------------------------------------------------------------------

\* Whatever requests come, end or lose their connections, neither the cleanup handlers
\* nor the exit interrupt the handler of one before the time is up (shutdown).
THEOREM NoneInterrupted == Spec => []DrainedOrTimedOut
<1>1. IInv => DrainedOrTimedOut
  BY DEF IInv
<1>. QED  BY <1>1, Inductive, PTL DEF Spec

\* The counter never misses an open request (registerServer).
THEOREM NoneUncounted == Spec => []CountCoversOpen
<1>1. IInv => CountCoversOpen
  BY DEF IInv
<1>. QED  BY <1>1, Inductive, PTL DEF Spec

\* Counters stay natural numbers: activeRequests in particular is never taken below zero.
THEOREM ShutdownTypeCorrect == Spec => []TypeOK
<1>1. IInv => TypeOK
  BY DEF IInv
<1>. QED  BY <1>1, Inductive, PTL DEF Spec

\* A second signal or error never starts the shutdown over, whatever its state.
THEOREM ShutsDownOnce == Spec => ShutdownOnce
<1>. DEFINE Once == /\ pc \in {"cleaning", "exited"} => pc' \in {"cleaning", "exited"}
                    /\ handlersRun' >= handlersRun
<1>1. ASSUME IInv, [Next]_vars PROVE Once
  <2>1. handlersRun \in Nat
    BY <1>1, ShutdownAssumption DEF IInv, TypeOK, ShutdownAssumption
  <2>2. CASE UNCHANGED <<pc, handlersRun>>
    BY <2>1, <2>2
  <2>3. CASE Signal
    BY <1>1, <2>1, <2>3 DEF Signal, Alive, IInv, Stopping
  <2>4. CASE CheckActive
    BY <2>1, <2>4 DEF CheckActive
  <2>5. CASE RunHandler
    BY <2>1, <2>5 DEF RunHandler
  <2>6. CASE Exit
    BY <2>1, <2>6 DEF Exit
  <2>. QED
    BY <1>1, <2>2, <2>3, <2>4, <2>5, <2>6
       DEF Next, vars, Arrive, Admit, Finish, LoseConnection, EndAbandoned
<1>2. IInv /\ [Next]_vars => [Once]_vars
  BY <1>1
<1>. QED  BY <1>2, Inductive, PTL DEF Spec, ShutdownOnce

-----------------------------------------------------------------------------
(* Price quotes: a price is never older than its entry and the fetch that stored it *)

\* When the reading of prices that exchange x is in was begun.
ReadingSince(x) ==
    IF step[x] \in {"check_gas", "check_token"} THEN began[x].check ELSE began[x].quote

\* Fetches end in time, and those of an exchange were begun during its reading.
FetchesTimely ==
    /\ \A c \in Callers : asking[c] # Nothing =>
           asking[c].since <= now /\ now - asking[c].since <= Latency
    /\ \A x \in Exchanges : asking[x] # Nothing =>
           Reading(x) /\ asking[x].since >= ReadingSince(x)

\* An entry was current at most one fetch before it was stored.
EntriesTimely ==
    \A k \in Keys : cache[k] # Nothing =>
        /\ cache[k].asOf <= cache[k].at /\ cache[k].at <= now
        /\ cache[k].at - cache[k].asOf <= Latency

BegunBefore == \A x \in Exchanges : began[x].quote <= now /\ began[x].check <= now

SourceInv == QuoteTypeOK /\ FetchesTimely /\ EntriesTimely /\ BegunBefore

\* A price is static only for an exchange that has been given a static one.
Fetched(x, p, k, start) ==
    p \in Window(k, start, now) \/ (p = Static /\ x \in fallback)

\* What exchange x has read, step by step.
HasRead(x) ==
    /\ step[x] \in {"new", "quote_gas"} => gas[x] = Static
    /\ step[x] \in {"new", "quote_gas", "quote_token"} => token[x] = Static
    /\ step[x] \in {"quote_token", "quote_cost", "quoted", "check_gas"} =>
           Fetched(x, gas[x], GasKey, began[x].quote)
    /\ step[x] \in {"quote_cost", "quoted"} => Fetched(x, token[x], name[x], began[x].quote)
    /\ step[x] \in {"check_gas", "check_token", "check_cost", "accepted", "refused"} =>
           name[x] = Alias
    /\ step[x] \in {"check_token", "check_cost", "accepted", "refused"} =>
           Fetched(x, gas[x], GasKey, began[x].check)
    /\ step[x] \in {"check_cost", "accepted", "refused"} =>
           Fetched(x, token[x], Alias, began[x].check)

\* The fee quoted was right at some prices of the quote's windows, and the outcome is that
\* of the comparison with prices of the check's windows.
FeeAsRead(x) ==
    /\ step[x] \in {"quoted", "check_gas", "check_token", "check_cost", "accepted", "refused"}
           /\ x \notin fallback =>
           \E n \in Names : fee[x] \in CostsOf(n, began[x].quote, now)
    /\ step[x] = "accepted" => FeeSuffices(fee[x], Required(x))
    /\ step[x] = "refused" => ~ FeeSuffices(fee[x], Required(x))

PriceInv == \A x \in Exchanges : HasRead(x) /\ FeeAsRead(x)

QuoteInv == SourceInv /\ PriceInv

LEMMA CostTyped ==
    ASSUME NEW g \in Prices, NEW t \in Prices
    PROVE  Cost(g, t) \in Nat
<1>. DEFINE p == IF g = Static THEN StaticGas ELSE Gas[g]
            q == IF t = Static THEN StaticToken ELSE Token[t]
<1>1. p \in Nat /\ q \in Nat /\ MinFee \in Nat
  BY FeeQuoteAssumption DEF Prices
<1>2. p * q \in Nat
  <2>. HIDE DEF p, q
  <2>. QED  BY <1>1
<1>. QED  BY <1>1, <1>2 DEF Cost

LEMMA WindowWidens ==
    ASSUME NEW k, NEW start, NEW s \in Times, NEW e \in Times, s <= e
    PROVE  Window(k, start, s) \subseteq Window(k, start, e)
BY FeeQuoteAssumption DEF Window, Times

LEMMA CostsWiden ==
    ASSUME NEW n, NEW start, NEW s \in Times, NEW e \in Times, s <= e
    PROVE  CostsOf(n, start, s) \subseteq CostsOf(n, start, e)
BY WindowWidens DEF CostsOf

\* A cached price is in the window of the reading that takes it.
LEMMA CachedInWindow ==
    ASSUME SourceInv, NEW k \in Keys, NEW start \in Times, start <= now, Cached(k)
    PROVE  cache[k].asOf \in Window(k, start, now)
<1>1. /\ cache[k] \in [asOf: Times, at: Times]
      /\ cache[k].asOf <= cache[k].at /\ cache[k].at <= now
      /\ cache[k].at - cache[k].asOf <= Latency /\ now - cache[k].at < TTL[k]
  BY DEF SourceInv, QuoteTypeOK, EntriesTimely, Cached
<1>2. cache[k].asOf \in Times /\ cache[k].at \in Times /\ now \in Times
  BY <1>1 DEF SourceInv, QuoteTypeOK
<1>3. TTL[k] \in Nat /\ Latency \in Nat /\ MaxTime \in Nat
  BY FeeQuoteAssumption
<1>4. start - TTL[k] - Latency <= cache[k].asOf
  BY <1>1, <1>2, <1>3 DEF Times
<1>. QED  BY <1>1, <1>2, <1>3, <1>4 DEF Window, Times

LEMMA InitQuoteInv == ASSUME QuoteInit PROVE QuoteInv
<1>. USE FeeQuoteAssumption DEF QuoteInit
<1>1. QuoteTypeOK
  BY DEF QuoteTypeOK, Times, Steps, Prices
<1>2. FetchesTimely /\ EntriesTimely /\ BegunBefore
  BY DEF FetchesTimely, EntriesTimely, BegunBefore, Callers
<1>3. PriceInv
  BY DEF PriceInv, HasRead, FeeAsRead
<1>. QED  BY <1>1, <1>2, <1>3 DEF QuoteInv, SourceInv

-----------------------------------------------------------------------------
(* Steps of the price caches *)

\* Whatever moves, an exchange that stays where it is keeps what it knows: the windows
\* only grow.
LEMMA PriceKept ==
    ASSUME SourceInv, SourceInv', now <= now', fallback \subseteq fallback', NEW x \in Exchanges,
           x \in fallback' => x \in fallback,
           step'[x] = step[x], name'[x] = name[x], began'[x] = began[x],
           gas'[x] = gas[x], token'[x] = token[x], fee'[x] = fee[x],
           HasRead(x), FeeAsRead(x)
    PROVE  HasRead(x)' /\ FeeAsRead(x)'
<1>1. now \in Times /\ now' \in Times
  BY DEF SourceInv, QuoteTypeOK
<1>2. ASSUME NEW p, NEW k, NEW start, Fetched(x, p, k, start) PROVE Fetched(x, p, k, start)'
  BY <1>1, <1>2, WindowWidens DEF Fetched
<1>3. HasRead(x)'
  BY <1>2 DEF HasRead
<1>4. Required(x)' = Required(x)
  BY DEF Required
<1>5. ASSUME NEW n \in Names, fee[x] \in CostsOf(n, began[x].quote, now)
      PROVE  fee[x] \in CostsOf(n, began[x].quote, now')
  BY <1>1, <1>5, CostsWiden
<1>6. FeeAsRead(x)'
  BY <1>4, <1>5 DEF FeeAsRead
<1>. QED  BY <1>3, <1>6

\* An exchange goes on with a price.
LEMMA ReadKeeps ==
    ASSUME QuoteInv, SourceInv', NEW x \in Exchanges, NEW p \in Prices, Reading(x), Read(x, p),
           p = Static \/ p \in Window(KeyNeeded(x), ReadingSince(x), now)
    PROVE  PriceInv'
<1>1. /\ step[x] \in {"quote_gas", "quote_token", "check_gas", "check_token"}
      /\ step' = [step EXCEPT ![x] = AfterPrice[step[x]]]
      /\ UNCHANGED <<now, name, began, fee>>
      /\ fallback' = IF p = Static THEN fallback \cup {x} ELSE fallback
      /\ step \in [Exchanges -> Steps] /\ gas \in [Exchanges -> Prices]
      /\ token \in [Exchanges -> Prices] /\ name \in [Exchanges -> Names]
  BY DEF Reading, AfterPrice, Read, QuoteInv, SourceInv, QuoteTypeOK
<1>2. now \in Times
  BY DEF QuoteInv, SourceInv, QuoteTypeOK
<1>3. GasKey # name[x]
  BY <1>1, FeeQuoteAssumption
<1>4. ASSUME NEW q, NEW k, NEW start, Fetched(x, q, k, start) PROVE Fetched(x, q, k, start)'
  BY <1>1, <1>4 DEF Fetched
<1>5. ASSUME NEW k, NEW start, k = KeyNeeded(x), start = ReadingSince(x)
      PROVE  Fetched(x, p, k, start)'
  BY <1>1, <1>5 DEF Fetched
<1>6. HasRead(x) /\ FeeAsRead(x)
  BY DEF QuoteInv, PriceInv
<1>7. HasRead(x)' /\ FeeAsRead(x)'
  <2>1. CASE step[x] = "quote_gas"
    <3>1. step'[x] = "quote_token" /\ gas'[x] = p /\ token'[x] = token[x]
      BY <1>1, <2>1 DEF Read, KeyNeeded, AfterPrice
    <3>2. Fetched(x, p, GasKey, began[x].quote)'
      BY <1>1, <1>5, <2>1 DEF KeyNeeded, ReadingSince
    <3>. QED  BY <1>1, <1>6, <2>1, <3>1, <3>2 DEF HasRead, FeeAsRead
  <2>2. CASE step[x] = "quote_token"
    <3>1. step'[x] = "quote_cost" /\ token'[x] = p /\ gas'[x] = gas[x]
      BY <1>1, <1>3, <2>2 DEF Read, KeyNeeded, AfterPrice
    <3>2. Fetched(x, p, name[x], began[x].quote)'
      BY <1>1, <1>3, <1>5, <2>2 DEF KeyNeeded, ReadingSince
    <3>3. Fetched(x, gas[x], GasKey, began[x].quote)'
      BY <1>1, <1>4, <1>6, <2>2, <3>1 DEF HasRead
    <3>. QED  BY <1>1, <1>6, <2>2, <3>1, <3>2, <3>3 DEF HasRead, FeeAsRead
  <2>3. CASE step[x] = "check_gas"
    <3>1. step'[x] = "check_token" /\ gas'[x] = p /\ name[x] = Alias
      BY <1>1, <1>6, <2>3 DEF Read, KeyNeeded, AfterPrice, HasRead
    <3>2. Fetched(x, p, GasKey, began[x].check)'
      BY <1>1, <1>5, <2>3 DEF KeyNeeded, ReadingSince
    <3>. QED  BY <1>1, <1>6, <2>3, <3>1, <3>2 DEF HasRead, FeeAsRead
  <2>4. CASE step[x] = "check_token"
    <3>1. /\ step'[x] = "check_cost" /\ token'[x] = p /\ gas'[x] = gas[x] /\ name[x] = Alias
      BY <1>1, <1>3, <1>6, <2>4 DEF Read, KeyNeeded, AfterPrice, HasRead
    <3>2. Fetched(x, p, Alias, began[x].check)'
      BY <1>1, <1>3, <1>5, <2>4, <3>1 DEF KeyNeeded, ReadingSince
    <3>3. Fetched(x, gas[x], GasKey, began[x].check)'
      BY <1>1, <1>4, <1>6, <2>4, <3>1 DEF HasRead
    <3>. QED  BY <1>1, <1>6, <2>4, <3>1, <3>2, <3>3 DEF HasRead, FeeAsRead
  <2>. QED  BY <1>1, <2>1, <2>2, <2>3, <2>4
<1>8. ASSUME NEW y \in Exchanges \ {x} PROVE HasRead(y)' /\ FeeAsRead(y)'
  <2>1. /\ step'[y] = step[y] /\ gas'[y] = gas[y] /\ token'[y] = token[y]
        /\ fallback \subseteq fallback' /\ (y \in fallback' => y \in fallback)
    BY <1>1 DEF Read
  <2>2. now <= now' /\ HasRead(y) /\ FeeAsRead(y) /\ SourceInv
    BY <1>1, <1>2 DEF QuoteInv, PriceInv, Times
  <2>. QED  BY <1>1, <2>1, <2>2, PriceKept
<1>. QED  BY <1>7, <1>8 DEF PriceInv

\* An exchange that goes on with a price is no longer waiting for one.
LEMMA ReadKeepsSource ==
    ASSUME SourceInv, NEW x \in Exchanges, NEW p \in Prices, Reading(x), Read(x, p),
           \/ asking[x] = Nothing /\ UNCHANGED <<cache, asking>>
           \/ /\ asking' = [asking EXCEPT ![x] = Nothing]
              /\ cache' \in [Keys -> [asOf: Times, at: Times] \cup {Nothing}] /\ EntriesTimely'
    PROVE  SourceInv'
<1>1. /\ step[x] \in {"quote_gas", "quote_token", "check_gas", "check_token"}
      /\ step' = [step EXCEPT ![x] = AfterPrice[step[x]]]
      /\ AfterPrice[step[x]] \in {"quote_token", "quote_cost", "check_token", "check_cost"}
      /\ UNCHANGED <<now, name, began, fee>>
  BY DEF Reading, AfterPrice, Read
<1>2. /\ asking' \in [Callers -> [key: Keys, since: Times] \cup {Nothing}]
      /\ asking'[x] = Nothing
      /\ \A c \in Callers \ {x} : asking'[c] = asking[c]
      /\ cache' \in [Keys -> [asOf: Times, at: Times] \cup {Nothing}] /\ EntriesTimely'
  BY <1>1 DEF SourceInv, QuoteTypeOK, Callers, EntriesTimely
<1>3. gas' \in [Exchanges -> Prices] /\ token' \in [Exchanges -> Prices]
      /\ fallback' \subseteq Exchanges
  BY DEF Read, SourceInv, QuoteTypeOK
<1>4. QuoteTypeOK'
  BY <1>1, <1>2, <1>3 DEF SourceInv, QuoteTypeOK, Steps
<1>5. FetchesTimely'
  <2>1. ASSUME NEW y \in Exchanges \ {x}
        PROVE  Reading(y)' = Reading(y) /\ ReadingSince(y)' = ReadingSince(y)
    BY <1>1 DEF Reading, ReadingSince, SourceInv, QuoteTypeOK
  <2>. QED  BY <1>1, <1>2, <2>1 DEF SourceInv, FetchesTimely, Callers
<1>6. BegunBefore'
  BY <1>1 DEF SourceInv, BegunBefore
<1>. QED  BY <1>2, <1>4, <1>5, <1>6 DEF SourceInv

LEMMA TakeCachedKeeps ==
    ASSUME QuoteInv, NEW x \in Exchanges, TakeCached(x)
    PROVE  QuoteInv'
<1>1. /\ Reading(x) /\ asking[x] = Nothing /\ Cached(KeyNeeded(x))
      /\ Read(x, cache[KeyNeeded(x)].asOf) /\ UNCHANGED <<cache, asking>>
  BY DEF TakeCached
<1>2. KeyNeeded(x) \in Keys /\ ReadingSince(x) \in Times /\ ReadingSince(x) <= now /\ SourceInv
  BY DEF QuoteInv, SourceInv, QuoteTypeOK, BegunBefore, KeyNeeded, ReadingSince, Keys
<1>3. cache[KeyNeeded(x)].asOf \in Window(KeyNeeded(x), ReadingSince(x), now)
  BY <1>1, <1>2, CachedInWindow
<1>4. cache[KeyNeeded(x)].asOf \in Prices
  BY <1>3 DEF Window, Prices
<1>5. SourceInv'
  BY <1>1, <1>2, <1>4, ReadKeepsSource
<1>. QED  BY <1>1, <1>3, <1>4, <1>5, ReadKeeps DEF QuoteInv

\* A fetch is begun, by an exchange for the price it needs or by an updater.
LEMMA AskKeeps ==
    ASSUME QuoteInv, NEW c \in Callers, NEW k \in Keys, Ask(c, k),
           c \in Exchanges => Reading(c)
    PROVE  QuoteInv'
<1>1. /\ asking[c] = Nothing /\ asking' = [asking EXCEPT ![c] = [key |-> k, since |-> now]]
      /\ UNCHANGED <<now, cache, step, name, began, gas, token, fallback, fee>>
  BY DEF Ask
<1>2. SourceInv /\ now \in Times /\ Latency \in Nat
  BY FeeQuoteAssumption DEF QuoteInv, SourceInv, QuoteTypeOK
<1>3. QuoteTypeOK'
  BY <1>1, <1>2 DEF SourceInv, QuoteTypeOK
<1>4. FetchesTimely'
  <2>1. ASSUME NEW d \in Callers, asking'[d] # Nothing
        PROVE  asking'[d].since <= now /\ now - asking'[d].since <= Latency
    BY <1>1, <1>2, <2>1 DEF SourceInv, QuoteTypeOK, FetchesTimely, Times
  <2>2. ASSUME NEW x \in Exchanges, asking'[x] # Nothing
        PROVE  Reading(x)' /\ asking'[x].since >= ReadingSince(x)'
    <3>1. ReadingSince(x)' = ReadingSince(x) /\ ReadingSince(x) <= now
      BY <1>1, <1>2 DEF ReadingSince, SourceInv, BegunBefore
    <3>2. CASE x = c
      BY <1>1, <1>2, <3>1, <3>2 DEF SourceInv, QuoteTypeOK, Reading, Callers
    <3>3. CASE x # c
      BY <1>1, <1>2, <2>2, <3>1, <3>3 DEF SourceInv, FetchesTimely, Reading
    <3>. QED  BY <3>2, <3>3
  <2>. QED  BY <1>1, <2>1, <2>2 DEF FetchesTimely
<1>5. EntriesTimely' /\ BegunBefore'
  BY <1>1, <1>2 DEF SourceInv, EntriesTimely, BegunBefore
<1>6. PriceInv'
  BY <1>1, <1>2, <1>3, <1>4, <1>5, PriceKept DEF QuoteInv, PriceInv, SourceInv, Times
<1>. QED  BY <1>3, <1>4, <1>5, <1>6 DEF QuoteInv, SourceInv

\* A fetch ends.  Its price, if it has one, was current since it was begun.
LEMMA GiveKeeps ==
    ASSUME QuoteInv, NEW c \in Callers, NEW p \in Prices, asking[c] # Nothing,
           p = Static \/ p \in asking[c].since .. now, Give(c, p),
           cache' \in [Keys -> [asOf: Times, at: Times] \cup {Nothing}], EntriesTimely'
    PROVE  QuoteInv'
<1>1. /\ SourceInv /\ asking' = [asking EXCEPT ![c] = Nothing] /\ now \in Times
      /\ asking \in [Callers -> [key: Keys, since: Times] \cup {Nothing}]
      /\ now' = now
  BY DEF Give, Read, QuoteInv, SourceInv, QuoteTypeOK
<1>2. CASE c \in Exchanges
  <2>1. Read(c, p) /\ Reading(c) /\ asking[c].since >= ReadingSince(c)
    BY <1>1, <1>2 DEF Give, SourceInv, FetchesTimely
  <2>2. SourceInv'
    BY <1>1, <1>2, <2>1, ReadKeepsSource
  <2>3. p = Static \/ p \in Window(KeyNeeded(c), ReadingSince(c), now)
    <3>1. ReadingSince(c) \in Times /\ TTL[KeyNeeded(c)] \in Nat /\ Latency \in Nat
          /\ asking[c].since \in Times /\ MaxTime \in Nat
      BY <1>1, <1>2, FeeQuoteAssumption
         DEF SourceInv, QuoteTypeOK, ReadingSince, KeyNeeded, Keys
    <3>. QED  BY <1>1, <2>1, <3>1 DEF Window, Times
  <2>. QED  BY <1>2, <2>1, <2>2, <2>3, ReadKeeps DEF QuoteInv
<1>3. CASE c \notin Exchanges
  <2>1. UNCHANGED <<now, step, name, began, gas, token, fallback, fee>>
    BY <1>3 DEF Give
  <2>2. QuoteTypeOK'
    BY <1>1, <2>1 DEF SourceInv, QuoteTypeOK
  <2>3. FetchesTimely'
    BY <1>1, <1>3, <2>1 DEF SourceInv, FetchesTimely, Reading, ReadingSince, Callers
  <2>4. BegunBefore'
    BY <1>1, <2>1 DEF SourceInv, BegunBefore
  <2>5. PriceInv'
    BY <1>1, <2>1, <2>2, <2>3, <2>4, PriceKept DEF QuoteInv, PriceInv, SourceInv, Times
  <2>. QED  BY <2>2, <2>3, <2>4, <2>5 DEF QuoteInv, SourceInv
<1>. QED  BY <1>2, <1>3

LEMMA AnsweredKeeps ==
    ASSUME QuoteInv, NEW c \in Callers, Answered(c)
    PROVE  QuoteInv'
<1>1. PICK t \in asking[c].since .. now :
              /\ cache' = [cache EXCEPT ![asking[c].key] = [asOf |-> t, at |-> now]]
              /\ Give(c, t)
  BY DEF Answered
<1>2. /\ asking[c] # Nothing /\ asking[c] \in [key: Keys, since: Times] /\ now \in Times
      /\ now - asking[c].since <= Latency /\ Latency \in Nat /\ MaxTime \in Nat
      /\ cache \in [Keys -> [asOf: Times, at: Times] \cup {Nothing}]
  BY FeeQuoteAssumption DEF Answered, QuoteInv, SourceInv, QuoteTypeOK, FetchesTimely
<1>3. t \in Times /\ t <= now /\ now - t <= Latency /\ t \in Prices
  BY <1>2 DEF Times, Prices
<1>4. cache' \in [Keys -> [asOf: Times, at: Times] \cup {Nothing}]
  BY <1>1, <1>2, <1>3
<1>5. EntriesTimely'
  <2>1. now' = now
    BY <1>1 DEF Give, Read
  <2>2. ASSUME NEW k \in Keys, k # asking[c].key PROVE cache'[k] = cache[k]
    BY <1>1, <1>2, <2>2
  <2>3. cache'[asking[c].key] = [asOf |-> t, at |-> now]
    BY <1>1, <1>2
  <2>4. now <= now /\ t \in Int /\ now \in Int
    BY <1>2, <1>3 DEF Times
  <2>5. EntriesTimely
    BY DEF QuoteInv, SourceInv
  <2>. QED  BY <1>3, <2>1, <2>2, <2>3, <2>4, <2>5 DEF EntriesTimely
<1>. QED  BY <1>1, <1>2, <1>3, <1>4, <1>5, GiveKeeps

LEMMA UnansweredKeeps ==
    ASSUME QuoteInv, NEW c \in Callers, Unanswered(c)
    PROVE  QuoteInv'
<1>1. asking[c] # Nothing /\ Give(c, Static) /\ UNCHANGED cache /\ now' = now
  BY DEF Unanswered, Give, Read
<1>2. Static \in Prices /\ cache' \in [Keys -> [asOf: Times, at: Times] \cup {Nothing}]
  BY <1>1 DEF Prices, QuoteInv, SourceInv, QuoteTypeOK
<1>3. EntriesTimely'
  BY <1>1 DEF EntriesTimely, QuoteInv, SourceInv
<1>. QED  BY <1>1, <1>2, <1>3, GiveKeeps

-----------------------------------------------------------------------------
(* The quote and its check *)

\* Exchange x moves on without a price, and the sources are left alone.
LEMMA MoveKeepsSource ==
    ASSUME SourceInv, NEW x \in Exchanges, NEW s \in Steps, ~ Reading(x),
           step' = [step EXCEPT ![x] = s], UNCHANGED <<now, cache, asking, gas, token, fallback>>,
           \/ UNCHANGED began
           \/ began' = [began EXCEPT ![x].quote = now]
           \/ began' = [began EXCEPT ![x].check = now],
           \/ UNCHANGED name
           \/ name' = [name EXCEPT ![x] = Alias],
           fee' \in [Exchanges -> Nat]
    PROVE  SourceInv'
<1>1. asking[x] = Nothing
  BY DEF SourceInv, FetchesTimely
<1>2. \A y \in Exchanges \ {x} : step'[y] = step[y] /\ began'[y] = began[y]
  BY DEF SourceInv, QuoteTypeOK
<1>3. began' \in [Exchanges -> [quote: Times, check: Times]]
  BY DEF SourceInv, QuoteTypeOK
<1>4. QuoteTypeOK'
  <2>1. name' \in [Exchanges -> Names] /\ step' \in [Exchanges -> Steps]
    BY FeeQuoteAssumption DEF SourceInv, QuoteTypeOK
  <2>. QED  BY <1>3, <2>1 DEF SourceInv, QuoteTypeOK
<1>5. FetchesTimely'
  <2>1. ASSUME NEW y \in Exchanges, asking'[y] # Nothing
        PROVE  Reading(y)' /\ asking'[y].since >= ReadingSince(y)'
    <3>1. y # x
      BY <1>1, <2>1
    <3>. QED  BY <1>2, <2>1, <3>1 DEF SourceInv, FetchesTimely, Reading, ReadingSince
  <2>. QED  BY <2>1 DEF SourceInv, FetchesTimely
<1>6. EntriesTimely'
  BY DEF SourceInv, EntriesTimely
<1>7. BegunBefore'
  BY DEF SourceInv, QuoteTypeOK, BegunBefore, Times
<1>. QED  BY <1>4, <1>5, <1>6, <1>7 DEF SourceInv

\* The other exchanges keep what they know.
LEMMA OthersKeep ==
    ASSUME QuoteInv, SourceInv', NEW x \in Exchanges, UNCHANGED <<now, gas, token, fallback>>,
           \A y \in Exchanges \ {x} : /\ step'[y] = step[y] /\ name'[y] = name[y]
                                      /\ began'[y] = began[y] /\ fee'[y] = fee[y],
           HasRead(x)', FeeAsRead(x)'
    PROVE  QuoteInv'
BY PriceKept DEF QuoteInv, PriceInv, SourceInv, QuoteTypeOK, Times

LEMMA BeginQuoteKeeps ==
    ASSUME QuoteInv, NEW x \in Exchanges, BeginQuote(x)
    PROVE  QuoteInv'
<1>1. /\ step[x] = "new" /\ step' = [step EXCEPT ![x] = "quote_gas"]
      /\ began' = [began EXCEPT ![x].quote = now]
      /\ UNCHANGED <<now, cache, asking, name, gas, token, fallback, fee>>
      /\ SourceInv /\ QuoteTypeOK
  BY DEF BeginQuote, QuoteInv, SourceInv
<1>2. SourceInv'
  BY <1>1, MoveKeepsSource DEF QuoteTypeOK, Reading, AfterPrice, Steps
<1>3. step'[x] = "quote_gas" /\ gas[x] = Static /\ token[x] = Static
  BY <1>1 DEF QuoteTypeOK, QuoteInv, PriceInv, HasRead
<1>4. HasRead(x)' /\ FeeAsRead(x)'
  BY <1>1, <1>3 DEF HasRead, FeeAsRead
<1>. QED  BY <1>1, <1>2, <1>4, OthersKeep DEF QuoteTypeOK

\* The prices an exchange has read give a cost of their windows.
LEMMA CostRead ==
    ASSUME NEW x \in Exchanges, x \notin fallback, NEW n, NEW start,
           Fetched(x, gas[x], GasKey, start), Fetched(x, token[x], n, start)
    PROVE  Required(x) \in CostsOf(n, start, now)
BY DEF Fetched, CostsOf, Required

LEMMA QuoteKeeps ==
    ASSUME QuoteInv, NEW x \in Exchanges, Quote(x)
    PROVE  QuoteInv'
<1>1. /\ step[x] = "quote_cost" /\ step' = [step EXCEPT ![x] = "quoted"]
      /\ fee' = [fee EXCEPT ![x] = Required(x)]
      /\ UNCHANGED <<now, cache, asking, name, began, gas, token, fallback>>
      /\ SourceInv /\ QuoteTypeOK /\ HasRead(x)
  BY DEF Quote, QuoteInv, SourceInv, PriceInv
<1>2. Required(x) \in Nat
  BY <1>1, CostTyped DEF Required, QuoteTypeOK
<1>3. SourceInv'
  BY <1>1, <1>2, MoveKeepsSource DEF QuoteTypeOK, Reading, AfterPrice, Steps
<1>4. step'[x] = "quoted" /\ fee'[x] = Required(x) /\ name[x] \in Names
  BY <1>1 DEF QuoteTypeOK
<1>5. HasRead(x)'
  BY <1>1, <1>4 DEF HasRead, Fetched
<1>6. ASSUME x \notin fallback
      PROVE  Required(x) \in CostsOf(name[x], began[x].quote, now)
  BY <1>1, <1>6, CostRead DEF HasRead
<1>7. FeeAsRead(x)'
  BY <1>1, <1>4, <1>6 DEF FeeAsRead
<1>. QED  BY <1>1, <1>3, <1>5, <1>7, OthersKeep DEF QuoteTypeOK

LEMMA BeginCheckKeeps ==
    ASSUME QuoteInv, NEW x \in Exchanges, BeginCheck(x)
    PROVE  QuoteInv'
<1>1. /\ step[x] = "quoted" /\ step' = [step EXCEPT ![x] = "check_gas"]
      /\ began' = [began EXCEPT ![x].check = now] /\ name' = [name EXCEPT ![x] = Alias]
      /\ UNCHANGED <<now, cache, asking, gas, token, fallback, fee>>
      /\ SourceInv /\ QuoteTypeOK /\ HasRead(x) /\ FeeAsRead(x)
  BY DEF BeginCheck, QuoteInv, SourceInv, PriceInv
<1>2. SourceInv'
  BY <1>1, MoveKeepsSource DEF QuoteTypeOK, Reading, AfterPrice, Steps
<1>3. step'[x] = "check_gas" /\ name'[x] = Alias /\ began'[x].quote = began[x].quote
  BY <1>1 DEF QuoteTypeOK
<1>4. HasRead(x)'
  BY <1>1, <1>3 DEF HasRead, Fetched
<1>5. FeeAsRead(x)'
  BY <1>1, <1>3 DEF FeeAsRead
<1>. QED  BY <1>1, <1>2, <1>4, <1>5, OthersKeep DEF QuoteTypeOK

LEMMA CheckKeeps ==
    ASSUME QuoteInv, NEW x \in Exchanges, Check(x)
    PROVE  QuoteInv'
<1>1. /\ step[x] = "check_cost"
      /\ step' = [step EXCEPT ![x] = IF FeeSuffices(fee[x], Required(x))
                                     THEN "accepted" ELSE "refused"]
      /\ UNCHANGED <<now, cache, asking, name, began, gas, token, fallback, fee>>
      /\ SourceInv /\ QuoteTypeOK /\ HasRead(x) /\ FeeAsRead(x)
  BY DEF Check, QuoteInv, SourceInv, PriceInv
<1>2. step'[x] = IF FeeSuffices(fee[x], Required(x)) THEN "accepted" ELSE "refused"
  BY <1>1 DEF QuoteTypeOK
<1>3. SourceInv'
  BY <1>1, MoveKeepsSource DEF QuoteTypeOK, Reading, AfterPrice, Steps
<1>4. HasRead(x)'
  BY <1>1, <1>2 DEF HasRead, Fetched
<1>5. Required(x)' = Required(x)
  BY <1>1 DEF Required
<1>6. FeeAsRead(x)'
  BY <1>1, <1>2, <1>5 DEF FeeAsRead
<1>. QED  BY <1>1, <1>3, <1>4, <1>6, OthersKeep DEF QuoteTypeOK

LEMMA TimeKeepsQuotes == ASSUME QuoteInv, TimePasses PROVE QuoteInv'
<1>1. /\ now < MaxTime /\ now' = now + 1
      /\ \A c \in Callers : asking[c] # Nothing => now - asking[c].since < Latency
      /\ UNCHANGED <<cache, asking, step, name, began, gas, token, fallback, fee>>
      /\ SourceInv
  BY DEF TimePasses, QuoteInv
<1>2. now \in Times /\ now' \in Times /\ MaxTime \in Nat /\ Latency \in Nat
  BY <1>1, FeeQuoteAssumption DEF SourceInv, QuoteTypeOK, Times
<1>3. QuoteTypeOK'
  BY <1>1, <1>2 DEF SourceInv, QuoteTypeOK
<1>4. FetchesTimely'
  <2>1. ASSUME NEW c \in Callers, asking[c] # Nothing
        PROVE  asking[c].since <= now + 1 /\ (now + 1) - asking[c].since <= Latency
    <3>1. asking[c].since \in Times /\ asking[c].since <= now /\ now - asking[c].since < Latency
      BY <1>1, <2>1 DEF SourceInv, QuoteTypeOK, FetchesTimely
    <3>. QED  BY <1>2, <3>1 DEF Times
  <2>. QED  BY <1>1, <2>1 DEF SourceInv, FetchesTimely, Reading, ReadingSince
<1>5. EntriesTimely'
  <2>1. ASSUME NEW k \in Keys, cache[k] # Nothing PROVE cache[k].at <= now + 1
    BY <1>1, <1>2, <2>1 DEF SourceInv, QuoteTypeOK, EntriesTimely, Times
  <2>. QED  BY <1>1, <2>1 DEF SourceInv, EntriesTimely
<1>6. BegunBefore'
  <2>1. ASSUME NEW x \in Exchanges PROVE began[x].quote <= now + 1 /\ began[x].check <= now + 1
    BY <1>1, <1>2 DEF SourceInv, QuoteTypeOK, BegunBefore, Times
  <2>. QED  BY <1>1, <2>1 DEF BegunBefore
<1>7. SourceInv'
  BY <1>3, <1>4, <1>5, <1>6 DEF SourceInv
<1>8. PriceInv'
  BY <1>1, <1>2, <1>7, PriceKept DEF QuoteInv, PriceInv, Times
<1>. QED  BY <1>7, <1>8 DEF QuoteInv

LEMMA StutterKeepsQuotes == ASSUME QuoteInv, UNCHANGED quoteVars PROVE QuoteInv'
<1>1. SourceInv'
  BY DEF quoteVars, QuoteInv, SourceInv, QuoteTypeOK, FetchesTimely, Reading, ReadingSince,
         EntriesTimely, BegunBefore
<1>2. PriceInv'
  BY <1>1, PriceKept DEF quoteVars, QuoteInv, PriceInv, SourceInv, QuoteTypeOK, Times
<1>. QED  BY <1>1, <1>2 DEF QuoteInv

LEMMA QuoteInductive == QuoteSpec => []QuoteInv
<1>1. QuoteInit => QuoteInv
  BY InitQuoteInv
<1>2. QuoteInv /\ [QuoteNext]_quoteVars => QuoteInv'
  <2>. SUFFICES ASSUME QuoteInv, [QuoteNext]_quoteVars PROVE QuoteInv'
    OBVIOUS
  <2>1. ASSUME NEW x \in Exchanges,
               BeginQuote(x) \/ Quote(x) \/ BeginCheck(x) \/ Check(x) \/ TakeCached(x)
        PROVE  QuoteInv'
    BY <2>1, BeginQuoteKeeps, QuoteKeeps, BeginCheckKeeps, CheckKeeps, TakeCachedKeeps
  <2>2. ASSUME NEW x \in Exchanges, Fetch(x) PROVE QuoteInv'
    <3>1. KeyNeeded(x) \in Keys /\ x \in Callers
      BY DEF KeyNeeded, Keys, Callers, QuoteInv, SourceInv, QuoteTypeOK
    <3>. QED  BY <2>2, <3>1, AskKeeps DEF Fetch
  <2>3. ASSUME NEW u \in Updaters, Update(u) PROVE QuoteInv'
    <3>1. UpdaterKey[u] \in Keys /\ u \in Callers /\ u \notin Exchanges
      BY FeeQuoteAssumption DEF Callers
    <3>. QED  BY <2>3, <3>1, AskKeeps DEF Update
  <2>4. ASSUME NEW c \in Callers, Answered(c) \/ Unanswered(c) PROVE QuoteInv'
    BY <2>4, AnsweredKeeps, UnansweredKeeps
  <2>. QED  BY <2>1, <2>2, <2>3, <2>4, TimeKeepsQuotes, StutterKeepsQuotes DEF QuoteNext
<1>. QED  BY <1>1, <1>2, PTL DEF QuoteSpec

\* A price in use is never older than its time to live and one fetch, for any number of
\* exchanges, updaters and names and any answers in any order (getDynamicGasPrice,
\* getTokenPrice).
THEOREM PricesStayFresh == QuoteSpec => []PricesFresh
<1>1. ASSUME QuoteInv, NEW x \in Exchanges
      PROVE  LET start == IF step[x] \in {"check_token", "check_cost", "accepted", "refused"}
                          THEN began[x].check ELSE began[x].quote
             IN  /\ gas[x] = Static \/ gas[x] \in Window(GasKey, start, now)
                 /\ \/ step[x] \in {"check_gas", "check_token"}
                    \/ token[x] = Static \/ token[x] \in Window(name[x], start, now)
  <2>1. HasRead(x) /\ step[x] \in Steps
    BY <1>1 DEF QuoteInv, PriceInv, SourceInv, QuoteTypeOK
  <2>. QED  BY <2>1 DEF HasRead, Fetched, Steps
<1>2. QuoteInv => PricesFresh
  BY <1>1 DEF PricesFresh
<1>. QED  BY <1>2, QuoteInductive, PTL

\* A quote is refused only if a static price took part or the market moved by more than
\* the tolerance, whatever the caches, the names and the market do (fee-validation.ts).
THEOREM QuotesHonoured == QuoteSpec => []QuoteHonoured
<1>1. ASSUME QuoteInv, NEW x \in Exchanges \ fallback, step[x] = "refused"
      PROVE  \E n \in Names : \E low \in CostsOf(n, began[x].quote, now),
                                 high \in CostsOf(Alias, began[x].check, now) :
                 ~ FeeSuffices(low, high)
  <2>1. HasRead(x) /\ FeeAsRead(x)
    BY <1>1 DEF QuoteInv, PriceInv
  <2>2. Required(x) \in CostsOf(Alias, began[x].check, now)
    BY <1>1, <2>1, CostRead DEF HasRead
  <2>. QED  BY <1>1, <2>1, <2>2 DEF FeeAsRead
<1>2. QuoteInv => QuoteHonoured
  BY <1>1 DEF QuoteHonoured
<1>. QED  BY <1>2, QuoteInductive, PTL

\* An accepted fee suffices at prices that were right about the time of the check.
THEOREM AcceptedFeesCover == QuoteSpec => []FeeCovers
<1>1. ASSUME QuoteInv, NEW x \in Exchanges \ fallback, step[x] = "accepted"
      PROVE  \E cost \in CostsOf(Alias, began[x].check, now) : FeeSuffices(fee[x], cost)
  <2>1. HasRead(x) /\ FeeAsRead(x)
    BY <1>1 DEF QuoteInv, PriceInv
  <2>2. Required(x) \in CostsOf(Alias, began[x].check, now)
    BY <1>1, <2>1, CostRead DEF HasRead
  <2>. QED  BY <1>1, <2>1, <2>2 DEF FeeAsRead
<1>2. QuoteInv => FeeCovers
  BY <1>1 DEF FeeCovers
<1>. QED  BY <1>2, QuoteInductive, PTL

\* Every reachable state of the caches and exchanges is well typed.
THEOREM QuoteTypeCorrect == QuoteSpec => []QuoteTypeOK
<1>1. QuoteInv => QuoteTypeOK
  BY DEF QuoteInv, SourceInv
<1>. QED  BY <1>1, QuoteInductive, PTL

-----------------------------------------------------------------------------
(* Fee claims: what a call has found is pending until a claim for its owner is mined *)

\* Some claim, of whichever call, has taken what was pending for the owner of the fee at k.
Taken(c, k) == \E d \in Calls : \E u \in sent[d] : u.mined /\ Takes(d, u) = Owner(c, k)

PendingFor(c, k) == pendingFees[CanonicalOf[found[c][k].name]][found[c][k].account]

FoundSound ==
    \A c \in Calls : \A k \in 1 .. Len(found[c]) :
        /\ WorthClaiming(found[c][k].amount)
        /\ PendingFor(c, k) >= found[c][k].amount \/ Taken(c, k)

\* A call sends at most one claim for a group of fees, and none before it has found all.
ClaimsOnce ==
    \A c \in Calls :
        /\ stage[c] \in {"idle", "query"} => sent[c] = {}
        /\ stage[c] = "confirm" => position[c] <= Len(found[c])
        /\ \A t \in sent[c] :
              /\ t.fee \in 1 .. Len(found[c])
              /\ stage[c] = "claim" => t.fee < position[c]
              /\ stage[c] = "confirm" => t.fee <= position[c]
              /\ \A u \in sent[c] : SameGroup(c, t.fee, u.fee) => t = u

\* What claim t of call c has moved for the fee at k of its group.
ClaimMoved(c, t, k) ==
    \/ t.paid >= found[c][k].amount
    \/ Takes(c, t) # Owner(c, k)
    \/ TakenByOther(c, k)

PaidSound ==
    \A c \in Calls : \A t \in sent[c] : \A k \in 1 .. Len(found[c]) :
        t.mined /\ SameGroup(c, t.fee, k) => ClaimMoved(c, t, k)

ResultsSound ==
    \A c \in Calls : \A r \in results[c] :
        /\ r.fee \in 1 .. Len(found[c])
        /\ r.status = "success" => \E t \in sent[c] : SameGroup(c, t.fee, r.fee) /\ t.mined

MoneyInv == FoundSound /\ PaidSound

ClaimInv == ClaimTypeOK /\ ClaimsOnce /\ MoneyInv /\ ResultsSound

LEMMA AccountsTyped == 1 \in Nat /\ NumAccounts \in Nat \ {0} /\ Accounts \subseteq Nat
BY FeeClaimAssumption DEF Accounts

LEMMA QuotientBelow ==
    \A l \in Nat, n \in Nat \ {0}, k \in Nat \ {0} :
        k <= l * n => ((k - 1) \div n) + 1 \in 1 .. l /\ (k - 1) % n \in 0 .. n - 1
<1>. SUFFICES ASSUME NEW l \in Nat, NEW n \in Nat \ {0}, NEW k \in Nat \ {0}, k <= l * n
              PROVE  ((k - 1) \div n) + 1 \in 1 .. l /\ (k - 1) % n \in 0 .. n - 1
  OBVIOUS
<1>. DEFINE q == (k - 1) \div n
            r == (k - 1) % n
<1>1. k - 1 \in Nat
  OBVIOUS
<1>2. q \in Nat /\ r \in 0 .. n - 1 /\ k - 1 = n * q + r
  BY <1>1, Z3
<1>3. q < l
  <2>. HIDE DEF q, r
  <2>1. SUFFICES ASSUME q >= l PROVE FALSE
    BY <1>2
  <2>2. n * q >= l * n
    BY <1>2, <2>1, Z3
  <2>. QED  BY <1>2, <2>2, Z3
<1>. QED  BY <1>2, <1>3

\* The loop of a query is over accounts of networks.
LEMMA TargetTyped ==
    ASSUME ClaimTypeOK, NEW c \in Calls, position[c] <= NumTargets(c)
    PROVE  /\ TargetName(c, position[c]) \in NetworkNames
           /\ TargetAccount(position[c]) \in Accounts
<1>1. Targets(c) \in Seq(NetworkNames)
  <2>1. Pools \in Seq(NetworkNames)
    BY FeeClaimAssumption
  <2>2. asked[c] \in Request
    BY FeeClaimAssumption DEF ClaimTypeOK
  <2>. QED  BY <2>1, <2>2 DEF Targets, Request
<1>2. /\ Len(Targets(c)) \in Nat /\ position[c] \in Nat \ {0}
      /\ position[c] <= Len(Targets(c)) * NumAccounts
  BY <1>1 DEF ClaimTypeOK, NumTargets
<1>3. /\ ((position[c] - 1) \div NumAccounts) + 1 \in 1 .. Len(Targets(c))
      /\ (position[c] - 1) % NumAccounts \in 0 .. NumAccounts - 1
  BY <1>2, AccountsTyped, QuotientBelow
<1>. QED  BY <1>1, <1>3 DEF TargetName, TargetAccount, Accounts

LEMMA InitClaimInv == ASSUME ClaimInit PROVE ClaimInv
<1>. USE DEF ClaimInit
<1>1. ClaimTypeOK
  BY DEF ClaimTypeOK
<1>2. \A c \in Calls : Len(found[c]) = 0 /\ results[c] = {} /\ sent[c] = {}
  OBVIOUS
<1>. QED  BY <1>1, <1>2 DEF ClaimInv, ClaimsOnce, MoneyInv, FoundSound, PaidSound, ResultsSound

-----------------------------------------------------------------------------
(* Steps of a call that move no money *)

\* Mined claims stay, and what was found stays.
LEMMA TakenStays ==
    ASSUME ClaimInv, NEW c \in Calls, NEW k \in 1 .. Len(found[c]),
           \A d \in Calls : \A u \in sent[d] : u.mined => u \in sent'[d],
           \A d \in Calls : \A j \in 1 .. Len(found[d]) : found'[d][j] = found[d][j]
    PROVE  /\ Owner(c, k)' = Owner(c, k)
           /\ Taken(c, k) => Taken(c, k)'
           /\ TakenByOther(c, k) => TakenByOther(c, k)'
<1>1. Owner(c, k)' = Owner(c, k)
  BY DEF Owner
<1>2. ASSUME NEW d \in Calls, NEW u \in sent[d]
      PROVE  Takes(d, u)' = Takes(d, u)
  BY DEF ClaimInv, ClaimsOnce, Takes
<1>3. ASSUME NEW u \in sent[c]
      PROVE  SameGroup(c, u.fee, k)' <=> SameGroup(c, u.fee, k)
  BY DEF ClaimInv, ClaimsOnce, SameGroup
<1>. QED  BY <1>1, <1>2, <1>3 DEF Taken, TakenByOther

\* The money is left alone by a step that mines nothing, finds no fee that is not pending
\* and at most adds claims that are not mined.
LEMMA MoneyKept ==
    ASSUME ClaimInv,
           \A n \in Networks : \A a \in Accounts : pendingFees'[n][a] >= pendingFees[n][a],
           \A n \in Networks : \A a \in Accounts : pendingFees'[n][a] \in Nat,
           \A d \in Calls : sent[d] \subseteq sent'[d],
           \A d \in Calls : \A t \in sent'[d] \ sent[d] : ~ t.mined,
           \A d \in Calls : \A k \in 1 .. Len(found[d]) : found'[d][k] = found[d][k],
           \A d \in Calls : found'[d] = found[d] \/ sent'[d] = {},
           \A d \in Calls : \A k \in 1 .. Len(found'[d]) :
               \/ k \in 1 .. Len(found[d])
               \/ WorthClaiming(found'[d][k].amount) /\ PendingFor(d, k)' >= found'[d][k].amount
    PROVE  MoneyInv'
<1>1. FoundSound'
  <2>1. ASSUME NEW c \in Calls, NEW k \in 1 .. Len(found[c])
        PROVE  /\ WorthClaiming(found[c][k].amount)
               /\ PendingFor(c, k)' >= found[c][k].amount \/ Taken(c, k)'
    <3>1. found[c][k] \in Fee
      BY DEF ClaimInv, ClaimTypeOK
    <3>2. CanonicalOf[found[c][k].name] \in Networks /\ found[c][k].account \in Accounts
          /\ found[c][k].amount \in Nat
      BY <3>1, FeeClaimAssumption DEF Fee
    <3>3. /\ PendingFor(c, k) \in Nat /\ PendingFor(c, k)' \in Nat
          /\ PendingFor(c, k)' >= PendingFor(c, k)
      BY <3>2 DEF PendingFor, ClaimInv, ClaimTypeOK
    <3>4. Taken(c, k) => Taken(c, k)'
      BY TakenStays
    <3>. QED  BY <3>2, <3>3, <3>4 DEF ClaimInv, MoneyInv, FoundSound
  <2>. QED  BY <2>1 DEF FoundSound
<1>2. PaidSound'
  <2>. SUFFICES ASSUME NEW c \in Calls, NEW t \in sent'[c], NEW k \in 1 .. Len(found'[c]),
                       t.mined, SameGroup(c, t.fee, k)'
                PROVE  ClaimMoved(c, t, k)'
    BY DEF PaidSound
  <2>1. t \in sent[c] /\ t.fee \in 1 .. Len(found[c]) /\ found'[c] = found[c]
    BY DEF ClaimInv, ClaimsOnce
  <2>2. SameGroup(c, t.fee, k) /\ k \in 1 .. Len(found[c])
    BY <2>1 DEF SameGroup
  <2>3. ClaimMoved(c, t, k)
    BY <2>1, <2>2 DEF ClaimInv, MoneyInv, PaidSound
  <2>4. /\ Owner(c, k)' = Owner(c, k)
        /\ TakenByOther(c, k) => TakenByOther(c, k)'
    BY <2>2, TakenStays
  <2>5. Takes(c, t)' = Takes(c, t)
    BY <2>1 DEF Takes
  <2>. QED  BY <2>1, <2>3, <2>4, <2>5 DEF ClaimMoved
<1>. QED  BY <1>1, <1>2 DEF MoneyInv

LEMMA EarnKeeps ==
    ASSUME ClaimInv, NEW n \in Networks, NEW a \in Accounts, Earn(n, a)
    PROVE  ClaimInv'
<1>1. /\ earned' = [earned EXCEPT ![n][a] = @ + 1]
      /\ pendingFees' = [pendingFees EXCEPT ![n][a] = @ + 1]
      /\ UNCHANGED <<asked, stage, position, found, sent, results>> /\ ClaimTypeOK
  BY DEF Earn, ClaimInv
<1>2. ClaimTypeOK'
  BY <1>1 DEF ClaimTypeOK
<1>3. \A m \in Networks : \A b \in Accounts :
          pendingFees'[m][b] >= pendingFees[m][b] /\ pendingFees'[m][b] \in Nat
  BY <1>1 DEF ClaimTypeOK
<1>4. MoneyInv'
  BY <1>1, <1>3, MoneyKept
<1>5. ClaimsOnce' /\ ResultsSound'
  BY <1>1 DEF ClaimInv, ClaimsOnce, ResultsSound, SameGroup
<1>. QED  BY <1>2, <1>4, <1>5 DEF ClaimInv

LEMMA QueryKeeps == ASSUME ClaimInv, NEW c \in Calls, Query(c) PROVE ClaimInv'
<1>. DEFINE n == TargetName(c, position[c])
            a == TargetAccount(position[c])
            amount == pendingFees[CanonicalOf[n]][a]
            owed == [name |-> n, account |-> a, amount |-> amount]
<1>1. /\ stage[c] = "query" /\ position' = [position EXCEPT ![c] = @ + 1]
      /\ found' = IF WorthClaiming(amount) THEN [found EXCEPT ![c] = Append(@, owed)] ELSE found
      /\ UNCHANGED <<asked, pendingFees, earned, stage, sent, results>>
      /\ ClaimTypeOK /\ sent[c] = {}
  BY DEF Query, ClaimInv, ClaimsOnce
<1>2. n \in NetworkNames /\ a \in Accounts
  BY TargetTyped DEF Query, ClaimInv
<1>3. CanonicalOf[n] \in Networks
  BY <1>2, FeeClaimAssumption
<1>4. amount \in Nat
  BY <1>1, <1>2, <1>3 DEF ClaimTypeOK
<1>. HIDE DEF n, a
<1>5. owed \in Fee
  BY <1>2, <1>4 DEF Fee
<1>6. position' \in [Calls -> Nat \ {0}]
  BY <1>1 DEF ClaimTypeOK
<1>7. /\ found' \in [Calls -> Seq(Fee)]
      /\ \A d \in Calls \ {c} : found'[d] = found[d]
      /\ found'[c] = found[c] \/ (WorthClaiming(amount) /\ found'[c] = Append(found[c], owed))
  BY <1>1, <1>5 DEF ClaimTypeOK
<1>8. ClaimTypeOK'
  BY <1>1, <1>6, <1>7 DEF ClaimTypeOK
<1>9. found[c] \in Seq(Fee) /\ Len(found[c]) \in Nat
  BY <1>1 DEF ClaimTypeOK
<1>10. \A d \in Calls : \A k \in 1 .. Len(found[d]) : found'[d][k] = found[d][k]
  <2>1. \A k \in 1 .. Len(found[c]) : Append(found[c], owed)[k] = found[c][k]
    BY <1>9
  <2>. QED  BY <1>7, <2>1
<1>11. ASSUME NEW d \in Calls, NEW k \in 1 .. Len(found'[d])
       PROVE  \/ k \in 1 .. Len(found[d])
              \/ WorthClaiming(found'[d][k].amount) /\ PendingFor(d, k)' >= found'[d][k].amount
  <2>1. CASE found'[d] = found[d]
    BY <2>1
  <2>2. CASE d = c /\ WorthClaiming(amount) /\ found'[c] = Append(found[c], owed)
    <3>1. k \in 1 .. Len(found[c]) \/ found'[c][k] = owed
      BY <1>9, <2>2
    <3>2. ASSUME found'[c][k] = owed PROVE PendingFor(c, k)' = amount
      <4>1. owed.name = n /\ owed.account = a
        OBVIOUS
      <4>. QED  BY <1>1, <3>2, <4>1 DEF PendingFor
    <3>. QED  BY <1>4, <2>2, <3>1, <3>2
  <2>. QED  BY <1>7, <2>1, <2>2
<1>12. MoneyInv'
  <2>1. \A m \in Networks : \A b \in Accounts : pendingFees[m][b] \in Nat
    BY <1>1 DEF ClaimTypeOK
  <2>2. \A m \in Networks : \A b \in Accounts :
            pendingFees'[m][b] >= pendingFees[m][b] /\ pendingFees'[m][b] \in Nat
    BY <1>1, <2>1
  <2>3. \A d \in Calls : found'[d] = found[d] \/ sent'[d] = {}
    BY <1>1, <1>7
  <2>. QED  BY <1>1, <1>10, <1>11, <2>2, <2>3, MoneyKept
<1>13. ClaimsOnce'
  BY <1>1, <1>7 DEF ClaimInv, ClaimsOnce, SameGroup
<1>14. ResultsSound'
  <2>. SUFFICES ASSUME NEW d \in Calls, NEW r \in results[d]
                PROVE  /\ r.fee \in 1 .. Len(found'[d])
                       /\ r.status = "success" =>
                              \E t \in sent[d] : SameGroup(d, t.fee, r.fee)' /\ t.mined
    BY <1>1 DEF ResultsSound
  <2>1. /\ r.fee \in 1 .. Len(found[d])
        /\ r.status = "success" => \E t \in sent[d] : SameGroup(d, t.fee, r.fee) /\ t.mined
    BY DEF ClaimInv, ResultsSound
  <2>2. CASE found'[d] = found[d]
    BY <2>1, <2>2 DEF SameGroup
  <2>3. CASE d = c /\ found'[c] = Append(found[c], owed)
    BY <1>1, <1>9, <2>1, <2>3
  <2>. QED  BY <1>7, <2>2, <2>3
<1>. QED  BY <1>8, <1>12, <1>13, <1>14 DEF ClaimInv

\* A step of a call that neither finds, sends nor mines anything.
LEMMA QuietKeeps ==
    ASSUME ClaimInv, UNCHANGED <<pendingFees, found, sent>>,
           ClaimTypeOK', ClaimsOnce', ResultsSound'
    PROVE  ClaimInv'
<1>1. \A n \in Networks : \A a \in Accounts : pendingFees[n][a] \in Nat
  BY DEF ClaimInv, ClaimTypeOK
<1>2. \A n \in Networks : \A a \in Accounts :
          pendingFees'[n][a] >= pendingFees[n][a] /\ pendingFees'[n][a] \in Nat
  BY <1>1
<1>3. MoneyInv'
  BY <1>2, MoneyKept
<1>. QED  BY <1>3 DEF ClaimInv

\* A result is added; one that says "success" is that of a claim that is mined.
LEMMA RecordKeeps ==
    ASSUME ClaimInv, NEW c \in Calls, NEW status \in {"success", "failed"}, Record(c, status),
           position[c] <= Len(found[c]), UNCHANGED found,
           \A d \in Calls : sent[d] \subseteq sent'[d],
           status = "success" => \E t \in sent[c] : t.fee = position[c] /\ t.mined
    PROVE  results' \in [Calls -> SUBSET Result] /\ ResultsSound'
<1>. DEFINE new == {[fee |-> k, status |-> status] : k \in Group(c, position[c])}
<1>1. /\ results' = [results EXCEPT ![c] = @ \cup new]
      /\ results \in [Calls -> SUBSET Result] /\ Len(found[c]) \in Nat
  BY DEF Record, ClaimInv, ClaimTypeOK
<1>2. ASSUME NEW r \in new
      PROVE  /\ r \in Result /\ r.status = status /\ r.fee \in 1 .. Len(found[c])
             /\ SameGroup(c, position[c], r.fee)
  <2>1. PICK k \in Group(c, position[c]) : r = [fee |-> k, status |-> status]
    OBVIOUS
  <2>2. k \in 1 .. Len(found[c]) /\ SameGroup(c, k, position[c])
    BY DEF Group
  <2>3. k \in Nat \ {0} /\ r.fee = k /\ r.status = status
    BY <1>1, <2>1, <2>2
  <2>. QED  BY <2>1, <2>2, <2>3 DEF Result, SameGroup
<1>. HIDE DEF new
<1>3. results' \in [Calls -> SUBSET Result]
  BY <1>1, <1>2
<1>4. ASSUME NEW d \in Calls, NEW r \in results'[d]
      PROVE  /\ r.fee \in 1 .. Len(found[d])
             /\ r.status = "success" => \E t \in sent'[d] : SameGroup(d, t.fee, r.fee) /\ t.mined
  <2>1. CASE r \in results[d]
    BY <2>1 DEF ClaimInv, ResultsSound
  <2>2. CASE d = c /\ r \in new
    BY <1>2, <2>2
  <2>. QED  BY <1>1, <2>1, <2>2
<1>5. \A d \in Calls : \A j, k : SameGroup(d, j, k)' <=> SameGroup(d, j, k)
  BY DEF SameGroup
<1>. QED  BY <1>3, <1>4, <1>5 DEF ResultsSound

\* Begin, the end of the query, fees that are skipped or not found, the response.
LEMMA AdvanceKeeps ==
    ASSUME ClaimInv, NEW c \in Calls,
           Begin(c) \/ QueryNothing(c) \/ QueryDone(c) \/ SkipFee(c) \/ Respond(c)
    PROVE  ClaimInv'
<1>1. /\ UNCHANGED <<asked, pendingFees, earned, found, sent, results>>
      /\ ClaimTypeOK /\ ClaimsOnce
  BY DEF Begin, QueryNothing, QueryDone, SkipFee, Respond, ClaimInv
<1>2. ResultsSound'
  BY <1>1 DEF ClaimInv, ResultsSound, SameGroup
<1>3. CASE Begin(c) \/ QueryNothing(c) \/ QueryDone(c)
  <2>1. sent[c] = {} /\ ClaimTypeOK'
    <3>1. sent[c] = {}
      BY <1>1, <1>3 DEF Begin, QueryNothing, QueryDone, ClaimsOnce
    <3>2. /\ stage' \in [Calls -> {"idle", "query", "claim", "confirm", "done"}]
          /\ position' \in [Calls -> Nat \ {0}]
      <4>1. CASE Begin(c)
        BY <1>1, <4>1 DEF Begin, ClaimTypeOK
      <4>2. CASE QueryNothing(c)
        BY <1>1, <4>2 DEF QueryNothing, ClaimTypeOK
      <4>3. CASE QueryDone(c)
        BY <1>1, <4>3 DEF QueryDone, ClaimTypeOK
      <4>. QED  BY <1>3, <4>1, <4>2, <4>3
    <3>. QED  BY <1>1, <3>1, <3>2 DEF ClaimTypeOK
  <2>2. \A d \in Calls \ {c} : stage'[d] = stage[d] /\ position'[d] = position[d]
    BY <1>1, <1>3 DEF Begin, QueryNothing, QueryDone, ClaimTypeOK
  <2>3. stage'[c] # "confirm"
    BY <1>1, <1>3 DEF Begin, QueryNothing, QueryDone, ClaimTypeOK
  <2>4. ClaimsOnce'
    BY <1>1, <2>1, <2>2, <2>3 DEF ClaimsOnce, SameGroup
  <2>. QED  BY <1>1, <1>2, <2>1, <2>4, QuietKeeps
<1>4. CASE SkipFee(c)
  <2>1. /\ stage[c] = "claim" /\ stage' = stage
        /\ position' = [position EXCEPT ![c] = @ + 1] /\ position \in [Calls -> Nat \ {0}]
    BY <1>1, <1>4 DEF SkipFee, ClaimTypeOK
  <2>2. ClaimTypeOK'
    BY <1>1, <2>1 DEF ClaimTypeOK
  <2>3. \A t \in sent[c] : t.fee \in Nat /\ t.fee < position'[c]
    BY <1>1, <2>1 DEF ClaimsOnce
  <2>4. ClaimsOnce'
    BY <1>1, <2>1, <2>3 DEF ClaimsOnce, SameGroup
  <2>. QED  BY <1>1, <1>2, <2>2, <2>4, QuietKeeps
<1>5. CASE Respond(c)
  <2>1. /\ stage[c] = "claim" /\ stage' = [stage EXCEPT ![c] = "done"] /\ UNCHANGED position
    BY <1>1, <1>5 DEF Respond
  <2>2. ClaimTypeOK'
    BY <1>1, <2>1 DEF ClaimTypeOK
  <2>3. ClaimsOnce'
    BY <1>1, <2>1 DEF ClaimsOnce, ClaimTypeOK, SameGroup
  <2>. QED  BY <1>1, <1>2, <2>2, <2>3, QuietKeeps
<1>. QED  BY <1>3, <1>4, <1>5

\* The confirmation ends, with the receipt or without it.
LEMMA ConfirmKeeps ==
    ASSUME ClaimInv, NEW c \in Calls, Confirm(c) \/ ConfirmFails(c)
    PROVE  ClaimInv'
<1>1. /\ stage[c] = "confirm" /\ stage' = [stage EXCEPT ![c] = "claim"]
      /\ position' = [position EXCEPT ![c] = @ + 1] /\ position \in [Calls -> Nat \ {0}]
      /\ UNCHANGED <<asked, pendingFees, earned, found, sent>> /\ ClaimTypeOK /\ ClaimsOnce
      /\ position[c] <= Len(found[c])
  BY DEF Confirm, ConfirmFails, ClaimInv, ClaimTypeOK, ClaimsOnce
<1>2. results' \in [Calls -> SUBSET Result] /\ ResultsSound'
  BY <1>1, RecordKeeps DEF Confirm, ConfirmFails
<1>3. ClaimTypeOK'
  <2>1. position' \in [Calls -> Nat \ {0}]
    BY <1>1
  <2>. QED  BY <1>1, <1>2, <2>1 DEF ClaimTypeOK
<1>4. \A t \in sent[c] : t.fee \in Nat /\ t.fee < position'[c]
  BY <1>1 DEF ClaimsOnce
<1>5. ClaimsOnce'
  BY <1>1, <1>4 DEF ClaimsOnce, ClaimTypeOK, SameGroup
<1>. QED  BY <1>1, <1>2, <1>3, <1>5, QuietKeeps

-----------------------------------------------------------------------------
(* Claims are sent and mined *)

\* A claim for a fee for which none has been sent.
LEMMA BroadcastKeeps ==
    ASSUME ClaimInv, NEW c \in Calls, NEW a \in Accounts, Broadcast(c, a),
           AtGroup(c), UNCHANGED <<pendingFees, found>>,
           \/ position' = position /\ stage' = [stage EXCEPT ![c] = "confirm"]
           \/ position' = [position EXCEPT ![c] = @ + 1] /\ stage' = stage
    PROVE  /\ sent' \in [Calls -> SUBSET Claim]
           /\ \A d \in Calls : sent[d] \subseteq sent'[d]
           /\ ClaimsOnce' /\ MoneyInv'
<1>. DEFINE t == [fee |-> position[c], account |-> a, mined |-> FALSE, paid |-> 0]
<1>1. /\ sent' = [sent EXCEPT ![c] = @ \cup {t}] /\ sent \in [Calls -> SUBSET Claim]
      /\ position[c] \in Nat \ {0} /\ Len(found[c]) \in Nat /\ ClaimTypeOK /\ ClaimsOnce
      /\ stage[c] = "claim" /\ position[c] <= Len(found[c])
  BY DEF Broadcast, AtGroup, ClaimInv, ClaimTypeOK
<1>2. t \in Claim /\ t.fee = position[c] /\ ~ t.mined
  BY <1>1 DEF Claim
<1>. HIDE DEF t
<1>3. /\ sent' \in [Calls -> SUBSET Claim] /\ sent'[c] = sent[c] \cup {t}
      /\ \A d \in Calls \ {c} : sent'[d] = sent[d]
  BY <1>1, <1>2
<1>4. MoneyInv'
  <2>1. \A n \in Networks : \A b \in Accounts : pendingFees[n][b] \in Nat
    BY <1>1 DEF ClaimTypeOK
  <2>2. \A n \in Networks : \A b \in Accounts :
            pendingFees'[n][b] >= pendingFees[n][b] /\ pendingFees'[n][b] \in Nat
    BY <2>1
  <2>. QED  BY <1>2, <1>3, <2>2, MoneyKept
<1>5. ASSUME NEW u \in sent[c]
      PROVE  /\ u.fee \in 1 .. Len(found[c]) /\ u.fee <= position[c]
             /\ ~ SameGroup(c, u.fee, t.fee) /\ ~ SameGroup(c, t.fee, u.fee)
  <2>1. u.fee \in 1 .. Len(found[c]) /\ u.fee < position[c]
    BY <1>1 DEF ClaimsOnce
  <2>2. u.fee \in 1 .. position[c] - 1
    BY <1>1, <2>1
  <2>3. ~ SameGroup(c, u.fee, position[c])
    BY <2>2 DEF AtGroup, Leads
  <2>. QED  BY <1>1, <1>2, <2>1, <2>3 DEF SameGroup
<1>6. ClaimsOnce'
  <2>1. ASSUME NEW d \in Calls \ {c}
        PROVE  /\ stage'[d] = stage[d] /\ position'[d] = position[d] /\ found'[d] = found[d]
               /\ sent'[d] = sent[d]
    BY <1>1, <1>3 DEF ClaimTypeOK
  <2>2. \/ position'[c] = position[c] /\ stage'[c] = "confirm"
        \/ position'[c] = position[c] + 1 /\ stage'[c] = "claim"
    BY <1>1 DEF ClaimTypeOK
  <2>3. t.fee \in 1 .. Len(found[c]) /\ t.fee <= position[c]
    BY <1>1, <1>2
  <2>4. \A u \in sent'[c] : u.fee \in 1 .. Len(found[c]) /\ u.fee <= position[c]
    BY <1>3, <1>5, <2>3
  <2>5. \A u, v \in sent'[c] : SameGroup(c, u.fee, v.fee) => u = v
    BY <1>1, <1>3, <1>5 DEF ClaimsOnce
  <2>6. \A u \in sent'[c] : /\ stage'[c] = "claim" => u.fee < position'[c]
                            /\ stage'[c] = "confirm" => u.fee <= position'[c]
    BY <1>1, <2>2, <2>4
  <2>7. \A d \in Calls : \A j, k : SameGroup(d, j, k)' <=> SameGroup(d, j, k)
    BY DEF SameGroup
  <2>8. stage'[c] = "confirm" => position'[c] <= Len(found[c])
    BY <1>1, <2>2
  <2>9. stage'[c] \notin {"idle", "query"}
    BY <2>2
  <2>. QED  BY <1>1, <2>1, <2>4, <2>5, <2>6, <2>7, <2>8, <2>9 DEF ClaimsOnce
<1>. QED  BY <1>3, <1>4, <1>6

LEMMA SendKeeps ==
    ASSUME ClaimInv, NEW c \in Calls, NEW a \in Accounts, SendClaim(c, a)
    PROVE  ClaimInv'
<1>1. /\ AtGroup(c) /\ Broadcast(c, a)
      /\ stage' = [stage EXCEPT ![c] = "confirm"]
      /\ UNCHANGED <<asked, pendingFees, earned, position, found, results>> /\ ClaimTypeOK
  BY DEF SendClaim, ClaimInv
<1>2. /\ sent' \in [Calls -> SUBSET Claim] /\ ClaimsOnce' /\ MoneyInv'
      /\ \A d \in Calls : sent[d] \subseteq sent'[d]
  BY <1>1, BroadcastKeeps
<1>3. ClaimTypeOK'
  BY <1>1, <1>2 DEF ClaimTypeOK
<1>4. ResultsSound'
  BY <1>1, <1>2 DEF ClaimInv, ResultsSound, SameGroup
<1>. QED  BY <1>2, <1>3, <1>4 DEF ClaimInv

LEMMA SendFailsKeeps ==
    ASSUME ClaimInv, NEW c \in Calls, NEW a \in Accounts, SendFails(c, a)
    PROVE  ClaimInv'
<1>1. /\ AtGroup(c) /\ stage[c] = "claim" /\ position[c] <= Len(found[c])
      /\ Broadcast(c, a) \/ UNCHANGED sent
      /\ Record(c, "failed")
      /\ position' = [position EXCEPT ![c] = @ + 1] /\ position \in [Calls -> Nat \ {0}]
      /\ UNCHANGED <<asked, pendingFees, earned, stage, found>> /\ ClaimTypeOK /\ ClaimsOnce
  BY DEF SendFails, AtGroup, ClaimInv, ClaimTypeOK
<1>2. position' \in [Calls -> Nat \ {0}]
  BY <1>1
<1>3. CASE Broadcast(c, a)
  <2>1. /\ sent' \in [Calls -> SUBSET Claim] /\ ClaimsOnce' /\ MoneyInv'
        /\ \A d \in Calls : sent[d] \subseteq sent'[d]
    BY <1>1, <1>3, BroadcastKeeps
  <2>2. results' \in [Calls -> SUBSET Result] /\ ResultsSound'
    BY <1>1, <2>1, RecordKeeps
  <2>3. ClaimTypeOK'
    BY <1>1, <1>2, <2>1, <2>2 DEF ClaimTypeOK
  <2>. QED  BY <2>1, <2>2, <2>3 DEF ClaimInv
<1>4. CASE UNCHANGED sent
  <2>1. results' \in [Calls -> SUBSET Result] /\ ResultsSound'
    BY <1>1, <1>4, RecordKeeps
  <2>2. ClaimTypeOK'
    BY <1>1, <1>2, <1>4, <2>1 DEF ClaimTypeOK
  <2>3. \A t \in sent[c] : t.fee \in Nat /\ t.fee < position'[c]
    BY <1>1 DEF ClaimsOnce
  <2>4. ClaimsOnce'
    BY <1>1, <1>4, <2>3 DEF ClaimsOnce, SameGroup
  <2>. QED  BY <1>1, <1>4, <2>1, <2>2, <2>4, QuietKeeps
<1>. QED  BY <1>1, <1>3, <1>4

\* A claim is mined: it has moved what was pending for its account, so either it was sent
\* from another account, or it has moved what was found, or another claim has.
LEMMA MineKeeps ==
    ASSUME ClaimInv, NEW c \in Calls, NEW t \in sent[c], Mine(c, t)
    PROVE  ClaimInv'
<1>. DEFINE n == CanonicalOf[found[c][t.fee].name]
<1>1. /\ ~ t.mined
      /\ sent' = [sent EXCEPT ![c] = (@ \ {t}) \cup
                     {[t EXCEPT !.mined = TRUE, !.paid = pendingFees[n][t.account]]}]
      /\ pendingFees' = [pendingFees EXCEPT ![n][t.account] = 0]
      /\ UNCHANGED <<asked, earned, stage, position, found, results>>
      /\ ClaimTypeOK /\ ClaimsOnce /\ FoundSound /\ PaidSound
  BY DEF Mine, ClaimInv, MoneyInv
<1>2. t \in Claim /\ t.fee \in 1 .. Len(found[c])
  BY <1>1 DEF ClaimTypeOK, ClaimsOnce
<1>3. found[c][t.fee] \in Fee
  BY <1>1, <1>2 DEF ClaimTypeOK
<1>4. n \in Networks /\ t.account \in Accounts
  BY <1>2, <1>3, FeeClaimAssumption DEF Fee, Claim
<1>5. pendingFees[n][t.account] \in Nat
  BY <1>1, <1>4 DEF ClaimTypeOK
<1>6. PICK m \in Claim :
              /\ m.fee = t.fee /\ m.account = t.account /\ m.mined /\ m # t
              /\ m.paid = pendingFees[n][t.account]
              /\ sent' = [sent EXCEPT ![c] = (@ \ {t}) \cup {m}]
  <2>. DEFINE m == [t EXCEPT !.mined = TRUE, !.paid = pendingFees[n][t.account]]
  <2>1. /\ m \in Claim /\ m.fee = t.fee /\ m.account = t.account /\ m.mined /\ m # t
        /\ m.paid = pendingFees[n][t.account]
    BY <1>1, <1>2, <1>5 DEF Claim
  <2>. HIDE DEF n
  <2>2. sent' = [sent EXCEPT ![c] = (@ \ {t}) \cup {m}]
    BY <1>1
  <2>. HIDE DEF m
  <2>. QED  BY <2>1, <2>2
<1>7. Takes(c, m) = <<n, t.account>> /\ Takes(c, t) = <<n, t.account>>
  BY <1>6 DEF Takes
<1>. HIDE DEF n
<1>8. /\ sent' \in [Calls -> SUBSET Claim] /\ sent'[c] = (sent[c] \ {t}) \cup {m}
      /\ \A d \in Calls \ {c} : sent'[d] = sent[d]
  BY <1>1, <1>6 DEF ClaimTypeOK
<1>9. /\ pendingFees' \in [Networks -> [Accounts -> Nat]]
      /\ \A p \in Networks : \A b \in Accounts :
             <<p, b>> = <<n, t.account>> \/ pendingFees'[p][b] = pendingFees[p][b]
  BY <1>1, <1>4 DEF ClaimTypeOK
<1>10. ClaimTypeOK'
  BY <1>1, <1>8, <1>9 DEF ClaimTypeOK
<1>11. ClaimsOnce'
  <2>1. \A u \in sent'[c] :
            \/ u = m
            \/ /\ u \in sent[c]
               /\ ~ SameGroup(c, u.fee, t.fee) /\ ~ SameGroup(c, t.fee, u.fee)
    BY <1>1, <1>8 DEF ClaimsOnce
  <2>2. \A d \in Calls : \A j, k : SameGroup(d, j, k)' <=> SameGroup(d, j, k)
    BY <1>1 DEF SameGroup
  <2>3. \A u, v \in sent'[c] : SameGroup(c, u.fee, v.fee) => u = v
    BY <1>1, <1>6, <2>1 DEF ClaimsOnce
  <2>. QED  BY <1>1, <1>2, <1>6, <1>8, <2>1, <2>2, <2>3 DEF ClaimsOnce
<1>12. ResultsSound'
  <2>1. \A d \in Calls : \A j, k : SameGroup(d, j, k)' <=> SameGroup(d, j, k)
    BY <1>1 DEF SameGroup
  <2>. QED  BY <1>1, <1>6, <1>8, <2>1 DEF ClaimInv, ResultsSound
<1>13. \A d \in Calls : \A u \in sent[d] : u.mined => u \in sent'[d]
  BY <1>1, <1>8
<1>14. ASSUME NEW d \in Calls, NEW k \in 1 .. Len(found[d])
       PROVE  /\ Owner(d, k)' = Owner(d, k)
              /\ Taken(d, k) => Taken(d, k)'
              /\ TakenByOther(d, k) => TakenByOther(d, k)'
  BY <1>1, <1>13, TakenStays
<1>15. \A d \in Calls : \A u : Takes(d, u)' = Takes(d, u)
  BY <1>1 DEF Takes
<1>16. FoundSound'
  <2>1. ASSUME NEW d \in Calls, NEW k \in 1 .. Len(found[d])
        PROVE  /\ WorthClaiming(found[d][k].amount)
               /\ PendingFor(d, k)' >= found[d][k].amount \/ Taken(d, k)'
    <3>1. found[d][k] \in Fee
      BY <1>1 DEF ClaimTypeOK
    <3>2. CanonicalOf[found[d][k].name] \in Networks /\ found[d][k].account \in Accounts
      BY <3>1, FeeClaimAssumption DEF Fee
    <3>3. CASE Owner(d, k) = <<n, t.account>>
      <4>1. Taken(d, k)'
        BY <1>6, <1>7, <1>8, <1>14, <1>15, <3>3 DEF Taken
      <4>. QED  BY <1>1, <4>1 DEF FoundSound
    <3>4. CASE Owner(d, k) # <<n, t.account>>
      <4>1. PendingFor(d, k)' = PendingFor(d, k)
        BY <1>1, <1>9, <3>2, <3>4 DEF PendingFor, Owner
      <4>. QED  BY <1>1, <1>14, <4>1 DEF FoundSound
    <3>. QED  BY <3>3, <3>4
  <2>. QED  BY <1>1, <2>1 DEF FoundSound
<1>17. \A d \in Calls : \A j, k : SameGroup(d, j, k)' <=> SameGroup(d, j, k)
  BY <1>1 DEF SameGroup
<1>18. PaidSound'
  <2>1. ASSUME NEW d \in Calls, NEW u \in sent[d], NEW k \in 1 .. Len(found[d]),
               u.mined, SameGroup(d, u.fee, k)
        PROVE  ClaimMoved(d, u, k)'
    <3>1. ClaimMoved(d, u, k)
      BY <1>1, <2>1 DEF PaidSound
    <3>. QED  BY <1>1, <1>14, <1>15, <3>1 DEF ClaimMoved
  <2>2. ASSUME NEW k \in 1 .. Len(found[c]), SameGroup(c, t.fee, k)
        PROVE  ClaimMoved(c, m, k)'
    <3>. SUFFICES ASSUME Owner(c, k) = <<n, t.account>>
                  PROVE  m.paid >= found[c][k].amount \/ TakenByOther(c, k)'
      BY <1>1, <1>6, <1>7, <1>14, <1>15 DEF ClaimMoved
    <3>1. CASE PendingFor(c, k) >= found[c][k].amount
      BY <1>6, <3>1 DEF PendingFor, Owner
    <3>2. CASE Taken(c, k)
      <4>1. PICK d \in Calls : \E u \in sent[d] : u.mined /\ Takes(d, u) = Owner(c, k)
        BY <3>2 DEF Taken
      <4>2. PICK u \in sent[d] : u.mined /\ Takes(d, u) = Owner(c, k)
        BY <4>1
      <4>3. ~ (d = c /\ SameGroup(c, u.fee, k))
        <5>1. ASSUME d = c, SameGroup(c, u.fee, k) PROVE FALSE
          <6>1. SameGroup(c, t.fee, u.fee)
            BY <2>2, <5>1 DEF SameGroup
          <6>2. t = u
            BY <1>1, <4>2, <5>1, <6>1 DEF ClaimsOnce
          <6>. QED  BY <1>1, <4>2, <6>2
        <5>. QED  BY <5>1
      <4>4. TakenByOther(c, k)
        BY <4>2, <4>3 DEF TakenByOther
      <4>. QED  BY <1>14, <4>4
    <3>. QED  BY <1>1, <3>1, <3>2 DEF FoundSound
  <2>. QED  BY <1>1, <1>6, <1>8, <1>17, <2>1, <2>2 DEF PaidSound
<1>. QED  BY <1>10, <1>11, <1>12, <1>16, <1>18 DEF ClaimInv, MoneyInv

LEMMA ClaimInductive == ClaimSpec => []ClaimInv
<1>1. ClaimInit => ClaimInv
  BY InitClaimInv
<1>2. ClaimInv /\ [ClaimNext]_claimVars => ClaimInv'
  <2>. SUFFICES ASSUME ClaimInv, [ClaimNext]_claimVars PROVE ClaimInv'
    OBVIOUS
  <2>1. ASSUME NEW n \in Range(Pools), NEW a \in Accounts, Earn(n, a) PROVE ClaimInv'
    <3>1. n \in Networks
      BY FeeClaimAssumption DEF Range
    <3>. QED  BY <2>1, <3>1, EarnKeeps
  <2>2. ASSUME NEW c \in Calls, Begin(c) \/ CallStep(c) PROVE ClaimInv'
    BY <2>2, QueryKeeps, AdvanceKeeps, ConfirmKeeps, SendKeeps, SendFailsKeeps DEF CallStep
  <2>3. ASSUME NEW c \in Calls, NEW t \in sent[c], Mine(c, t) PROVE ClaimInv'
    BY <2>3, MineKeeps
  <2>4. CASE UNCHANGED claimVars
    <3>1. ClaimTypeOK' /\ ClaimsOnce' /\ ResultsSound'
      BY <2>4 DEF claimVars, ClaimInv, ClaimTypeOK, ClaimsOnce, ResultsSound, SameGroup
    <3>. QED  BY <2>4, <3>1, QuietKeeps DEF claimVars
  <2>. QED  BY <2>1, <2>2, <2>3, <2>4 DEF ClaimNext
<1>. QED  BY <1>1, <1>2, PTL DEF ClaimSpec

\* Every reachable state of the calls is well typed.
THEOREM ClaimTypeCorrect == ClaimSpec => []ClaimTypeOK
<1>1. ClaimInv => ClaimTypeOK
  BY DEF ClaimInv
<1>. QED  BY <1>1, ClaimInductive, PTL

\* A reported success has moved what it reports, except in the two ways the property
\* names, for any number of calls, accounts and networks (claimFees, results.push).
THEOREM SuccessesMoved == ClaimSpec => []SuccessMoved
<1>1. ASSUME ClaimInv, NEW c \in Calls, NEW r \in results[c], r.status = "success"
      PROVE  \E t \in sent[c] : /\ SameGroup(c, t.fee, r.fee) /\ t.mined
                                /\ \/ t.paid >= found[c][r.fee].amount
                                   \/ Takes(c, t) # Owner(c, r.fee)
                                   \/ TakenByOther(c, r.fee)
  <2>1. r.fee \in 1 .. Len(found[c])
    BY <1>1 DEF ClaimInv, ResultsSound
  <2>2. PICK t \in sent[c] : SameGroup(c, t.fee, r.fee) /\ t.mined
    BY <1>1 DEF ClaimInv, ResultsSound
  <2>3. ClaimMoved(c, t, r.fee)
    BY <1>1, <2>1, <2>2 DEF ClaimInv, MoneyInv, PaidSound
  <2>. QED  BY <2>2, <2>3 DEF ClaimMoved
<1>2. ClaimInv => SuccessMoved
  BY <1>1 DEF SuccessMoved
<1>. QED  BY <1>2, ClaimInductive, PTL

\* However often a request names a network, no call sends two claims for one group of fees
\* (claimFees, feesByFacilitatorAndNetwork).
THEOREM GroupsClaimedOnce == ClaimSpec => []ClaimedOnce
<1>1. ClaimInv => ClaimedOnce
  BY DEF ClaimInv, ClaimsOnce, ClaimedOnce
<1>. QED  BY <1>1, ClaimInductive, PTL

\* A claim mined for the owner of its fees was worth sending, or another claim was
\* (getPendingFees, minClaimAmount).
THEOREM OnlyWorthwhileClaims == ClaimSpec => []ClaimsWorthwhile
<1>1. ASSUME ClaimInv, NEW c \in Calls, NEW t \in sent[c], t.mined, Takes(c, t) = Owner(c, t.fee)
      PROVE  (t.paid > 0 /\ t.paid >= MinClaim) \/ TakenByOther(c, t.fee)
  <2>1. /\ t \in Claim /\ t.fee \in 1 .. Len(found[c]) /\ found[c] \in Seq(Fee)
        /\ WorthClaiming(found[c][t.fee].amount)
    BY <1>1 DEF ClaimInv, ClaimTypeOK, ClaimsOnce, MoneyInv, FoundSound
  <2>2. ClaimMoved(c, t, t.fee)
    BY <1>1, <2>1 DEF ClaimInv, MoneyInv, PaidSound, SameGroup
  <2>3. found[c][t.fee] \in Fee
    BY <2>1
  <2>4. found[c][t.fee].amount \in Nat /\ t.paid \in Nat /\ MinClaim \in Nat
    BY <2>1, <2>3, FeeClaimAssumption DEF Fee, Claim
  <2>. QED  BY <1>1, <2>1, <2>2, <2>4 DEF ClaimMoved, WorthClaiming
<1>2. ClaimInv => ClaimsWorthwhile
  BY <1>1 DEF ClaimsWorthwhile
<1>. QED  BY <1>2, ClaimInductive, PTL

=============================================================================
