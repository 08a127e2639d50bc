---------------------------- MODULE AccountPool -----------------------------
(***************************************************************************)
(* facilitator/src/account-pool.ts: the facilitator's accounts on one      *)
(* network, each with a serial queue (p-limit with concurrency 1), and the *)
(* set of payers that have a job somewhere in them.                        *)
(*                                                                         *)
(* JavaScript runs one synchronous stretch at a time, so an action is such *)
(* a stretch, from one await to the next.  What a job does while it runs   *)
(* is left open here; module SettlementService says it for settlements.    *)
(***************************************************************************)
EXTENDS Integers, Sequences, FiniteSets

CONSTANTS
    NumAccounts,            \* private keys configured
    Requests,               \* calls of execute
    PayerOf,                \* [Requests -> payers], NoPayer for queries and claims
    NoPayer,
    NoRequest,
    RoundRobin,             \* strategy: TRUE "round_robin", FALSE "random"
    DefaultMaxQueueDepth    \* DEFAULTS.accountPool.MAX_QUEUE_DEPTH

ASSUME PoolAssumption ==
    /\ NumAccounts \in Nat \ {0}
    /\ NoRequest \notin Requests
    /\ DOMAIN PayerOf = Requests
    /\ RoundRobin \in BOOLEAN
    /\ DefaultMaxQueueDepth \in Nat

\* PoolManager passes on the strategy and the RPC URL only, so the pool's limit is
\* the default one, whatever ACCOUNT_POOL_MAX_QUEUE_DEPTH is configured.  Zero is
\* falsy: no limit.
MaxQueueDepth == DefaultMaxQueueDepth

Accounts == 0 .. NumAccounts - 1

VARIABLES
    status,           \* status[request], see Statuses
    queue,            \* queue[account]: the requests p-limit has not started yet
    active,           \* active[account]: the request that holds the only slot
    pendingPayers,    \* payers with a request in some queue
    roundRobinIndex,  \* the account the next selection takes
    processed         \* processed[account]: jobs that did not throw

poolVars == <<status, queue, active, pendingPayers, roundRobinIndex, processed>>

\* "returned": the job's promise has settled; "released": execute has returned.
Statuses == {"new", "duplicate", "overloaded", "queued", "running", "returned", "released"}

TypeOK ==
    /\ status \in [Requests -> Statuses]
    /\ queue \in [Accounts -> Seq(Requests)]
    /\ active \in [Accounts -> Requests \cup {NoRequest}]
    /\ pendingPayers \subseteq {PayerOf[r] : r \in Requests}
    /\ roundRobinIndex \in Accounts
    /\ processed \in [Accounts -> Nat]

Init ==
    /\ status = [r \in Requests |-> "new"]
    /\ queue = [a \in Accounts |-> <<>>]
    /\ active = [a \in Accounts |-> NoRequest]
    /\ pendingPayers = {}
    /\ roundRobinIndex = 0
    /\ processed = [a \in Accounts |-> 0]

-----------------------------------------------------------------------------
(* execute, up to its await *)

Payers(r) == {PayerOf[r]} \ {NoPayer}

QueueDepth(a) == Len(queue[a]) + (IF active[a] = NoRequest THEN 0 ELSE 1)

\* Mutant: only the payers of requests that already run count.
HasRunningPayer(r) ==
    \E s \in Requests : status[s] = "running" /\ Payers(r) \cap Payers(s) # {}

HasPendingPayer(r) == Payers(r) \cap pendingPayers # {}

\* Mutant: the limit is off by one.
QueueOverfull(a) == MaxQueueDepth # 0 /\ QueueDepth(a) > MaxQueueDepth

QueueFull(a) == MaxQueueDepth # 0 /\ QueueDepth(a) >= MaxQueueDepth

\* selectAccount: the index moves on whether or not the request is then accepted.
SelectAccount(a) ==
    IF RoundRobin
    THEN a = roundRobinIndex /\ roundRobinIndex' = (roundRobinIndex + 1) % NumAccounts
    ELSE UNCHANGED roundRobinIndex

RejectDuplicate(r) ==
    /\ HasPendingPayer(r)
    /\ status' = [status EXCEPT ![r] = "duplicate"]
    /\ UNCHANGED <<queue, active, pendingPayers, roundRobinIndex, processed>>

RejectOverload(r, a) ==
    /\ ~ HasPendingPayer(r)
    /\ SelectAccount(a)
    /\ QueueFull(a)
    /\ status' = [status EXCEPT ![r] = "overloaded"]
    /\ UNCHANGED <<queue, active, pendingPayers, processed>>

Accept(r, a) ==
    /\ ~ HasPendingPayer(r)
    /\ SelectAccount(a)
    /\ ~ QueueFull(a)
    /\ status' = [status EXCEPT ![r] = "queued"]
    /\ pendingPayers' = pendingPayers \cup Payers(r)
    /\ queue' = [queue EXCEPT ![a] = Append(@, r)]
    /\ UNCHANGED <<active, processed>>

Execute(r) ==
    /\ status[r] = "new"
    /\ RejectDuplicate(r) \/ \E a \in Accounts : RejectOverload(r, a) \/ Accept(r, a)

-----------------------------------------------------------------------------
(* p-limit, as the pool uses it *)

\* The microtask after an enqueue: an idle slot takes the head of the queue.
StartNext(a) ==
    /\ active[a] = NoRequest
    /\ queue[a] # <<>>
    /\ active' = [active EXCEPT ![a] = Head(queue[a])]
    /\ queue' = [queue EXCEPT ![a] = Tail(@)]
    /\ status' = [status EXCEPT ![Head(queue[a])] = "running"]
    /\ UNCHANGED <<pendingPayers, roundRobinIndex, processed>>

\* The job of account a settles: its function returned (ok) or threw.
Return(a, ok) ==
    /\ active[a] # NoRequest
    /\ status[active[a]] = "running"
    /\ status' = [status EXCEPT ![active[a]] = "returned"]
    /\ processed' = [processed EXCEPT ![a] = IF ok THEN @ + 1 ELSE @]
    /\ UNCHANGED <<queue, active, pendingPayers, roundRobinIndex>>

\* A microtask later the slot is freed and goes to the next in the queue.
FreeSlot(a) ==
    /\ active[a] # NoRequest
    /\ status[active[a]] = "returned"
    /\ IF queue[a] = <<>>
       THEN /\ active' = [active EXCEPT ![a] = NoRequest]
            /\ UNCHANGED <<queue, status>>
       ELSE /\ active' = [active EXCEPT ![a] = Head(queue[a])]
            /\ queue' = [queue EXCEPT ![a] = Tail(@)]
            /\ status' = [status EXCEPT ![Head(queue[a])] = "running"]
    /\ UNCHANGED <<pendingPayers, roundRobinIndex, processed>>

\* Mutant: no finally block, so the payer of a job that threw stays pending.
ReleaseKeepingPayer(r) ==
    /\ status[r] = "returned"
    /\ \A a \in Accounts : active[a] # r
    /\ status' = [status EXCEPT ![r] = "released"]
    /\ UNCHANGED <<queue, active, pendingPayers, roundRobinIndex, processed>>

\* The finally block of execute, after the slot is freed.
Release(r) ==
    /\ status[r] = "returned"
    /\ \A a \in Accounts : active[a] # r
    /\ status' = [status EXCEPT ![r] = "released"]
    /\ pendingPayers' = pendingPayers \ Payers(r)
    /\ UNCHANGED <<queue, active, roundRobinIndex, processed>>

Next ==
    \/ \E r \in Requests : Execute(r) \/ Release(r)
    \/ \E a \in Accounts : \/ StartNext(a)
                           \/ \E ok \in BOOLEAN : Return(a, ok)
                           \/ FreeSlot(a)

\* Microtasks run, and every job ends: each of its RPC calls has a timeout.
PoolFairness ==
    /\ \A a \in Accounts : /\ WF_poolVars(StartNext(a))
                           /\ WF_poolVars(\E ok \in BOOLEAN : Return(a, ok))
                           /\ WF_poolVars(FreeSlot(a))
    /\ \A r \in Requests : WF_poolVars(Release(r))

Spec == Init /\ [][Next]_poolVars /\ PoolFairness

-----------------------------------------------------------------------------
(* Properties *)

InFlight == {r \in Requests : status[r] \in {"queued", "running", "returned"}}

\* No payer has two requests between acceptance and answer, whichever accounts they
\* went to ("duplicate payer detection" in execute).
OneRequestPerPayer ==
    \A r, s \in InFlight : r # s /\ PayerOf[r] = PayerOf[s] => PayerOf[r] = NoPayer

\* The payers marked as pending are those of the requests in flight: no payer stays
\* locked out when its request is done, failed or rejected, and none is unmarked early
\* (the comment "must always execute to prevent payer address leaks").
PendingPayersExact == pendingPayers = UNION {Payers(r) : r \in InFlight}

\* Every accepted request sits in one place of one account: while it waits, in one queue
\* once; while it runs, in a slot that no other account shares.  None is lost, run twice
\* or run by two accounts, also when slots change hands (p-limit with concurrency 1,
\* "zero nonce conflicts").
OnePlace ==
    /\ \A r \in Requests :
          status[r] = "queued" <=> \E a \in Accounts : \E k \in DOMAIN queue[a] : queue[a][k] = r
    /\ \A a, b \in Accounts : \A j \in DOMAIN queue[a], k \in DOMAIN queue[b] :
          queue[a][j] = queue[b][k] => a = b /\ j = k
    /\ \A r \in Requests : status[r] = "running" => \E a \in Accounts : active[a] = r
    /\ \A a \in Accounts :
          active[a] # NoRequest => status[active[a]] \in {"running", "returned"}
    /\ \A a, b \in Accounts : active[a] = active[b] /\ active[a] # NoRequest => a = b

\* However requests arrive and finish, no account has more than the limit waiting and
\* running ("prevent request accumulation").
QueueWithinLimit == MaxQueueDepth # 0 => \A a \in Accounts : QueueDepth(a) <= MaxQueueDepth

\* Every accepted request is answered, in whichever queue it waits, whether the jobs
\* before it succeed or throw and, of settlements, even if the chain never mines.
AcceptedIsAnswered == \A r \in Requests : status[r] = "queued" ~> status[r] = "released"

=============================================================================
