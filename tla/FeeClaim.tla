------------------------------ MODULE FeeClaim ------------------------------
(***************************************************************************)
(* facilitator/src/fee-claim.ts: querying and claiming the fees that the   *)
(* routers hold for the facilitator's accounts, network by network.        *)
(*                                                                         *)
(* Every RPC call is a job of the network's account pool (AccountPool),    *)
(* an action each here.  Settlements use the same pools, so the account a  *)
(* job runs on may be any, under either selection strategy.  One token     *)
(* (USDC) is supported on each network.  Fees found for one account and    *)
(* one network name form a group: more than one if a request repeats the   *)
(* name, which the route allows.                                           *)
(***************************************************************************)
EXTENDS Integers, Sequences, FiniteSets, Functions

CONSTANTS
    NumAccounts,   \* accounts in every pool
    Networks,      \* CAIP-2 network identifiers, which contain a colon
    NetworkNames,  \* these, and the aliases of some
    CanonicalOf,   \* [NetworkNames -> Networks]
    Pools,         \* sequence of the networks that have a pool and a router
    Calls,         \* calls of claimFees
    ClaimRequests, \* what they may ask for
    NoFilter,
    MinClaim,      \* minClaimAmount of the token
    MaxFees        \* bound: what an account can earn on a network

Accounts == 0 .. NumAccounts - 1

\* "tokens" are the networks whose token is asked for: all of them without a filter.
Request == [networks: Seq(NetworkNames) \cup {NoFilter}, tokens: SUBSET Networks]

ASSUME FeeClaimAssumption ==
    /\ NumAccounts \in Nat \ {0}
    /\ Networks \subseteq NetworkNames
    /\ CanonicalOf \in [NetworkNames -> Networks]
    /\ \A n \in Networks : CanonicalOf[n] = n
    /\ Pools \in Seq(Networks) /\ IsInjective(Pools)
    /\ ClaimRequests \subseteq Request
    /\ MinClaim \in Nat
    /\ MaxFees \in Nat

VARIABLES
    asked,        \* asked[call]: its request
    pendingFees,  \* pendingFees[network][account], in the routers
    earned,       \* all that has been added to it
    stage,        \* stage[call]: "idle", "query", "claim", "confirm" or "done"
    position,     \* position[call] in the targets, then in the fees found
    found,        \* found[call]: what getPendingFees returns
    sent,         \* sent[call]: claims broadcast, see Claim
    results       \* results[call]: the claims of the response

claimVars == <<asked, pendingFees, earned, stage, position, found, sent, results>>

Fee == [name: NetworkNames, account: Accounts, amount: Nat]
\* "fee" is the position of the first fee of the group it is for, "paid" what it has moved.
Claim == [fee: Nat \ {0}, account: Accounts, mined: BOOLEAN, paid: Nat]
Result == [fee: Nat \ {0}, status: {"success", "failed"}]

ClaimTypeOK ==
    /\ asked \in [Calls -> ClaimRequests]
    /\ pendingFees \in [Networks -> [Accounts -> Nat]]
    /\ earned \in [Networks -> [Accounts -> Nat]]
    /\ stage \in [Calls -> {"idle", "query", "claim", "confirm", "done"}]
    /\ position \in [Calls -> Nat \ {0}]
    /\ found \in [Calls -> Seq(Fee)]
    /\ sent \in [Calls -> SUBSET Claim]
    /\ results \in [Calls -> SUBSET Result]

ClaimInit ==
    /\ asked \in [Calls -> ClaimRequests]
    /\ pendingFees = [n \in Networks |-> [a \in Accounts |-> 0]]
    /\ earned = [n \in Networks |-> [a \in Accounts |-> 0]]
    /\ stage = [c \in Calls |-> "idle"]
    /\ position = [c \in Calls |-> 1]
    /\ found = [c \in Calls |-> <<>>]
    /\ sent = [c \in Calls |-> {}]
    /\ results = [c \in Calls |-> {}]

\* A settlement adds a fee (SettlementRouter).
Earn(n, a) ==
    /\ earned[n][a] < MaxFees
    /\ earned' = [earned EXCEPT ![n][a] = @ + 1]
    /\ pendingFees' = [pendingFees EXCEPT ![n][a] = @ + 1]
    /\ UNCHANGED <<asked, stage, position, found, sent, results>>

-----------------------------------------------------------------------------
(* getPendingFees *)

Targets(c) == IF asked[c].networks = NoFilter THEN Pools ELSE asked[c].networks

\* The loops over networks and accounts, as one: the network and the account at k.
TargetName(c, k) == Targets(c)[((k - 1) \div NumAccounts) + 1]
TargetAccount(k) == (k - 1) % NumAccounts
NumTargets(c) == Len(Targets(c)) * NumAccounts

Begin(c) ==
    /\ stage[c] = "idle"
    /\ stage' = [stage EXCEPT ![c] = "query"]
    /\ UNCHANGED <<asked, pendingFees, earned, position, found, sent, results>>

\* Mutant: the smallest amounts are claimed as well.
AnyAmount(amount) == amount > 0

WorthClaiming(amount) == amount >= MinClaim /\ amount > 0

Query(c) ==
    LET name    == TargetName(c, position[c])
        account == TargetAccount(position[c])
        amount  == pendingFees[CanonicalOf[name]][account]
    IN  /\ stage[c] = "query"
        /\ position[c] <= NumTargets(c)
        /\ CanonicalOf[name] \in Range(Pools)
        /\ found' = IF WorthClaiming(amount)
                    THEN [found EXCEPT ![c] = Append(@, [name |-> name, account |-> account,
                                                         amount |-> amount])]
                    ELSE found
        /\ position' = [position EXCEPT ![c] = @ + 1]
        /\ UNCHANGED <<asked, pendingFees, earned, stage, sent, results>>

\* No pool for the network, or the job was refused or failed: nothing found.
QueryNothing(c) ==
    /\ stage[c] = "query"
    /\ position[c] <= NumTargets(c)
    /\ position' = [position EXCEPT ![c] = @ + 1]
    /\ UNCHANGED <<asked, pendingFees, earned, stage, found, sent, results>>

QueryDone(c) ==
    /\ stage[c] = "query"
    /\ position[c] > NumTargets(c)
    /\ stage' = [stage EXCEPT ![c] = "claim"]
    /\ position' = [position EXCEPT ![c] = 1]
    /\ UNCHANGED <<asked, pendingFees, earned, found, sent, results>>

-----------------------------------------------------------------------------
(* claimFees *)

SameGroup(c, j, k) ==
    found[c][j].name = found[c][k].name /\ found[c][j].account = found[c][k].account

\* Mutant: every fee is claimed by itself.
LeadsAlways(c, k) == TRUE

\* The fee at k opens its group: groups are claimed in the order of their first fees.
Leads(c, k) == \A j \in 1 .. k - 1 : ~ SameGroup(c, j, k)

Group(c, k) == {j \in 1 .. Len(found[c]) : SameGroup(c, j, k)}

\* The network as taken out of the key "account:network" by splitting it at its colons:
\* an identifier with a colon of its own comes out as its first half, which names no pool.
NetworkOfKey(name) == IF name \in Networks THEN {} ELSE {CanonicalOf[name]} \cap Range(Pools)

Claimable(c, k) ==
    /\ NetworkOfKey(found[c][k].name) # {}
    /\ CanonicalOf[found[c][k].name] \in asked[c].tokens

\* One result for each fee of the group.
Record(c, status) ==
    results' = [results EXCEPT ![c] =
        @ \cup {[fee |-> k, status |-> status] : k \in Group(c, position[c])}]

\* The fee belongs to a group that has been seen to, or its network has no pool, or its
\* token is not asked for: on to the next fee, and no result.
SkipFee(c) ==
    /\ stage[c] = "claim" /\ position[c] <= Len(found[c])
    /\ ~ Leads(c, position[c]) \/ ~ Claimable(c, position[c])
    /\ position' = [position EXCEPT ![c] = @ + 1]
    /\ UNCHANGED <<asked, pendingFees, earned, stage, found, sent, results>>

\* The loop has come to the first fee of a group that can be claimed.
AtGroup(c) ==
    /\ stage[c] = "claim" /\ position[c] <= Len(found[c])
    /\ Leads(c, position[c])
    /\ Claimable(c, position[c])

Broadcast(c, a) ==
    sent' = [sent EXCEPT ![c] = @ \cup
                {[fee |-> position[c], account |-> a, mined |-> FALSE, paid |-> 0]}]

\* writeContract, on the account the pool has selected.
SendClaim(c, a) ==
    /\ AtGroup(c)
    /\ Broadcast(c, a)
    /\ stage' = [stage EXCEPT ![c] = "confirm"]
    /\ UNCHANGED <<asked, pendingFees, earned, position, found, results>>

\* The job is refused or writeContract throws, perhaps after the broadcast.
SendFails(c, a) ==
    /\ AtGroup(c)
    /\ Broadcast(c, a) \/ UNCHANGED sent
    /\ Record(c, "failed")
    /\ position' = [position EXCEPT ![c] = @ + 1]
    /\ UNCHANGED <<asked, pendingFees, earned, stage, found>>

\* Mutant: the receipt is not awaited.
ConfirmAnyway(c) ==
    /\ stage[c] = "confirm"
    /\ Record(c, "success")
    /\ position' = [position EXCEPT ![c] = @ + 1]
    /\ stage' = [stage EXCEPT ![c] = "claim"]
    /\ UNCHANGED <<asked, pendingFees, earned, found, sent>>

Confirm(c) ==
    /\ stage[c] = "confirm"
    /\ \E t \in sent[c] : t.fee = position[c] /\ t.mined
    /\ Record(c, "success")
    /\ position' = [position EXCEPT ![c] = @ + 1]
    /\ stage' = [stage EXCEPT ![c] = "claim"]
    /\ UNCHANGED <<asked, pendingFees, earned, found, sent>>

\* Mutant: a failed confirmation leaves no result.
ConfirmFailsSilently(c) ==
    /\ stage[c] = "confirm"
    /\ position' = [position EXCEPT ![c] = @ + 1]
    /\ stage' = [stage EXCEPT ![c] = "claim"]
    /\ UNCHANGED <<asked, pendingFees, earned, found, sent, results>>

\* The job is refused, or there is no receipt in time.
ConfirmFails(c) ==
    /\ stage[c] = "confirm"
    /\ Record(c, "failed")
    /\ position' = [position EXCEPT ![c] = @ + 1]
    /\ stage' = [stage EXCEPT ![c] = "claim"]
    /\ UNCHANGED <<asked, pendingFees, earned, found, sent>>

Respond(c) ==
    /\ stage[c] = "claim" /\ position[c] > Len(found[c])
    /\ stage' = [stage EXCEPT ![c] = "done"]
    /\ UNCHANGED <<asked, pendingFees, earned, position, found, sent, results>>

\* The router pays msg.sender all that is pending for it (SettlementRouter!ClaimFees).
Mine(c, t) ==
    LET n == CanonicalOf[found[c][t.fee].name]
    IN  /\ ~ t.mined
        /\ sent' = [sent EXCEPT ![c] = (@ \ {t}) \cup
                      {[t EXCEPT !.mined = TRUE, !.paid = pendingFees[n][t.account]]}]
        /\ pendingFees' = [pendingFees EXCEPT ![n][t.account] = 0]
        /\ UNCHANGED <<asked, earned, stage, position, found, results>>

\* One step of a call.
CallStep(c) ==
    \/ Query(c)
    \/ QueryNothing(c)
    \/ QueryDone(c)
    \/ SkipFee(c)
    \/ \E a \in Accounts : SendClaim(c, a) \/ SendFails(c, a)
    \/ Confirm(c)
    \/ ConfirmFails(c)
    \/ Respond(c)

ClaimNext ==
    \/ \E n \in Range(Pools), a \in Accounts : Earn(n, a)
    \/ \E c \in Calls : \/ Begin(c)
                        \/ CallStep(c)
                        \/ \E t \in sent[c] : Mine(c, t)

\* Every job of a pool ends (AccountPool!AcceptedIsAnswered), in an answer or an error.
ClaimSpec == ClaimInit /\ [][ClaimNext]_claimVars /\ \A c \in Calls : WF_claimVars(CallStep(c))

-----------------------------------------------------------------------------
(* Properties *)

\* The account of a network whose fees claim t of call c takes: the router pays msg.sender.
Takes(c, t) == <<CanonicalOf[found[c][t.fee].name], t.account>>

\* The account that the fee at k of call c is owed to.
Owner(c, k) == <<CanonicalOf[found[c][k].name], found[c][k].account>>

\* A claim for another group, perhaps of another call, has taken what was pending for the
\* owner of the fee at k.
TakenByOther(c, k) ==
    \E d \in Calls : \E u \in sent[d] :
        u.mined /\ Takes(d, u) = Owner(c, k) /\ ~ (d = c /\ SameGroup(c, u.fee, k))

\* A result that says "success" is of a claim that was mined, and the amount it reports
\* ("Amount claimed", ClaimResult) was moved by it, unless the pool had selected another
\* account than the owner of the fee, or another claim for the owner was mined: fees that
\* arrive late only add to it, and a failed claim that was mined all the same is the only
\* other reason.
SuccessMoved ==
    \A c \in Calls : \A r \in results[c] :
        r.status = "success" =>
            \E t \in sent[c] :
                /\ SameGroup(c, t.fee, r.fee) /\ t.mined
                /\ \/ t.paid >= found[c][r.fee].amount
                   \/ Takes(c, t) # Owner(c, r.fee)
                   \/ TakenByOther(c, r.fee)

\* The same without these exceptions, as the response is read: it fails, see
\* MCFeeClaimAccounts.
ReportedWasPaid ==
    \A c \in Calls : \A r \in results[c] :
        r.status = "success" =>
            \E t \in sent[c] :
                SameGroup(c, t.fee, r.fee) /\ t.mined /\ t.paid >= found[c][r.fee].amount

\* A claim that is mined for the owner of its fees moves what is worth claiming ("Minimum
\* claim amount per token"), however long after the query, and whether or not the call
\* still waits for it, unless another claim has taken it.
ClaimsWorthwhile ==
    \A c \in Calls : \A t \in sent[c] :
        t.mined /\ Takes(c, t) = Owner(c, t.fee) =>
            (t.paid > 0 /\ t.paid >= MinClaim) \/ TakenByOther(c, t.fee)

\* However often a request names a network, and whatever fails, a call sends no second
\* claim for an account under the same name of its network.
ClaimedOnce ==
    \A c \in Calls : \A t, u \in sent[c] : SameGroup(c, t.fee, u.fee) => t = u

\* A call is answered, whatever its jobs run into.  Each fee found whose network can be
\* told from the key and whose token is asked for has one result, though others of the
\* call fail or share its group; any other fee has none.  Networks found by their
\* identifier cannot be told from the key: a call for all networks gets no result at all,
\* against "claims from all if not provided" (ClaimFeesRequest).
CallsAnswered ==
    \A c \in Calls :
        stage[c] = "query" ~>
            /\ stage[c] = "done"
            /\ \A k \in DOMAIN found[c] :
                  IF Claimable(c, k)
                  THEN \E r \in results[c] : \A q \in results[c] : q.fee = k <=> q = r
                  ELSE \A q \in results[c] : q.fee # k
            /\ asked[c].networks = NoFilter => results[c] = {}

=============================================================================
