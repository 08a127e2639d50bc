---------------------------- MODULE EIP3009Token ----------------------------
(***************************************************************************)
(* The EIP-3009 tokens that payments are made in (X402X.sol and the        *)
(* IERC3009 interface): balances, and one-shot transfers authorised by a   *)
(* signature of the payer over (from, to, value, window, nonce).           *)
(*                                                                         *)
(* A signature is the membership of its message in Authorizations (or of   *)
(* its key in Cancellable).  A payer may sign anything: several messages   *)
(* with the same nonce, to any recipient and of any value.  The first one  *)
(* carried out uses the nonce up for all of them.  Every call is one       *)
(* atomic transaction; a call that reverts changes nothing, so it is no    *)
(* step.  receiveWithAuthorization carries out the same signed messages,   *)
(* by their recipients only.                                               *)
(***************************************************************************)
EXTENDS Integers, FiniteSets

CONSTANTS
    Accounts,         \* addresses that can hold tokens
    Tokens,           \* token contracts
    Nonces,           \* authorization nonces (bytes32)
    Authorizations,   \* the TransferWithAuthorization messages payers have signed
    Cancellable,      \* the <<token, authorizer, nonce>> with a signed cancellation
    InitialBalance,   \* [Tokens -> [Accounts -> Nat]]
    Shortfall,        \* [Tokens -> Nat]: what a token withholds from each transfer
    MaxTime           \* bound on the block timestamp

AuthorizationMessage ==
    [token: Tokens, from: Accounts, to: Accounts, value: Nat,
     validAfter: Nat, validBefore: Nat, nonce: Nonces]

AuthorizationKeys == Tokens \X Accounts \X Nonces

AuthorizationKey(a) == <<a.token, a.from, a.nonce>>

ASSUME TokenAssumption ==
    /\ IsFiniteSet(Accounts)
    /\ Authorizations \subseteq AuthorizationMessage
    /\ Cancellable \subseteq AuthorizationKeys
    /\ InitialBalance \in [Tokens -> [Accounts -> Nat]]
    /\ Shortfall \in [Tokens -> Nat]
    /\ MaxTime \in Nat

VARIABLES
    balances,             \* balances[token][account]
    authorizationState,   \* the <<token, authorizer, nonce>> whose nonce is used
    executed,             \* the messages carried out (the token's log of transfers)
    now                   \* block timestamp

tokenVars == <<balances, authorizationState, executed, now>>

TokenTypeOK ==
    /\ balances \in [Tokens -> [Accounts -> Nat]]
    /\ authorizationState \subseteq AuthorizationKeys
    /\ executed \subseteq Authorizations
    /\ now \in Nat

TokenInit ==
    /\ balances = InitialBalance
    /\ authorizationState = {}
    /\ executed = {}
    /\ now = 0

\* What the recipient of a transfer of amount is credited.
Credited(t, amount) ==
    IF amount > Shortfall[t] THEN amount - Shortfall[t] ELSE 0

\* The balances b of token t after a transfer of amount from src to dst
\* (src and dst may be the same account).
Transfer(t, b, src, dst, amount) ==
    [[b EXCEPT ![src] = @ - amount] EXCEPT ![dst] = @ + Credited(t, amount)]

\* Mutant: the nonce is not checked.
AuthorizedAgain(a) ==
    /\ a \in Authorizations
    /\ a.validAfter <= now
    /\ now < a.validBefore
    /\ a.value <= balances[a.token][a.from]

\* The guards of transferWithAuthorization: signature, window, fresh nonce, and
\* the balance _transfer needs.
Authorized(a) ==
    /\ a \in Authorizations
    /\ a.validAfter <= now
    /\ now < a.validBefore
    /\ AuthorizationKey(a) \notin authorizationState
    /\ a.value <= balances[a.token][a.from]

\* Anyone holding the signature submits it to the token directly instead of
\* through the router.
TransferWithAuthorization(a) ==
    /\ Authorized(a)
    /\ authorizationState' = authorizationState \cup {AuthorizationKey(a)}
    /\ executed' = executed \cup {a}
    /\ balances' = [balances EXCEPT ![a.token] =
                       Transfer(a.token, @, a.from, a.to, a.value)]
    /\ UNCHANGED now

\* The payer withdraws a nonce that has not been used.
CancelAuthorization(k) ==
    /\ k \in Cancellable
    /\ k \notin authorizationState
    /\ authorizationState' = authorizationState \cup {k}
    /\ UNCHANGED <<balances, executed, now>>

\* A plain ERC-20 transfer.
PlainTransfer(t, src, dst, amount) ==
    /\ amount <= balances[t][src]
    /\ balances' = [balances EXCEPT ![t] = Transfer(t, @, src, dst, amount)]
    /\ UNCHANGED <<authorizationState, executed, now>>

\* The next block has a later timestamp.
Tick ==
    /\ now < MaxTime
    /\ now' = now + 1
    /\ UNCHANGED <<balances, authorizationState, executed>>

=============================================================================
