---------------------- MODULE SettlementServiceProofs -----------------------
(***************************************************************************)
(* Proofs about AccountPool and SettlementService, for any number of       *)
(* accounts, requests, payers and payments.  What the pool's steps keep    *)
(* whatever its jobs do is proved first, without the pool's fairness, so   *)
(* that the settlements that run as its jobs inherit it.                   *)
(***************************************************************************)
EXTENDS SettlementService, UnitCountingProofs

-----------------------------------------------------------------------------
(* The inductive invariant: what makes the payer lock exact is that a queue only *)
(* holds requests that have not been started, each in one place.                 *)

QueuedStatus ==
    \A a \in Accounts : \A k \in 1 .. Len(queue[a]) : status[queue[a][k]] = "queued"

QueuedOnce ==
    \A a, b \in Accounts : \A j \in 1 .. Len(queue[a]), k \in 1 .. Len(queue[b]) :
        queue[a][j] = queue[b][k] => a = b /\ j = k

IInv ==
    /\ TypeOK
    /\ QueuedStatus
    /\ QueuedOnce
    /\ PendingPayersExact
    /\ OneRequestPerPayer

-----------------------------------------------------------------------------
(* Lemmas *)

\* The payer lock only depends on which requests are in flight.
LEMMA LockKept ==
    ASSUME PendingPayersExact, OneRequestPerPayer,
           InFlight' = InFlight, UNCHANGED pendingPayers
    PROVE  PendingPayersExact' /\ OneRequestPerPayer'
BY DEF PendingPayersExact, OneRequestPerPayer, Payers

\* The queues only depend on the status of the requests in them.
LEMMA QueuesKept ==
    ASSUME TypeOK, QueuedStatus, QueuedOnce, UNCHANGED queue,
           \A r \in Requests : status[r] = "queued" => status'[r] = "queued"
    PROVE  QueuedStatus' /\ QueuedOnce'
<1>1. \A a \in Accounts : \A k \in 1 .. Len(queue[a]) : queue[a][k] \in Requests
  BY DEF TypeOK
<1>. QED  BY <1>1 DEF QueuedStatus, QueuedOnce

\* The round robin index and the queue lengths are typed.
LEMMA SelectTyped ==
    ASSUME PoolAssumption, roundRobinIndex \in Accounts, NEW a \in Accounts, SelectAccount(a)
    PROVE  roundRobinIndex' \in Accounts
<1>1. CASE RoundRobin
  <2>1. NumAccounts \in Nat /\ NumAccounts > 0 /\ roundRobinIndex + 1 \in Nat
    BY DEF PoolAssumption, Accounts
  <2>2. (roundRobinIndex + 1) % NumAccounts \in 0 .. NumAccounts - 1
    BY <2>1, Z3
  <2>. QED  BY <1>1, <2>2 DEF SelectAccount, Accounts
<1>2. CASE ~ RoundRobin
  BY <1>2 DEF SelectAccount
<1>. QED  BY <1>1, <1>2

\* Starting the head of a queue.
LEMMA HeadStarts ==
    ASSUME IInv, NEW a \in Accounts, queue[a] # <<>>,
           queue' = [queue EXCEPT ![a] = Tail(@)],
           status' = [status EXCEPT ![Head(queue[a])] = "running"]
    PROVE  /\ Head(queue[a]) \in Requests
           /\ queue' \in [Accounts -> Seq(Requests)]
           /\ status' \in [Requests -> Statuses]
           /\ QueuedStatus' /\ QueuedOnce'
           /\ InFlight' = InFlight
<1>. DEFINE h == Head(queue[a])
<1>1. /\ queue \in [Accounts -> Seq(Requests)] /\ status \in [Requests -> Statuses]
      /\ queue[a] \in Seq(Requests)
  BY DEF IInv, TypeOK
<1>2. /\ h \in Requests /\ Tail(queue[a]) \in Seq(Requests)
      /\ Len(queue[a]) \in Nat /\ Len(queue[a]) >= 1 /\ h = queue[a][1]
      /\ Len(Tail(queue[a])) = Len(queue[a]) - 1
      /\ \A k \in 1 .. Len(Tail(queue[a])) : Tail(queue[a])[k] = queue[a][k + 1]
  BY <1>1
<1>3. queue' \in [Accounts -> Seq(Requests)] /\ status' \in [Requests -> Statuses]
  BY <1>1, <1>2 DEF Statuses
<1>4. status[h] = "queued"
  BY <1>2 DEF IInv, QueuedStatus
<1>. HIDE DEF h
\* Every entry of the new queues is an entry of the old ones, other than the first of a.
<1>5. ASSUME NEW b \in Accounts, NEW k \in 1 .. Len(queue'[b])
      PROVE  \E j \in 1 .. Len(queue[b]) :
                /\ queue'[b][k] = queue[b][j]
                /\ j = IF b = a THEN k + 1 ELSE k
  <2>1. CASE b = a
    <3>1. queue'[a] = Tail(queue[a])
      BY <1>1
    <3>2. k \in 1 .. (Len(queue[a]) - 1)
      BY <1>2, <2>1, <3>1
    <3>3. k + 1 \in 1 .. Len(queue[b])
      BY <1>2, <2>1, <3>2
    <3>. QED  BY <1>2, <2>1, <3>1, <3>2, <3>3
  <2>2. CASE b # a
    <3>1. queue'[b] = queue[b]
      BY <1>1, <2>2
    <3>. QED  BY <2>2, <3>1
  <2>. QED  BY <2>1, <2>2
<1>6. QueuedStatus'
  <2>1. ASSUME NEW b \in Accounts, NEW k \in 1 .. Len(queue'[b])
        PROVE  status'[queue'[b][k]] = "queued"
    <3>1. PICK j \in 1 .. Len(queue[b]) :
              queue'[b][k] = queue[b][j] /\ j = IF b = a THEN k + 1 ELSE k
      BY <1>5
    <3>2. queue[b][j] # h
      <4>1. ~ (b = a /\ j = 1)
        BY <3>1
      <4>2. 1 \in 1 .. Len(queue[a])
        BY <1>2
      <4>. QED  BY <1>2, <4>1, <4>2 DEF IInv, QueuedOnce, h
    <3>3. queue[b][j] \in Requests
      BY <1>1
    <3>4. status[queue[b][j]] = "queued"
      BY DEF IInv, QueuedStatus
    <3>. QED  BY <1>1, <3>1, <3>2, <3>3, <3>4 DEF h
  <2>. QED  BY <2>1 DEF QueuedStatus
<1>7. QueuedOnce'
  <2>1. ASSUME NEW b \in Accounts, NEW c \in Accounts,
               NEW j \in 1 .. Len(queue'[b]), NEW k \in 1 .. Len(queue'[c]),
               queue'[b][j] = queue'[c][k]
        PROVE  b = c /\ j = k
    <3>1. PICK m \in 1 .. Len(queue[b]) :
              queue'[b][j] = queue[b][m] /\ m = IF b = a THEN j + 1 ELSE j
      BY <1>5
    <3>2. PICK n \in 1 .. Len(queue[c]) :
              queue'[c][k] = queue[c][n] /\ n = IF c = a THEN k + 1 ELSE k
      BY <1>5
    <3>3. b = c /\ m = n
      BY <2>1, <3>1, <3>2 DEF IInv, QueuedOnce
    <3>4. j \in Int /\ k \in Int
      OBVIOUS
    <3>. QED  BY <3>1, <3>2, <3>3, <3>4
  <2>. QED  BY <2>1 DEF QueuedOnce
<1>8. InFlight' = InFlight
  BY <1>1, <1>2, <1>4 DEF InFlight, h
<1>. QED  BY <1>2, <1>3, <1>6, <1>7, <1>8 DEF h

-----------------------------------------------------------------------------
(* The invariant is inductive *)

LEMMA InitIInv == ASSUME PoolAssumption, Init PROVE IInv
<1>1. 0 \in Accounts
  BY DEF PoolAssumption, Accounts
<1>2. TypeOK
  BY <1>1 DEF Init, TypeOK, Statuses
<1>3. QueuedStatus /\ QueuedOnce
  BY DEF Init, QueuedStatus, QueuedOnce
<1>4. InFlight = {}
  BY DEF Init, InFlight
<1>5. PendingPayersExact /\ OneRequestPerPayer
  BY <1>4 DEF Init, PendingPayersExact, OneRequestPerPayer
<1>. QED  BY <1>2, <1>3, <1>5 DEF IInv

LEMMA AcceptKeeps ==
    ASSUME PoolAssumption, IInv, NEW r \in Requests, status[r] = "new",
           NEW a \in Accounts, Accept(r, a)
    PROVE  IInv'
<1>1. /\ queue \in [Accounts -> Seq(Requests)] /\ status \in [Requests -> Statuses]
      /\ status' = [status EXCEPT ![r] = "queued"]
      /\ queue' = [queue EXCEPT ![a] = Append(@, r)]
      /\ pendingPayers' = pendingPayers \cup Payers(r)
      /\ UNCHANGED <<active, processed>>
      /\ ~ HasPendingPayer(r)
  BY DEF IInv, TypeOK, Accept
<1>2. /\ queue[a] \in Seq(Requests) /\ Len(queue[a]) \in Nat
      /\ queue'[a] = Append(queue[a], r) /\ Append(queue[a], r) \in Seq(Requests)
      /\ Len(queue'[a]) = Len(queue[a]) + 1
      /\ queue'[a][Len(queue[a]) + 1] = r
      /\ \A k \in 1 .. Len(queue[a]) : queue'[a][k] = queue[a][k]
      /\ \A b \in Accounts \ {a} : queue'[b] = queue[b]
  BY <1>1
<1>3. TypeOK'
  <2>1. roundRobinIndex' \in Accounts
    BY SelectTyped DEF IInv, TypeOK, Accept
  <2>2. Payers(r) \subseteq {PayerOf[s] : s \in Requests}
    BY DEF Payers
  <2>3. queue' \in [Accounts -> Seq(Requests)]
    BY <1>1, <1>2
  <2>. QED  BY <1>1, <2>1, <2>2, <2>3 DEF IInv, TypeOK, Statuses
\* Every entry of the new queues is r at the end of a or an entry of the old ones.
<1>4. ASSUME NEW b \in Accounts, NEW k \in 1 .. Len(queue'[b])
      PROVE  \/ b = a /\ k = Len(queue[a]) + 1 /\ queue'[b][k] = r
             \/ k \in 1 .. Len(queue[b]) /\ queue'[b][k] = queue[b][k]
  <2>1. CASE b = a
    BY <1>2, <2>1
  <2>2. CASE b # a
    BY <1>2, <2>2
  <2>. QED  BY <2>1, <2>2
<1>5. \A b \in Accounts : \A k \in 1 .. Len(queue[b]) :
          status[queue[b][k]] = "queued" /\ queue[b][k] # r /\ queue[b][k] \in Requests
  BY <1>1 DEF IInv, QueuedStatus
<1>6. QueuedStatus'
  <2>1. ASSUME NEW b \in Accounts, NEW k \in 1 .. Len(queue'[b])
        PROVE  status'[queue'[b][k]] = "queued"
    BY <1>1, <1>4, <1>5
  <2>. QED  BY <2>1 DEF QueuedStatus
<1>7. QueuedOnce'
  <2>1. ASSUME NEW b \in Accounts, NEW c \in Accounts,
               NEW j \in 1 .. Len(queue'[b]), NEW k \in 1 .. Len(queue'[c]),
               queue'[b][j] = queue'[c][k]
        PROVE  b = c /\ j = k
    BY <1>4, <1>5, <2>1 DEF IInv, QueuedOnce
  <2>. QED  BY <2>1 DEF QueuedOnce
<1>8. InFlight' = InFlight \cup {r}
  BY <1>1 DEF InFlight
<1>9. PendingPayersExact'
  BY <1>1, <1>8 DEF IInv, PendingPayersExact
<1>10. \A s \in InFlight : PayerOf[s] = PayerOf[r] => PayerOf[r] = NoPayer
  BY <1>1 DEF IInv, PendingPayersExact, HasPendingPayer, Payers
<1>11. OneRequestPerPayer'
  BY <1>8, <1>10 DEF IInv, OneRequestPerPayer
<1>. QED  BY <1>3, <1>6, <1>7, <1>9, <1>11 DEF IInv

\* A rejected call changes nothing but its own status and the round robin index.
LEMMA RejectKeeps ==
    ASSUME PoolAssumption, IInv, NEW r \in Requests, status[r] = "new",
           NEW st \in {"duplicate", "overloaded"}, status' = [status EXCEPT ![r] = st],
           roundRobinIndex' \in Accounts,
           UNCHANGED <<queue, active, pendingPayers, processed>>
    PROVE  IInv'
<1>1. TypeOK'
  BY DEF IInv, TypeOK, Statuses
<1>2. QueuedStatus' /\ QueuedOnce'
  <2>1. \A s \in Requests : status[s] = "queued" => status'[s] = "queued"
    BY DEF IInv, TypeOK
  <2>. QED  BY <2>1, QueuesKept DEF IInv
<1>3. InFlight' = InFlight
  BY DEF IInv, TypeOK, InFlight
<1>. QED  BY <1>1, <1>2, <1>3, LockKept DEF IInv

LEMMA ExecuteKeeps ==
    ASSUME PoolAssumption, IInv, NEW r \in Requests, Execute(r) PROVE IInv'
<1>1. status[r] = "new"
  BY DEF Execute
<1>2. CASE RejectDuplicate(r)
  BY <1>1, <1>2, RejectKeeps DEF RejectDuplicate, IInv, TypeOK
<1>3. ASSUME NEW a \in Accounts, RejectOverload(r, a) PROVE IInv'
  <2>1. roundRobinIndex' \in Accounts
    BY <1>3, SelectTyped DEF RejectOverload, IInv, TypeOK
  <2>. QED  BY <1>1, <1>3, <2>1, RejectKeeps DEF RejectOverload
<1>4. ASSUME NEW a \in Accounts, Accept(r, a) PROVE IInv'
  BY <1>1, <1>4, AcceptKeeps
<1>. QED  BY <1>2, <1>3, <1>4 DEF Execute

LEMMA StartNextKeeps ==
    ASSUME PoolAssumption, IInv, NEW a \in Accounts, StartNext(a) PROVE IInv'
<1>1. /\ Head(queue[a]) \in Requests /\ queue' \in [Accounts -> Seq(Requests)]
      /\ status' \in [Requests -> Statuses]
      /\ QueuedStatus' /\ QueuedOnce' /\ InFlight' = InFlight
  BY HeadStarts DEF StartNext
<1>2. TypeOK'
  BY <1>1 DEF StartNext, IInv, TypeOK
<1>. QED  BY <1>1, <1>2, LockKept DEF StartNext, IInv

LEMMA ReturnKeeps ==
    ASSUME PoolAssumption, IInv, NEW a \in Accounts, NEW ok \in BOOLEAN, Return(a, ok)
    PROVE  IInv'
<1>1. /\ active[a] \in Requests /\ status[active[a]] = "running"
      /\ status' = [status EXCEPT ![active[a]] = "returned"]
      /\ UNCHANGED <<queue, active, pendingPayers, roundRobinIndex>>
  BY DEF Return, IInv, TypeOK
<1>2. processed' \in [Accounts -> Nat]
  BY DEF Return, IInv, TypeOK
<1>3. TypeOK'
  BY <1>1, <1>2 DEF IInv, TypeOK, Statuses
<1>4. QueuedStatus' /\ QueuedOnce'
  <2>1. \A s \in Requests : status[s] = "queued" => status'[s] = "queued"
    BY <1>1 DEF IInv, TypeOK
  <2>. QED  BY <1>1, <2>1, QueuesKept DEF IInv
<1>5. InFlight' = InFlight
  BY <1>1 DEF IInv, TypeOK, InFlight
<1>. QED  BY <1>1, <1>3, <1>4, <1>5, LockKept DEF IInv

LEMMA FreeSlotKeeps ==
    ASSUME PoolAssumption, IInv, NEW a \in Accounts, FreeSlot(a) PROVE IInv'
<1>1. CASE queue[a] = <<>>
  <2>1. /\ active' = [active EXCEPT ![a] = NoRequest]
        /\ UNCHANGED <<queue, status, pendingPayers, roundRobinIndex, processed>>
    BY <1>1 DEF FreeSlot
  <2>2. TypeOK'
    BY <2>1 DEF IInv, TypeOK
  <2>3. InFlight' = InFlight
    BY <2>1 DEF InFlight
  <2>. QED  BY <2>1, <2>2, <2>3, QueuesKept, LockKept DEF IInv
<1>2. CASE queue[a] # <<>>
  <2>1. /\ active' = [active EXCEPT ![a] = Head(queue[a])]
        /\ queue' = [queue EXCEPT ![a] = Tail(@)]
        /\ status' = [status EXCEPT ![Head(queue[a])] = "running"]
        /\ UNCHANGED <<pendingPayers, roundRobinIndex, processed>>
    BY <1>2 DEF FreeSlot
  <2>2. /\ Head(queue[a]) \in Requests /\ queue' \in [Accounts -> Seq(Requests)]
        /\ status' \in [Requests -> Statuses]
        /\ QueuedStatus' /\ QueuedOnce' /\ InFlight' = InFlight
    BY <1>2, <2>1, HeadStarts
  <2>3. TypeOK'
    BY <2>1, <2>2 DEF IInv, TypeOK
  <2>. QED  BY <2>1, <2>2, <2>3, LockKept DEF IInv
<1>. QED  BY <1>1, <1>2

LEMMA ReleaseKeeps ==
    ASSUME PoolAssumption, IInv, NEW r \in Requests, Release(r) PROVE IInv'
<1>1. /\ status[r] = "returned" /\ status' = [status EXCEPT ![r] = "released"]
      /\ pendingPayers' = pendingPayers \ Payers(r)
      /\ UNCHANGED <<queue, active, roundRobinIndex, processed>>
      /\ status \in [Requests -> Statuses]
  BY DEF Release, IInv, TypeOK
<1>2. TypeOK'
  BY <1>1 DEF IInv, TypeOK, Statuses
<1>3. QueuedStatus' /\ QueuedOnce'
  <2>1. \A s \in Requests : status[s] = "queued" => status'[s] = "queued"
    BY <1>1
  <2>. QED  BY <1>1, <2>1, QueuesKept DEF IInv
<1>4. InFlight' = InFlight \ {r} /\ r \in InFlight
  BY <1>1 DEF InFlight
<1>5. \A s \in InFlight \ {r} : Payers(s) \cap Payers(r) = {}
  BY <1>4 DEF IInv, OneRequestPerPayer, Payers
<1>6. PendingPayersExact'
  <2>1. pendingPayers = (UNION {Payers(s) : s \in InFlight \ {r}}) \cup Payers(r)
    BY <1>4 DEF IInv, PendingPayersExact
  <2>. QED  BY <1>1, <1>4, <1>5, <2>1 DEF PendingPayersExact
<1>7. OneRequestPerPayer'
  BY <1>4 DEF IInv, OneRequestPerPayer
<1>. QED  BY <1>2, <1>3, <1>6, <1>7 DEF IInv

LEMMA NextKeeps == ASSUME PoolAssumption, IInv, [Next]_poolVars PROVE IInv'
<1>1. ASSUME NEW r \in Requests, Execute(r) PROVE IInv'
  BY <1>1, ExecuteKeeps
<1>2. ASSUME NEW r \in Requests, Release(r) PROVE IInv'
  BY <1>2, ReleaseKeeps
<1>3. ASSUME NEW a \in Accounts, StartNext(a) PROVE IInv'
  BY <1>3, StartNextKeeps
<1>4. ASSUME NEW a \in Accounts, NEW ok \in BOOLEAN, Return(a, ok) PROVE IInv'
  BY <1>4, ReturnKeeps
<1>5. ASSUME NEW a \in Accounts, FreeSlot(a) PROVE IInv'
  BY <1>5, FreeSlotKeeps
<1>6. CASE UNCHANGED poolVars
  <2>1. UNCHANGED <<status, queue, active, pendingPayers, roundRobinIndex, processed>>
    BY <1>6 DEF poolVars
  <2>2. TypeOK'
    BY <2>1 DEF IInv, TypeOK
  <2>3. InFlight' = InFlight
    BY <2>1 DEF InFlight
  <2>. QED  BY <2>1, <2>2, <2>3, QueuesKept, LockKept DEF IInv
<1>. QED  BY <1>1, <1>2, <1>3, <1>4, <1>5, <1>6 DEF Next

LEMMA Inductive == Init /\ [][Next]_poolVars => []IInv
<1>1. Init => IInv
  BY PoolAssumption, InitIInv
<1>2. IInv /\ [Next]_poolVars => IInv'
  BY PoolAssumption, NextKeeps
<1>. QED  BY <1>1, <1>2, PTL

-----------------------------------------------------------------------------
(* Theorems *)

\* Every reachable state of the pool is well typed; in particular the round robin index
\* always names an account (selectAccount).
THEOREM PoolTypeCorrect == Spec => []TypeOK
<1>1. IInv => TypeOK
  BY DEF IInv
<1>. QED  BY <1>1, Inductive, PTL DEF Spec

\* No payer ever has two requests in flight in a pool of any size (execute, "Check for
\* duplicate payer before selecting account").
THEOREM PayerHasOneRequest == Spec => []OneRequestPerPayer
<1>1. IInv => OneRequestPerPayer
  BY DEF IInv
<1>. QED  BY <1>1, Inductive, PTL DEF Spec

\* A payer is marked as pending exactly while a request of it is in flight: the finally
\* block of execute neither leaks nor frees a payer too early.
THEOREM PayerLockExact == Spec => []PendingPayersExact
<1>1. IInv => PendingPayersExact
  BY DEF IInv
<1>. QED  BY <1>1, Inductive, PTL DEF Spec

-----------------------------------------------------------------------------
(* The queue limit *)

\* The depth of a queue q whose slot is held by s.
DepthOf(q, s) == Len(q) + (IF s = NoRequest THEN 0 ELSE 1)

LEMMA DepthBounds ==
    ASSUME NEW q \in Seq(Requests), NEW s
    PROVE  /\ Len(q) \in Nat /\ DepthOf(q, s) \in Nat
           /\ DepthOf(q, s) >= Len(q) /\ DepthOf(q, s) <= Len(q) + 1
<1>1. Len(q) \in Nat
  OBVIOUS
<1>2. CASE s = NoRequest
  <2>1. DepthOf(q, s) = Len(q)
    BY <1>1, <1>2 DEF DepthOf
  <2>. QED  BY <1>1, <2>1
<1>3. CASE s # NoRequest
  <2>1. DepthOf(q, s) = Len(q) + 1
    BY <1>3 DEF DepthOf
  <2>. QED  BY <1>1, <2>1
<1>. QED  BY <1>2, <1>3

\* A request more in the queue is one more in its depth.
LEMMA DepthOfAppend ==
    ASSUME NEW q \in Seq(Requests), NEW s, NEW r \in Requests
    PROVE  DepthOf(Append(q, r), s) = DepthOf(q, s) + 1
<1>1. Len(q) \in Nat /\ Len(Append(q, r)) = Len(q) + 1
  OBVIOUS
<1>2. CASE s = NoRequest
  <2>1. DepthOf(q, s) = Len(q) /\ DepthOf(Append(q, r), s) = Len(q) + 1
    BY <1>1, <1>2 DEF DepthOf
  <2>. QED  BY <1>1, <2>1
<1>3. CASE s # NoRequest
  <2>1. DepthOf(q, s) = Len(q) + 1 /\ DepthOf(Append(q, r), s) = Len(q) + 1 + 1
    BY <1>1, <1>3 DEF DepthOf
  <2>. QED  BY <1>1, <2>1
<1>. QED  BY <1>2, <1>3

LEMMA LimitInductive ==
    ASSUME PoolAssumption, IInv, QueueWithinLimit, [Next]_poolVars
    PROVE  QueueWithinLimit'
<1>. SUFFICES ASSUME MaxQueueDepth # 0, NEW b \in Accounts
              PROVE  QueueDepth(b)' <= MaxQueueDepth
  BY DEF QueueWithinLimit, MaxQueueDepth
<1>0. /\ MaxQueueDepth \in Nat /\ NoRequest \notin Requests
      /\ queue \in [Accounts -> Seq(Requests)] /\ queue[b] \in Seq(Requests)
      /\ active \in [Accounts -> Requests \cup {NoRequest}]
      /\ QueueDepth(b) = DepthOf(queue[b], active[b])
      /\ QueueDepth(b)' = DepthOf(queue'[b], active'[b])
      /\ QueueDepth(b) <= MaxQueueDepth /\ QueueDepth(b) \in Nat
  <2>1. QueueDepth(b) = DepthOf(queue[b], active[b])
    BY DEF QueueDepth, DepthOf
  <2>2. QueueDepth(b)' = DepthOf(queue'[b], active'[b])
    BY DEF QueueDepth, DepthOf
  <2>3. queue[b] \in Seq(Requests)
    BY DEF IInv, TypeOK
  <2>. QED  BY <2>1, <2>2, <2>3, DepthBounds
            DEF QueueWithinLimit, MaxQueueDepth, PoolAssumption, IInv, TypeOK
<1>1. ASSUME queue'[b] = queue[b], active'[b] = active[b]
      PROVE  QueueDepth(b)' <= MaxQueueDepth
  BY <1>0, <1>1
\* The head of the queue of b moves into its slot.
<1>2. ASSUME queue[b] # <<>>, queue'[b] = Tail(queue[b])
      PROVE  QueueDepth(b)' <= MaxQueueDepth
  <2>1. /\ Len(queue[b]) \in Nat /\ Tail(queue[b]) \in Seq(Requests)
        /\ Len(Tail(queue[b])) = Len(queue[b]) - 1
    BY <1>0, <1>2
  <2>2. QueueDepth(b)' <= Len(queue[b]) - 1 + 1 /\ QueueDepth(b)' \in Nat
    <3>1. QueueDepth(b)' = DepthOf(Tail(queue[b]), active'[b])
      BY <1>0, <1>2
    <3>2. /\ DepthOf(Tail(queue[b]), active'[b]) \in Nat
          /\ DepthOf(Tail(queue[b]), active'[b]) <= Len(Tail(queue[b])) + 1
      BY <2>1, DepthBounds
    <3>. QED  BY <2>1, <3>1, <3>2
  <2>3. Len(queue[b]) <= QueueDepth(b)
    BY <1>0, DepthBounds
  <2>. QED  BY <1>0, <2>1, <2>2, <2>3
<1>3. ASSUME NEW r \in Requests, Execute(r) PROVE QueueDepth(b)' <= MaxQueueDepth
  <2>1. ASSUME NEW a \in Accounts, Accept(r, a) PROVE QueueDepth(b)' <= MaxQueueDepth
    <3>1. /\ queue' = [queue EXCEPT ![a] = Append(@, r)] /\ UNCHANGED active
          /\ ~ QueueFull(a)
      BY <2>1 DEF Accept
    <3>2. CASE a = b
      <4>1. queue'[b] = Append(queue[b], r) /\ queue[b] \in Seq(Requests)
        BY <1>0, <3>1, <3>2
      <4>2. QueueDepth(b)' = QueueDepth(b) + 1
        BY <1>0, <3>1, <4>1, DepthOfAppend
      <4>3. QueueDepth(b) < MaxQueueDepth
        BY <1>0, <3>1, <3>2 DEF QueueFull
      <4>. QED  BY <1>0, <4>2, <4>3
    <3>3. CASE a # b
      <4>1. queue'[b] = queue[b] /\ active'[b] = active[b]
        BY <1>0, <3>1, <3>3
      <4>. QED  BY <1>1, <4>1
    <3>. QED  BY <3>2, <3>3
  <2>2. CASE UNCHANGED <<queue, active>>
    BY <1>1, <2>2
  <2>. QED  BY <1>3, <2>1, <2>2 DEF Execute, RejectDuplicate, RejectOverload
<1>4. ASSUME NEW a \in Accounts, StartNext(a) PROVE QueueDepth(b)' <= MaxQueueDepth
  <2>1. /\ queue[a] # <<>> /\ queue' = [queue EXCEPT ![a] = Tail(@)]
        /\ active' = [active EXCEPT ![a] = Head(queue[a])]
    BY <1>4 DEF StartNext
  <2>2. CASE a = b
    BY <1>0, <1>2, <2>1, <2>2
  <2>3. CASE a # b
    BY <1>0, <1>1, <2>1, <2>3
  <2>. QED  BY <2>2, <2>3
<1>5. ASSUME NEW a \in Accounts, FreeSlot(a) PROVE QueueDepth(b)' <= MaxQueueDepth
  <2>1. CASE queue[a] # <<>>
    <3>1. /\ queue' = [queue EXCEPT ![a] = Tail(@)]
          /\ active' = [active EXCEPT ![a] = Head(queue[a])]
      BY <1>5, <2>1 DEF FreeSlot
    <3>2. CASE a = b
      BY <1>0, <1>2, <2>1, <3>1, <3>2
    <3>3. CASE a # b
      BY <1>0, <1>1, <3>1, <3>3
    <3>. QED  BY <3>2, <3>3
  <2>2. CASE queue[a] = <<>>
    <3>1. queue' = queue /\ active' = [active EXCEPT ![a] = NoRequest]
      BY <1>5, <2>2 DEF FreeSlot
    <3>2. CASE a = b
      <4>1. queue'[b] = <<>> /\ active'[b] = NoRequest
        BY <1>0, <2>2, <3>1, <3>2
      <4>2. QueueDepth(b)' = 0
        BY <4>1 DEF QueueDepth
      <4>. QED  BY <1>0, <4>2
    <3>3. CASE a # b
      BY <1>0, <1>1, <3>1, <3>3
    <3>. QED  BY <3>2, <3>3
  <2>. QED  BY <2>1, <2>2
<1>6. ASSUME NEW r \in Requests, Release(r) PROVE QueueDepth(b)' <= MaxQueueDepth
  BY <1>1, <1>6 DEF Release
<1>7. ASSUME NEW a \in Accounts, NEW ok \in BOOLEAN, Return(a, ok)
      PROVE  QueueDepth(b)' <= MaxQueueDepth
  BY <1>1, <1>7 DEF Return
<1>8. CASE UNCHANGED poolVars
  BY <1>1, <1>8 DEF poolVars
<1>. QED  BY <1>3, <1>4, <1>5, <1>6, <1>7, <1>8 DEF Next

LEMMA DepthSound == Init /\ [][Next]_poolVars => []QueueWithinLimit
<1>1. ASSUME PoolAssumption, Init PROVE QueueWithinLimit
  <2>1. \A a \in Accounts : QueueDepth(a) = 0
    BY <1>1 DEF Init, QueueDepth
  <2>. QED  BY <1>1, <2>1 DEF QueueWithinLimit, MaxQueueDepth, PoolAssumption
<1>2. IInv /\ QueueWithinLimit /\ [Next]_poolVars => QueueWithinLimit'
  BY PoolAssumption, LimitInductive
<1>. QED  BY <1>1, <1>2, PoolAssumption, Inductive, PTL

\* No account ever has more than the limit waiting and running, whichever strategy
\* selects the accounts (execute, "Check queue depth limit").
THEOREM LimitHolds == Spec => []QueueWithinLimit
BY DepthSound, PTL DEF Spec

-----------------------------------------------------------------------------
(* Slots *)

Waiting(r) == \E a \in Accounts : \E k \in 1 .. Len(queue[a]) : queue[a][k] = r

Slotted(r) == \E a \in Accounts : active[a] = r

HoldersStarted ==
    \A a \in Accounts : active[a] # NoRequest => status[active[a]] \in {"running", "returned"}

HoldersApart ==
    \A a, b \in Accounts : active[a] = active[b] /\ active[a] # NoRequest => a = b

SlotsSound ==
    /\ \A r \in Requests : status[r] = "queued" => Waiting(r)
    /\ \A r \in Requests : status[r] = "running" => Slotted(r)
    /\ HoldersStarted
    /\ HoldersApart

\* A step that leaves queues and slots alone and starts or requeues nothing.
LEMMA SlotsKept ==
    ASSUME IInv, SlotsSound, UNCHANGED <<queue, active>>,
           \A r \in Requests : status'[r] \in {"queued", "running"} => status'[r] = status[r],
           \A r \in Requests :
               status[r] \in {"running", "returned"} /\ Slotted(r) =>
                   status'[r] \in {"running", "returned"}
    PROVE  SlotsSound'
<1>1. \A r \in Requests : Waiting(r)' = Waiting(r) /\ Slotted(r)' = Slotted(r)
  BY DEF Waiting, Slotted
<1>2. \A a \in Accounts : active[a] # NoRequest => active[a] \in Requests /\ Slotted(active[a])
  BY DEF IInv, TypeOK, Slotted
<1>3. HoldersStarted'
  BY <1>2 DEF SlotsSound, HoldersStarted
<1>4. HoldersApart'
  BY DEF SlotsSound, HoldersApart
<1>. QED  BY <1>1, <1>3, <1>4 DEF SlotsSound

\* The slot of an account that is free, or whose request has returned, takes the head of
\* its queue.
LEMMA HeadTakesSlot ==
    ASSUME PoolAssumption, IInv, SlotsSound, NEW a \in Accounts, queue[a] # <<>>,
           active[a] = NoRequest \/ status[active[a]] = "returned",
           active' = [active EXCEPT ![a] = Head(queue[a])],
           queue' = [queue EXCEPT ![a] = Tail(@)],
           status' = [status EXCEPT ![Head(queue[a])] = "running"]
    PROVE  SlotsSound'
<1>. DEFINE h == Head(queue[a])
<1>1. /\ queue \in [Accounts -> Seq(Requests)] /\ status \in [Requests -> Statuses]
      /\ active \in [Accounts -> Requests \cup {NoRequest}] /\ queue[a] \in Seq(Requests)
  BY DEF IInv, TypeOK
<1>2. /\ h \in Requests /\ Len(queue[a]) \in Nat /\ Len(queue[a]) >= 1 /\ h = queue[a][1]
      /\ Len(Tail(queue[a])) = Len(queue[a]) - 1
      /\ \A k \in 1 .. Len(Tail(queue[a])) : Tail(queue[a])[k] = queue[a][k + 1]
  BY <1>1
<1>3. status[h] = "queued"
  BY <1>2 DEF IInv, QueuedStatus
<1>. HIDE DEF h
<1>4. /\ active'[a] = h /\ \A b \in Accounts \ {a} : active'[b] = active[b]
      /\ queue'[a] = Tail(queue[a]) /\ \A b \in Accounts \ {a} : queue'[b] = queue[b]
      /\ status'[h] = "running" /\ \A r \in Requests \ {h} : status'[r] = status[r]
  BY <1>1, <1>2 DEF h
<1>5. ASSUME NEW r \in Requests, status'[r] = "queued" PROVE Waiting(r)'
  <2>1. r # h /\ Waiting(r)
    BY <1>4, <1>5 DEF SlotsSound
  <2>2. PICK b \in Accounts : \E k \in 1 .. Len(queue[b]) : queue[b][k] = r
    BY <2>1 DEF Waiting
  <2>3. PICK k \in 1 .. Len(queue[b]) : queue[b][k] = r
    BY <2>2
  <2>4. CASE b = a
    <3>1. k # 1
      BY <1>2, <2>1, <2>3, <2>4
    <3>2. k - 1 \in 1 .. Len(Tail(queue[a])) /\ (k - 1) + 1 = k
      BY <1>2, <2>4, <3>1
    <3>3. Tail(queue[a])[k - 1] = r
      BY <1>2, <2>3, <2>4, <3>2
    <3>. QED  BY <1>4, <3>2, <3>3 DEF Waiting
  <2>5. CASE b # a
    <3>1. queue'[b] = queue[b]
      BY <1>4, <2>5
    <3>. QED  BY <2>3, <3>1 DEF Waiting
  <2>. QED  BY <2>4, <2>5
<1>6. ASSUME NEW r \in Requests, status'[r] = "running" PROVE Slotted(r)'
  <2>1. CASE r = h
    BY <1>4, <2>1 DEF Slotted
  <2>2. CASE r # h
    <3>1. status[r] = "running" /\ Slotted(r)
      BY <1>4, <1>6, <2>2 DEF SlotsSound
    <3>2. PICK b \in Accounts : active[b] = r
      BY <3>1 DEF Slotted
    <3>3. b # a
      BY <3>1, <3>2 DEF PoolAssumption
    <3>. QED  BY <1>4, <3>2, <3>3 DEF Slotted
  <2>. QED  BY <2>1, <2>2
\* The other slots hold requests that have been started, so not h.
<1>7. \A b \in Accounts \ {a} : active[b] # NoRequest =>
          active[b] \in Requests \ {h} /\ status[active[b]] \in {"running", "returned"}
  BY <1>1, <1>3 DEF SlotsSound, HoldersStarted
<1>8. HoldersStarted'
  BY <1>4, <1>7 DEF HoldersStarted
<1>9. HoldersApart'
  <2>1. h # NoRequest
    BY <1>2 DEF PoolAssumption
  <2>. QED  BY <1>4, <1>7, <2>1 DEF SlotsSound, HoldersApart
<1>. QED  BY <1>5, <1>6, <1>8, <1>9 DEF SlotsSound

LEMMA AcceptKeepsSlots ==
    ASSUME IInv, SlotsSound, NEW r \in Requests, status[r] = "new",
           NEW a \in Accounts, Accept(r, a)
    PROVE  SlotsSound'
<1>1. /\ queue \in [Accounts -> Seq(Requests)] /\ status \in [Requests -> Statuses]
      /\ status' = [status EXCEPT ![r] = "queued"] /\ UNCHANGED active
      /\ queue' = [queue EXCEPT ![a] = Append(@, r)]
      /\ active \in [Accounts -> Requests \cup {NoRequest}]
  BY DEF IInv, TypeOK, Accept
<1>2. /\ queue[a] \in Seq(Requests) /\ Len(queue[a]) \in Nat
      /\ Len(queue'[a]) = Len(queue[a]) + 1 /\ queue'[a][Len(queue[a]) + 1] = r
      /\ \A k \in 1 .. Len(queue[a]) : queue'[a][k] = queue[a][k]
      /\ \A b \in Accounts \ {a} : queue'[b] = queue[b]
      /\ status'[r] = "queued" /\ \A s \in Requests \ {r} : status'[s] = status[s]
  BY <1>1
<1>3. ASSUME NEW s \in Requests, status'[s] = "queued" PROVE Waiting(s)'
  <2>1. CASE s = r
    <3>1. Len(queue[a]) + 1 \in 1 .. Len(queue'[a])
      BY <1>2
    <3>. QED  BY <1>2, <2>1, <3>1 DEF Waiting
  <2>2. CASE s # r
    <3>1. Waiting(s)
      BY <1>2, <1>3, <2>2 DEF SlotsSound
    <3>2. PICK b \in Accounts : \E k \in 1 .. Len(queue[b]) : queue[b][k] = s
      BY <3>1 DEF Waiting
    <3>3. PICK k \in 1 .. Len(queue[b]) : queue[b][k] = s
      BY <3>2
    <3>4. k \in 1 .. Len(queue'[b]) /\ queue'[b][k] = s
      <4>1. CASE b = a
        BY <1>2, <3>3, <4>1
      <4>2. CASE b # a
        BY <1>2, <3>3, <4>2
      <4>. QED  BY <4>1, <4>2
    <3>. QED  BY <3>4 DEF Waiting
  <2>. QED  BY <2>1, <2>2
<1>4. \A s \in Requests : status'[s] = "running" => Slotted(s)'
  <2>1. \A s \in Requests : Slotted(s)' = Slotted(s)
    BY <1>1 DEF Slotted
  <2>. QED  BY <1>2, <2>1 DEF SlotsSound
<1>5. HoldersStarted'
  <2>1. \A b \in Accounts : active[b] # NoRequest => active[b] \in Requests \ {r}
    BY <1>1 DEF SlotsSound, HoldersStarted
  <2>. QED  BY <1>1, <1>2, <2>1 DEF SlotsSound, HoldersStarted
<1>6. HoldersApart'
  BY <1>1 DEF SlotsSound, HoldersApart
<1>. QED  BY <1>3, <1>4, <1>5, <1>6 DEF SlotsSound

LEMMA SlotsInductive ==
    ASSUME PoolAssumption, IInv, SlotsSound, [Next]_poolVars PROVE SlotsSound'
<1>0. /\ status \in [Requests -> Statuses]
      /\ active \in [Accounts -> Requests \cup {NoRequest}]
  BY DEF IInv, TypeOK
<1>1. ASSUME NEW r \in Requests, Execute(r) PROVE SlotsSound'
  <2>1. ASSUME NEW a \in Accounts, Accept(r, a) PROVE SlotsSound'
    BY <1>1, <2>1, AcceptKeepsSlots DEF Execute
  <2>2. ASSUME NEW st \in {"duplicate", "overloaded"}, status' = [status EXCEPT ![r] = st],
               UNCHANGED <<queue, active>>
        PROVE  SlotsSound'
    BY <1>0, <1>1, <2>2, SlotsKept DEF Execute
  <2>. QED  BY <1>1, <2>1, <2>2 DEF Execute, RejectDuplicate, RejectOverload
<1>2. ASSUME NEW a \in Accounts, StartNext(a) PROVE SlotsSound'
  BY <1>2, HeadTakesSlot DEF StartNext
<1>3. ASSUME NEW a \in Accounts, NEW ok \in BOOLEAN, Return(a, ok) PROVE SlotsSound'
  <2>1. /\ active[a] \in Requests /\ status[active[a]] = "running"
        /\ status' = [status EXCEPT ![active[a]] = "returned"]
        /\ UNCHANGED <<queue, active>>
    BY <1>0, <1>3 DEF Return
  <2>. QED  BY <1>0, <2>1, SlotsKept
<1>4. ASSUME NEW a \in Accounts, FreeSlot(a) PROVE SlotsSound'
  <2>1. CASE queue[a] # <<>>
    BY <1>4, <2>1, HeadTakesSlot DEF FreeSlot
  <2>2. CASE queue[a] = <<>>
    <3>1. /\ active' = [active EXCEPT ![a] = NoRequest] /\ UNCHANGED <<queue, status>>
          /\ active[a] # NoRequest /\ status[active[a]] = "returned"
      BY <1>4, <2>2 DEF FreeSlot
    <3>2. active'[a] = NoRequest /\ \A b \in Accounts \ {a} : active'[b] = active[b]
      BY <1>0, <3>1
    <3>3. \A r \in Requests : Waiting(r)' = Waiting(r)
      BY <3>1 DEF Waiting
    <3>4. ASSUME NEW r \in Requests, status'[r] = "running" PROVE Slotted(r)'
      <4>1. PICK b \in Accounts : active[b] = r
        BY <3>1, <3>4 DEF SlotsSound, Slotted
      <4>2. b # a
        BY <3>1, <3>4, <4>1
      <4>. QED  BY <3>2, <4>1, <4>2 DEF Slotted
    <3>5. HoldersStarted' /\ HoldersApart'
      BY <3>1, <3>2 DEF SlotsSound, HoldersStarted, HoldersApart
    <3>. QED  BY <3>1, <3>3, <3>4, <3>5 DEF SlotsSound
  <2>. QED  BY <2>1, <2>2
<1>5. ASSUME NEW r \in Requests, Release(r) PROVE SlotsSound'
  <2>1. /\ status' = [status EXCEPT ![r] = "released"] /\ UNCHANGED <<queue, active>>
        /\ ~ Slotted(r)
    BY <1>5 DEF Release, Slotted
  <2>. QED  BY <1>0, <2>1, SlotsKept
<1>6. CASE UNCHANGED poolVars
  <2>1. UNCHANGED <<status, queue, active>>
    BY <1>6 DEF poolVars
  <2>. QED  BY <2>1, SlotsKept
<1>. QED  BY <1>1, <1>2, <1>3, <1>4, <1>5, <1>6 DEF Next

LEMMA PlacesSound == Init /\ [][Next]_poolVars => []OnePlace
<1>1. ASSUME PoolAssumption, Init PROVE SlotsSound
  BY <1>1 DEF Init, SlotsSound, HoldersStarted, HoldersApart
<1>2. IInv /\ SlotsSound /\ [Next]_poolVars => SlotsSound'
  BY PoolAssumption, SlotsInductive
<1>3. ASSUME IInv, SlotsSound PROVE OnePlace
  <2>1. \A a \in Accounts : DOMAIN queue[a] = 1 .. Len(queue[a])
    BY <1>3 DEF IInv, TypeOK
  <2>2. \A r \in Requests : status[r] = "queued" <=> Waiting(r)
    BY <1>3 DEF SlotsSound, IInv, QueuedStatus, Waiting
  <2>. QED  BY <1>3, <2>1, <2>2
            DEF OnePlace, SlotsSound, HoldersStarted, HoldersApart, IInv, QueuedOnce, Waiting,
                Slotted
<1>. QED  BY <1>1, <1>2, <1>3, PoolAssumption, Inductive, PTL

\* Each accepted request is in one place, in a pool of any size: no job is lost, started
\* twice or run beside another of its account (createAccountPool's p-limit(1)).
THEOREM EachInOnePlace == Spec => []OnePlace
BY PlacesSound, PTL DEF Spec

-----------------------------------------------------------------------------
(* The service implements the pool *)

\* Whatever the job does, to the pool it is a step of its own or none.
LEMMA ServiceStepsPool == ASSUME [ServiceNext]_vars PROVE [Next]_poolVars
<1>1. ASSUME NEW a \in Accounts, NEW r \in Requests, Job(a, r) PROVE [Next]_poolVars
  <2>1. \/ Return(a, TRUE) \/ Return(a, FALSE) \/ UNCHANGED poolVars
    BY <1>1 DEF Job, Refuse, Throw, CheckBalance, BalanceSuffices, BalanceUnknown, Send,
                SendFails, Receipt, ReceiptTimeout, End, Proceed
  <2>. QED  BY <2>1 DEF Next
<1>2. ASSUME NEW a \in Accounts, Mine(a) PROVE [Next]_poolVars
  BY <1>2 DEF Mine
<1>3. CASE TimePasses
  BY <1>3 DEF TimePasses
<1>4. CASE UNCHANGED vars
  BY <1>4 DEF vars
<1>5. CASE Around
  BY <1>5 DEF Around, SpendElsewhere, UseElsewhere, SettleElsewhere, Lose
<1>. QED  BY <1>1, <1>2, <1>3, <1>4, <1>5 DEF ServiceNext, Next, Handle, Answer, Pool

\* So everything proved of the pool without its fairness holds of the service.
LEMMA ServiceImplementsPool == ServiceSpec => Init /\ [][Next]_poolVars
<1>1. ServiceInit => Init
  BY DEF ServiceInit
<1>2. [ServiceNext]_vars => [Next]_poolVars
  BY ServiceStepsPool
<1>. QED  BY <1>1, <1>2, PTL DEF ServiceSpec

-----------------------------------------------------------------------------
(* The invariant of the job and the chain *)

\* A request has a job under way exactly while it is running, and a response after it.
JobPhase ==
    \A r \in Requests :
        /\ status[r] \in {"new", "duplicate", "overloaded", "queued"} => phase[r] = "start"
        /\ status[r] = "running" => phase[r] # "end"
        /\ status[r] \in {"returned", "released"} => phase[r] = "end"
        /\ phase[r] = "end" <=> response[r] # "none"

\* A job has sent no transaction before it waits for one, and a response that names a
\* transaction agrees with the chain.
TxPhase ==
    \A r \in Requests :
        /\ phase[r] \in {"start", "funded", "unchecked"} => tx[r] = "none"
        /\ phase[r] = "waiting" => tx[r] # "none"
        /\ response[r] \in {"success", "reverted"} => tx[r] = response[r]
        /\ response[r] = "insufficient" => tx[r] = "none"

\* The mempool holds each transaction that is not mined, once.
MempoolPending ==
    \A a \in Accounts : \A k \in 1 .. Len(mempool[a]) : tx[mempool[a][k]] = "pending"

MempoolOnce ==
    \A a, b \in Accounts : \A j \in 1 .. Len(mempool[a]), k \in 1 .. Len(mempool[b]) :
        mempool[a][j] = mempool[b][k] => a = b /\ j = k

\* The payments settled are those that a transaction, and only one, has settled, or
\* another facilitator; a transaction took the value of those whose authorization was
\* not used without it.
SettledByOne ==
    /\ \A r \in Requests : tx[r] = "success" => PaymentOf[r] \in settled
    /\ \A p \in settled :
          p \in strayed \/ \E r \in Requests : PaymentOf[r] = p /\ tx[r] = "success"
    /\ \A p \in taken :
          p \notin strayed /\ \E r \in Requests : PaymentOf[r] = p /\ tx[r] = "success"
    /\ \A r, s \in Requests :
          tx[r] = "success" /\ tx[s] = "success" /\ PaymentOf[r] = PaymentOf[s] => r = s

TakenFrom(payer) == {p \in taken : p.payer = payer}

\* A payer is short of what was taken from it and of what it spent elsewhere.
PayersBooks ==
    /\ IsFiniteSet(taken)
    /\ \A payer \in DOMAIN InitialFunds :
          funds[payer] + elsewhere[payer] + Total(TakenFrom(payer), [p \in taken |-> p.value])
              = InitialFunds[payer]

JobInv ==
    /\ ServiceTypeOK
    /\ JobPhase
    /\ TxPhase
    /\ MempoolPending
    /\ MempoolOnce

ServiceInv == IInv /\ JobInv

LEMMA JobTyped ==
    ASSUME ServiceTypeOK
    PROVE  /\ status \in [Requests -> Statuses] /\ phase \in [Requests -> Phases]
           /\ response \in [Requests -> Responses]
           /\ tx \in [Requests -> {"none", "pending", "success", "reverted"}]
           /\ mempool \in [Accounts -> Seq(Requests)]
           /\ active \in [Accounts -> Requests \cup {NoRequest}]
BY DEF ServiceTypeOK, TypeOK

-----------------------------------------------------------------------------
(* What a step of a job does *)

\* The job of r returns with a response.
Ends(r, resp) ==
    /\ status' = [status EXCEPT ![r] = "returned"]
    /\ phase' = [phase EXCEPT ![r] = "end"]
    /\ response' = [response EXCEPT ![r] = resp]

GoesOn(r, ph) ==
    /\ status' = status
    /\ phase' = [phase EXCEPT ![r] = ph]
    /\ response' = response

\* The response that is true of a transaction, or says nothing of it.
TrueOf(resp, state) ==
    \/ resp = "no_hash"
    \/ resp = "insufficient" /\ state = "none"
    \/ resp \in {"success", "reverted"} /\ resp = state

\* The steps of a job: it ends, possibly as its transaction is sent; it goes on without a
\* transaction; or it sends one and waits.
JobStep(a, r) ==
    \/ \E resp \in Responses : Ends(r, resp) /\ TrueOf(resp, tx[r]) /\ UNCHANGED chainVars
    \/ Ends(r, "no_hash") /\ phase[r] \in {"funded", "unchecked"} /\ Broadcast(a, r)
    \/ \E ph \in {"funded", "unchecked"} :
          phase[r] = "start" /\ GoesOn(r, ph) /\ UNCHANGED chainVars
    \/ GoesOn(r, "waiting") /\ phase[r] \in {"funded", "unchecked"} /\ Broadcast(a, r)

LEMMA JobSteps ==
    ASSUME JobInv, NEW a \in Accounts, NEW r \in Requests, Job(a, r)
    PROVE  status[r] = "running" /\ JobStep(a, r)
<1>0. /\ phase[r] \in Phases /\ tx[r] \in {"none", "pending", "success", "reverted"}
  BY JobTyped DEF JobInv
<1>1. status[r] = "running" /\ active[a] = r
  BY DEF Job, Refuse, Throw, CheckBalance, BalanceUnknown, Send, SendFails, Receipt,
         ReceiptTimeout, Running
<1>2. \A ok \in BOOLEAN : Return(a, ok) => status' = [status EXCEPT ![r] = "returned"]
  BY <1>1 DEF Return
<1>3. \A resp : End(a, r, resp) => Ends(r, resp)
  BY <1>2 DEF End, Ends
<1>4. \A ph : Proceed(r, ph) => GoesOn(r, ph)
  BY DEF Proceed, GoesOn, poolVars
<1>. SUFFICES JobStep(a, r)
  BY <1>1
<1>5. CASE Refuse(a, r)
  BY <1>3, <1>5 DEF Refuse, JobStep, TrueOf, Responses
<1>6. CASE Throw(a, r)
  <2>1. Ends(r, "no_hash")
    BY <1>2, <1>6 DEF Throw, Ends
  <2>. QED  BY <1>6, <2>1 DEF Throw, JobStep, TrueOf, Responses
<1>7. CASE CheckBalance(a, r)
  <2>1. phase[r] = "start" /\ tx[r] = "none"
    BY <1>7 DEF CheckBalance, Running, JobInv, TxPhase
  <2>2. End(a, r, "insufficient") \/ GoesOn(r, "funded")
    BY <1>7 DEF CheckBalance, BalanceSuffices, GoesOn, poolVars
  <2>. QED  BY <1>3, <1>7, <2>1, <2>2 DEF CheckBalance, JobStep, TrueOf, Responses
<1>8. CASE BalanceUnknown(a, r)
  BY <1>4, <1>8 DEF BalanceUnknown, Running, JobStep
<1>9. CASE Send(a, r)
  BY <1>4, <1>9 DEF Send, Running, JobStep
<1>10. CASE SendFails(a, r)
  BY <1>3, <1>10 DEF SendFails, Running, JobStep, TrueOf, Responses
<1>11. CASE Receipt(a, r)
  <2>1. phase[r] = "waiting" /\ tx[r] \in {"success", "reverted"}
    BY <1>0, <1>11 DEF Receipt, Running, JobInv, TxPhase
  <2>2. Ends(r, tx[r])
    BY <1>3, <1>11 DEF Receipt, ReceiptResponse
  <2>. QED  BY <1>11, <2>1, <2>2 DEF Receipt, JobStep, TrueOf, Responses
<1>12. CASE ReceiptTimeout(a, r)
  BY <1>3, <1>12 DEF ReceiptTimeout, JobStep, TrueOf, Responses
<1>. QED  BY <1>1, <1>5, <1>6, <1>7, <1>8, <1>9, <1>10, <1>11, <1>12 DEF Job

-----------------------------------------------------------------------------
(* The invariant is inductive *)

LEMMA JobInit == ASSUME PoolAssumption, ServiceAssumption, ServiceInit PROVE JobInv
<1>1. TypeOK
  BY InitIInv DEF ServiceInit, IInv
<1>2. ServiceTypeOK
  BY <1>1 DEF ServiceInit, ServiceTypeOK, Phases, Responses, ServiceAssumption
<1>3. JobPhase /\ TxPhase
  BY DEF ServiceInit, Init, JobPhase, TxPhase
<1>4. MempoolPending /\ MempoolOnce
  BY DEF ServiceInit, MempoolPending, MempoolOnce
<1>. QED  BY <1>2, <1>3, <1>4 DEF JobInv

\* The invariants of the mempool depend on it and on the transactions in it only.
LEMMA MempoolKept ==
    ASSUME MempoolPending, MempoolOnce, UNCHANGED <<tx, mempool>>
    PROVE  MempoolPending' /\ MempoolOnce'
BY DEF MempoolPending, MempoolOnce

\* A transaction is sent.
LEMMA BroadcastKeeps ==
    ASSUME JobInv, NEW a \in Accounts, NEW r \in Requests, tx[r] = "none", Broadcast(a, r)
    PROVE  /\ tx' \in [Requests -> {"none", "pending", "success", "reverted"}]
           /\ mempool' \in [Accounts -> Seq(Requests)]
           /\ MempoolPending' /\ MempoolOnce'
<1>1. /\ tx \in [Requests -> {"none", "pending", "success", "reverted"}]
      /\ mempool \in [Accounts -> Seq(Requests)] /\ mempool[a] \in Seq(Requests)
      /\ tx' = [tx EXCEPT ![r] = "pending"]
      /\ mempool' = [mempool EXCEPT ![a] = Append(@, r)]
  BY JobTyped DEF JobInv, Broadcast
<1>2. /\ Len(mempool[a]) \in Nat
      /\ Append(mempool[a], r) \in Seq(Requests) /\ mempool'[a] = Append(mempool[a], r)
      /\ Len(mempool'[a]) = Len(mempool[a]) + 1
      /\ mempool'[a][Len(mempool[a]) + 1] = r
      /\ \A k \in 1 .. Len(mempool[a]) : mempool'[a][k] = mempool[a][k]
      /\ \A b \in Accounts \ {a} : mempool'[b] = mempool[b]
  BY <1>1
\* Every entry is r at the end of a or an entry of before.
<1>3. ASSUME NEW b \in Accounts, NEW k \in 1 .. Len(mempool'[b])
      PROVE  \/ b = a /\ k = Len(mempool[a]) + 1 /\ mempool'[b][k] = r
             \/ k \in 1 .. Len(mempool[b]) /\ mempool'[b][k] = mempool[b][k]
  <2>1. CASE b = a
    BY <1>2, <2>1
  <2>2. CASE b # a
    BY <1>2, <2>2
  <2>. QED  BY <2>1, <2>2
<1>4. \A b \in Accounts : \A k \in 1 .. Len(mempool[b]) :
          tx[mempool[b][k]] = "pending" /\ mempool[b][k] # r /\ mempool[b][k] \in Requests
  BY <1>1 DEF JobInv, MempoolPending
<1>5. MempoolPending'
  <2>1. ASSUME NEW b \in Accounts, NEW k \in 1 .. Len(mempool'[b])
        PROVE  tx'[mempool'[b][k]] = "pending"
    BY <1>1, <1>3, <1>4
  <2>. QED  BY <2>1 DEF MempoolPending
<1>6. MempoolOnce'
  <2>1. ASSUME NEW b \in Accounts, NEW c \in Accounts,
               NEW j \in 1 .. Len(mempool'[b]), NEW k \in 1 .. Len(mempool'[c]),
               mempool'[b][j] = mempool'[c][k]
        PROVE  b = c /\ j = k
    BY <1>3, <1>4, <2>1 DEF JobInv, MempoolOnce
  <2>. QED  BY <2>1 DEF MempoolOnce
<1>7. mempool' \in [Accounts -> Seq(Requests)]
  BY <1>1, <1>2
<1>. QED  BY <1>1, <1>5, <1>6, <1>7

\* A job takes a step.
LEMMA JobKeeps ==
    ASSUME ServiceAssumption, JobInv, TypeOK', NEW a \in Accounts, NEW r \in Requests, Job(a, r)
    PROVE  JobInv'
<1>1. status[r] = "running" /\ JobStep(a, r)
  BY JobSteps
<1>2. /\ status \in [Requests -> Statuses] /\ phase \in [Requests -> Phases]
      /\ response \in [Requests -> Responses]
      /\ tx \in [Requests -> {"none", "pending", "success", "reverted"}]
      /\ JobPhase /\ TxPhase /\ MempoolPending /\ MempoolOnce
      /\ phase[r] # "end" /\ response[r] = "none"
  BY <1>1, JobTyped DEF JobInv, JobPhase
<1>3. phase[r] \in {"funded", "unchecked"} => tx[r] = "none"
  BY <1>2 DEF TxPhase
<1>4. UNCHANGED <<settled, taken, strayed, funds, elsewhere, clock>>
  BY <1>1 DEF JobStep, Broadcast, chainVars
<1>5. phase' \in [Requests -> Phases] /\ response' \in [Requests -> Responses]
  BY <1>1, <1>2 DEF JobStep, Ends, GoesOn, Phases, Responses
<1>6. /\ tx' \in [Requests -> {"none", "pending", "success", "reverted"}]
      /\ mempool' \in [Accounts -> Seq(Requests)]
      /\ MempoolPending' /\ MempoolOnce'
  <2>1. CASE UNCHANGED chainVars
    BY <1>2, <2>1, MempoolKept, JobTyped DEF chainVars, JobInv
  <2>2. CASE phase[r] \in {"funded", "unchecked"} /\ Broadcast(a, r)
    BY <1>3, <2>2, BroadcastKeeps
  <2>. QED  BY <1>1, <2>1, <2>2 DEF JobStep
<1>10. checkedAt' \in [Requests -> Nat]
  <2>1. checkedAt \in [Requests -> Nat] /\ elsewhere \in [DOMAIN InitialFunds -> Nat]
    BY DEF JobInv, ServiceTypeOK
  <2>2. PayerOf[r] \in DOMAIN InitialFunds
    BY DEF ServiceAssumption, PaymentFields
  <2>3. checkedAt' = checkedAt \/ checkedAt' = [checkedAt EXCEPT ![r] = elsewhere[PayerOf[r]]]
    BY DEF Job, Refuse, Throw, CheckBalance, BalanceSuffices, BalanceUnknown, Send,
           SendFails, Receipt, ReceiptTimeout, End, Proceed
  <2>. QED  BY <2>1, <2>2, <2>3
<1>7. ServiceTypeOK'
  BY <1>4, <1>5, <1>6, <1>10 DEF JobInv, ServiceTypeOK
<1>8. JobPhase'
  BY <1>1, <1>2 DEF JobStep, Ends, GoesOn, JobPhase, TrueOf
<1>9. TxPhase'
  <2>1. CASE UNCHANGED chainVars
    <3>1. tx' = tx
      BY <2>1 DEF chainVars
    <3>2. \/ \E resp \in Responses : Ends(r, resp) /\ TrueOf(resp, tx[r])
          \/ \E ph \in {"funded", "unchecked"} : phase[r] = "start" /\ GoesOn(r, ph)
          \/ Ends(r, "no_hash") /\ TrueOf("no_hash", tx[r])
          \/ GoesOn(r, "waiting") /\ tx'[r] = "pending"
      BY <1>1, <1>2 DEF JobStep, Broadcast, TrueOf
    <3>. QED  BY <1>2, <3>1, <3>2 DEF Ends, GoesOn, TxPhase, TrueOf
  <2>2. CASE phase[r] \in {"funded", "unchecked"} /\ Broadcast(a, r)
                /\ (Ends(r, "no_hash") \/ GoesOn(r, "waiting"))
    <3>1. tx' = [tx EXCEPT ![r] = "pending"]
      BY <2>2 DEF Broadcast
    <3>. QED  BY <1>2, <2>2, <3>1 DEF Ends, GoesOn, TxPhase
  <2>. QED  BY <1>1, <2>1, <2>2 DEF JobStep
<1>. QED  BY <1>6, <1>7, <1>8, <1>9 DEF JobInv

\* What the pool does to requests while no job runs: a job starts from the beginning.
PoolMoves ==
    \A r \in Requests :
        \/ status'[r] = status[r]
        \/ /\ status[r] \in {"new", "queued"}
           /\ status'[r] \in {"duplicate", "overloaded", "queued", "running"}
        \/ status[r] = "returned" /\ status'[r] = "released"

LEMMA PoolActions ==
    ASSUME IInv, \/ \E r \in Requests : Execute(r) \/ Release(r)
                 \/ \E a \in Accounts : StartNext(a) \/ FreeSlot(a)
    PROVE  PoolMoves
<1>1. status \in [Requests -> Statuses] /\ queue \in [Accounts -> Seq(Requests)]
  BY DEF IInv, TypeOK
<1>2. ASSUME NEW r \in Requests, Execute(r) PROVE PoolMoves
  BY <1>1, <1>2 DEF Execute, RejectDuplicate, RejectOverload, Accept, PoolMoves
<1>3. ASSUME NEW r \in Requests, Release(r) PROVE PoolMoves
  BY <1>1, <1>3 DEF Release, PoolMoves
<1>4. ASSUME NEW a \in Accounts, queue[a] # <<>>,
             status' = [status EXCEPT ![Head(queue[a])] = "running"]
      PROVE  PoolMoves
  <2>1. /\ Len(queue[a]) >= 1 /\ Len(queue[a]) \in Nat
        /\ Head(queue[a]) = queue[a][1] /\ Head(queue[a]) \in Requests
    BY <1>1, <1>4
  <2>2. status[Head(queue[a])] = "queued"
    BY <2>1 DEF IInv, QueuedStatus
  <2>. QED  BY <1>1, <1>4, <2>2 DEF PoolMoves
<1>5. ASSUME NEW a \in Accounts, StartNext(a) PROVE PoolMoves
  BY <1>4, <1>5 DEF StartNext
<1>6. ASSUME NEW a \in Accounts, FreeSlot(a) PROVE PoolMoves
  <2>1. CASE queue[a] = <<>>
    BY <1>6, <2>1 DEF FreeSlot, PoolMoves
  <2>2. CASE queue[a] # <<>>
    BY <1>4, <1>6, <2>2 DEF FreeSlot
  <2>. QED  BY <2>1, <2>2
<1>. QED  BY <1>2, <1>3, <1>5, <1>6

\* The pool acts.
LEMMA PoolKeepsJobs ==
    ASSUME JobInv, TypeOK', PoolMoves, UNCHANGED <<phase, response, checkedAt, chainVars>>
    PROVE  JobInv'
<1>1. UNCHANGED <<phase, response, checkedAt, tx, mempool, settled, taken, strayed, funds,
                  elsewhere, clock>>
  BY DEF chainVars
<1>2. ServiceTypeOK'
  BY <1>1 DEF JobInv, ServiceTypeOK
<1>3. JobPhase'
  BY <1>1 DEF JobInv, JobPhase, PoolMoves
<1>4. TxPhase'
  BY <1>1 DEF JobInv, TxPhase
<1>. QED  BY <1>1, <1>2, <1>3, <1>4, MempoolKept DEF JobInv

\* The transaction at the head of a mempool is one of a request, pending, and nowhere
\* else in the mempools.
LEMMA HeadMined ==
    ASSUME JobInv, NEW a \in Accounts, mempool[a] # <<>>,
           mempool' = [mempool EXCEPT ![a] = Tail(@)],
           NEW fate \in {"success", "reverted"},
           tx' = [tx EXCEPT ![Head(mempool[a])] = fate]
    PROVE  /\ Head(mempool[a]) \in Requests /\ tx[Head(mempool[a])] = "pending"
           /\ mempool' \in [Accounts -> Seq(Requests)]
           /\ MempoolPending' /\ MempoolOnce'
<1>. DEFINE h == Head(mempool[a])
<1>1. /\ tx \in [Requests -> {"none", "pending", "success", "reverted"}]
      /\ mempool \in [Accounts -> Seq(Requests)] /\ mempool[a] \in Seq(Requests)
  BY JobTyped DEF JobInv
<1>2. /\ h \in Requests /\ Tail(mempool[a]) \in Seq(Requests)
      /\ Len(mempool[a]) \in Nat /\ Len(mempool[a]) >= 1 /\ h = mempool[a][1]
      /\ Len(Tail(mempool[a])) = Len(mempool[a]) - 1
      /\ \A k \in 1 .. Len(Tail(mempool[a])) : Tail(mempool[a])[k] = mempool[a][k + 1]
  BY <1>1
<1>3. tx[h] = "pending"
  BY <1>2 DEF JobInv, MempoolPending
<1>4. mempool' \in [Accounts -> Seq(Requests)]
  BY <1>1, <1>2
<1>. HIDE DEF h
<1>5. ASSUME NEW b \in Accounts, NEW k \in 1 .. Len(mempool'[b])
      PROVE  \E j \in 1 .. Len(mempool[b]) :
                /\ mempool'[b][k] = mempool[b][j]
                /\ j = IF b = a THEN k + 1 ELSE k
  <2>1. CASE b = a
    <3>1. mempool'[a] = Tail(mempool[a])
      BY <1>1
    <3>2. k \in 1 .. (Len(mempool[a]) - 1)
      BY <1>2, <2>1, <3>1
    <3>3. k + 1 \in 1 .. Len(mempool[b])
      BY <1>2, <2>1, <3>2
    <3>. QED  BY <1>2, <2>1, <3>1, <3>2, <3>3
  <2>2. CASE b # a
    <3>1. mempool'[b] = mempool[b]
      BY <1>1, <2>2
    <3>. QED  BY <2>2, <3>1
  <2>. QED  BY <2>1, <2>2
<1>6. MempoolPending'
  <2>1. ASSUME NEW b \in Accounts, NEW k \in 1 .. Len(mempool'[b])
        PROVE  tx'[mempool'[b][k]] = "pending"
    <3>1. PICK j \in 1 .. Len(mempool[b]) :
              mempool'[b][k] = mempool[b][j] /\ j = IF b = a THEN k + 1 ELSE k
      BY <1>5
    <3>2. mempool[b][j] # h
      <4>1. ~ (b = a /\ j = 1)
        BY <3>1
      <4>2. 1 \in 1 .. Len(mempool[a])
        BY <1>2
      <4>. QED  BY <1>2, <4>1, <4>2 DEF JobInv, MempoolOnce
    <3>3. mempool[b][j] \in Requests /\ tx[mempool[b][j]] = "pending"
      BY <1>1 DEF JobInv, MempoolPending
    <3>. QED  BY <1>1, <3>1, <3>2, <3>3 DEF h
  <2>. QED  BY <2>1 DEF MempoolPending
<1>7. MempoolOnce'
  <2>1. ASSUME NEW b \in Accounts, NEW c \in Accounts,
               NEW j \in 1 .. Len(mempool'[b]), NEW k \in 1 .. Len(mempool'[c]),
               mempool'[b][j] = mempool'[c][k]
        PROVE  b = c /\ j = k
    <3>1. PICK m \in 1 .. Len(mempool[b]) :
              mempool'[b][j] = mempool[b][m] /\ m = IF b = a THEN j + 1 ELSE j
      BY <1>5
    <3>2. PICK n \in 1 .. Len(mempool[c]) :
              mempool'[c][k] = mempool[c][n] /\ n = IF c = a THEN k + 1 ELSE k
      BY <1>5
    <3>3. b = c /\ m = n
      BY <2>1, <3>1, <3>2 DEF JobInv, MempoolOnce
    <3>4. j \in Int /\ k \in Int
      OBVIOUS
    <3>. QED  BY <3>1, <3>2, <3>3, <3>4
  <2>. QED  BY <2>1 DEF MempoolOnce
<1>. QED  BY <1>2, <1>3, <1>4, <1>6, <1>7 DEF h

\* What mining the next transaction of an account does: the router settles the payment
\* or the transaction reverts.
LEMMA MineSteps ==
    ASSUME JobInv, NEW a \in Accounts, Mine(a)
    PROVE  \E r \in Requests :
              /\ tx[r] = "pending"
              /\ UNCHANGED <<poolVars, phase, response, checkedAt, strayed, elsewhere, clock>>
              /\ mempool' \in [Accounts -> Seq(Requests)]
              /\ MempoolPending' /\ MempoolOnce'
              /\ \/ /\ Settles(PaymentOf[r])
                    /\ tx' = [tx EXCEPT ![r] = "success"]
                    /\ settled' = settled \cup {PaymentOf[r]}
                    /\ Take(PaymentOf[r])
                 \/ /\ tx' = [tx EXCEPT ![r] = "reverted"]
                    /\ UNCHANGED <<settled, taken, funds>>
<1>. DEFINE h == Head(mempool[a])
<1>1. /\ mempool[a] # <<>> /\ mempool' = [mempool EXCEPT ![a] = Tail(@)]
      /\ UNCHANGED <<poolVars, phase, response, checkedAt, strayed, elsewhere, clock>>
      /\ \/ /\ Settles(PaymentOf[h])
            /\ tx' = [tx EXCEPT ![h] = "success"]
            /\ settled' = settled \cup {PaymentOf[h]}
            /\ Take(PaymentOf[h])
         \/ /\ tx' = [tx EXCEPT ![h] = "reverted"]
            /\ UNCHANGED <<settled, taken, funds>>
  BY DEF Mine
<1>2. /\ h \in Requests /\ tx[h] = "pending"
      /\ mempool' \in [Accounts -> Seq(Requests)]
      /\ MempoolPending' /\ MempoolOnce'
  BY <1>1, HeadMined
<1>. HIDE DEF h
<1>. QED  BY <1>1, <1>2

LEMMA MineKeepsJobs ==
    ASSUME ServiceAssumption, JobInv, TypeOK', NEW a \in Accounts, Mine(a)
    PROVE  JobInv'
<1>1. PICK r \in Requests :
              /\ tx[r] = "pending"
              /\ UNCHANGED <<poolVars, phase, response, checkedAt, strayed, elsewhere, clock>>
              /\ mempool' \in [Accounts -> Seq(Requests)]
              /\ MempoolPending' /\ MempoolOnce'
              /\ \/ /\ Settles(PaymentOf[r])
                    /\ tx' = [tx EXCEPT ![r] = "success"]
                    /\ settled' = settled \cup {PaymentOf[r]}
                    /\ Take(PaymentOf[r])
                 \/ /\ tx' = [tx EXCEPT ![r] = "reverted"]
                    /\ UNCHANGED <<settled, taken, funds>>
  BY MineSteps
<1>2. /\ tx \in [Requests -> {"none", "pending", "success", "reverted"}]
      /\ funds \in [DOMAIN InitialFunds -> Nat]
      /\ settled \subseteq {PaymentOf[s] : s \in Requests} /\ taken \subseteq settled
      /\ clock \in 0 .. MaxTime /\ strayed \subseteq Strays
      /\ elsewhere \in [DOMAIN InitialFunds -> Nat] /\ checkedAt \in [Requests -> Nat]
      /\ phase \in [Requests -> Phases] /\ response \in [Requests -> Responses]
  BY DEF JobInv, ServiceTypeOK
<1>3. tx' \in [Requests -> {"none", "pending", "success", "reverted"}]
  BY <1>1, <1>2
<1>4. /\ funds' \in [DOMAIN InitialFunds -> Nat] /\ taken' \subseteq settled'
      /\ settled' \subseteq {PaymentOf[s] : s \in Requests}
  <2>1. CASE UNCHANGED <<settled, taken, funds>>
    BY <1>2, <2>1
  <2>2. CASE /\ Settles(PaymentOf[r])
             /\ settled' = settled \cup {PaymentOf[r]}
             /\ Take(PaymentOf[r])
    <3>1. PaymentOf[r].value \in Nat /\ PaymentOf[r].payer \in DOMAIN InitialFunds
      BY DEF ServiceAssumption, PaymentFields
    <3>2. taken' \subseteq settled'
      BY <1>2, <2>2 DEF Take
    <3>3. CASE Used(PaymentOf[r])
      BY <1>2, <2>2, <3>2, <3>3 DEF Take
    <3>4. CASE ~ Used(PaymentOf[r])
      <4>1. funds[PaymentOf[r].payer] - PaymentOf[r].value \in Nat
        BY <1>2, <2>2, <3>1, <3>4 DEF Settles, Pullable
      <4>. QED  BY <1>2, <2>2, <3>2, <3>4, <4>1 DEF Take
    <3>. QED  BY <3>3, <3>4
  <2>. QED  BY <1>1, <2>1, <2>2
<1>5. ServiceTypeOK'
  BY <1>1, <1>2, <1>3, <1>4 DEF ServiceTypeOK
<1>6. JobPhase'
  BY <1>1 DEF JobInv, JobPhase, poolVars
<1>7. TxPhase'
  <2>1. \A s \in Requests : s = r \/ tx'[s] = tx[s]
    BY <1>1, <1>2
  <2>2. tx'[r] \in {"success", "reverted"}
    BY <1>1, <1>2
  <2>. QED  BY <1>1, <2>1, <2>2 DEF JobInv, TxPhase
<1>. QED  BY <1>1, <1>5, <1>6, <1>7 DEF JobInv

\* What the payer does without the facilitator: the sum of what it has and has spent
\* stays, and a payment it touches counts as strayed.
LEMMA AroundSteps ==
    ASSUME ServiceAssumption, ServiceTypeOK, Around
    PROVE  /\ UNCHANGED <<poolVars, phase, response, checkedAt, tx, mempool, taken, clock>>
           /\ funds' \in [DOMAIN InitialFunds -> Nat]
           /\ elsewhere' \in [DOMAIN InitialFunds -> Nat]
           /\ \A payer \in DOMAIN InitialFunds :
                 funds'[payer] + elsewhere'[payer] = funds[payer] + elsewhere[payer]
           /\ strayed \subseteq strayed' /\ strayed' \subseteq Strays
           /\ settled \subseteq settled' /\ settled' \subseteq {PaymentOf[r] : r \in Requests}
           /\ settled' \subseteq settled \cup strayed'
           /\ (strayed' \ strayed) \cap taken = {}
<1>1. /\ funds \in [DOMAIN InitialFunds -> Nat] /\ elsewhere \in [DOMAIN InitialFunds -> Nat]
      /\ settled \subseteq {PaymentOf[r] : r \in Requests} /\ taken \subseteq settled
      /\ strayed \subseteq Strays
      /\ \A p \in Strays : p.payer \in DOMAIN InitialFunds /\ p.value \in Nat
      /\ Strays \subseteq {PaymentOf[r] : r \in Requests}
  BY DEF ServiceTypeOK, ServiceAssumption, PaymentFields
<1>2. ASSUME NEW payer \in DOMAIN InitialFunds, NEW amount \in Nat, Lose(payer, amount)
      PROVE  /\ UNCHANGED <<poolVars, phase, response, checkedAt, tx, mempool, taken, clock>>
             /\ funds' \in [DOMAIN InitialFunds -> Nat]
             /\ elsewhere' \in [DOMAIN InitialFunds -> Nat]
             /\ \A q \in DOMAIN InitialFunds :
                   funds'[q] + elsewhere'[q] = funds[q] + elsewhere[q]
  <2>1. /\ funds' = [funds EXCEPT ![payer] = @ - amount]
        /\ elsewhere' = [elsewhere EXCEPT ![payer] = @ + amount]
        /\ amount <= funds[payer]
    BY <1>2 DEF Lose
  <2>2. funds[payer] - amount \in Nat /\ elsewhere[payer] + amount \in Nat
    BY <1>1, <2>1
  <2>3. \A q \in DOMAIN InitialFunds :
            funds'[q] + elsewhere'[q] = funds[q] + elsewhere[q]
    <3>. SUFFICES ASSUME NEW q \in DOMAIN InitialFunds
                  PROVE  funds'[q] + elsewhere'[q] = funds[q] + elsewhere[q]
      OBVIOUS
    <3>1. CASE q = payer
      <4>1. /\ funds'[q] = funds[q] - amount /\ elsewhere'[q] = elsewhere[q] + amount
            /\ funds[q] \in Nat /\ elsewhere[q] \in Nat
        BY <1>1, <2>1, <3>1
      <4>. QED  BY <4>1
    <3>2. CASE q # payer
      BY <1>1, <2>1, <3>2
    <3>. QED  BY <3>1, <3>2
  <2>. QED  BY <1>1, <1>2, <2>1, <2>2, <2>3 DEF Lose
<1>3. ASSUME NEW payer \in DOMAIN InitialFunds, SpendElsewhere(payer)
      PROVE  /\ \E amount \in Nat : Lose(payer, amount)
             /\ UNCHANGED <<settled, strayed>>
  <2>1. \A n \in Nat : 1 .. n \subseteq Nat
    OBVIOUS
  <2>. QED  BY <1>1, <1>3, <2>1 DEF SpendElsewhere
<1>4. ASSUME NEW p \in Strays, UseElsewhere(p)
      PROVE  /\ \E amount \in Nat : Lose(p.payer, amount)
             /\ strayed' = strayed \cup {p} /\ UNCHANGED settled /\ p \notin taken
  <2>1. \A n \in Nat : 0 .. n \subseteq Nat
    OBVIOUS
  <2>. QED  BY <1>1, <1>4, <2>1 DEF UseElsewhere, Used
<1>5. ASSUME NEW p \in Strays, SettleElsewhere(p)
      PROVE  /\ \E amount \in Nat : Lose(p.payer, amount)
             /\ strayed' = strayed \cup {p} /\ settled' = settled \cup {p} /\ p \notin taken
  <2>1. Lose(p.payer, 0) \/ Lose(p.payer, p.value)
    BY <1>5 DEF SettleElsewhere
  <2>. QED  BY <1>1, <1>5, <2>1 DEF SettleElsewhere, Settles
<1>6. CASE \E payer \in DOMAIN InitialFunds : SpendElsewhere(payer)
  BY <1>1, <1>2, <1>3, <1>6
<1>7. CASE \E p \in Strays : UseElsewhere(p)
  BY <1>1, <1>2, <1>4, <1>7
<1>8. CASE \E p \in Strays : SettleElsewhere(p)
  BY <1>1, <1>2, <1>5, <1>8
<1>. QED  BY <1>6, <1>7, <1>8 DEF Around

LEMMA ServiceInvKeeps ==
    ASSUME PoolAssumption, ServiceAssumption, ServiceInv, [ServiceNext]_vars
    PROVE  ServiceInv'
<1>1. IInv' /\ TypeOK' /\ JobInv /\ IInv
  BY ServiceStepsPool, NextKeeps DEF ServiceInv, IInv
<1>. SUFFICES JobInv'
  BY <1>1 DEF ServiceInv
<1>2. ASSUME NEW r \in Requests, Handle(r) \/ Answer(r) PROVE JobInv'
  BY <1>1, <1>2, PoolActions, PoolKeepsJobs DEF Handle, Answer, Pool
<1>3. ASSUME NEW a \in Accounts, Pool(StartNext(a)) \/ Pool(FreeSlot(a)) PROVE JobInv'
  BY <1>1, <1>3, PoolActions, PoolKeepsJobs DEF Pool
<1>4. ASSUME NEW a \in Accounts, NEW r \in Requests, Job(a, r) PROVE JobInv'
  BY <1>1, <1>4, JobKeeps
<1>5. ASSUME NEW a \in Accounts, Mine(a) PROVE JobInv'
  BY <1>1, <1>5, MineKeepsJobs
<1>6. CASE TimePasses
  <2>1. /\ UNCHANGED <<phase, response, checkedAt, tx, mempool, settled, taken, strayed,
                       funds, elsewhere>>
        /\ status' = status /\ clock' \in 0 .. MaxTime
    BY <1>1, <1>6 DEF TimePasses, poolVars, JobInv, ServiceTypeOK, ServiceAssumption
  <2>2. ServiceTypeOK'
    BY <1>1, <2>1 DEF JobInv, ServiceTypeOK
  <2>3. JobPhase' /\ TxPhase'
    BY <1>1, <2>1 DEF JobInv, JobPhase, TxPhase
  <2>. QED  BY <1>1, <2>1, <2>2, <2>3, MempoolKept DEF JobInv
<1>7. CASE UNCHANGED vars
  <2>1. UNCHANGED <<phase, response, checkedAt, chainVars>> /\ status' = status
    BY <1>7 DEF vars, poolVars
  <2>2. PoolMoves
    BY <2>1 DEF PoolMoves
  <2>. QED  BY <1>1, <2>1, <2>2, PoolKeepsJobs
<1>8. CASE Around
  <2>0. ServiceTypeOK
    BY <1>1 DEF JobInv
  <2>1. UNCHANGED <<poolVars, phase, response, checkedAt, tx, mempool, taken, clock>>
    BY <1>8, <2>0, AroundSteps
  <2>2. /\ funds' \in [DOMAIN InitialFunds -> Nat]
        /\ elsewhere' \in [DOMAIN InitialFunds -> Nat]
        /\ strayed' \subseteq Strays
        /\ settled \subseteq settled' /\ settled' \subseteq {PaymentOf[r] : r \in Requests}
    BY <1>8, <2>0, AroundSteps
  <2>3. ServiceTypeOK'
    BY <1>1, <2>0, <2>1, <2>2 DEF ServiceTypeOK
  <2>4. JobPhase' /\ TxPhase'
    BY <1>1, <2>1 DEF JobInv, JobPhase, TxPhase, poolVars
  <2>. QED  BY <1>1, <2>1, <2>3, <2>4, MempoolKept DEF JobInv
<1>. QED  BY <1>2, <1>3, <1>4, <1>5, <1>6, <1>7, <1>8 DEF ServiceNext

LEMMA ServiceInductive == ServiceSpec => []ServiceInv
<1>1. ServiceInit => ServiceInv
  BY PoolAssumption, ServiceAssumption, InitIInv, JobInit DEF ServiceInit, ServiceInv
<1>2. ServiceInv /\ [ServiceNext]_vars => ServiceInv'
  BY PoolAssumption, ServiceAssumption, ServiceInvKeeps
<1>. QED  BY <1>1, <1>2, PTL DEF ServiceSpec

-----------------------------------------------------------------------------
(* Charges *)

\* Steps other than mining, and what the payers do around the facilitator, settle nothing.
LEMMA OnlyMiningSettles ==
    ASSUME ServiceInv, [ServiceNext]_vars
    PROVE  \/ \E a \in Accounts : Mine(a)
           \/ Around
           \/ /\ UNCHANGED <<settled, taken, strayed, funds, elsewhere>>
              /\ \A r \in Requests :
                    tx'[r] = tx[r] \/ (tx[r] = "none" /\ tx'[r] = "pending")
<1>0. JobInv /\ TxPhase /\ tx \in [Requests -> {"none", "pending", "success", "reverted"}]
  BY JobTyped DEF ServiceInv, JobInv
<1>1. ASSUME NEW a \in Accounts, NEW r \in Requests, Job(a, r)
      PROVE  /\ UNCHANGED <<settled, taken, strayed, funds, elsewhere>>
             /\ \A s \in Requests : tx'[s] = tx[s] \/ (tx[s] = "none" /\ tx'[s] = "pending")
  <2>1. JobStep(a, r)
    BY <1>0, <1>1, JobSteps
  <2>2. CASE UNCHANGED chainVars
    BY <2>2 DEF chainVars
  <2>3. CASE phase[r] \in {"funded", "unchecked"} /\ Broadcast(a, r)
    <3>1. tx[r] = "none"
      BY <1>0, <2>3 DEF TxPhase
    <3>. QED  BY <1>0, <2>3, <3>1 DEF Broadcast
  <2>. QED  BY <2>1, <2>2, <2>3 DEF JobStep
<1>2. ASSUME NEW r \in Requests, Handle(r) \/ Answer(r)
      PROVE  UNCHANGED <<settled, taken, strayed, funds, elsewhere>> /\ tx' = tx
  BY <1>2 DEF Handle, Answer, Pool, chainVars
<1>3. ASSUME NEW a \in Accounts, Pool(StartNext(a)) \/ Pool(FreeSlot(a))
      PROVE  UNCHANGED <<settled, taken, strayed, funds, elsewhere>> /\ tx' = tx
  BY <1>3 DEF Pool, chainVars
<1>4. ASSUME TimePasses \/ UNCHANGED vars
      PROVE  UNCHANGED <<settled, taken, strayed, funds, elsewhere>> /\ tx' = tx
  BY <1>4 DEF TimePasses, vars, chainVars
<1>. QED  BY <1>1, <1>2, <1>3, <1>4 DEF ServiceNext

LEMMA SettledByOneKept ==
    ASSUME ServiceAssumption, ServiceInv, SettledByOne, [ServiceNext]_vars
    PROVE  SettledByOne'
<1>0. /\ JobInv /\ tx \in [Requests -> {"none", "pending", "success", "reverted"}]
      /\ ServiceTypeOK /\ taken \subseteq settled
  BY JobTyped DEF ServiceInv, JobInv, ServiceTypeOK
<1>1. ASSUME NEW a \in Accounts, Mine(a) PROVE SettledByOne'
  <2>1. PICK r \in Requests :
              /\ tx[r] = "pending" /\ strayed' = strayed
              /\ \/ /\ Settles(PaymentOf[r])
                    /\ tx' = [tx EXCEPT ![r] = "success"]
                    /\ settled' = settled \cup {PaymentOf[r]}
                    /\ Take(PaymentOf[r])
                 \/ /\ tx' = [tx EXCEPT ![r] = "reverted"]
                    /\ UNCHANGED <<settled, taken>>
    BY <1>0, <1>1, MineSteps
  <2>2. CASE /\ Settles(PaymentOf[r])
             /\ tx' = [tx EXCEPT ![r] = "success"]
             /\ settled' = settled \cup {PaymentOf[r]}
             /\ Take(PaymentOf[r])
    <3>1. PaymentOf[r] \notin settled
      BY <2>2 DEF Settles
    <3>2. \A s \in Requests : tx[s] = "success" => PaymentOf[s] # PaymentOf[r]
      BY <3>1 DEF SettledByOne
    <3>3. tx'[r] = "success" /\ \A s \in Requests \ {r} : tx'[s] = tx[s]
      BY <1>0, <2>2
    <3>4. taken' = taken \/ (taken' = taken \cup {PaymentOf[r]} /\ PaymentOf[r] \notin strayed)
      BY <2>2 DEF Take, Used
    <3>5. \A p \in taken' :
              p \notin strayed' /\ \E s \in Requests : PaymentOf[s] = p /\ tx'[s] = "success"
      BY <2>1, <3>3, <3>4 DEF SettledByOne
    <3>6. \A p \in settled' :
              p \in strayed' \/ \E s \in Requests : PaymentOf[s] = p /\ tx'[s] = "success"
      BY <2>1, <2>2, <3>3 DEF SettledByOne
    <3>7. \A s \in Requests : tx'[s] = "success" => PaymentOf[s] \in settled'
      BY <2>2, <3>3 DEF SettledByOne
    <3>8. \A s, u \in Requests :
              tx'[s] = "success" /\ tx'[u] = "success" /\ PaymentOf[s] = PaymentOf[u] => s = u
      BY <3>2, <3>3 DEF SettledByOne
    <3>. QED  BY <3>5, <3>6, <3>7, <3>8 DEF SettledByOne
  <2>3. CASE tx' = [tx EXCEPT ![r] = "reverted"] /\ UNCHANGED <<settled, taken>>
    <3>1. tx'[r] = "reverted" /\ \A s \in Requests \ {r} : tx'[s] = tx[s]
      BY <1>0, <2>3
    <3>. QED  BY <2>1, <2>3, <3>1 DEF SettledByOne
  <2>. QED  BY <2>1, <2>2, <2>3
<1>2. ASSUME UNCHANGED <<settled, taken, strayed>>,
             \A r \in Requests : tx'[r] = tx[r] \/ (tx[r] = "none" /\ tx'[r] = "pending")
      PROVE  SettledByOne'
  BY <1>2 DEF SettledByOne
<1>3. CASE Around
  <2>1. UNCHANGED <<tx, taken>>
    BY <1>0, <1>3, AroundSteps
  <2>2. /\ strayed \subseteq strayed' /\ settled \subseteq settled'
        /\ settled' \subseteq settled \cup strayed' /\ (strayed' \ strayed) \cap taken = {}
    BY <1>0, <1>3, AroundSteps
  <2>. QED  BY <2>1, <2>2 DEF SettledByOne
<1>. QED  BY <1>1, <1>2, <1>3, OnlyMiningSettles

\* The value of one more payment is taken.
LEMMA OneMoreTaken ==
    ASSUME ServiceAssumption, taken \subseteq {PaymentOf[r] : r \in Requests},
           IsFiniteSet(taken), NEW r \in Requests, PaymentOf[r] \notin taken,
           taken' = taken \cup {PaymentOf[r]}, NEW payer
    PROVE  /\ Total(TakenFrom(payer), [p \in taken |-> p.value]) \in Nat
           /\ Total(TakenFrom(payer)', [p \in taken |-> p.value]')
                = Total(TakenFrom(payer), [p \in taken |-> p.value])
                      + IF PaymentOf[r].payer = payer THEN PaymentOf[r].value ELSE 0
<1>. DEFINE q == PaymentOf[r]
            old == [p \in taken |-> p.value]
            new == [p \in taken \cup {q} |-> p.value]
            S == TakenFrom(payer)
<1>1. \A p \in taken \cup {q} : p.value \in Nat
  BY DEF ServiceAssumption, PaymentFields
<1>2. S \subseteq taken /\ q \notin S /\ IsFiniteSet(S)
  BY FS_Subset DEF TakenFrom
<1>3. (\A p \in S : old[p] \in Nat /\ new[p] = old[p]) /\ \A p \in S \cup {q} : new[p] \in Nat
  BY <1>1, <1>2
<1>4. Total(S, old) \in Nat
  BY <1>2, <1>3, TotalNat
<1>5. Total(S, new) = Total(S, old)
  BY <1>3, TotalCong
<1>6. [p \in taken |-> p.value]' = new
  OBVIOUS
<1>7. CASE q.payer = payer
  <2>1. TakenFrom(payer)' = S \cup {q}
    <3>. HIDE DEF q
    <3>1. TakenFrom(payer)' = {p \in taken \cup {q} : p.payer = payer}
      BY DEF TakenFrom, q
    <3>2. {p \in taken \cup {q} : p.payer = payer} = {p \in taken : p.payer = payer} \cup {q}
      BY <1>7, Zenon
    <3>3. S = {p \in taken : p.payer = payer}
      BY DEF TakenFrom
    <3>. HIDE DEF S
    <3>. QED  BY <3>1, <3>2, <3>3, Zenon
  <2>3. new[q] = q.value
    OBVIOUS
  <2>. HIDE DEF new, old, S, q
  <2>2. Total(S \cup {q}, new) = Total(S, new) + new[q]
    BY <1>2, <1>3, TotalAdd
  <2>4. Total(TakenFrom(payer)', [p \in taken |-> p.value]') = Total(S, old) + q.value
    BY <1>5, <1>6, <2>1, <2>2, <2>3
  <2>. QED  BY <1>4, <1>7, <2>4 DEF S, old, q
<1>8. CASE q.payer # payer
  <2>1. TakenFrom(payer)' = S
    BY <1>8 DEF TakenFrom
  <2>. HIDE DEF new, old, S, q
  <2>2. Total(TakenFrom(payer)', [p \in taken |-> p.value]') = Total(S, old) + 0
    BY <1>4, <1>5, <1>6, <2>1
  <2>. QED  BY <1>4, <1>8, <2>2 DEF S, old, q
<1>. QED  BY <1>7, <1>8

LEMMA PayersBooksKept ==
    ASSUME ServiceAssumption, ServiceInv, PayersBooks, [ServiceNext]_vars
    PROVE  PayersBooks'
<1>0. /\ JobInv /\ ServiceTypeOK /\ funds \in [DOMAIN InitialFunds -> Nat]
      /\ elsewhere \in [DOMAIN InitialFunds -> Nat]
      /\ taken \subseteq {PaymentOf[r] : r \in Requests} /\ IsFiniteSet(taken)
  BY DEF ServiceInv, JobInv, ServiceTypeOK, PayersBooks
<1>1. ASSUME UNCHANGED <<taken, funds, elsewhere>> PROVE PayersBooks'
  BY <1>1 DEF PayersBooks, TakenFrom
<1>2. ASSUME NEW a \in Accounts, Mine(a) PROVE PayersBooks'
  <2>1. PICK r \in Requests :
              /\ elsewhere' = elsewhere
              /\ \/ Settles(PaymentOf[r]) /\ Take(PaymentOf[r])
                 \/ UNCHANGED <<taken, funds>>
    BY <1>0, <1>2, MineSteps
  <2>. DEFINE q == PaymentOf[r]
  <2>2. CASE Settles(q) /\ Take(q) /\ ~ Used(q)
    <3>1. /\ q \notin taken /\ taken' = taken \cup {q}
          /\ funds' = [funds EXCEPT ![q.payer] = @ - q.value]
      BY <2>2 DEF Take, Used
    <3>2. q.value \in Nat
      BY DEF ServiceAssumption, PaymentFields
    <3>3. IsFiniteSet(taken')
      BY <1>0, <3>1, FS_AddElement
    <3>4. ASSUME NEW payer \in DOMAIN InitialFunds
          PROVE  funds'[payer] + elsewhere'[payer]
                   + Total(TakenFrom(payer)', [p \in taken |-> p.value]')
                     = InitialFunds[payer]
      <4>. DEFINE t == Total(TakenFrom(payer), [p \in taken |-> p.value])
                  t1 == Total(TakenFrom(payer)', [p \in taken |-> p.value]')
      <4>1. t \in Nat /\ t1 = t + IF q.payer = payer THEN q.value ELSE 0
        BY <1>0, <3>1, OneMoreTaken
      <4>2. /\ funds[payer] + elsewhere[payer] + t = InitialFunds[payer]
            /\ funds[payer] \in Nat /\ elsewhere[payer] \in Nat
            /\ elsewhere'[payer] = elsewhere[payer]
        BY <1>0, <2>1 DEF PayersBooks
      <4>. HIDE DEF t, t1
      <4>3. CASE q.payer = payer
        <5>1. funds'[payer] = funds[payer] - q.value /\ t1 = t + q.value
          BY <1>0, <3>1, <4>1, <4>3
        <5>. HIDE DEF q
        <5>2. funds'[payer] + elsewhere'[payer] + t1 = InitialFunds[payer]
          BY <3>2, <4>1, <4>2, <5>1
        <5>. QED  BY <5>2 DEF t1
      <4>4. CASE q.payer # payer
        <5>1. funds'[payer] = funds[payer] /\ t1 = t
          BY <1>0, <3>1, <4>1, <4>4
        <5>. QED  BY <4>2, <5>1 DEF t1
      <4>. QED  BY <4>3, <4>4
    <3>. QED  BY <3>3, <3>4 DEF PayersBooks
  <2>3. CASE Take(q) /\ Used(q)
    BY <1>1, <2>1, <2>3 DEF Take
  <2>. QED  BY <1>1, <2>1, <2>2, <2>3
<1>3. CASE Around
  <2>1. taken' = taken
    BY <1>0, <1>3, AroundSteps
  <2>2. \A payer \in DOMAIN InitialFunds :
            funds'[payer] + elsewhere'[payer] = funds[payer] + elsewhere[payer]
    BY <1>0, <1>3, AroundSteps
  <2>. QED  BY <2>1, <2>2 DEF PayersBooks, TakenFrom
<1>. QED  BY <1>1, <1>2, <1>3, OnlyMiningSettles

LEMMA ChargesSound == ServiceSpec => [](ServiceInv /\ SettledByOne /\ PayersBooks)
<1>1. ServiceInit => SettledByOne
  BY DEF ServiceInit, SettledByOne
<1>2. ASSUME ServiceAssumption, ServiceInit PROVE PayersBooks
  <2>1. /\ IsFiniteSet(taken) /\ funds = InitialFunds /\ taken = {}
        /\ elsewhere = [payer \in DOMAIN InitialFunds |-> 0]
    BY <1>2, FS_EmptySet DEF ServiceInit
  <2>2. ASSUME NEW payer \in DOMAIN InitialFunds
        PROVE  funds[payer] + elsewhere[payer]
                 + Total(TakenFrom(payer), [p \in taken |-> p.value]) = InitialFunds[payer]
    <3>1. TakenFrom(payer) = {}
      BY <2>1 DEF TakenFrom
    <3>2. Total(TakenFrom(payer), [p \in taken |-> p.value]) = 0
      BY <3>1, TotalEmpty
    <3>3. InitialFunds[payer] \in Nat /\ elsewhere[payer] = 0
      BY <1>2, <2>1 DEF ServiceAssumption
    <3>. QED  BY <2>1, <3>2, <3>3
  <2>. QED  BY <2>1, <2>2 DEF PayersBooks
<1>3. ServiceInv /\ SettledByOne /\ PayersBooks /\ [ServiceNext]_vars
          => SettledByOne' /\ PayersBooks'
  BY ServiceAssumption, SettledByOneKept, PayersBooksKept
<1>. QED  BY <1>1, <1>2, <1>3, ServiceAssumption, ServiceInductive, PTL DEF ServiceSpec

-----------------------------------------------------------------------------
(* The balance check *)

\* Only the balance check lets a request count as funded.
LEMMA FundedByCheck ==
    ASSUME ServiceAssumption, JobInv, NEW a \in Accounts, NEW r \in Requests, Job(a, r),
           phase'[r] = "funded"
    PROVE  funds'[PayerOf[r]] + SpentSince(r)' >= Required(PaymentOf[r])
<1>1. /\ phase \in [Requests -> Phases] /\ funds \in [DOMAIN InitialFunds -> Nat]
      /\ elsewhere \in [DOMAIN InitialFunds -> Nat] /\ checkedAt \in [Requests -> Nat]
  BY DEF JobInv, ServiceTypeOK
<1>2. /\ PayerOf[r] \in DOMAIN InitialFunds /\ Required(PaymentOf[r]) \in Nat
  BY DEF ServiceAssumption, PaymentFields, Required
<1>3. \A resp : ~ End(a, r, resp)
  BY <1>1 DEF End
<1>4. \A ph : Proceed(r, ph) => ph = "funded"
  BY <1>1 DEF Proceed
<1>5. ~ Throw(a, r)
  BY <1>1 DEF Throw
<1>6. CheckBalance(a, r)
  BY <1>3, <1>4, <1>5 DEF Job, Refuse, BalanceUnknown, Send, SendFails, Receipt, ReceiptTimeout
<1>7. /\ ~ (funds[PayerOf[r]] < Required(PaymentOf[r])) /\ UNCHANGED <<funds, elsewhere>>
      /\ checkedAt' = [checkedAt EXCEPT ![r] = elsewhere[PayerOf[r]]]
  BY <1>3, <1>6 DEF CheckBalance, BalanceSuffices, chainVars
<1>8. SpentSince(r)' = 0
  BY <1>1, <1>2, <1>7 DEF SpentSince
<1>. QED  BY <1>1, <1>2, <1>7, <1>8

\* A transaction that is mined while a request of the same payer is running was given up.
LEMMA MinedOfRunning ==
    ASSUME ServiceAssumption, ServiceInv, NEW r \in Requests, status[r] = "running",
           NEW s \in Requests, tx[s] = "pending", r # s, PayerOf[s] = PayerOf[r]
    PROVE  Abandoned(s)
<1>1. PayerOf[r] \in DOMAIN InitialFunds /\ PayerOf[r] # NoPayer
  BY DEF ServiceAssumption, PaymentFields
<1>2. s \notin InFlight
  BY <1>1 DEF ServiceInv, IInv, OneRequestPerPayer, InFlight
<1>3. /\ status[s] \in Statuses /\ response[s] \in Responses /\ phase[s] \in Phases
  BY JobTyped DEF ServiceInv, JobInv
<1>4. response[s] # "none"
  BY <1>2, <1>3 DEF ServiceInv, JobInv, JobPhase, TxPhase, InFlight, Statuses, Phases
<1>5. response[s] = "no_hash"
  BY <1>3, <1>4 DEF ServiceInv, JobInv, TxPhase, Responses
<1>. QED  BY <1>5 DEF Abandoned

\* What happens around the facilitator leaves its requests and transactions alone.
LEMMA Bystander ==
    ASSUME Around PROVE UNCHANGED <<poolVars, phase, response, checkedAt, tx, mempool, clock>>
BY DEF Around, SpendElsewhere, UseElsewhere, SettleElsewhere, Lose

LEMMA AbandonedForGood ==
    ASSUME ServiceInv, [ServiceNext]_vars, NEW s \in Requests, Abandoned(s)
    PROVE  Abandoned(s)'
<1>0. /\ JobInv /\ response \in [Requests -> Responses]
      /\ tx \in [Requests -> {"none", "pending", "success", "reverted"}]
  BY JobTyped DEF ServiceInv, JobInv
<1>1. response'[s] = response[s]
  <2>1. ASSUME NEW a \in Accounts, NEW r \in Requests, Job(a, r)
        PROVE  response'[s] = response[s]
    <3>1. status[r] = "running" /\ JobStep(a, r)
      BY <1>0, <2>1, JobSteps
    <3>2. r # s
      BY <3>1 DEF Abandoned, ServiceInv, JobInv, JobPhase
    <3>. QED  BY <1>0, <3>1, <3>2 DEF JobStep, Ends, GoesOn
  <2>2. ASSUME NEW a \in Accounts, Mine(a) PROVE response' = response
    BY <2>2 DEF Mine
  <2>3. ASSUME NEW r \in Requests, Handle(r) \/ Answer(r) PROVE response' = response
    BY <2>3 DEF Handle, Answer, Pool
  <2>4. ASSUME NEW a \in Accounts, Pool(StartNext(a)) \/ Pool(FreeSlot(a))
        PROVE  response' = response
    BY <2>4 DEF Pool
  <2>5. ASSUME TimePasses \/ UNCHANGED vars PROVE response' = response
    BY <2>5 DEF TimePasses, vars
  <2>6. CASE Around
    BY <2>6, Bystander
  <2>. QED  BY <2>1, <2>2, <2>3, <2>4, <2>5, <2>6 DEF ServiceNext
<1>2. tx'[s] # "none"
  <2>1. ASSUME NEW a \in Accounts, Mine(a) PROVE tx'[s] # "none"
    BY <1>0, <2>1, MineSteps DEF Abandoned
  <2>2. CASE Around
    BY <2>2, Bystander DEF Abandoned
  <2>. QED  BY <2>1, <2>2, OnlyMiningSettles DEF Abandoned
<1>. QED  BY <1>1, <1>2 DEF Abandoned

LEMMA FundsStayCheckedKept ==
    ASSUME ServiceAssumption, ServiceInv, FundsStayChecked, [ServiceNext]_vars
    PROVE  FundsStayChecked'
<1>0. /\ JobInv /\ IInv /\ phase \in [Requests -> Phases] /\ status \in [Requests -> Statuses]
      /\ funds \in [DOMAIN InitialFunds -> Nat] /\ ServiceTypeOK
      /\ checkedAt \in [Requests -> Nat] /\ elsewhere \in [DOMAIN InitialFunds -> Nat]
  BY JobTyped DEF ServiceInv, JobInv, ServiceTypeOK
<1>. SUFFICES ASSUME NEW r \in Requests, phase'[r] = "funded", status'[r] = "running"
              PROVE  \/ funds'[PayerOf[r]] + SpentSince(r)' >= Required(PaymentOf[r])
                     \/ \E s \in Requests \ {r} : PayerOf[s] = PayerOf[r] /\ Abandoned(s)'
  BY DEF FundsStayChecked
\* The payer's funds were checked before this step and are untouched by it.
<1>1. ASSUME phase[r] = "funded", status[r] = "running",
             funds'[PayerOf[r]] + SpentSince(r)' = funds[PayerOf[r]] + SpentSince(r)
      PROVE  \/ funds'[PayerOf[r]] + SpentSince(r)' >= Required(PaymentOf[r])
             \/ \E s \in Requests \ {r} : PayerOf[s] = PayerOf[r] /\ Abandoned(s)'
  BY <1>1, AbandonedForGood DEF FundsStayChecked
<1>2. ASSUME NEW a \in Accounts, NEW s \in Requests, Job(a, s)
      PROVE  \/ funds'[PayerOf[r]] + SpentSince(r)' >= Required(PaymentOf[r])
             \/ \E u \in Requests \ {r} : PayerOf[u] = PayerOf[r] /\ Abandoned(u)'
  <2>1. CASE s = r
    BY <1>0, <1>2, <2>1, FundedByCheck
  <2>2. CASE s # r
    <3>1. status[s] = "running" /\ JobStep(a, s)
      BY <1>0, <1>2, JobSteps
    <3>2. phase[r] = "funded" /\ status[r] = "running" /\ UNCHANGED <<funds, elsewhere>>
      BY <1>0, <2>2, <3>1 DEF JobStep, Ends, GoesOn, Broadcast, chainVars
    <3>3. \/ checkedAt' = checkedAt
          \/ checkedAt' = [checkedAt EXCEPT ![s] = elsewhere[PayerOf[s]]]
      BY <1>2 DEF Job, Refuse, Throw, CheckBalance, BalanceSuffices, BalanceUnknown, Send,
                  SendFails, Receipt, ReceiptTimeout, End, Proceed
    <3>4. checkedAt'[r] = checkedAt[r]
      BY <1>0, <2>2, <3>3
    <3>5. SpentSince(r)' = SpentSince(r)
      BY <3>2, <3>4 DEF SpentSince
    <3>. QED  BY <1>1, <3>2, <3>5
  <2>. QED  BY <2>1, <2>2
<1>3. ASSUME NEW a \in Accounts, Mine(a)
      PROVE  \/ funds'[PayerOf[r]] + SpentSince(r)' >= Required(PaymentOf[r])
             \/ \E s \in Requests \ {r} : PayerOf[s] = PayerOf[r] /\ Abandoned(s)'
  <2>1. PICK s \in Requests :
              /\ tx[s] = "pending"
              /\ UNCHANGED <<poolVars, phase, checkedAt, elsewhere>>
              /\ \/ funds' = [funds EXCEPT ![PaymentOf[s].payer] = @ - PaymentOf[s].value]
                 \/ UNCHANGED funds
    BY <1>0, <1>3, MineSteps DEF Take
  <2>2. phase[r] = "funded" /\ status[r] = "running"
    BY <2>1 DEF poolVars
  <2>3. CASE PayerOf[s] = PayerOf[r]
    <3>1. r # s
      BY <2>1, <2>2 DEF ServiceInv, JobInv, TxPhase
    <3>2. Abandoned(s)
      BY <2>1, <2>2, <2>3, <3>1, MinedOfRunning
    <3>. QED  BY <2>3, <3>1, <3>2, AbandonedForGood
  <2>4. CASE PayerOf[s] # PayerOf[r]
    <3>1. PaymentOf[s].payer = PayerOf[s] /\ PayerOf[r] \in DOMAIN InitialFunds
      BY DEF ServiceAssumption, PaymentFields
    <3>2. funds'[PayerOf[r]] = funds[PayerOf[r]]
      BY <1>0, <2>1, <2>4, <3>1
    <3>3. SpentSince(r)' = SpentSince(r)
      BY <2>1 DEF SpentSince
    <3>. QED  BY <1>1, <2>2, <3>2, <3>3
  <2>. QED  BY <2>3, <2>4
<1>4. ASSUME PoolMoves, UNCHANGED <<phase, funds, elsewhere, checkedAt>>
      PROVE  \/ funds'[PayerOf[r]] + SpentSince(r)' >= Required(PaymentOf[r])
             \/ \E s \in Requests \ {r} : PayerOf[s] = PayerOf[r] /\ Abandoned(s)'
  <2>1. phase[r] = "funded"
    BY <1>4
  <2>2. status[r] = "running"
    BY <1>4, <2>1 DEF PoolMoves, ServiceInv, JobInv, JobPhase
  <2>3. SpentSince(r)' = SpentSince(r)
    BY <1>4 DEF SpentSince
  <2>. QED  BY <1>1, <1>4, <2>1, <2>2, <2>3
<1>5. ASSUME NEW s \in Requests, Handle(s) \/ Answer(s)
      PROVE  PoolMoves /\ UNCHANGED <<phase, funds, elsewhere, checkedAt>>
  BY <1>0, <1>5, PoolActions DEF Handle, Answer, Pool, chainVars
<1>6. ASSUME NEW a \in Accounts, Pool(StartNext(a)) \/ Pool(FreeSlot(a))
      PROVE  PoolMoves /\ UNCHANGED <<phase, funds, elsewhere, checkedAt>>
  BY <1>0, <1>6, PoolActions DEF Pool, chainVars
<1>7. ASSUME TimePasses \/ UNCHANGED vars
      PROVE  PoolMoves /\ UNCHANGED <<phase, funds, elsewhere, checkedAt>>
  BY <1>7 DEF TimePasses, vars, poolVars, chainVars, PoolMoves
<1>8. ASSUME Around
      PROVE  \/ funds'[PayerOf[r]] + SpentSince(r)' >= Required(PaymentOf[r])
             \/ \E s \in Requests \ {r} : PayerOf[s] = PayerOf[r] /\ Abandoned(s)'
  <2>1. UNCHANGED <<poolVars, phase, checkedAt>>
    BY <1>8, Bystander
  <2>2. phase[r] = "funded" /\ status[r] = "running"
    BY <2>1 DEF poolVars
  <2>3. PayerOf[r] \in DOMAIN InitialFunds
    BY DEF ServiceAssumption, PaymentFields
  <2>4. /\ funds' \in [DOMAIN InitialFunds -> Nat]
        /\ elsewhere' \in [DOMAIN InitialFunds -> Nat]
        /\ funds'[PayerOf[r]] + elsewhere'[PayerOf[r]] = funds[PayerOf[r]] + elsewhere[PayerOf[r]]
    BY <1>0, <1>8, <2>3, AroundSteps
  <2>5. funds'[PayerOf[r]] + SpentSince(r)' = funds[PayerOf[r]] + SpentSince(r)
    <3>1. /\ funds[PayerOf[r]] \in Nat /\ elsewhere[PayerOf[r]] \in Nat /\ checkedAt[r] \in Nat
          /\ funds'[PayerOf[r]] \in Nat /\ elsewhere'[PayerOf[r]] \in Nat
          /\ checkedAt'[r] = checkedAt[r]
      BY <1>0, <2>1, <2>3, <2>4
    <3>. QED  BY <2>4, <3>1 DEF SpentSince
  <2>. QED  BY <1>1, <2>2, <2>5
<1>. QED  BY <1>2, <1>3, <1>4, <1>5, <1>6, <1>7, <1>8 DEF ServiceNext

-----------------------------------------------------------------------------
(* Theorems about settlements *)

\* Every reachable state of the service is well typed; in particular no payer's funds
\* become negative.
THEOREM ServiceTypeCorrect == ServiceSpec => []ServiceTypeOK
<1>1. ServiceInv => ServiceTypeOK
  BY DEF ServiceInv, JobInv
<1>. QED  BY <1>1, ServiceInductive, PTL

\* A response that names a transaction tells what became of it (the receipt branch of
\* executeSettlementWithWalletClient), for any number of requests, retries and accounts.
THEOREM ResponsesAreTrue == ServiceSpec => []ResponsesTrue
<1>1. ServiceInv /\ SettledByOne => ResponsesTrue
  BY DEF ServiceInv, JobInv, TxPhase, SettledByOne, ResponsesTrue
<1>. QED  BY <1>1, ChargesSound, PTL

\* A payment is charged once, however many requests carry it and whoever else uses its
\* authorization (settled in the router, retries of one authorization).
THEOREM ChargedOnce == ServiceSpec => []ChargedOncePerPayment
<1>1. ASSUME SettledByOne, PayersBooks PROVE ChargedOncePerPayment
  <2>1. ASSUME NEW r \in Requests PROVE Cardinality(Successes(PaymentOf[r])) <= 1
    <3>1. CASE Successes(PaymentOf[r]) # {}
      <4>1. PICK s \in Requests : PaymentOf[s] = PaymentOf[r] /\ tx[s] = "success"
        BY <3>1 DEF Successes
      <4>2. Successes(PaymentOf[r]) = {s}
        BY <1>1, <4>1 DEF SettledByOne, Successes
      <4>3. Cardinality({s}) = 1
        BY FS_Singleton
      <4>. QED  BY <4>2, <4>3
    <3>2. CASE Successes(PaymentOf[r]) = {}
      <4>1. Cardinality({}) = 0
        BY FS_EmptySet
      <4>. QED  BY <3>2, <4>1
    <3>. QED  BY <3>1, <3>2
  <2>2. /\ \A p \in settled : Successes(p) = {} => p \in strayed
        /\ \A p \in taken : Successes(p) # {} /\ p \notin strayed
    BY <1>1 DEF SettledByOne, Successes
  <2>. QED  BY <1>1, <2>1, <2>2 DEF PayersBooks, TakenFrom, ChargedOncePerPayment
<1>. QED  BY <1>1, ChargesSound, PTL

\* The payer lock of the pool protects the balance check of the job from the payer's other
\* requests, except those given up; what the payer spends elsewhere is all that can be
\* missing besides (executeSettlementWithRouter, from the check to writeContract).
THEOREM CheckedFundsStay == ServiceSpec => []FundsStayChecked
<1>1. ServiceInit => FundsStayChecked
  BY DEF ServiceInit, FundsStayChecked
<1>2. ServiceInv /\ FundsStayChecked /\ [ServiceNext]_vars => FundsStayChecked'
  BY ServiceAssumption, FundsStayCheckedKept
<1>. QED  BY <1>1, <1>2, ServiceInductive, PTL DEF ServiceSpec

\* What holds of the pool with arbitrary jobs holds of it with settlements: the payer
\* lock is exact and exclusive, a request is in one place and the limit is kept.
THEOREM ServicePoolSafe ==
    ServiceSpec => [](OneRequestPerPayer /\ PendingPayersExact /\ OnePlace /\ QueueWithinLimit)
<1>1. IInv => OneRequestPerPayer /\ PendingPayersExact
  BY DEF IInv
<1>. QED  BY <1>1, ServiceImplementsPool, Inductive, PlacesSound, DepthSound, PTL

-----------------------------------------------------------------------------
(* The service implements SettleOutcome *)

MappedRequest == [r \in Requests |-> SeenAs(r)]
MappedAnswer == [r \in Requests |-> SeenAnswer(r)]

LEMMA SeenStates ==
    ASSUME ServiceTypeOK, NEW r \in Requests
    PROVE  /\ status[r] = "new" => SeenAs(r) = "new" /\ SeenAnswer(r) = "none"
           /\ status[r] \in {"duplicate", "overloaded"}
                  => SeenAs(r) = "refused" /\ SeenAnswer(r) = "refused"
           /\ status[r] \in {"queued", "running", "returned"}
                  => SeenAs(r) = "accepted" /\ SeenAnswer(r) = "none"
           /\ status[r] = "released" =>
                /\ SeenAs(r) = "answered"
                /\ SeenAnswer(r) = IF response[r] \in {"success", "reverted"}
                                   THEN response[r] ELSE "failed"
<1>1. status[r] \in Statuses
  BY JobTyped
<1>2. status[r] = "new" => SeenAs(r) = "new"
  BY DEF SeenAs
<1>3. status[r] \in {"duplicate", "overloaded"} => SeenAs(r) = "refused"
  BY DEF SeenAs
<1>4. status[r] \in {"queued", "running", "returned"} => SeenAs(r) = "accepted"
  BY DEF SeenAs
<1>5. status[r] = "released" => SeenAs(r) = "answered"
  BY DEF SeenAs
<1>. QED  BY <1>1, <1>2, <1>3, <1>4, <1>5 DEF SeenAnswer

\* A request that stays where its sender sees it.
SeenAlike(r) ==
    \/ status'[r] = status[r] /\ (status[r] = "released" => response'[r] = response[r])
    \/ {status[r], status'[r]} \subseteq {"queued", "running", "returned"}

LEMMA AlikeSeen ==
    ASSUME ServiceTypeOK, ServiceTypeOK', NEW r \in Requests, SeenAlike(r)
    PROVE  SeenAs(r)' = SeenAs(r) /\ SeenAnswer(r)' = SeenAnswer(r)
<1>1. CASE {status[r], status'[r]} \subseteq {"queued", "running", "returned"}
  <2>1. SeenAs(r) = "accepted" /\ SeenAnswer(r) = "none"
    BY <1>1, SeenStates
  <2>2. SeenAs(r)' = "accepted" /\ SeenAnswer(r)' = "none"
    BY <1>1 DEF SeenAs, SeenAnswer
  <2>. QED  BY <2>1, <2>2
<1>2. CASE status'[r] = status[r] /\ (status[r] = "released" => response'[r] = response[r])
  <2>1. SeenAs(r)' = SeenAs(r)
    BY <1>2 DEF SeenAs
  <2>2. CASE status[r] = "released"
    BY <1>2, <2>1, <2>2 DEF SeenAnswer
  <2>3. CASE status[r] # "released"
    <3>1. SeenAs(r) # "answered"
      BY <2>3, SeenStates, JobTyped DEF Statuses
    <3>. QED  BY <2>1, <3>1 DEF SeenAnswer
  <2>. QED  BY <2>1, <2>2, <2>3
<1>. QED  BY <1>1, <1>2 DEF SeenAlike

\* Nothing is seen of a step that leaves every request where it was seen.
LEMMA NothingSeen ==
    ASSUME ServiceTypeOK, ServiceTypeOK', \A r \in Requests : SeenAlike(r)
    PROVE  MappedRequest' = MappedRequest /\ MappedAnswer' = MappedAnswer
BY AlikeSeen DEF MappedRequest, MappedAnswer

\* One request is seen elsewhere.
LEMMA OneSeen ==
    ASSUME ServiceTypeOK, ServiceTypeOK', NEW r \in Requests,
           \A s \in Requests \ {r} : SeenAlike(s)
    PROVE  /\ MappedRequest' = [MappedRequest EXCEPT ![r] = SeenAs(r)']
           /\ MappedAnswer' = [MappedAnswer EXCEPT ![r] = SeenAnswer(r)']
BY AlikeSeen DEF MappedRequest, MappedAnswer

LEMMA OutcomeExecute ==
    ASSUME ServiceTypeOK, ServiceTypeOK', NEW r \in Requests, Handle(r)
    PROVE  Outcome!Refuse(r) \/ Outcome!Admit(r)
<1>1. /\ status[r] = "new" /\ UNCHANGED <<response, tx>>
      /\ \/ status' = [status EXCEPT ![r] = "duplicate"]
         \/ status' = [status EXCEPT ![r] = "overloaded"]
         \/ status' = [status EXCEPT ![r] = "queued"]
      /\ status \in [Requests -> Statuses]
  BY JobTyped DEF Handle, Pool, chainVars, Execute, RejectDuplicate, RejectOverload, Accept
<1>2. \A s \in Requests \ {r} : SeenAlike(s)
  BY <1>1 DEF SeenAlike
<1>3. /\ MappedRequest' = [MappedRequest EXCEPT ![r] = SeenAs(r)']
      /\ MappedAnswer' = [MappedAnswer EXCEPT ![r] = SeenAnswer(r)']
  BY <1>2, OneSeen
<1>4. MappedRequest[r] = "new" /\ MappedAnswer[r] = "none"
  BY <1>1, SeenStates DEF MappedRequest, MappedAnswer
<1>5. CASE status'[r] \in {"duplicate", "overloaded"}
  <2>1. SeenAs(r)' = "refused" /\ SeenAnswer(r)' = "refused"
    BY <1>5 DEF SeenAs, SeenAnswer
  <2>. QED  BY <1>1, <1>3, <1>4, <2>1 DEF Outcome!Refuse, MappedRequest, MappedAnswer
<1>6. CASE status'[r] = "queued"
  <2>1. SeenAs(r)' = "accepted" /\ SeenAnswer(r)' = "none"
    BY <1>6 DEF SeenAs, SeenAnswer
  <2>2. MappedAnswer' = MappedAnswer
    BY <1>3, <1>4, <2>1 DEF MappedAnswer
  <2>. QED  BY <1>1, <1>3, <1>4, <2>1, <2>2 DEF Outcome!Admit, MappedRequest, MappedAnswer
<1>. QED  BY <1>1, <1>5, <1>6

LEMMA OutcomeRelease ==
    ASSUME ServiceInv, ServiceTypeOK', NEW r \in Requests, Answer(r)
    PROVE  Outcome!Respond(r)
<1>1. /\ ServiceTypeOK /\ status[r] = "returned" /\ UNCHANGED <<response, tx>>
      /\ status' = [status EXCEPT ![r] = "released"] /\ status \in [Requests -> Statuses]
  BY JobTyped DEF Answer, Pool, chainVars, Release, ServiceInv, JobInv
<1>2. \A s \in Requests \ {r} : SeenAlike(s)
  BY <1>1 DEF SeenAlike
<1>3. /\ MappedRequest' = [MappedRequest EXCEPT ![r] = SeenAs(r)']
      /\ MappedAnswer' = [MappedAnswer EXCEPT ![r] = SeenAnswer(r)']
  BY <1>1, <1>2, OneSeen
<1>4. MappedRequest[r] = "accepted"
  BY <1>1, SeenStates DEF MappedRequest
<1>5. SeenAs(r)' = "answered"
  BY <1>1 DEF SeenAs
<1>6. SeenAnswer(r)' \in {"success", "reverted", "failed"}
      /\ (SeenAnswer(r)' # "failed" => SeenAnswer(r)' = tx[r])
  <2>1. SeenAnswer(r)' = IF response[r] \in {"success", "reverted"} THEN response[r] ELSE "failed"
    BY <1>1, <1>5 DEF SeenAnswer
  <2>. QED  BY <2>1 DEF ServiceInv, JobInv, TxPhase
<1>. QED  BY <1>1, <1>3, <1>4, <1>5, <1>6 DEF Outcome!Respond, MappedRequest, MappedAnswer

\* A step of a job, seen from outside, sends the transaction or is not seen.
LEMMA OutcomeJob ==
    ASSUME ServiceInv, ServiceTypeOK', NEW a \in Accounts, NEW r \in Requests, Job(a, r)
    PROVE  Outcome!Broadcast(r) \/ UNCHANGED Outcome!outcomeVars
<1>1. /\ JobInv /\ ServiceTypeOK /\ status[r] = "running" /\ JobStep(a, r)
      /\ status \in [Requests -> Statuses] /\ response \in [Requests -> Responses]
  BY JobSteps, JobTyped DEF ServiceInv, JobInv
<1>2. \A s \in Requests : SeenAlike(s)
  BY <1>1 DEF JobStep, Ends, GoesOn, SeenAlike
<1>3. MappedRequest' = MappedRequest /\ MappedAnswer' = MappedAnswer
  BY <1>1, <1>2, NothingSeen
<1>4. MappedRequest[r] = "accepted"
  BY <1>1, SeenStates DEF MappedRequest
<1>5. CASE UNCHANGED chainVars
  BY <1>3, <1>5 DEF chainVars, Outcome!outcomeVars, MappedRequest, MappedAnswer
<1>6. CASE phase[r] \in {"funded", "unchecked"} /\ Broadcast(a, r)
  <2>1. tx[r] = "none" /\ tx' = [tx EXCEPT ![r] = "pending"]
    BY <1>1, <1>6 DEF JobInv, TxPhase, Broadcast
  <2>. QED  BY <1>3, <1>4, <2>1 DEF Outcome!Broadcast, MappedRequest, MappedAnswer
<1>. QED  BY <1>1, <1>5, <1>6 DEF JobStep

LEMMA OutcomeMine ==
    ASSUME ServiceInv, ServiceTypeOK', NEW a \in Accounts, Mine(a)
    PROVE  \E r \in Requests : Outcome!Mine(r)
<1>1. JobInv /\ ServiceTypeOK
  BY DEF ServiceInv, JobInv
<1>2. PICK r \in Requests :
              /\ tx[r] = "pending" /\ UNCHANGED <<poolVars, response>>
              /\ \/ tx' = [tx EXCEPT ![r] = "success"]
                 \/ tx' = [tx EXCEPT ![r] = "reverted"]
  BY <1>1, MineSteps
<1>3. \A s \in Requests : SeenAlike(s)
  BY <1>2 DEF SeenAlike, poolVars
<1>4. MappedRequest' = MappedRequest /\ MappedAnswer' = MappedAnswer
  BY <1>1, <1>3, NothingSeen
<1>. QED  BY <1>2, <1>4 DEF Outcome!Mine, MappedRequest, MappedAnswer

\* The pool works, time passes or the payer acts elsewhere: nothing is seen.
LEMMA OutcomeQuiet ==
    ASSUME ServiceInv, ServiceTypeOK',
           \/ \E a \in Accounts : Pool(StartNext(a)) \/ Pool(FreeSlot(a))
           \/ TimePasses
           \/ Around
           \/ UNCHANGED vars
    PROVE  UNCHANGED Outcome!outcomeVars
<1>1. /\ IInv /\ ServiceTypeOK /\ status \in [Requests -> Statuses]
      /\ queue \in [Accounts -> Seq(Requests)]
  BY JobTyped DEF ServiceInv, JobInv, IInv, TypeOK
<1>2. UNCHANGED <<response, tx>>
  BY Bystander DEF Pool, TimePasses, vars, chainVars
<1>3. ASSUME NEW a \in Accounts, queue[a] # <<>>,
             status' = [status EXCEPT ![Head(queue[a])] = "running"]
      PROVE  \A s \in Requests : SeenAlike(s)
  <2>1. /\ Len(queue[a]) >= 1 /\ Len(queue[a]) \in Nat
        /\ Head(queue[a]) = queue[a][1] /\ Head(queue[a]) \in Requests
    BY <1>1, <1>3
  <2>2. status[Head(queue[a])] = "queued"
    BY <1>1, <2>1 DEF IInv, QueuedStatus
  <2>. QED  BY <1>1, <1>2, <1>3, <2>1, <2>2 DEF SeenAlike
<1>4. ASSUME status' = status PROVE \A s \in Requests : SeenAlike(s)
  BY <1>2, <1>4 DEF SeenAlike
<1>5. \A s \in Requests : SeenAlike(s)
  BY <1>3, <1>4, Bystander DEF Pool, StartNext, FreeSlot, TimePasses, vars, poolVars
<1>6. MappedRequest' = MappedRequest /\ MappedAnswer' = MappedAnswer
  BY <1>1, <1>5, NothingSeen
<1>. QED  BY <1>2, <1>6 DEF Outcome!outcomeVars, MappedRequest, MappedAnswer

LEMMA OutcomeInit == ASSUME ServiceInv, ServiceInit PROVE Outcome!Init
<1>1. \A r \in Requests : SeenAs(r) = "new" /\ SeenAnswer(r) = "none"
  BY SeenStates DEF ServiceInit, Init, ServiceInv, JobInv
<1>. QED  BY <1>1 DEF ServiceInit, Outcome!Init

\* Seen from outside, the service does to every request what SettleOutcome says, for any
\* number of accounts, requests and retries and for every order of mining
\* (routes/settle.ts to the receipt).
THEOREM ServiceMeetsOutcome == ServiceSpec => ImplementsOutcome
<1>1. ServiceInv /\ ServiceInit => Outcome!Init
  BY OutcomeInit
<1>2. ServiceInv /\ ServiceInv' /\ [ServiceNext]_vars => [Outcome!Next]_(Outcome!outcomeVars)
  <2>. SUFFICES ASSUME ServiceInv, ServiceInv', [ServiceNext]_vars
                PROVE  Outcome!Next \/ UNCHANGED Outcome!outcomeVars
    BY Zenon
  <2>1. ServiceTypeOK /\ ServiceTypeOK'
    BY DEF ServiceInv, JobInv
  <2>2. ASSUME NEW r \in Requests, Handle(r) PROVE Outcome!Next
    BY <2>1, <2>2, OutcomeExecute DEF Outcome!Next
  <2>3. ASSUME NEW r \in Requests, Answer(r) PROVE Outcome!Next
    BY <2>1, <2>3, OutcomeRelease DEF Outcome!Next
  <2>4. ASSUME NEW a \in Accounts, NEW r \in Requests, Job(a, r)
        PROVE  Outcome!Next \/ UNCHANGED Outcome!outcomeVars
    BY <2>1, <2>4, OutcomeJob DEF Outcome!Next
  <2>5. ASSUME NEW a \in Accounts, Mine(a) PROVE Outcome!Next
    BY <2>1, <2>5, OutcomeMine DEF Outcome!Next
  <2>. QED  BY <2>1, <2>2, <2>3, <2>4, <2>5, OutcomeQuiet DEF ServiceNext
<1>. QED  BY <1>1, <1>2, ServiceInductive, PTL DEF ServiceSpec, ImplementsOutcome, Outcome!Spec

=============================================================================
