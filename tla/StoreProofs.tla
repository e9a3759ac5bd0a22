---------------------------- MODULE StoreProofs -----------------------------
(***************************************************************************)
(* Proofs about what modules keep in their stores.  About Trading, for any *)
(* set of workers, users, tickers, amounts and prices, and any bounds on   *)
(* money and share counts; what depends on the lock is proved for workers  *)
(* of one process (OneProcess).  About StatsViews, for any commands, users *)
(* and other modules' entries, and every back end.                         *)
(***************************************************************************)
EXTENDS Trading, StatsViews, Loops

----------------------------------------------------------------------------
(* Trading. *)

(* int64 arithmetic stays in the integers. *)
LEMMA Int64Type == \A x \in Int : Int64(x) \in Int
  BY ConstantsAssumption DEF Int64

(* A request that passed the argument checks names a user, and a positive  *)
(* amount or a ticker and a positive quantity.                             *)
LEMMA WellFormed ==
  ASSUME NEW r \in Request, ~Malformed(r)
  PROVE  /\ r.user \in User
         /\ r.cmd \in {"topup", "buy", "sell"}
         /\ r.cmd = "topup" => r.amount \in Amount /\ r.amount \in Int /\ r.amount > 0
         /\ r.cmd # "topup" => /\ r.ticker \in Ticker
                               /\ r.qty \in Qty /\ r.qty \in Int /\ r.qty > 0
<1>1. CASE r \in TopUpRequest
  <2>1. r.cmd = "topup" /\ r.user \in User \cup {None} /\ r.amount \in Amount
    BY <1>1 DEF TopUpRequest
  <2>2. r.user # None /\ ~(r.amount <= 0)
    BY <2>1 DEF Malformed
  <2>3. r.amount \in Int
    BY <2>1, ConstantsAssumption
  <2>4. QED
    BY <2>1, <2>2, <2>3
<1>2. CASE r \in TradeRequest
  <2>1. /\ r.cmd \in {"buy", "sell"} /\ r.user \in User \cup {None}
        /\ r.ticker \in Ticker \cup {None} /\ r.qty \in Qty
    BY <1>2 DEF TradeRequest
  <2>2. r.user # None /\ r.ticker # None /\ ~(r.qty <= 0)
    BY <2>1 DEF Malformed
  <2>3. r.qty \in Int
    BY <2>1, ConstantsAssumption
  <2>4. QED
    BY <2>1, <2>2, <2>3
<1>3. QED
  BY <1>1, <1>2 DEF Request

(* A handler's computation turns a portfolio into a portfolio. *)
LEMMA AppliedType ==
  ASSUME NEW r \in Request, ~Malformed(r), NEW p \in Portfolio, NEW q,
         r.cmd # "topup" => q \in Price
  PROVE  Applied(r, p, q) \in Portfolio
<1> USE DEF Portfolio
<1>1. CASE r.cmd = "topup"
  <2>1. Applied(r, p, q) = ToppedUp(p, r.amount)
    BY <1>1 DEF Applied
  <2>2. r.amount \in Int
    BY <1>1, WellFormed
  <2>3. p.cash + r.amount \in Int /\ p.invested + r.amount \in Int
    BY <2>2
  <2>4. ToppedUp(p, r.amount) \in Portfolio
    BY <2>3, Zenon DEF ToppedUp
  <2>5. QED
    BY <2>1, <2>4
<1>2. CASE r.cmd = "buy"
  <2>1. Applied(r, p, q) = Bought(p, r.ticker, r.qty, q)
    BY <1>2 DEF Applied
  <2>2. q \in Int /\ r.qty \in Int /\ r.ticker \in Ticker
    <3>1. r.cmd # "topup"
      BY <1>2
    <3>2. q \in Price
      BY <3>1
    <3>3. QED
      BY <3>1, <3>2, WellFormed, ConstantsAssumption
  <2>3. /\ Int64(p.shares[r.ticker] + r.qty) \in Int
        /\ p.cash - r.qty * q \in Int
    BY <2>2, Int64Type
  <2>4. Bought(p, r.ticker, r.qty, q) \in Portfolio
    BY <2>2, <2>3 DEF Bought
  <2>5. QED
    BY <2>1, <2>4
<1>3. CASE r.cmd = "sell"
  <2>1. Applied(r, p, q) = Sold(p, r.ticker, r.qty, q)
    BY <1>3 DEF Applied
  <2>2. q \in Int /\ r.qty \in Int /\ r.ticker \in Ticker
    <3>1. r.cmd # "topup"
      BY <1>3
    <3>2. q \in Price
      BY <3>1
    <3>3. QED
      BY <3>1, <3>2, WellFormed, ConstantsAssumption
  <2>3. /\ p.shares[r.ticker] - r.qty \in Int
        /\ p.cash + r.qty * q \in Int
    BY <2>2
  <2>4. Sold(p, r.ticker, r.qty, q) \in Portfolio
    BY <2>2, <2>3 DEF Sold
  <2>5. QED
    BY <2>1, <2>4
<1>4. QED
  BY <1>1, <1>2, <1>3, WellFormed

LEMMA NewPortfolioType == NewPortfolio \in Portfolio
  BY DEF NewPortfolio, Portfolio

----------------------------------------------------------------------------

(* Type correctness, for any number of processes. *)
THEOREM TypeCorrect == Spec => []TypeOK
<1>1. Init => TypeOK
  BY NewPortfolioType, ConstantsAssumption
     DEF Init, TypeOK, Trades, Locking, Idle
<1>2. TypeOK /\ [Next]_vars => TypeOK'
  <2> SUFFICES ASSUME TypeOK, [Next]_vars
               PROVE  TypeOK'
    OBVIOUS
  <2> USE DEF TypeOK, Trades, Locking, Goto, local
  <2>1. ASSUME NEW w \in Worker, NEW r \in Request, Receive(w, r)
        PROVE  TypeOK'
    BY <2>1 DEF Receive
  <2>2. ASSUME NEW w \in Worker, Resolve(w)
        PROVE  TypeOK'
    BY <2>2 DEF Resolve
  <2>3. ASSUME NEW w \in Worker, Validate(w)
        PROVE  TypeOK'
    BY <2>3 DEF Validate
  <2>4. ASSUME NEW w \in Worker, Cache(w)
        PROVE  TypeOK'
    <3>1. req[w].ticker \in Ticker
      BY <2>4, WellFormed DEF Cache
    <3>2. QED
      BY <2>4, <3>1 DEF Cache
  <2>5. ASSUME NEW w \in Worker, FetchPrice(w)
        PROVE  TypeOK'
    <3>1. req[w].ticker \in Ticker
      BY <2>5, WellFormed DEF FetchPrice
    <3>2. QED
      BY <2>5, <3>1 DEF FetchPrice
  <2>6. ASSUME NEW w \in Worker, Acquire(w)
        PROVE  TypeOK'
    BY <2>6, ConstantsAssumption DEF Acquire
  <2>7. ASSUME NEW w \in Worker, Load(w)
        PROVE  TypeOK'
    <3>1. req[w].user \in User
      BY <2>7, WellFormed DEF Load
    <3>2. QED
      BY <2>7, <3>1 DEF Load
  <2>8. ASSUME NEW w \in Worker, Save(w)
        PROVE  TypeOK'
    <3>1. req[w].user \in User
      BY <2>8, WellFormed DEF Save
    <3>2. Applied(req[w], copy[w], quote[w]) \in Portfolio
      BY <2>8, AppliedType DEF Save
    <3>3. QED
      BY <2>8, <3>1, <3>2 DEF Save
  <2>9. ASSUME NEW w \in Worker, Insufficient(w)
        PROVE  TypeOK'
    BY <2>9 DEF Insufficient
  <2>10. ASSUME NEW w \in Worker, ReplyUnlocked(w)
         PROVE  TypeOK'
    BY <2>10, NewPortfolioType DEF ReplyUnlocked, Forget
  <2>11. ASSUME NEW w \in Worker, ReplyAndUnlock(w)
         PROVE  TypeOK'
    <3>1. req[w].cmd = "topup" => req[w].amount \in Int
      BY <2>11, WellFormed DEF ReplyAndUnlock
    <3>2. told' \in [User -> Int]
      <4>1. CASE pc[w] = "confirm" /\ req[w].cmd = "topup"
        <5>1. told[req[w].user] + req[w].amount \in Int
          BY <2>11, <3>1, <4>1, WellFormed
        <5>2. QED
          BY <2>11, <4>1, <5>1 DEF ReplyAndUnlock
      <4>2. CASE ~(pc[w] = "confirm" /\ req[w].cmd = "topup")
        BY <2>11, <4>2 DEF ReplyAndUnlock
      <4>3. QED
        BY <4>1, <4>2
    <3>3. lock' \in [Process -> [User -> Worker \cup {None}]]
      BY <2>11 DEF ReplyAndUnlock, AfterReply, Unlocked
    <3>4. QED
      BY <2>11, <3>2, <3>3, NewPortfolioType DEF ReplyAndUnlock, Forget
  <2>12. ASSUME NEW t \in Ticker, MarketMoves(t)
         PROVE  TypeOK'
    BY <2>12 DEF MarketMoves
  <2>13. ASSUME NEW p \in Process, Crash(p)
         PROVE  TypeOK'
    BY <2>13, NewPortfolioType DEF Crash
  <2>14. CASE UNCHANGED vars
    BY <2>14 DEF vars
  <2>15. QED
    BY <2>1, <2>2, <2>3, <2>4, <2>5, <2>6, <2>7, <2>8, <2>9, <2>10, <2>11,
       <2>12, <2>13, <2>14 DEF Next, Handle
<1>3. QED
  BY <1>1, <1>2, PTL DEF Spec

----------------------------------------------------------------------------

(* The lock of a user names the one worker of the process that is past     *)
(* Acquire, in every reachable state: the deferred unlock runs on every    *)
(* return path and a crash leaves nothing locked.                          *)
THEOREM LockDiscipline == Spec => []LockMatchesHolder
<1>1. Init => LockMatchesHolder
  BY ConstantsAssumption DEF Init, LockMatchesHolder, Locking
<1>2. TypeOK /\ LockMatchesHolder /\ [Next]_vars => LockMatchesHolder'
  <2> SUFFICES ASSUME TypeOK, LockMatchesHolder, [Next]_vars
               PROVE  LockMatchesHolder'
    OBVIOUS
  <2> USE DEF LockMatchesHolder, TypeOK, Locking, Goto, local
  <2>1. ASSUME NEW w \in Worker, NEW r \in Request, Receive(w, r)
        PROVE  LockMatchesHolder'
    BY <2>1 DEF Receive
  <2>2. ASSUME NEW w \in Worker, Resolve(w) \/ Validate(w) \/ Cache(w) \/ FetchPrice(w)
        PROVE  LockMatchesHolder'
    <3>1. /\ pc[w] \notin Locking /\ lock' = lock /\ req' = req
          /\ \E l \in {"lock", "quote", "validate", "cache", "usage"} :
               pc' = [pc EXCEPT ![w] = l]
      BY <2>2 DEF Resolve, Validate, Cache, FetchPrice
    <3>2. QED
      BY <3>1
  <2>3. ASSUME NEW w \in Worker, Acquire(w)
        PROVE  LockMatchesHolder'
    <3>1. req[w].user \in User /\ home[w] \in Process
      <4>1. req[w] \in Request /\ ~Malformed(req[w])
        BY <2>3 DEF Acquire
      <4>2. QED
        BY <4>1, WellFormed, ConstantsAssumption
    <3>2. \A v \in Worker : v # w =>
            ~(home[v] = home[w] /\ pc[v] \in Locking /\ req[v].user = req[w].user)
      BY <2>3, <3>1, ConstantsAssumption DEF Acquire, CanLock, Free
    <3>3. QED
      BY <2>3, <3>1, <3>2 DEF Acquire
  <2>4. ASSUME NEW w \in Worker, Load(w) \/ Save(w) \/ Insufficient(w)
        PROVE  LockMatchesHolder'
    BY <2>4 DEF Load, Save, Insufficient
  <2>5. ASSUME NEW w \in Worker, ReplyUnlocked(w)
        PROVE  LockMatchesHolder'
    BY <2>5 DEF ReplyUnlocked, Forget
  <2>6. ASSUME NEW w \in Worker, ReplyAndUnlock(w)
        PROVE  LockMatchesHolder'
    <3>1. req[w].user \in User /\ home[w] \in Process
      BY <2>6, WellFormed, ConstantsAssumption DEF ReplyAndUnlock
    <3>2. \A v \in Worker : v # w =>
            ~(home[v] = home[w] /\ pc[v] \in Locking /\ req[v].user = req[w].user)
      BY <2>6 DEF ReplyAndUnlock
    <3>3. lock' = [lock EXCEPT ![home[w]][req[w].user] = None]
      BY <2>6 DEF ReplyAndUnlock, AfterReply, Unlocked
    <3>4. pc' = [pc EXCEPT ![w] = "idle"] /\ req' = [req EXCEPT ![w] = Idle]
      BY <2>6 DEF ReplyAndUnlock, Forget
    <3>5. QED
      BY <3>1, <3>2, <3>3, <3>4, ConstantsAssumption
  <2>7. ASSUME NEW t \in Ticker, MarketMoves(t)
        PROVE  LockMatchesHolder'
    BY <2>7 DEF MarketMoves
  <2>8. ASSUME NEW p \in Process, Crash(p)
        PROVE  LockMatchesHolder'
    BY <2>8, ConstantsAssumption DEF Crash
  <2>9. CASE UNCHANGED vars
    BY <2>9 DEF vars
  <2>10. QED
    BY <2>1, <2>2, <2>3, <2>4, <2>5, <2>6, <2>7, <2>8, <2>9 DEF Next, Handle
<1>3. QED
  BY <1>1, <1>2, TypeCorrect, PTL DEF Spec

----------------------------------------------------------------------------

(* In one process no two workers are past Acquire for one user. *)
LEMMA HoldersDiffer ==
  ASSUME OneProcess, TypeOK, LockMatchesHolder,
         NEW v \in Worker, NEW w \in Worker, v # w,
         pc[v] \in Locking, pc[w] \in Locking
  PROVE  req[v].user # req[w].user
BY DEF OneProcess, LockMatchesHolder

(* A worker past Acquire handles a well-formed request of some user. *)
LEMMA HolderRequest ==
  ASSUME TypeOK, NEW w \in Worker, pc[w] \in Locking
  PROVE  /\ req[w] \in Request /\ ~Malformed(req[w])
         /\ req[w].user \in User
         /\ req[w].cmd # "topup" => quote[w] \in Price
BY WellFormed DEF TypeOK

(* Between a worker's Get and its reply nobody else writes the portfolio:  *)
(* what it computes from, and what it tells the user, is what is stored.   *)
THEOREM NoLostUpdate ==
  ASSUME OneProcess
  PROVE  Spec => []CopyIsCurrent
<1>1. Init => CopyIsCurrent
  BY DEF Init, CopyIsCurrent
<1>2. TypeOK /\ LockMatchesHolder /\ CopyIsCurrent /\ [Next]_vars => CopyIsCurrent'
  <2> SUFFICES ASSUME TypeOK, LockMatchesHolder, CopyIsCurrent, [Next]_vars
               PROVE  CopyIsCurrent'
    OBVIOUS
  <2> USE DEF CopyIsCurrent, Goto, local
  <2>1. ASSUME NEW w \in Worker, NEW r \in Request, Receive(w, r)
        PROVE  CopyIsCurrent'
    BY <2>1 DEF Receive, TypeOK
  <2>2. ASSUME NEW w \in Worker,
               Resolve(w) \/ Validate(w) \/ Cache(w) \/ FetchPrice(w)
        PROVE  CopyIsCurrent'
    <3>1. /\ UNCHANGED <<store, req, copy>>
          /\ \E l \in {"lock", "quote", "validate", "cache", "usage"} :
               pc' = [pc EXCEPT ![w] = l]
      BY <2>2 DEF Resolve, Validate, Cache, FetchPrice
    <3>2. QED
      BY <3>1 DEF TypeOK
  <2>3. ASSUME NEW w \in Worker, Acquire(w) \/ Insufficient(w)
        PROVE  CopyIsCurrent'
    BY <2>3 DEF Acquire, Insufficient, TypeOK
  <2>4. ASSUME NEW w \in Worker, Load(w)
        PROVE  CopyIsCurrent'
    BY <2>4 DEF Load, TypeOK
  <2>5. ASSUME NEW w \in Worker, Save(w)
        PROVE  CopyIsCurrent'
    <3>1. req[w].user \in User
      BY <2>5, HolderRequest DEF Save, Locking
    <3>2. ASSUME NEW v \in Worker, v # w, pc[v] \in {"save", "confirm"}
          PROVE  store'[req[v].user] = store[req[v].user]
      <4>1. req[v].user # req[w].user
        BY <2>5, <3>2, HoldersDiffer DEF Save, Locking
      <4>2. req[v].user \in User
        BY <3>2, HolderRequest DEF Locking
      <4>3. QED
        BY <2>5, <4>1, <4>2 DEF Save, TypeOK
    <3>3. pc'[w] = "confirm" => copy'[w] = store'[req[w].user]
      BY <2>5, <3>1 DEF Save, TypeOK
    <3>4. pc'[w] # "save"
      BY <2>5 DEF Save, TypeOK
    <3>5. \A v \in Worker : v # w => pc'[v] = pc[v] /\ copy'[v] = copy[v]
      BY <2>5 DEF Save, TypeOK
    <3>6. req' = req
      BY <2>5 DEF Save
    <3>7. QED
      BY <3>2, <3>3, <3>4, <3>5, <3>6
  <2>6. ASSUME NEW w \in Worker, ReplyUnlocked(w) \/ ReplyAndUnlock(w)
        PROVE  CopyIsCurrent'
    <3>1. /\ store' = store
          /\ pc' = [pc EXCEPT ![w] = "idle"]
          /\ req' = [req EXCEPT ![w] = Idle]
          /\ copy' = [copy EXCEPT ![w] = NewPortfolio]
      BY <2>6 DEF ReplyUnlocked, ReplyAndUnlock, Forget
    <3>2. QED
      BY <3>1 DEF TypeOK
  <2>7. ASSUME NEW t \in Ticker, MarketMoves(t)
        PROVE  CopyIsCurrent'
    BY <2>7 DEF MarketMoves
  <2>8. ASSUME NEW p \in Process, Crash(p)
        PROVE  CopyIsCurrent'
    BY <2>8 DEF Crash
  <2>9. CASE UNCHANGED vars
    BY <2>9 DEF vars
  <2>10. QED
    BY <2>1, <2>2, <2>3, <2>4, <2>5, <2>6, <2>7, <2>8, <2>9 DEF Next, Handle
<1>3. QED
  BY <1>1, <1>2, TypeCorrect, LockDiscipline, PTL DEF Spec

----------------------------------------------------------------------------

(* Only the Put of a handler changes the store, and it stores what the     *)
(* handler computed from the portfolio it replaces.                        *)
LEMMA OnlySaveWrites ==
  ASSUME [Next]_vars, store' # store
  PROVE  \E w \in Worker : Save(w)
BY DEF Next, Handle, Receive, Resolve, Validate, Cache, FetchPrice, Acquire,
       Load, Insufficient, ReplyUnlocked, ReplyAndUnlock, MarketMoves, Crash,
       vars

LEMMA SaveApplies ==
  ASSUME TypeOK, CopyIsCurrent, NEW w \in Worker, Save(w), store' # store
  PROVE  /\ Covered(req[w], store[req[w].user], quote[w])
         /\ store' = [store EXCEPT ![req[w].user] =
                        Applied(req[w], store[req[w].user], quote[w])]
BY DEF Save, CopyIsCurrent

(* What Trading computes from one portfolio is what Ledger does to it.     *)
LEMMA TopUpStep ==
  ASSUME store \in [User -> Portfolio], NEW u \in User, NEW amount, amount > 0,
         store' = [store EXCEPT ![u] = ToppedUp(store[u], amount)]
  PROVE  L!TopUp(u, amount)
BY DEF L!TopUp, ToppedUp, Portfolio

LEMMA BuyStep ==
  ASSUME store \in [User -> Portfolio], NEW u \in User, NEW t \in Ticker,
         NEW qty, NEW price,
         qty > 0, store[u].cash >= qty * price,
         store' = [store EXCEPT ![u] = Bought(store[u], t, qty, price)]
  PROVE  L!Buy(u, t, qty, price)
<1> DEFINE cost == qty * price
           held(n) == Int64(n)
<1> HIDE DEF cost, held
<1>1. store' = [store EXCEPT ![u] = [store[u] EXCEPT !.cash = @ - cost,
                                                    !.shares[t] = held(@ + qty)]]
  BY Zenon DEF cost, held, Bought
<1>2. store' = [store EXCEPT ![u].cash = @ - cost, ![u].shares[t] = held(@ + qty)]
  BY <1>1 DEF Portfolio
<1>3. QED
  BY <1>2, Zenon DEF cost, held, Int64, L!Int64, L!Buy

LEMMA SellStep ==
  ASSUME store \in [User -> Portfolio], NEW u \in User, NEW t \in Ticker,
         NEW qty, NEW price,
         qty > 0, store[u].shares[t] >= qty,
         store' = [store EXCEPT ![u] = Sold(store[u], t, qty, price)]
  PROVE  L!Sell(u, t, qty, price)
<1> DEFINE cost == qty * price
<1> HIDE DEF cost
<1>1. store' = [store EXCEPT ![u] = [store[u] EXCEPT !.cash = @ + cost,
                                                    !.shares[t] = @ - qty]]
  BY Zenon DEF cost, Sold
<1>2. store' = [store EXCEPT ![u].cash = @ + cost, ![u].shares[t] = @ - qty]
  BY <1>1 DEF Portfolio
<1>3. QED
  BY <1>2, Zenon DEF cost, L!Sell

(* Trading implements Ledger: a handler's Put is one top-up, purchase or   *)
(* sale applied to the stored account, and nothing else changes it.        *)
THEOREM TradingImplementsLedger ==
  ASSUME OneProcess
  PROVE  Spec => ImplementsLedger
<1>1. Init => L!Init
  BY DEF Init, NewPortfolio, L!Init, L!EmptyAccount
<1>2. TypeOK /\ CopyIsCurrent /\ [Next]_vars => [L!Next]_store
  <2> SUFFICES ASSUME TypeOK, CopyIsCurrent, [Next]_vars, store' # store
               PROVE  L!Next
    OBVIOUS
  <2>1. PICK w \in Worker : Save(w)
    BY OnlySaveWrites
  <2> DEFINE r == req[w]
             u == r.user
  <2>2. /\ r \in Request /\ ~Malformed(r) /\ u \in User
        /\ r.cmd # "topup" => quote[w] \in Price
    BY <2>1, HolderRequest DEF Save, Locking
  <2>3. /\ Covered(r, store[u], quote[w])
        /\ store' = [store EXCEPT ![u] = Applied(r, store[u], quote[w])]
    BY <2>1, SaveApplies
  <2>4. store \in [User -> Portfolio]
    BY DEF TypeOK
  <2>5. CASE r.cmd = "topup"
    <3>1. r.amount \in Amount /\ r.amount > 0
      BY <2>2, <2>5, WellFormed
    <3>2. store' = [store EXCEPT ![u] = ToppedUp(store[u], r.amount)]
      BY <2>3, <2>5 DEF Applied
    <3>3. L!TopUp(u, r.amount)
      BY <3>1, <3>2, <2>2, <2>4, TopUpStep
    <3>4. QED
      BY <2>2, <3>1, <3>3 DEF L!Next
  <2>6. CASE r.cmd = "buy"
    <3>1. r.ticker \in Ticker /\ r.qty \in Qty /\ r.qty > 0 /\ quote[w] \in Price
      BY <2>2, <2>6, WellFormed
    <3>2. /\ store' = [store EXCEPT ![u] =
                         Bought(store[u], r.ticker, r.qty, quote[w])]
          /\ store[u].cash >= r.qty * quote[w]
      BY <2>3, <2>6 DEF Applied, Covered
    <3> HIDE DEF r, u
    <3>3. L!Buy(u, r.ticker, r.qty, quote[w])
      BY <3>1, <3>2, <2>2, <2>4, BuyStep
    <3>4. QED
      BY <2>2, <3>1, <3>3 DEF L!Next
  <2>7. CASE r.cmd = "sell"
    <3>1. r.ticker \in Ticker /\ r.qty \in Qty /\ r.qty > 0 /\ quote[w] \in Price
      BY <2>2, <2>7, WellFormed
    <3>2. /\ store' = [store EXCEPT ![u] =
                         Sold(store[u], r.ticker, r.qty, quote[w])]
          /\ store[u].shares[r.ticker] >= r.qty
      BY <2>3, <2>7 DEF Applied, Covered
    <3> HIDE DEF r, u
    <3>3. L!Sell(u, r.ticker, r.qty, quote[w])
      BY <3>1, <3>2, <2>2, <2>4, SellStep
    <3>4. QED
      BY <2>2, <3>1, <3>3 DEF L!Next
  <2>8. QED
    BY <2>2, <2>5, <2>6, <2>7, WellFormed
<1>3. QED
  BY <1>1, <1>2, TypeCorrect, NoLostUpdate, PTL
     DEF Spec, ImplementsLedger, L!Spec

----------------------------------------------------------------------------

(* What a handler computes from an account that is not in debt is not in   *)
(* debt, and never lowers the invested total.                              *)
LEMMA AppliedSolvent ==
  ASSUME NEW r \in Request, ~Malformed(r), NEW p \in Portfolio, NEW q,
         r.cmd # "topup" => q \in Price, Covered(r, p, q)
  PROVE  /\ p.cash >= 0 => Applied(r, p, q).cash >= 0
         /\ Applied(r, p, q).invested =
              p.invested + (IF r.cmd = "topup" THEN r.amount ELSE 0)
         /\ Applied(r, p, q).invested >= p.invested
<1> USE DEF Portfolio
<1>1. CASE r.cmd = "topup"
  <2>1. Applied(r, p, q) = ToppedUp(p, r.amount)
    BY <1>1 DEF Applied
  <2>2. r.amount \in Int /\ r.amount > 0
    BY <1>1, WellFormed
  <2>3. QED
    BY <1>1, <2>1, <2>2 DEF ToppedUp
<1>2. CASE r.cmd \in {"buy", "sell"}
  <2>1. q \in Int /\ q > 0 /\ r.qty \in Int /\ r.qty > 0 /\ r.ticker \in Ticker
    <3>1. r.cmd # "topup"
      BY <1>2
    <3>2. q \in Price
      BY <3>1
    <3>3. QED
      BY <3>1, <3>2, WellFormed, ConstantsAssumption
  <2>2. r.qty * q \in Int /\ r.qty * q >= 0
    BY <2>1
  <2>3. CASE r.cmd = "buy"
    <3>1. Applied(r, p, q) = Bought(p, r.ticker, r.qty, q) /\ p.cash >= r.qty * q
      BY <2>3 DEF Applied, Covered
    <3>2. QED
      BY <2>2, <2>3, <3>1 DEF Bought
  <2>4. CASE r.cmd = "sell"
    <3>1. Applied(r, p, q) = Sold(p, r.ticker, r.qty, q)
      BY <2>4 DEF Applied
    <3>2. QED
      BY <2>2, <2>4, <3>1 DEF Sold
  <2>5. QED
    BY <1>2, <2>3, <2>4
<1>3. QED
  BY <1>1, <1>2, WellFormed

(* No user is ever in debt: the balance a purchase was checked against is  *)
(* the balance it is taken from.                                           *)
THEOREM Solvent ==
  ASSUME OneProcess
  PROVE  Spec => []NoOverdraft
<1>1. Init => NoOverdraft
  BY DEF Init, NewPortfolio, NoOverdraft
<1>2. TypeOK /\ CopyIsCurrent /\ NoOverdraft /\ [Next]_vars => NoOverdraft'
  <2> SUFFICES ASSUME TypeOK, CopyIsCurrent, NoOverdraft, [Next]_vars,
                      store' # store
               PROVE  NoOverdraft'
    BY DEF NoOverdraft
  <2>1. PICK w \in Worker : Save(w)
    BY OnlySaveWrites
  <2> DEFINE r == req[w]
             u == r.user
  <2>2. /\ r \in Request /\ ~Malformed(r) /\ u \in User
        /\ r.cmd # "topup" => quote[w] \in Price
    BY <2>1, HolderRequest DEF Save, Locking
  <2>3. /\ Covered(r, store[u], quote[w])
        /\ store' = [store EXCEPT ![u] = Applied(r, store[u], quote[w])]
    BY <2>1, SaveApplies
  <2>4. store[u] \in Portfolio /\ store[u].cash >= 0
    BY <2>2 DEF TypeOK, NoOverdraft
  <2>5. Applied(r, store[u], quote[w]).cash >= 0
    BY <2>2, <2>3, <2>4, AppliedSolvent
  <2>6. QED
    BY <2>2, <2>3, <2>5 DEF NoOverdraft, TypeOK
<1>3. QED
  BY <1>1, <1>2, TypeCorrect, NoLostUpdate, PTL DEF Spec

(* A confirmed top-up is never lost, through any interleaving, failed      *)
(* write or crash.                                                         *)
THEOREM ConfirmedKept ==
  ASSUME OneProcess
  PROVE  Spec => []ConfirmedTopUpsKept
<1>1. Init => ConfirmedTopUpsKept
  BY DEF Init, NewPortfolio, ConfirmedTopUpsKept
<1>2. TypeOK /\ LockMatchesHolder /\ CopyIsCurrent /\ ConfirmedTopUpsKept
      /\ [Next]_vars => ConfirmedTopUpsKept'
  <2> SUFFICES ASSUME TypeOK, LockMatchesHolder, CopyIsCurrent,
                      ConfirmedTopUpsKept, [Next]_vars
               PROVE  ConfirmedTopUpsKept'
    OBVIOUS
  <2>1. ASSUME NEW w \in Worker, Save(w)
        PROVE  ConfirmedTopUpsKept'
    <3> DEFINE r == req[w]
               u == r.user
               p == Applied(r, store[u], quote[w])
    <3>1. /\ r \in Request /\ ~Malformed(r) /\ u \in User
          /\ r.cmd # "topup" => quote[w] \in Price
      BY <2>1, HolderRequest DEF Save, Locking
    <3>2. /\ Covered(r, store[u], quote[w])
          /\ store' \in {store, [store EXCEPT ![u] = p]}
          /\ pc'[w] = "confirm" => store' = [store EXCEPT ![u] = p]
          /\ req' = req /\ told' = told
          /\ \A v \in Worker : v # w => pc'[v] = pc[v]
      BY <2>1 DEF Save, CopyIsCurrent, TypeOK, Goto
    <3>3. store[u] \in Portfolio /\ p \in Portfolio
      BY <3>1, AppliedType DEF TypeOK
    <3>4. /\ p.invested >= store[u].invested
          /\ r.cmd = "topup" => p.invested = store[u].invested + r.amount
      BY <3>1, <3>2, <3>3, AppliedSolvent
    <3>5. told \in [User -> Int] /\ store \in [User -> Portfolio]
      BY DEF TypeOK
    <3>6. \A x \in User :
            /\ store[x].invested \in Int /\ store'[x].invested \in Int
            /\ store'[x].invested >= store[x].invested
      BY <3>1, <3>2, <3>3, <3>4, <3>5 DEF Portfolio
    <3>7. \A x \in User : told'[x] <= store'[x].invested
      BY <3>2, <3>5, <3>6 DEF ConfirmedTopUpsKept
    <3>8. ASSUME NEW v \in Worker, pc'[v] = "confirm", req'[v].cmd = "topup"
          PROVE  told'[req'[v].user] + req'[v].amount <= store'[req'[v].user].invested
      <4>1. CASE v = w
        <5>1. r.amount \in Int /\ store'[u].invested = store[u].invested + r.amount
          BY <3>1, <3>2, <3>4, <3>5, <3>8, <4>1, WellFormed DEF Portfolio
        <5>2. told[u] <= store[u].invested
          BY <3>1 DEF ConfirmedTopUpsKept
        <5>3. QED
          BY <3>1, <3>2, <3>5, <3>6, <4>1, <5>1, <5>2
      <4>2. CASE v # w
        <5>1. pc[v] = "confirm" /\ req[v].cmd = "topup" /\ req'[v] = req[v]
          BY <3>2, <3>8, <4>2
        <5>2. req[v].user \in User /\ req[v].amount \in Int
          BY <5>1, HolderRequest, WellFormed DEF Locking
        <5>3. told[req[v].user] + req[v].amount <= store[req[v].user].invested
          BY <5>1 DEF ConfirmedTopUpsKept
        <5>4. QED
          BY <3>2, <3>5, <3>6, <5>1, <5>2, <5>3
      <4>3. QED
        BY <4>1, <4>2
    <3>9. QED
      BY <3>7, <3>8 DEF ConfirmedTopUpsKept
  <2>2. ASSUME NEW w \in Worker, ReplyAndUnlock(w)
        PROVE  ConfirmedTopUpsKept'
    <3> DEFINE u == req[w].user
    <3>1. /\ u \in User /\ req[w].cmd = "topup" => req[w].amount \in Int
      BY <2>2, HolderRequest, WellFormed DEF ReplyAndUnlock, Locking
    <3>2. /\ store' = store
          /\ pc' = [pc EXCEPT ![w] = "idle"]
          /\ req' = [req EXCEPT ![w] = Idle]
          /\ \/ told' = told
             \/ /\ pc[w] = "confirm" /\ req[w].cmd = "topup"
                /\ told' = [told EXCEPT ![u] = @ + req[w].amount]
      BY <2>2 DEF ReplyAndUnlock, Forget, Goto
    <3>3. \A v \in Worker :
            v # w /\ pc[v] = "confirm" => req[v].user \in User /\ req[v].user # u
      BY <2>2, HoldersDiffer, HolderRequest DEF ReplyAndUnlock, Locking
    <3>4. QED
      BY <3>1, <3>2, <3>3 DEF ConfirmedTopUpsKept, TypeOK
  <2>3. ASSUME UNCHANGED <<store, told>>,
               \A v \in Worker :
                 pc'[v] = "confirm" => pc[v] = "confirm" /\ req'[v] = req[v]
        PROVE  ConfirmedTopUpsKept'
    BY <2>3 DEF ConfirmedTopUpsKept
  <2>4. ASSUME NEW w \in Worker, NEW r \in Request, Receive(w, r)
        PROVE  ConfirmedTopUpsKept'
    BY <2>3, <2>4 DEF Receive, Goto, TypeOK
  <2>5. ASSUME NEW w \in Worker,
               \/ Resolve(w) \/ Validate(w) \/ Cache(w) \/ FetchPrice(w)
               \/ Acquire(w) \/ Load(w) \/ Insufficient(w)
        PROVE  ConfirmedTopUpsKept'
    <3>1. /\ UNCHANGED <<store, told, req>>
          /\ \E l \in {"lock", "quote", "validate", "cache", "usage",
                       "load", "save", "refuse"} :
               pc' = [pc EXCEPT ![w] = l]
      BY <2>5 DEF Resolve, Validate, Cache, FetchPrice, Acquire, Load,
                  Insufficient, Goto, local
    <3>2. QED
      BY <2>3, <3>1 DEF TypeOK
  <2>6. ASSUME NEW w \in Worker, ReplyUnlocked(w)
        PROVE  ConfirmedTopUpsKept'
    BY <2>3, <2>6 DEF ReplyUnlocked, Forget, Goto, TypeOK
  <2>7. ASSUME NEW t \in Ticker, MarketMoves(t)
        PROVE  ConfirmedTopUpsKept'
    BY <2>3, <2>7 DEF MarketMoves
  <2>8. ASSUME NEW p \in Process, Crash(p)
        PROVE  ConfirmedTopUpsKept'
    BY <2>3, <2>8 DEF Crash
  <2>9. CASE UNCHANGED vars
    BY <2>3, <2>9 DEF vars
  <2>10. QED
    BY <2>1, <2>2, <2>4, <2>5, <2>6, <2>7, <2>8, <2>9 DEF Next, Handle
<1>3. QED
  BY <1>1, <1>2, TypeCorrect, LockDiscipline, NoLostUpdate, PTL DEF Spec

(* Where the count does not reach 2^63, int64 arithmetic does not lower it. *)
LEMMA Int64Rises == \A x \in Int : x < Half => Int64(x) >= x
<1> SUFFICES ASSUME NEW x \in Int, x < Half
             PROVE  Int64(x) >= x
  OBVIOUS
<1> DEFINE n == 2 * Half
           y == x + Half
<1>1. n \in Nat \ {0} /\ y \in Int /\ y < n
  BY ConstantsAssumption
<1> HIDE DEF n, y
<1>2. y % n \in 0 .. n - 1 /\ (y >= 0 => y % n = y)
  BY <1>1
<1>3. y % n >= y
  BY <1>1, <1>2
<1>4. QED
  BY <1>1, <1>3, ConstantsAssumption DEF Int64, n, y

(* No handler sells what is not held; a holding falls below zero only by a  *)
(* purchase past the largest int64 (portfolio.go:98-123).                   *)
THEOREM SalesAreCovered ==
  ASSUME OneProcess
  PROVE  Spec => HoldingsCoverSales
<1> DEFINE Covers(u, t) ==
             store'[u].shares[t] < store[u].shares[t] =>
               \/ store'[u].shares[t] >= 0
               \/ \E qty \in Qty : 0 < qty /\ Half <= store[u].shares[t] + qty
                                     /\ store'[u].shares[t] = Int64(store[u].shares[t] + qty)
<1>1. TypeOK /\ CopyIsCurrent /\ [Next]_vars
        => [\A u \in User, t \in Ticker : Covers(u, t)]_store
  <2> SUFFICES ASSUME TypeOK, CopyIsCurrent, [Next]_vars, store' # store,
                      NEW x \in User, NEW t \in Ticker
               PROVE  Covers(x, t)
    OBVIOUS
  <2>1. PICK w \in Worker : Save(w)
    BY OnlySaveWrites
  <2> DEFINE r == req[w]
             u == r.user
  <2>2. /\ r \in Request /\ ~Malformed(r) /\ u \in User
        /\ r.cmd # "topup" => quote[w] \in Price
    BY <2>1, HolderRequest DEF Save, Locking
  <2>3. /\ Covered(r, store[u], quote[w])
        /\ store' = [store EXCEPT ![u] = Applied(r, store[u], quote[w])]
    BY <2>1, SaveApplies
  <2>4. store \in [User -> Portfolio]
    BY DEF TypeOK
  <2>5. store[x].shares[t] \in Int /\ store[x].shares \in [Ticker -> Int]
    BY <2>4 DEF Portfolio
  <2>6. CASE x # u \/ r.cmd = "topup"
    <3>1. store'[x].shares = store[x].shares
      BY <2>2, <2>3, <2>4, <2>6 DEF Applied, ToppedUp, Portfolio
    <3>2. QED
      BY <2>5, <3>1
  <2>7. CASE x = u /\ r.cmd # "topup"
    <3>1. r.cmd \in {"buy", "sell"} /\ r.qty \in Qty /\ r.qty \in Int /\ r.qty > 0
      BY <2>2, <2>7, WellFormed
    <3>2. store'[x] = Applied(r, store[x], quote[w])
      BY <2>2, <2>3, <2>4, <2>7
    <3>3. CASE t # r.ticker
      <4>1. store'[x].shares[t] = store[x].shares[t]
        BY <2>4, <2>5, <3>1, <3>2, <3>3 DEF Applied, Bought, Sold, Portfolio
      <4>2. QED
        BY <2>5, <4>1
    <3>4. CASE t = r.ticker /\ r.cmd = "buy"
      <4>1. store'[x] = Bought(store[x], t, r.qty, quote[w])
        BY <3>2, <3>4 DEF Applied
      <4>2. store'[x].shares[t] = Int64(store[x].shares[t] + r.qty)
        BY <2>4, <4>1 DEF Bought, Portfolio
      <4>3. store[x].shares[t] + r.qty < Half
              => store'[x].shares[t] >= store[x].shares[t] + r.qty
        BY <2>5, <3>1, <4>2, Int64Rises
      <4>4. store'[x].shares[t] \in Int /\ Half \in Int
        BY <2>5, <3>1, <4>2, Int64Type, ConstantsAssumption
      <4>5. QED
        BY <2>5, <3>1, <4>2, <4>3, <4>4
    <3>5. CASE t = r.ticker /\ r.cmd = "sell"
      <4>1. store'[x] = Sold(store[x], t, r.qty, quote[w])
        BY <3>2, <3>5 DEF Applied
      <4>2. store'[x].shares[t] = store[x].shares[t] - r.qty
        BY <2>4, <4>1 DEF Sold, Portfolio
      <4>3. store[x].shares[t] >= r.qty
        BY <2>3, <2>7, <3>5 DEF Covered
      <4>4. QED
        BY <2>5, <3>1, <4>2, <4>3
    <3>6. QED
      BY <3>1, <3>3, <3>4, <3>5
  <2>8. QED
    BY <2>6, <2>7
<1>2. QED
  BY <1>1, TypeCorrect, NoLostUpdate, PTL DEF Spec, HoldingsCoverSales

(* What the lock is for, for every number of workers, users and amounts: it *)
(* names its holder, its holder's copy is current, nobody is in debt, and   *)
(* nothing is sold that is not held (handlers.go, keylock.go:4-8).          *)
THEOREM TradingIsSound ==
  ASSUME OneProcess
  PROVE  Spec => []TradingInv /\ HoldingsCoverSales
<1>1. TypeOK /\ LockMatchesHolder /\ CopyIsCurrent /\ NoOverdraft => TradingInv
  BY DEF TradingInv
<1>2. QED
  BY <1>1, TypeCorrect, LockDiscipline, NoLostUpdate, Solvent, SalesAreCovered, PTL

----------------------------------------------------------------------------
(* StatsViews: whose an address is.                                         *)

Key == Seq(Byte)

Addresses(be) == {Address(be, m, k) : m \in Module, k \in Key}

ColonFree(m) == m \in Seq(Byte \ {Colon})

(* A module's name has no delimiter. *)
LEMMA NamesAreColonFree == \A m \in Module : ColonFree(m)
<1>1. \A m \in ModuleNames : ColonFree(m)
  <2> TAKE m \in ModuleNames
  <2>1. m \in Seq(Lower \cup Digits \cup {Dash, Underscore})
    BY DEF ModuleNames
  <2>2. Lower \cup Digits \cup {Dash, Underscore} \subseteq Byte \ {Colon}
    BY DEF Lower, Digits, Dash, Underscore, Byte, Colon
  <2>3. QED
    BY <2>1, <2>2 DEF ColonFree
<1>2. ColonFree(stats)
  BY DEF ColonFree, stats, Byte, Colon
<1>3. QED
  BY <1>1, <1>2, ViewsAssumption DEF Module

(* What stands where in an address of the memory back end.                  *)
Spelled(a, m, k) ==
  /\ a \in Key /\ Len(a) = Len(m) + 1 + Len(k)
  /\ \A i \in 1 .. Len(m) : a[i] = m[i]
  /\ a[Len(m) + 1] = Colon
  /\ \A i \in 1 .. Len(k) : a[Len(m) + 1 + i] = k[i]

LEMMA PrefixedSpells ==
  ASSUME NEW m \in Key, NEW k \in Key
  PROVE  Spelled(Prefixed(m, k), m, k)
<1> DEFINE c == <<Colon>>
           d == Join(c, k)
           e == Join(m, d)
<1>1. c \in Key /\ Len(c) = 1 /\ c[1] = Colon
  BY DEF Key, Byte, Colon
<1> HIDE DEF c
<1>2. Follow(d, Byte, c, k)
  BY <1>1, JoinedAt DEF Key
<1> HIDE DEF d
<1>3. d \in Key /\ Len(d) = 1 + Len(k) /\ d[1] = Colon /\ \A i \in 1 .. Len(k) : d[1 + i] = k[i]
  BY <1>1, <1>2 DEF Follow, Key
<1>4. Follow(e, Byte, m, d)
  BY <1>3, JoinedAt DEF Key
<1> HIDE DEF e
<1>5. /\ e \in Key /\ Len(e) = Len(m) + Len(d)
      /\ \A i \in 1 .. Len(m) : e[i] = m[i]
      /\ \A i \in 1 .. Len(d) : e[Len(m) + i] = d[i]
  BY <1>4 DEF Follow, Key
<1>6. Len(m) \in Nat /\ Len(k) \in Nat
  BY DEF Key
<1>7. e[Len(m) + 1] = Colon
  BY <1>3, <1>5, <1>6
<1>8. ASSUME NEW i \in 1 .. Len(k) PROVE e[Len(m) + 1 + i] = k[i]
  <2>1. 1 + i \in 1 .. Len(d) /\ Len(m) + 1 + i = Len(m) + (1 + i)
    BY <1>3, <1>6
  <2>2. QED
    BY <1>3, <1>5, <2>1
<1>9. e = Prefixed(m, k)
  BY DEF e, d, c, Join, Prefixed, WithDelimiter
<1>10. QED
  BY <1>3, <1>5, <1>6, <1>7, <1>8, <1>9 DEF Spelled

(* Prefixes and what is left of them, index by index.                       *)
LEMMA PrefixAt ==
  ASSUME NEW s \in Key, NEW t \in Key
  PROVE  IsPrefix(s, t) <=> Len(s) <= Len(t) /\ \A i \in 1 .. Len(s) : s[i] = t[i]
<1> DEFINE n == Len(s)
<1>1. n \in Nat /\ Len(t) \in Nat
  BY DEF Key
<1>2. CASE ~ (n <= Len(t))
  BY <1>2 DEF IsPrefix
<1>3. CASE n <= Len(t)
  <2> DEFINE u == SubSeq(s, 1, n)
             v == SubSeq(t, 1, n)
  <2>1. u \in Key /\ Len(u) = n /\ \A i \in 1 .. n : u[i] = s[i]
    BY <1>1 DEF Key
  <2>2. v \in Key /\ Len(v) = n /\ \A i \in 1 .. n : v[i] = t[i]
    BY <1>1, <1>3 DEF Key
  <2>3. IsPrefix(s, t) <=> u = v
    BY <1>3 DEF IsPrefix
  <2> HIDE DEF u, v, n
  <2>4. u = v <=> \A i \in 1 .. n : u[i] = v[i]
    BY <2>1, <2>2 DEF Key
  <2>5. QED
    BY <1>3, <2>1, <2>2, <2>3, <2>4 DEF n
<1>4. QED
  BY <1>2, <1>3

(* The keys of a module are told apart from all others.                     *)
LEMMA NamesDelimit ==
  ASSUME NEW m, NEW n, ColonFree(m), ColonFree(n), NEW k \in Key, NEW l \in Key,
         IsPrefix(Prefixed(m, l), Prefixed(n, k))
  PROVE  m = n
<1> DEFINE a == Prefixed(m, l)
           b == Prefixed(n, k)
<1>1. /\ m \in Key /\ n \in Key /\ Len(m) \in Nat /\ Len(n) \in Nat
      /\ \A i \in 1 .. Len(m) : m[i] # Colon
      /\ \A i \in 1 .. Len(n) : n[i] # Colon
  BY DEF ColonFree, Key
<1>2. Spelled(a, m, l) /\ Spelled(b, n, k)
  BY <1>1, PrefixedSpells
<1> HIDE DEF a, b
<1>3. Len(a) <= Len(b) /\ \A i \in 1 .. Len(a) : a[i] = b[i]
  BY <1>2, PrefixAt DEF Spelled, a, b
<1>4. /\ Len(a) = Len(m) + 1 + Len(l) /\ Len(l) \in Nat
      /\ \A i \in 1 .. Len(m) : a[i] = m[i]
      /\ a[Len(m) + 1] = Colon
  BY <1>2 DEF Spelled, Key
<1>5. /\ \A i \in 1 .. Len(n) : b[i] = n[i]
      /\ b[Len(n) + 1] = Colon
  BY <1>2 DEF Spelled
<1>6. ~ (Len(m) < Len(n))
  <2> SUFFICES ASSUME Len(m) < Len(n) PROVE FALSE
    OBVIOUS
  <2>1. Len(m) + 1 \in 1 .. Len(a) /\ Len(m) + 1 \in 1 .. Len(n)
    BY <1>1, <1>4
  <2>2. QED
    BY <1>1, <1>3, <1>4, <1>5, <2>1
<1>7. ~ (Len(n) < Len(m))
  <2> SUFFICES ASSUME Len(n) < Len(m) PROVE FALSE
    OBVIOUS
  <2>1. Len(n) + 1 \in 1 .. Len(a) /\ Len(n) + 1 \in 1 .. Len(m)
    BY <1>1, <1>4
  <2>2. QED
    BY <1>1, <1>3, <1>4, <1>5, <2>1
<1>8. Len(m) = Len(n)
  BY <1>1, <1>6, <1>7
<1>9. \A i \in 1 .. Len(m) : m[i] = n[i]
  <2>1. \A i \in 1 .. Len(m) : i \in 1 .. Len(a) /\ i \in 1 .. Len(n)
    BY <1>1, <1>4, <1>8
  <2>2. QED
    BY <1>3, <1>4, <1>5, <2>1
<1>10. QED
  BY <1>1, <1>8, <1>9 DEF Key

LEMMA SameKey ==
  ASSUME NEW a \in Key, NEW b \in Key, Len(a) = Len(b), Alike(a, b, Len(a))
  PROVE  a = b
BY DEF Alike, Key

LEMMA Trimmed ==
  ASSUME NEW m \in Key, NEW k \in Key
  PROVE  /\ IsPrefix(Prefixed(m, <<>>), Prefixed(m, k))
         /\ TrimPrefix(Prefixed(m, k), Prefixed(m, <<>>)) = k
<1> DEFINE p == Prefixed(m, <<>>)
           a == Prefixed(m, k)
<1>1. <<>> \in Key /\ Len(<<>>) = 0
  BY DEF Key
<1>2. Spelled(p, m, <<>>) /\ Spelled(a, m, k)
  BY <1>1, PrefixedSpells
<1> HIDE DEF p, a
<1>3. /\ p \in Key /\ a \in Key /\ Len(m) \in Nat /\ Len(k) \in Nat
      /\ Len(p) = Len(m) + 1 /\ Len(a) = Len(m) + 1 + Len(k)
      /\ \A i \in 1 .. Len(m) : p[i] = m[i] /\ a[i] = m[i]
      /\ p[Len(m) + 1] = Colon /\ a[Len(m) + 1] = Colon
      /\ \A i \in 1 .. Len(k) : a[Len(m) + 1 + i] = k[i]
  <2>1. /\ p \in Key /\ Len(p) = Len(m) + 1 + Len(<<>>) /\ p[Len(m) + 1] = Colon
        /\ \A i \in 1 .. Len(m) : p[i] = m[i]
    BY <1>2 DEF Spelled
  <2>2. /\ a \in Key /\ Len(a) = Len(m) + 1 + Len(k) /\ a[Len(m) + 1] = Colon
        /\ \A i \in 1 .. Len(m) : a[i] = m[i]
        /\ \A i \in 1 .. Len(k) : a[Len(m) + 1 + i] = k[i]
    BY <1>2 DEF Spelled
  <2>3. Len(m) \in Nat /\ Len(k) \in Nat
    BY DEF Key
  <2>4. QED
    BY <1>1, <2>1, <2>2, <2>3
<1>4. IsPrefix(p, a)
  <2>1. \A i \in 1 .. Len(p) : p[i] = a[i]
    BY <1>3
  <2>2. QED
    BY <1>3, <2>1, PrefixAt
<1>5. TrimPrefix(a, p) = k
  <2> DEFINE u == SubSeq(a, Len(m) + 2, Len(a))
  <2>1. /\ u \in Key /\ Len(u) = Len(k)
        /\ \A i \in 1 .. Len(k) : u[i] = a[Len(m) + 1 + i]
    <3>1. \A i \in 1 .. Len(k) : Len(m) + 2 + i - 1 = Len(m) + 1 + i
      BY <1>3
    <3>2. QED
      BY <1>3, <3>1 DEF Key
  <2> HIDE DEF u
  <2>2. u = k
    BY <1>3, <2>1, SameKey DEF Alike
  <2>3. Len(p) + 1 = Len(m) + 2
    BY <1>3
  <2>4. QED
    BY <1>4, <2>2, <2>3 DEF TrimPrefix, u
<1>6. QED
  BY <1>4, <1>5 DEF p, a

(* No address is another key's, be it of the same module or of another.     *)
LEMMA AddressesDiffer ==
  ASSUME NEW be \in Backend, NEW m \in Module, NEW n \in Module, NEW k \in Key, NEW l \in Key,
         Address(be, m, k) = Address(be, n, l)
  PROVE  m = n /\ k = l
<1>1. CASE be = "memory"
  <2>1. Prefixed(m, k) = Prefixed(n, l)
    BY <1>1 DEF Address
  <2>2. ColonFree(m) /\ ColonFree(n) /\ m \in Key /\ n \in Key
    BY NamesAreColonFree DEF ColonFree, Key
  <2>3. IsPrefix(Prefixed(m, k), Prefixed(n, l))
    <3>1. Prefixed(m, k) \in Key
      BY <2>2, PrefixedSpells DEF Spelled
    <3>2. IsPrefix(Prefixed(m, k), Prefixed(m, k))
      <4> DEFINE a == Prefixed(m, k)
      <4>1. a \in Key
        BY <3>1
      <4> HIDE DEF a
      <4>2. Len(a) <= Len(a)
        BY <4>1 DEF Key
      <4>3. IsPrefix(a, a)
        BY <4>1, <4>2, PrefixAt
      <4>4. QED
        BY <4>3 DEF a
    <3>3. QED
      BY <2>1, <3>2
  <2>4. m = n
    BY <2>2, <2>3, NamesDelimit
  <2>5. k = l
    BY <2>1, <2>2, <2>4, Trimmed
  <2>6. QED
    BY <2>4, <2>5
<1>2. CASE be # "memory"
  BY <1>2 DEF Address
<1>3. QED
  BY <1>1, <1>2

(* A store is a map whose addresses are those of modules' keys.             *)
IsStore(be, b) == DOMAIN b \subseteq Addresses(be)

(* A List of everything is the module's keys, and no other's.               *)
LEMMA ListsOwnKeys ==
  ASSUME NEW be \in Backend, NEW b, IsStore(be, b), NEW m \in Module
  PROVE  List(be, b, m, <<>>) = {k \in Key : Address(be, m, k) \in DOMAIN b}
<1> DEFINE Own == {k \in Key : Address(be, m, k) \in DOMAIN b}
           p == Prefixed(m, <<>>)
<1>1. \A a \in DOMAIN b : \E n \in Module : \E k \in Key : a = Address(be, n, k)
  BY DEF IsStore, Addresses
<1>2. CASE be = "memory"
  <2>1. \A n \in Module : ColonFree(n) /\ n \in Key
    BY NamesAreColonFree DEF ColonFree, Key
  <2>2. List(be, b, m, <<>>) = {TrimPrefix(a, p) : a \in {x \in DOMAIN b : IsPrefix(p, x)}}
    BY <1>2 DEF List, MemoryList
  <2>3. ASSUME NEW a \in DOMAIN b, IsPrefix(p, a)
        PROVE  TrimPrefix(a, p) \in Own
    <3>1. PICK n \in Module, k \in Key : a = Address(be, n, k)
      BY <1>1
    <3>2. a = Prefixed(n, k)
      BY <1>2, <3>1 DEF Address
    <3>3. m = n
      <4>1. <<>> \in Key
        BY DEF Key
      <4>2. QED
        BY <2>1, <2>3, <3>2, <4>1, NamesDelimit
    <3>4. TrimPrefix(a, p) = k
      BY <2>1, <3>2, <3>3, Trimmed
    <3>5. QED
      BY <3>1, <3>3, <3>4
  <2>4. ASSUME NEW k \in Own
        PROVE  /\ Address(be, m, k) \in DOMAIN b
               /\ IsPrefix(p, Address(be, m, k)) /\ TrimPrefix(Address(be, m, k), p) = k
    BY <1>2, <2>1, Trimmed DEF Address
  <2> HIDE DEF Own, p
  <2>5. QED
    BY <2>2, <2>3, <2>4 DEF Own
<1>3. CASE be # "memory"
  <2>1. List(be, b, m, <<>>) = {a[2] : a \in {x \in DOMAIN b : x[1] = m}}
    <3>1. \A x \in DOMAIN b : IsPrefix(<<>>, x[2])
      <4> TAKE x \in DOMAIN b
      <4>1. PICK n \in Module, k \in Key : x = <<n, k>>
        BY <1>1, <1>3 DEF Address
      <4>2. <<>> \in Key /\ Len(<<>>) = 0 /\ Len(k) \in Nat
        BY DEF Key
      <4>3. IsPrefix(<<>>, k)
        BY <4>2, PrefixAt
      <4>4. QED
        BY <4>1, <4>3
    <3>2. CASE be = "dynamodb"
      BY <3>1, <3>2 DEF List, DynamoQuery
    <3>3. CASE be = "firestore"
      BY <3>3 DEF List, FirestoreScan, InRange
    <3>4. QED
      BY <1>3, <3>2, <3>3 DEF Backend
  <2>2. \A a \in DOMAIN b : \E n \in Module : \E k \in Key : a = <<n, k>>
    BY <1>1, <1>3 DEF Address
  <2>3. ASSUME NEW a \in DOMAIN b, a[1] = m PROVE a[2] \in Own
    <3>1. PICK n \in Module, k \in Key : a = <<n, k>>
      BY <2>2
    <3>2. n = m /\ a[2] = k
      BY <2>3, <3>1
    <3>3. QED
      BY <1>3, <3>1, <3>2 DEF Address
  <2>4. ASSUME NEW k \in Own
        PROVE  <<m, k>> \in DOMAIN b /\ <<m, k>>[1] = m /\ <<m, k>>[2] = k
    BY <1>3 DEF Address
  <2> HIDE DEF Own
  <2>5. QED
    BY <2>1, <2>3, <2>4 DEF Own
<1>4. QED
  BY <1>2, <1>3

----------------------------------------------------------------------------

(* What each module has in a store.                                         *)
ViewOf(be, b) ==
  [m \in Module |-> [k \in List(be, b, m, <<>>) |-> b[Address(be, m, k)]]]

LEMMA ViewShows ==
  ASSUME NEW be \in Backend, NEW b, IsStore(be, b), NEW m \in Module
  PROVE  LET f == ViewOf(be, b)[m]
         IN  /\ DOMAIN f = {k \in Key : Address(be, m, k) \in DOMAIN b}
             /\ \A k \in DOMAIN f : f[k] = b[Address(be, m, k)]
             /\ f = [k \in DOMAIN f |-> f[k]]
BY ListsOwnKeys DEF ViewOf

(* A Put adds one entry to one module's store.                              *)
LEMMA PutShows ==
  ASSUME NEW be \in Backend, NEW b, IsStore(be, b), NEW m \in Module, NEW k \in Key, NEW v
  PROVE  LET c == PutAt(b, Address(be, m, k), v)
         IN  /\ IsStore(be, c)
             /\ ViewOf(be, c) = [ViewOf(be, b) EXCEPT ![m] = PutAt(@, k, v)]
             /\ k \in DOMAIN ViewOf(be, c)[m] /\ ViewOf(be, c)[m][k] = v
<1> DEFINE x == Address(be, m, k)
           c == PutAt(b, x, v)
           Own(d, n) == {l \in Key : Address(be, n, l) \in DOMAIN d}
<1>1. /\ DOMAIN c = DOMAIN b \cup {x}
      /\ \A a \in DOMAIN b \cup {x} : c[a] = IF a = x THEN v ELSE b[a]
  BY DEF PutAt
<1>2. x \in Addresses(be)
  BY DEF Addresses
<1> HIDE DEF c
<1>3. IsStore(be, c)
  BY <1>1, <1>2 DEF IsStore
<1>4. ASSUME NEW n \in Module, NEW l \in Key PROVE Address(be, n, l) = x <=> n = m /\ l = k
  BY AddressesDiffer
<1> HIDE DEF x
<1>5. \A n \in Module : Own(c, n) = IF n = m THEN Own(b, n) \cup {k} ELSE Own(b, n)
  BY <1>1, <1>4
<1> DEFINE vb == ViewOf(be, b)
           vc == ViewOf(be, c)
<1>6. \A n \in Module :
        /\ DOMAIN vb[n] = Own(b, n) /\ DOMAIN vc[n] = Own(c, n)
        /\ \A l \in Own(b, n) : vb[n][l] = b[Address(be, n, l)]
        /\ \A l \in Own(c, n) : vc[n][l] = c[Address(be, n, l)]
        /\ vb[n] = [l \in DOMAIN vb[n] |-> vb[n][l]]
        /\ vc[n] = [l \in DOMAIN vc[n] |-> vc[n][l]]
  BY <1>3, ViewShows
<1>0. vb = [n \in Module |-> vb[n]] /\ vc = [n \in Module |-> vc[n]]
  BY DEF ViewOf
<1> HIDE DEF vb, vc
<1>7. \A n \in Module : \A l \in Own(c, n) :
        c[Address(be, n, l)] = IF n = m /\ l = k THEN v ELSE b[Address(be, n, l)]
  BY <1>1, <1>4
<1> HIDE DEF Own
<1>8. \A n \in Module : n # m => vc[n] = vb[n]
  <2> TAKE n \in Module
  <2> HAVE n # m
  <2>1. Own(c, n) = Own(b, n)
    BY <1>5
  <2>2. /\ DOMAIN vb[n] = Own(b, n) /\ DOMAIN vc[n] = Own(b, n)
        /\ \A l \in Own(b, n) : vb[n][l] = b[Address(be, n, l)]
        /\ \A l \in Own(b, n) : vc[n][l] = c[Address(be, n, l)]
    BY <1>6, <2>1
  <2>3. \A l \in Own(b, n) : c[Address(be, n, l)] = b[Address(be, n, l)]
    BY <1>7, <2>1
  <2>4. \A l \in Own(b, n) : vc[n][l] = vb[n][l]
    BY <2>2, <2>3
  <2>5. vb[n] = [l \in DOMAIN vb[n] |-> vb[n][l]] /\ vc[n] = [l \in DOMAIN vc[n] |-> vc[n][l]]
    BY <1>6
  <2>6. vc[n] = [l \in Own(b, n) |-> vc[n][l]] /\ vb[n] = [l \in Own(b, n) |-> vb[n][l]]
    BY <2>2, <2>5
  <2>7. [l \in Own(b, n) |-> vc[n][l]] = [l \in Own(b, n) |-> vb[n][l]]
    BY <2>4
  <2>8. QED
    BY <2>6, <2>7, Zenon
<1>9. vc[m] = PutAt(vb[m], k, v)
  <2>1. DOMAIN vb[m] = Own(b, m) /\ DOMAIN vc[m] = DOMAIN vb[m] \cup {k}
    BY <1>5, <1>6
  <2>2. \A l \in DOMAIN vb[m] \cup {k} : vc[m][l] = IF l = k THEN v ELSE vb[m][l]
    <3> TAKE l \in DOMAIN vb[m] \cup {k}
    <3>1. l \in Own(c, m) /\ (l # k => l \in Own(b, m))
      BY <1>6, <2>1
    <3>2. vc[m][l] = c[Address(be, m, l)]
      BY <1>6, <3>1
    <3>3. l # k => vb[m][l] = b[Address(be, m, l)]
      BY <1>6, <3>1
    <3>4. QED
      BY <1>7, <3>1, <3>2, <3>3
  <2>3. vc[m] = [l \in DOMAIN vb[m] \cup {k} |-> vc[m][l]]
    BY <1>6, <2>1
  <2>4. QED
    BY <2>2, <2>3 DEF PutAt
<1>10. vc = [vb EXCEPT ![m] = PutAt(@, k, v)]
  BY <1>0, <1>8, <1>9
<1>11. k \in DOMAIN vc[m] /\ vc[m][k] = v
  BY <1>9 DEF PutAt
<1>12. QED
  BY <1>3, <1>10, <1>11 DEF c, x, vb, vc

(* A Delete takes one entry from one module's store, or nothing.            *)
LEMMA DeleteShows ==
  ASSUME NEW be \in Backend, NEW b, IsStore(be, b), NEW m \in Module, NEW k \in Key
  PROVE  LET c == DeleteAt(b, Address(be, m, k))
         IN  /\ IsStore(be, c)
             /\ IF k \in DOMAIN ViewOf(be, b)[m]
                THEN ViewOf(be, c) = [ViewOf(be, b) EXCEPT ![m] = DeleteAt(@, k)]
                ELSE ViewOf(be, c) = ViewOf(be, b)
<1> DEFINE x == Address(be, m, k)
           c == DeleteAt(b, x)
           Own(d, n) == {l \in Key : Address(be, n, l) \in DOMAIN d}
<1>1. /\ DOMAIN c = DOMAIN b \ {x}
      /\ \A a \in DOMAIN b \ {x} : c[a] = b[a]
  BY DEF DeleteAt
<1> HIDE DEF c
<1>3. IsStore(be, c)
  BY <1>1 DEF IsStore
<1>4. ASSUME NEW n \in Module, NEW l \in Key PROVE Address(be, n, l) = x <=> n = m /\ l = k
  BY AddressesDiffer
<1> HIDE DEF x
<1>5. \A n \in Module : Own(c, n) = IF n = m THEN Own(b, n) \ {k} ELSE Own(b, n)
  BY <1>1, <1>4
<1> DEFINE vb == ViewOf(be, b)
           vc == ViewOf(be, c)
<1>6. \A n \in Module :
        /\ DOMAIN vb[n] = Own(b, n) /\ DOMAIN vc[n] = Own(c, n)
        /\ \A l \in Own(b, n) : vb[n][l] = b[Address(be, n, l)]
        /\ \A l \in Own(c, n) : vc[n][l] = c[Address(be, n, l)]
        /\ vb[n] = [l \in DOMAIN vb[n] |-> vb[n][l]]
        /\ vc[n] = [l \in DOMAIN vc[n] |-> vc[n][l]]
  BY <1>3, ViewShows
<1>0. vb = [n \in Module |-> vb[n]] /\ vc = [n \in Module |-> vc[n]]
  BY DEF ViewOf
<1> HIDE DEF vb, vc
<1>7. \A n \in Module : \A l \in Own(c, n) : c[Address(be, n, l)] = b[Address(be, n, l)]
  BY <1>1
<1> HIDE DEF Own
<1>8. \A n \in Module : n # m => vc[n] = vb[n]
  <2> TAKE n \in Module
  <2> HAVE n # m
  <2>1. Own(c, n) = Own(b, n)
    BY <1>5
  <2>2. /\ DOMAIN vb[n] = Own(b, n) /\ DOMAIN vc[n] = Own(b, n)
        /\ \A l \in Own(b, n) : vb[n][l] = b[Address(be, n, l)]
        /\ \A l \in Own(b, n) : vc[n][l] = c[Address(be, n, l)]
    BY <1>6, <2>1
  <2>3. \A l \in Own(b, n) : c[Address(be, n, l)] = b[Address(be, n, l)]
    BY <1>7, <2>1
  <2>4. \A l \in Own(b, n) : vc[n][l] = vb[n][l]
    BY <2>2, <2>3
  <2>5. vb[n] = [l \in DOMAIN vb[n] |-> vb[n][l]] /\ vc[n] = [l \in DOMAIN vc[n] |-> vc[n][l]]
    BY <1>6
  <2>6. vc[n] = [l \in Own(b, n) |-> vc[n][l]] /\ vb[n] = [l \in Own(b, n) |-> vb[n][l]]
    BY <2>2, <2>5
  <2>7. [l \in Own(b, n) |-> vc[n][l]] = [l \in Own(b, n) |-> vb[n][l]]
    BY <2>4
  <2>8. QED
    BY <2>6, <2>7, Zenon
<1>9. vc[m] = DeleteAt(vb[m], k)
  <2>1. DOMAIN vb[m] = Own(b, m) /\ DOMAIN vc[m] = DOMAIN vb[m] \ {k}
    BY <1>5, <1>6
  <2>2. \A l \in DOMAIN vb[m] \ {k} : vc[m][l] = vb[m][l]
    <3> TAKE l \in DOMAIN vb[m] \ {k}
    <3>1. l \in Own(c, m) /\ l \in Own(b, m)
      BY <1>6, <2>1
    <3>2. vc[m][l] = c[Address(be, m, l)] /\ vb[m][l] = b[Address(be, m, l)]
      BY <1>6, <3>1
    <3>3. QED
      BY <1>7, <3>1, <3>2
  <2>3. vc[m] = [l \in DOMAIN vb[m] \ {k} |-> vc[m][l]]
    BY <1>6, <2>1
  <2>4. QED
    BY <2>2, <2>3 DEF DeleteAt
<1>10. vc = [vb EXCEPT ![m] = DeleteAt(@, k)]
  BY <1>0, <1>8, <1>9
<1>11. k \notin DOMAIN vb[m] => vc = vb
  <2> HAVE k \notin DOMAIN vb[m]
  <2>1. DOMAIN vb[m] \ {k} = DOMAIN vb[m]
    OBVIOUS
  <2>2. vc[m] = vb[m]
    BY <1>6, <1>9, <2>1 DEF DeleteAt
  <2>3. QED
    BY <1>0, <1>8, <2>2
<1>12. QED
  BY <1>3, <1>10, <1>11 DEF c, x, vb, vc

----------------------------------------------------------------------------

LEMMA StatKeysAreKeys == StatKey \subseteq Key
<1>1. /\ countPrefix \in Key /\ userPrefix \in Key /\ pairPrefix \in Key
      /\ <<Colon>> \in Key
  BY DEF Key, countPrefix, userPrefix, pairPrefix, Byte, Colon
<1>2. Command \subseteq Key /\ UserId \subseteq Key
  BY ViewsAssumption DEF Key
<1>3. \A s, t \in Key : s \o t \in Key
  BY Joined DEF Key
<1>4. \A c \in Command : countKey(c) \in Key
  BY <1>1, <1>2, <1>3 DEF countKey
<1>5. \A id \in UserId : userKey(id) \in Key
  BY <1>1, <1>2, <1>3 DEF userKey
<1>6. ASSUME NEW c \in Command, NEW id \in UserId PROVE pairKey(c, id) \in Key
  <2>1. c \in Key /\ id \in Key
    BY <1>2
  <2>2. pairPrefix \o c \in Key
    BY <1>1, <1>3, <2>1
  <2>3. (pairPrefix \o c) \o <<Colon>> \in Key
    BY <1>1, <1>3, <2>2
  <2>4. QED
    BY <1>3, <2>1, <2>3 DEF pairKey
<1>7. QED
  BY <1>4, <1>5, <1>6 DEF StatKey, CountKeys, UserKeys, PairKeys

StoreInv == backend \in Backend /\ IsStore(backend, base)

(* A write of a module's is a step of Stores, whatever comes of it.         *)
WritesOne(be, b, c) ==
  \/ ViewOf(be, c) = ViewOf(be, b)
  \/ \E m \in Module :
       \/ \E k \in DOMAIN ViewOf(be, c)[m] :
            ViewOf(be, c) = [ViewOf(be, b) EXCEPT ![m] = PutAt(@, k, ViewOf(be, c)[m][k])]
       \/ \E k \in DOMAIN ViewOf(be, b)[m] :
            ViewOf(be, c) = [ViewOf(be, b) EXCEPT ![m] = DeleteAt(@, k)]

LEMMA PutWritesOne ==
  ASSUME NEW be \in Backend, NEW b, IsStore(be, b), NEW m \in Module, NEW k \in Key, NEW v,
         NEW c \in Put(be, b, m, k, v)
  PROVE  IsStore(be, c) /\ WritesOne(be, b, c)
<1>1. c = b \/ c = PutAt(b, Address(be, m, k), v)
  BY DEF Put, MemoryPut, DynamoPut, FirestorePut, doc, Address, Backend
<1>2. CASE c = b
  BY <1>2 DEF WritesOne
<1>3. CASE c = PutAt(b, Address(be, m, k), v)
  <2>1. /\ IsStore(be, c)
        /\ ViewOf(be, c) = [ViewOf(be, b) EXCEPT ![m] = PutAt(@, k, v)]
        /\ k \in DOMAIN ViewOf(be, c)[m] /\ ViewOf(be, c)[m][k] = v
    BY <1>3, PutShows
  <2>2. QED
    BY <2>1 DEF WritesOne
<1>4. QED
  BY <1>1, <1>2, <1>3

LEMMA DeleteWritesOne ==
  ASSUME NEW be \in Backend, NEW b, IsStore(be, b), NEW m \in Module, NEW k \in Key,
         NEW c \in Delete(be, b, m, k)
  PROVE  IsStore(be, c) /\ WritesOne(be, b, c)
<1>1. c = b \/ c = DeleteAt(b, Address(be, m, k))
  BY DEF Delete, MemoryDelete, DynamoDelete, FirestoreDelete, doc, Address, Backend
<1>2. CASE c = b
  BY <1>2 DEF WritesOne
<1>3. CASE c = DeleteAt(b, Address(be, m, k))
  <2>1. /\ IsStore(be, c)
        /\ IF k \in DOMAIN ViewOf(be, b)[m]
           THEN ViewOf(be, c) = [ViewOf(be, b) EXCEPT ![m] = DeleteAt(@, k)]
           ELSE ViewOf(be, c) = ViewOf(be, b)
    BY <1>3, DeleteShows
  <2>2. QED
    BY <2>1 DEF WritesOne
<1>4. QED
  BY <1>1, <1>2, <1>3

LEMMA StoreSteps ==
  ASSUME StoreInv, [ViewsNext]_viewsVars
  PROVE  /\ StoreInv' /\ backend' = backend
         /\ WritesOne(backend, base, base')
<1>1. ASSUME NEW k \in StatKey, NEW username \in NamesIn(k), Hook(k, username)
      PROVE  backend' = backend /\ IsStore(backend, base') /\ WritesOne(backend, base, base')
  <2>1. \E e : base' \in Put(backend, base, stats, k, e)
    BY <1>1 DEF Hook
  <2>2. k \in Key /\ stats \in Module
    BY StatKeysAreKeys DEF Module
  <2>3. QED
    BY <1>1, <2>1, <2>2, PutWritesOne DEF StoreInv, Hook
<1>2. ASSUME NEW f \in Foreign, ForeignWrite(f)
      PROVE  backend' = backend /\ IsStore(backend, base') /\ WritesOne(backend, base, base')
  <2>1. f[1] \in Module /\ f[2] \in Key
    BY ViewsAssumption DEF Module, Key
  <2>2. \/ \E e : base' \in Put(backend, base, f[1], f[2], e)
        \/ base' \in Delete(backend, base, f[1], f[2])
    BY <1>2 DEF ForeignWrite
  <2>3. QED
    BY <1>2, <2>1, <2>2, PutWritesOne, DeleteWritesOne DEF StoreInv, ForeignWrite
<1>3. CASE UNCHANGED <<backend, base>>
  BY <1>3 DEF WritesOne, StoreInv
<1>4. ViewsNext =>
        \/ \E k \in StatKey : \E username \in NamesIn(k) : Hook(k, username)
        \/ \E f \in Foreign : ForeignWrite(f)
        \/ UNCHANGED <<backend, base>>
  BY DEF ViewsNext, Replicate, Begin, NextPage, ListFails, AllRead, Replied, GetEntry, storeVars
<1>5. QED
  BY <1>1, <1>2, <1>3, <1>4 DEF StoreInv, viewsVars

LEMMA StoresStayStores == ViewsSpec => []StoreInv
<1>1. ViewsInit => StoreInv
  <2> SUFFICES ASSUME ViewsInit PROVE StoreInv
    OBVIOUS
  <2>1. PICK s \in Stored : DOMAIN base = {Address(backend, stats, k) : k \in DOMAIN s}
    BY DEF ViewsInit
  <2>2. DOMAIN s \subseteq Key /\ stats \in Module
    BY StatKeysAreKeys, ViewsAssumption DEF Module
  <2>3. QED
    BY <2>1, <2>2 DEF ViewsInit, StoreInv, IsStore, Addresses
<1>2. StoreInv /\ [ViewsNext]_viewsVars => StoreInv'
  BY StoreSteps
<1>3. QED
  BY <1>1, <1>2, PTL DEF ViewsSpec

(* Whatever the back end, each module has a store of its own: a write or a  *)
(* delete of one module's changes one entry of that module's and nothing of *)
(* any other's (storage/prefixed.go, dynamodb.go, firestore.go).            *)
THEOREM StoresAreApart == ViewsSpec => ImplementsStores
<1> DEFINE V == [m \in Module |-> [k \in List(backend, base, m, <<>>) |->
                                     base[Address(backend, m, k)]]]
<1>1. V = ViewOf(backend, base)
  BY DEF ViewOf
<1>2. StoreInv /\ [ViewsNext]_viewsVars => [Abstract!StoresNext]_V
  <2> SUFFICES ASSUME StoreInv, [ViewsNext]_viewsVars PROVE Abstract!StoresNext \/ V' = V
    OBVIOUS
  <2>1. backend' = backend /\ WritesOne(backend, base, base')
    BY StoreSteps
  <2>2. V' = ViewOf(backend, base')
    BY <2>1 DEF ViewOf
  <2>3. Abstract!StoresNext <=>
          \E m \in Module :
            \/ \E k \in DOMAIN V'[m] : V' = [V EXCEPT ![m] = PutAt(@, k, V'[m][k])]
            \/ \E k \in DOMAIN V[m] : V' = [V EXCEPT ![m] = DeleteAt(@, k)]
    BY DEF Abstract!StoresNext, Abstract!StorePut, Abstract!StoreDelete,
           Abstract!PutAt, Abstract!DeleteAt, PutAt, DeleteAt
  <2> HIDE DEF V
  <2>4. QED
    BY <1>1, <2>1, <2>2, <2>3, Zenon DEF WritesOne
<1>3. Abstract!StoresInit
  BY DEF Abstract!StoresInit
<1>4. QED
  BY StoresStayStores, <1>2, <1>3, PTL DEF ViewsSpec, ImplementsStores, Abstract!StoresSpec

----------------------------------------------------------------------------
(* The bytes of a key are numbers. *)
LEMMA KeyType ==
  ASSUME NEW s \in Key
  PROVE  Len(s) \in Nat /\ \A i \in 1 .. Len(s) : s[i] \in Int
<1>1. Len(s) \in Nat /\ \A i \in 1 .. Len(s) : s[i] \in Byte
  BY DEF Key
<1>2. \A x \in Byte : x \in Int
  BY DEF Byte
<1>3. QED
  BY <1>1, <1>2

(* The order of keys is strict and total. *)
LEMMA LessIrreflexive == ASSUME NEW s \in Key PROVE ~ Less(s, s)
<1> SUFFICES ASSUME Less(s, s) PROVE FALSE
  OBVIOUS
<1>1. PICK i \in 1 .. Len(s) : i <= Len(s) => s[i] < s[i]
  BY DEF Less
<1>2. Len(s) \in Nat /\ s[i] \in Int
  BY <1>1, KeyType
<1>3. QED
  BY <1>1, <1>2

LEMMA LessTransitive ==
  ASSUME NEW s \in Key, NEW t \in Key, NEW u \in Key, Less(s, t), Less(t, u)
  PROVE  Less(s, u)
<1>1. PICK i \in 1 .. Len(t) :
        /\ \A j \in 1 .. i - 1 : j <= Len(s) /\ s[j] = t[j]
        /\ i <= Len(s) => s[i] < t[i]
  BY DEF Less
<1>2. PICK l \in 1 .. Len(u) :
        /\ \A j \in 1 .. l - 1 : j <= Len(t) /\ t[j] = u[j]
        /\ l <= Len(t) => t[l] < u[l]
  BY DEF Less
<1>3. /\ Len(s) \in Nat /\ Len(t) \in Nat /\ Len(u) \in Nat /\ i \in Nat /\ l \in Nat
      /\ \A j \in 1 .. Len(s) : s[j] \in Int
      /\ \A j \in 1 .. Len(t) : t[j] \in Int
      /\ \A j \in 1 .. Len(u) : u[j] \in Int
  BY KeyType
<1>4. CASE i < l
  <2>1. i \in 1 .. Len(u) /\ t[i] = u[i]
    BY <1>2, <1>3, <1>4
  <2>2. \A j \in 1 .. i - 1 : j <= Len(s) /\ s[j] = u[j]
    BY <1>1, <1>2, <1>3, <1>4
  <2>3. QED
    BY <1>1, <2>1, <2>2 DEF Less
<1>5. CASE i = l
  <2>1. \A j \in 1 .. i - 1 : j <= Len(s) /\ s[j] = u[j]
    BY <1>1, <1>2, <1>3, <1>5
  <2>2. i <= Len(s) => s[i] < u[i]
    BY <1>1, <1>2, <1>3, <1>5
  <2>3. QED
    BY <1>5, <2>1, <2>2 DEF Less
<1>6. CASE l < i
  <2>1. l <= Len(s) /\ s[l] = t[l] /\ l <= Len(t)
    BY <1>1, <1>3, <1>6
  <2>2. \A j \in 1 .. l - 1 : j <= Len(s) /\ s[j] = u[j]
    BY <1>1, <1>2, <1>3, <1>6
  <2>3. QED
    BY <1>2, <2>1, <2>2 DEF Less
<1>7. QED
  BY <1>3, <1>4, <1>5, <1>6

LEMMA LessTotal ==
  ASSUME NEW s \in Key, NEW t \in Key, s # t
  PROVE  Less(s, t) \/ Less(t, s)
<1> DEFINE B == {i \in 1 .. Len(s) : i <= Len(t) /\ s[i] # t[i]}
<1>1. /\ Len(s) \in Nat /\ Len(t) \in Nat
      /\ \A j \in 1 .. Len(s) : s[j] \in Int
      /\ \A j \in 1 .. Len(t) : t[j] \in Int
  BY KeyType
<1>2. CASE B # {}
  <2>1. B \in SUBSET Nat
    BY <1>1
  <2>2. PICK i \in B : \A j \in B : i <= j
    BY <1>2, <2>1, Least
  <2>3. i \in 1 .. Len(s) /\ i \in 1 .. Len(t) /\ s[i] # t[i]
    BY <1>1, <2>2
  <2>4. \A j \in 1 .. i - 1 : j <= Len(s) /\ j <= Len(t) /\ s[j] = t[j]
    <3> TAKE j \in 1 .. i - 1
    <3>1. j \in 1 .. Len(s) /\ j <= Len(t) /\ ~ (i <= j)
      BY <1>1, <2>3
    <3>2. QED
      BY <1>1, <2>2, <3>1
  <2>5. s[i] < t[i] \/ t[i] < s[i]
    BY <1>1, <2>3
  <2>6. QED
    BY <2>3, <2>4, <2>5 DEF Less
<1>3. CASE B = {}
  <2>1. \A i \in 1 .. Len(s) : i <= Len(t) => s[i] = t[i]
    BY <1>3
  <2>2. CASE Len(s) = Len(t)
    <3>1. Alike(s, t, Len(s))
      BY <1>1, <2>1, <2>2 DEF Alike
    <3>2. QED
      BY <2>2, <3>1, SameKey
  <2>3. CASE Len(s) < Len(t)
    <3>1. /\ Len(s) + 1 \in 1 .. Len(t) /\ ~ (Len(s) + 1 <= Len(s))
          /\ \A j \in 1 .. (Len(s) + 1) - 1 : j <= Len(s) /\ s[j] = t[j]
      BY <1>1, <2>1, <2>3
    <3>2. QED
      BY <3>1 DEF Less
  <2>4. CASE Len(t) < Len(s)
    <3>1. /\ Len(t) + 1 \in 1 .. Len(s) /\ ~ (Len(t) + 1 <= Len(t))
          /\ \A j \in 1 .. (Len(t) + 1) - 1 : j <= Len(t) /\ t[j] = s[j]
      BY <1>1, <2>1, <2>4
    <3>2. QED
      BY <3>1 DEF Less
  <2>5. QED
    BY <1>1, <2>2, <2>3, <2>4
<1>4. QED
  BY <1>2, <1>3

(* The last byte of the prefixes that are listed. *)
EndsInColon(p) == p \in Key /\ p # <<>> /\ p[Len(p)] = Colon

(* Firestore's range is the prefix. *)
LEMMA RangeIsPrefix ==
  ASSUME NEW p, EndsInColon(p), NEW k \in Key
  PROVE  InRange(p, k) <=> IsPrefix(p, k)
<1> DEFINE n == Len(p)
           q == [j \in 1 .. n |-> IF j = n THEN p[n] + 1 ELSE p[j]]
<1>1. /\ p \in Key /\ n \in Nat /\ n >= 1 /\ p[n] = 58
      /\ Len(k) \in Nat /\ p # <<>>
      /\ \A j \in 1 .. n : p[j] \in Int
      /\ \A j \in 1 .. Len(k) : k[j] \in Int
  <2>1. p \in Key /\ p # <<>> /\ p[n] = 58
    BY DEF EndsInColon, Colon
  <2>2. n >= 1
    BY <2>1 DEF Key
  <2>3. QED
    BY <2>1, <2>2, KeyType
<1>2. LastBelowTop(p) = n
  <2> DEFINE FinalAt(i) == /\ i # 0 => p[i] # 255
                           /\ \A j \in i + 1 .. Len(p) : p[j] = 255
  <2>1. n \in 0 .. Len(p) /\ FinalAt(n)
    BY <1>1
  <2>2. ASSUME NEW i \in 0 .. Len(p), FinalAt(i) PROVE i = n
    <3>1. ~ (i < n)
      <4> SUFFICES ASSUME i < n PROVE FALSE
        OBVIOUS
      <4>1. n \in i + 1 .. Len(p)
        BY <1>1
      <4>2. QED
        BY <1>1, <2>2, <4>1
    <3>2. QED
      BY <1>1, <3>1
  <2>3. LastBelowTop(p) = CHOOSE i \in 0 .. Len(p) : FinalAt(i)
    BY DEF LastBelowTop
  <2> HIDE DEF FinalAt, n
  <2>4. QED
    BY <2>1, <2>2, <2>3
<1>3. prefixSuccessor(p) = q
  BY <1>1, <1>2 DEF prefixSuccessor, IncrementLast
<1>4. Len(q) = n /\ q[n] = 59 /\ \A j \in 1 .. n - 1 : q[j] = p[j]
  BY <1>1
<1> HIDE DEF n, q
<1>5. ASSUME IsPrefix(p, k) PROVE ~ Less(k, p) /\ Less(k, q)
  <2>1. n <= Len(k) /\ \A j \in 1 .. n : p[j] = k[j]
    BY <1>1, <1>5, PrefixAt DEF n
  <2>2. ~ Less(k, p)
    <3> SUFFICES ASSUME Less(k, p) PROVE FALSE
      OBVIOUS
    <3>1. PICK i \in 1 .. Len(p) : i <= Len(k) => k[i] < p[i]
      BY DEF Less
    <3>2. QED
      BY <1>1, <2>1, <3>1 DEF n
  <2>3. /\ n \in 1 .. Len(q) /\ k[n] < q[n]
        /\ \A j \in 1 .. n - 1 : j <= Len(k) /\ k[j] = q[j]
    BY <1>1, <1>4, <2>1
  <2>4. QED
    BY <2>2, <2>3 DEF Less
<1>6. ASSUME ~ Less(k, p), Less(k, q) PROVE IsPrefix(p, k)
  <2>1. PICK i \in 1 .. n : /\ \A j \in 1 .. i - 1 : j <= Len(k) /\ k[j] = q[j]
                            /\ i <= Len(k) => k[i] < q[i]
    BY <1>4, <1>6 DEF Less
  <2>2. \A j \in 1 .. i - 1 : j <= Len(k) /\ k[j] = p[j]
    BY <1>1, <1>4, <2>1
  <2>3. ~ (i <= Len(k) => k[i] < p[i])
    BY <1>6, <2>2 DEF Less, n
  <2>4. i = n /\ k[n] = p[n]
    BY <1>1, <1>4, <2>1, <2>3
  <2>5. n <= Len(k) /\ \A j \in 1 .. n : p[j] = k[j]
    BY <1>1, <2>2, <2>3, <2>4
  <2>6. QED
    BY <1>1, <2>5, PrefixAt DEF n
<1>7. QED
  BY <1>1, <1>3, <1>5, <1>6 DEF InRange

(* A prefix of the key, behind the module's name.                           *)
LEMMA PrefixBehindName ==
  ASSUME NEW m \in Key, NEW p \in Key, NEW k \in Key
  PROVE  IsPrefix(Prefixed(m, p), Prefixed(m, k)) <=> IsPrefix(p, k)
<1> DEFINE x == Prefixed(m, p)
           y == Prefixed(m, k)
<1>1. Spelled(x, m, p) /\ Spelled(y, m, k)
  BY PrefixedSpells
<1> HIDE DEF x, y
<1>2. /\ x \in Key /\ Len(x) = Len(m) + 1 + Len(p)
      /\ \A i \in 1 .. Len(m) : x[i] = m[i]
      /\ x[Len(m) + 1] = Colon
      /\ \A i \in 1 .. Len(p) : x[Len(m) + 1 + i] = p[i]
  BY <1>1 DEF Spelled
<1>3. /\ y \in Key /\ Len(y) = Len(m) + 1 + Len(k)
      /\ \A i \in 1 .. Len(m) : y[i] = m[i]
      /\ y[Len(m) + 1] = Colon
      /\ \A i \in 1 .. Len(k) : y[Len(m) + 1 + i] = k[i]
  BY <1>1 DEF Spelled
<1>4. Len(m) \in Nat /\ Len(p) \in Nat /\ Len(k) \in Nat
  BY DEF Key
<1>5. Len(x) <= Len(y) <=> Len(p) <= Len(k)
  BY <1>2, <1>3, <1>4
<1>6. ASSUME Len(p) <= Len(k), \A i \in 1 .. Len(x) : x[i] = y[i]
      PROVE  \A i \in 1 .. Len(p) : p[i] = k[i]
  <2> TAKE i \in 1 .. Len(p)
  <2>1. Len(m) + 1 + i \in 1 .. Len(x) /\ i \in 1 .. Len(k)
    BY <1>2, <1>4, <1>6
  <2>2. QED
    BY <1>2, <1>3, <1>6, <2>1
<1>7. ASSUME Len(p) <= Len(k), \A i \in 1 .. Len(p) : p[i] = k[i]
      PROVE  \A i \in 1 .. Len(x) : x[i] = y[i]
  <2> TAKE i \in 1 .. Len(x)
  <2>1. \/ i \in 1 .. Len(m) \/ i = Len(m) + 1
        \/ i - (Len(m) + 1) \in 1 .. Len(p) /\ i = Len(m) + 1 + (i - (Len(m) + 1))
    BY <1>2, <1>4
  <2>2. CASE i \in 1 .. Len(m) \/ i = Len(m) + 1
    BY <1>2, <1>3, <2>2
  <2>3. ASSUME NEW l \in 1 .. Len(p), i = Len(m) + 1 + l PROVE x[i] = y[i]
    <3>1. l \in 1 .. Len(k)
      BY <1>4, <1>7
    <3>2. QED
      BY <1>2, <1>3, <1>7, <2>3, <3>1
  <2>4. QED
    BY <2>1, <2>2, <2>3
<1>8. IsPrefix(x, y) <=> Len(x) <= Len(y) /\ \A i \in 1 .. Len(x) : x[i] = y[i]
  BY <1>2, <1>3, PrefixAt
<1>9. IsPrefix(p, k) <=> Len(p) <= Len(k) /\ \A i \in 1 .. Len(p) : p[i] = k[i]
  BY PrefixAt
<1>10. QED
  BY <1>5, <1>6, <1>7, <1>8, <1>9 DEF x, y

(* A List is the module's keys that begin so, on every back end.            *)
LEMMA ListsByPrefix ==
  ASSUME NEW be \in Backend, NEW b, IsStore(be, b), NEW m \in Module, NEW p, EndsInColon(p)
  PROVE  List(be, b, m, p) = {k \in Key : Address(be, m, k) \in DOMAIN b /\ IsPrefix(p, k)}
<1> DEFINE Own == {k \in Key : Address(be, m, k) \in DOMAIN b /\ IsPrefix(p, k)}
<1>1. \A a \in DOMAIN b : \E n \in Module : \E k \in Key : a = Address(be, n, k)
  BY DEF IsStore, Addresses
<1>2. p \in Key
  BY DEF EndsInColon
<1>3. CASE be = "memory"
  <2> DEFINE q == Prefixed(m, p)
             r == Prefixed(m, <<>>)
  <2>1. \A n \in Module : ColonFree(n) /\ n \in Key
    BY NamesAreColonFree DEF ColonFree, Key
  <2>2. List(be, b, m, p) = {TrimPrefix(a, r) : a \in {x \in DOMAIN b : IsPrefix(q, x)}}
    BY <1>3 DEF List, MemoryList
  <2>3. ASSUME NEW a \in DOMAIN b, IsPrefix(q, a)
        PROVE  TrimPrefix(a, r) \in Own
    <3>1. PICK n \in Module, k \in Key : a = Address(be, n, k)
      BY <1>1
    <3>2. a = Prefixed(n, k)
      BY <1>3, <3>1 DEF Address
    <3>3. m = n
      BY <1>2, <2>1, <2>3, <3>2, NamesDelimit
    <3>4. TrimPrefix(a, r) = k
      BY <2>1, <3>2, <3>3, Trimmed
    <3>5. IsPrefix(p, k)
      BY <1>2, <2>1, <2>3, <3>2, <3>3, PrefixBehindName
    <3>6. QED
      BY <3>1, <3>3, <3>4, <3>5
  <2>4. ASSUME NEW k \in Own
        PROVE  /\ Address(be, m, k) \in DOMAIN b
               /\ IsPrefix(q, Address(be, m, k)) /\ TrimPrefix(Address(be, m, k), r) = k
    <3>1. Address(be, m, k) = Prefixed(m, k)
      BY <1>3 DEF Address
    <3>2. QED
      BY <1>2, <2>1, <3>1, Trimmed, PrefixBehindName
  <2> HIDE DEF Own, q, r
  <2>5. QED
    BY <2>2, <2>3, <2>4 DEF Own
<1>4. CASE be # "memory"
  <2>1. \A a \in DOMAIN b : \E n \in Module : \E k \in Key : a = <<n, k>>
    BY <1>1, <1>4 DEF Address
  <2>2. List(be, b, m, p) = {a[2] : a \in {x \in DOMAIN b : x[1] = m /\ IsPrefix(p, x[2])}}
    <3>1. \A x \in DOMAIN b : InRange(p, x[2]) <=> IsPrefix(p, x[2])
      <4> TAKE x \in DOMAIN b
      <4>1. x[2] \in Key
        BY <2>1
      <4>2. QED
        BY <4>1, RangeIsPrefix
    <3>2. CASE be = "dynamodb"
      BY <3>2 DEF List, DynamoQuery
    <3>3. CASE be = "firestore"
      <4>1. {x \in DOMAIN b : x[1] = m /\ InRange(p, x[2])}
              = {x \in DOMAIN b : x[1] = m /\ IsPrefix(p, x[2])}
        BY <3>1
      <4>2. QED
        BY <3>3, <4>1, Zenon DEF List, FirestoreScan
    <3>4. QED
      BY <1>4, <3>2, <3>3 DEF Backend
  <2>3. ASSUME NEW a \in DOMAIN b, a[1] = m, IsPrefix(p, a[2]) PROVE a[2] \in Own
    <3>1. PICK n \in Module, k \in Key : a = <<n, k>>
      BY <2>1
    <3>2. n = m /\ a[2] = k
      BY <2>3, <3>1
    <3>3. QED
      BY <1>4, <2>3, <3>1, <3>2 DEF Address
  <2>4. ASSUME NEW k \in Own
        PROVE  /\ <<m, k>> \in DOMAIN b /\ <<m, k>>[1] = m /\ <<m, k>>[2] = k
               /\ IsPrefix(p, k)
    BY <1>4 DEF Address
  <2> HIDE DEF Own
  <2>5. QED
    BY <2>2, <2>3, <2>4 DEF Own
<1>5. QED
  BY <1>3, <1>4

----------------------------------------------------------------------------
(* What the keys of the stats are made of.                                  *)

LEMMA Extended ==
  ASSUME NEW p \in Key, NEW k \in Key
  PROVE  /\ Join(p, k) \in Key /\ Len(Join(p, k)) = Len(p) + Len(k)
         /\ \A i \in 1 .. Len(p) : Join(p, k)[i] = p[i]
         /\ IsPrefix(p, Join(p, k))
         /\ TrimPrefix(Join(p, k), p) = k
<1> DEFINE a == Join(p, k)
<1>0. Follow(a, Byte, p, k)
  BY JoinedAt DEF Key
<1>1. /\ a \in Key /\ Len(a) = Len(p) + Len(k)
      /\ \A i \in 1 .. Len(p) : a[i] = p[i]
      /\ \A i \in 1 .. Len(k) : a[Len(p) + i] = k[i]
  BY <1>0 DEF Follow, Key
<1>2. Len(p) \in Nat /\ Len(k) \in Nat
  BY DEF Key
<1> HIDE DEF a
<1>3. IsPrefix(p, a)
  <2>1. Len(p) <= Len(a) /\ \A i \in 1 .. Len(p) : p[i] = a[i]
    BY <1>1, <1>2
  <2>2. QED
    BY <1>1, <2>1, PrefixAt
<1>4. TrimPrefix(a, p) = k
  <2> DEFINE u == SubSeq(a, Len(p) + 1, Len(a))
  <2>1. /\ u \in Key /\ Len(u) = Len(k)
        /\ \A i \in 1 .. Len(k) : u[i] = a[Len(p) + i]
    <3>1. \A i \in 1 .. Len(k) : Len(p) + 1 + i - 1 = Len(p) + i
      BY <1>2
    <3>2. QED
      BY <1>1, <1>2, <3>1 DEF Key
  <2> HIDE DEF u
  <2>2. u = k
    BY <1>1, <2>1, SameKey DEF Alike
  <2>3. QED
    BY <1>3, <2>2 DEF TrimPrefix, u
<1>5. QED
  BY <1>1, <1>3, <1>4 DEF a

LEMMA PrefixKeys ==
  /\ countPrefix \in Key /\ userPrefix \in Key /\ pairPrefix \in Key /\ <<Colon>> \in Key
  /\ EndsInColon(countPrefix) /\ EndsInColon(userPrefix) /\ EndsInColon(pairPrefix)
  /\ countPrefix[1] = 99 /\ userPrefix[1] = 117 /\ pairPrefix[1] = 112
  /\ Len(countPrefix) = 6 /\ Len(userPrefix) = 5 /\ Len(pairPrefix) = 5
<1>1. countPrefix \in Key /\ userPrefix \in Key /\ pairPrefix \in Key /\ <<Colon>> \in Key
  BY DEF Key, countPrefix, userPrefix, pairPrefix, Byte, Colon
<1>2. /\ countPrefix[6] = Colon /\ userPrefix[5] = Colon /\ pairPrefix[5] = Colon
      /\ countPrefix[1] = 99 /\ userPrefix[1] = 117 /\ pairPrefix[1] = 112
      /\ Len(countPrefix) = 6 /\ Len(userPrefix) = 5 /\ Len(pairPrefix) = 5
  BY DEF countPrefix, userPrefix, pairPrefix
<1>3. countPrefix # <<>> /\ userPrefix # <<>> /\ pairPrefix # <<>>
  BY DEF countPrefix, userPrefix, pairPrefix
<1>4. QED
  BY <1>1, <1>2, <1>3 DEF EndsInColon

(* Commands and user ids have no delimiter.                                 *)
LEMMA PlainNames ==
  /\ \A c \in Command : ColonFree(c) /\ c \in Key /\ c # <<>>
  /\ \A id \in UserId : ColonFree(id) /\ id \in Key /\ id # <<>>
  /\ \A n \in Username : n \in Key /\ n # <<>>
  /\ Mistyped \subseteq Key
<1>1. ASSUME NEW s, s \in Seq(Byte) \ {<<>>},
             \A i \in DOMAIN s : s[i] \in Lower \cup Digits \cup {Underscore}
      PROVE  ColonFree(s) /\ s \in Key /\ s # <<>>
  <2>1. Lower \cup Digits \cup {Underscore} \subseteq Byte \ {Colon}
    BY DEF Lower, Digits, Underscore, Byte, Colon
  <2>2. \A i \in 1 .. Len(s) : s[i] \in Byte \ {Colon}
    BY <1>1, <2>1
  <2>3. s \in Seq(Byte \ {Colon})
    BY <1>1, <2>2
  <2>4. QED
    BY <1>1, <2>3 DEF ColonFree, Key
<1>2. \A c \in Command : ColonFree(c) /\ c \in Key /\ c # <<>>
  BY <1>1, ViewsAssumption
<1>3. \A id \in UserId : ColonFree(id) /\ id \in Key /\ id # <<>>
  BY <1>1, ViewsAssumption
<1>4. QED
  BY <1>2, <1>3, ViewsAssumption DEF Key

LEMMA CountKeyIs ==
  ASSUME NEW c \in Command
  PROVE  countKey(c) \in CountKeys /\ countKey(c) = Join(countPrefix, c)
BY DEF countKey, CountKeys, Join

LEMMA UserKeyIs ==
  ASSUME NEW id \in UserId
  PROVE  userKey(id) \in UserKeys /\ userKey(id) = Join(userPrefix, id)
BY DEF userKey, UserKeys, Join

(* The prefix of /stats cmd's List.                                         *)
pairsOf(c) == pairPrefix \o c \o <<Colon>>

LEMMA PairKeyIs ==
  ASSUME NEW c \in Key, NEW id \in Key
  PROVE  /\ pairsOf(c) = Join(pairPrefix, Join(c, <<Colon>>))
         /\ EndsInColon(pairsOf(c)) /\ Len(pairsOf(c)) = 6 + Len(c)
         /\ pairKey(c, id) = Join(pairsOf(c), id)
         /\ pairKey(c, id) = Join(pairPrefix, Prefixed(c, id))
         /\ Prefixed(c, id) \in Key
<1> DEFINE d == <<Colon>>
<1>1. d \in Key /\ pairPrefix \in Key /\ Len(pairPrefix) = 5 /\ Len(d) = 1 /\ d[1] = Colon
  BY PrefixKeys
<1>2. pairsOf(c) = Join(Join(pairPrefix, c), d) /\ pairKey(c, id) = Join(pairsOf(c), id)
  BY DEF pairsOf, pairKey, Join
<1>3. Prefixed(c, id) = Join(Join(c, d), id)
  BY DEF Prefixed, WithDelimiter, Join
<1> HIDE DEF d
<1>4. Join(Join(pairPrefix, c), d) = Join(pairPrefix, Join(c, d))
  BY <1>1, JoinAssociates DEF Key
<1>5. Join(c, d) \in Key /\ Len(Join(c, d)) = Len(c) + 1
  <2>1. Join(c, d) \in Key /\ Len(Join(c, d)) = Len(c) + Len(d)
    BY <1>1, Extended
  <2>2. QED
    BY <1>1, <2>1
<1>6. Join(Join(pairPrefix, Join(c, d)), id) = Join(pairPrefix, Join(Join(c, d), id))
  BY <1>1, <1>5, JoinAssociates DEF Key
<1>7. Prefixed(c, id) \in Key
  BY <1>3, <1>5, Extended
<1>8. EndsInColon(pairsOf(c)) /\ Len(pairsOf(c)) = 6 + Len(c)
  <2> DEFINE e == Join(c, d)
             f == Join(pairPrefix, e)
  <2>1. Follow(e, Byte, c, d) /\ e \in Key
    BY <1>1, <1>5, JoinedAt DEF Key
  <2> HIDE DEF e
  <2>2. Follow(f, Byte, pairPrefix, e)
    BY <1>1, <2>1, JoinedAt DEF Key
  <2> HIDE DEF f
  <2>3. Len(c) \in Nat /\ Len(e) = Len(c) + 1 /\ e[Len(c) + 1] = Colon
    BY <1>1, <2>1 DEF Follow, Key
  <2>4. f \in Key /\ Len(f) = 5 + Len(e) /\ f[5 + (Len(c) + 1)] = e[Len(c) + 1]
    <3>1. /\ f \in Key /\ Len(f) = Len(pairPrefix) + Len(e)
          /\ \A i \in 1 .. Len(e) : f[Len(pairPrefix) + i] = e[i]
      BY <2>2 DEF Follow, Key
    <3>2. Len(c) + 1 \in 1 .. Len(e)
      BY <2>3
    <3>3. QED
      BY <1>1, <3>1, <3>2
  <2>5. Len(f) = 6 + Len(c) /\ f[Len(f)] = Colon /\ f # <<>>
    BY <2>3, <2>4
  <2>6. QED
    BY <1>2, <1>4, <2>3, <2>4, <2>5 DEF EndsInColon, e, f
<1>9. QED
  BY <1>2, <1>3, <1>4, <1>6, <1>7, <1>8 DEF d

(* The kinds of keys, by their first byte.                                  *)
LEMMA FirstBytes ==
  /\ \A k \in CountKeys : k \in Key /\ k # <<>> /\ k[1] = 99 /\ IsPrefix(countPrefix, k)
  /\ \A k \in UserKeys : k \in Key /\ k # <<>> /\ k[1] = 117 /\ IsPrefix(userPrefix, k)
  /\ \A k \in PairKeys : k \in Key /\ k # <<>> /\ k[1] = 112 /\ IsPrefix(pairPrefix, k)
<1>1. ASSUME NEW p \in Key, Len(p) >= 1, NEW s \in Key
      PROVE  /\ Join(p, s) \in Key /\ Join(p, s) # <<>> /\ Join(p, s)[1] = p[1]
             /\ IsPrefix(p, Join(p, s))
  <2>1. Len(p) \in Nat /\ Len(s) \in Nat /\ 1 \in 1 .. Len(p)
    BY <1>1 DEF Key
  <2>2. Len(Join(p, s)) # 0
    BY <1>1, <2>1, Extended
  <2>3. QED
    BY <1>1, <2>1, <2>2, Extended
<1>2. \A k \in CountKeys : \E c \in Command : k = Join(countPrefix, c)
  BY CountKeyIs DEF CountKeys
<1>3. \A k \in UserKeys : \E id \in UserId : k = Join(userPrefix, id)
  BY UserKeyIs DEF UserKeys
<1>4. \A k \in PairKeys : \E s \in Key : k = Join(pairPrefix, s)
  BY PairKeyIs, PlainNames DEF PairKeys
<1>5. QED
  BY <1>1, <1>2, <1>3, <1>4, PlainNames, PrefixKeys

LEMMA PrefixKinds ==
  ASSUME NEW k \in StatKey
  PROVE  /\ IsPrefix(countPrefix, k) <=> k \in CountKeys
         /\ IsPrefix(userPrefix, k) <=> k \in UserKeys
         /\ IsPrefix(pairPrefix, k) <=> k \in PairKeys
         /\ k \in UserKeys => k \notin CountKeys /\ k \notin PairKeys
         /\ k \in Key /\ k # <<>>
<1>1. k \in CountKeys \/ k \in UserKeys \/ k \in PairKeys
  BY DEF StatKey
<1>2. k \in Key /\ k # <<>>
  BY <1>1, FirstBytes
<1>3. ASSUME NEW p \in Key, Len(p) >= 1, IsPrefix(p, k) PROVE k[1] = p[1]
  <2>1. 1 \in 1 .. Len(p)
    BY <1>3 DEF Key
  <2>2. QED
    BY <1>2, <1>3, <2>1, PrefixAt
<1>4. /\ IsPrefix(countPrefix, k) => k[1] = 99
      /\ IsPrefix(userPrefix, k) => k[1] = 117
      /\ IsPrefix(pairPrefix, k) => k[1] = 112
  BY <1>3, PrefixKeys
<1>5. QED
  BY <1>1, <1>2, <1>4, FirstBytes

(* A key of a pair tells its command and its user.                          *)
LEMMA PairDecodes ==
  ASSUME NEW c, NEW d, ColonFree(c), ColonFree(d), NEW id \in Key, NEW e \in Key,
         pairKey(c, id) = pairKey(d, e)
  PROVE  c = d /\ id = e
<1>1. c \in Key /\ d \in Key
  BY DEF ColonFree, Key
<1>2. /\ pairKey(c, id) = Join(pairPrefix, Prefixed(c, id)) /\ Prefixed(c, id) \in Key
      /\ pairKey(d, e) = Join(pairPrefix, Prefixed(d, e)) /\ Prefixed(d, e) \in Key
  BY <1>1, PairKeyIs
<1>3. Prefixed(c, id) = Prefixed(d, e)
  <2>1. /\ TrimPrefix(Join(pairPrefix, Prefixed(c, id)), pairPrefix) = Prefixed(c, id)
        /\ TrimPrefix(Join(pairPrefix, Prefixed(d, e)), pairPrefix) = Prefixed(d, e)
    BY <1>2, PrefixKeys, Extended
  <2>2. QED
    BY <1>2, <2>1
<1>4. IsPrefix(Prefixed(c, id), Prefixed(d, e))
  BY <1>2, <1>3, PrefixAt, KeyType
<1>5. c = d
  BY <1>4, NamesDelimit
<1>6. QED
  BY <1>1, <1>3, <1>5, Trimmed

(* What /stats cmd lists is one command's, whatever text it is asked about.  *)
LEMMA PairsOfOne ==
  ASSUME NEW arg \in Key, NEW c, ColonFree(c), NEW id, ColonFree(id)
  PROVE  IsPrefix(pairsOf(arg), pairKey(c, id)) <=> arg = c
<1>1. c \in Key /\ id \in Key
  BY DEF ColonFree, Key
<1>2. CASE arg = c
  BY <1>1, <1>2, PairKeyIs, Extended DEF EndsInColon
<1>3. ASSUME IsPrefix(pairsOf(arg), pairKey(c, id)) PROVE arg = c
  <2> DEFINE x == Join(arg, <<Colon>>)
             y == Prefixed(c, id)
  <2>1. <<Colon>> \in Key /\ pairPrefix \in Key /\ Len(pairPrefix) = 5
    BY PrefixKeys
  <2>2. x \in Key /\ Len(x) = Len(arg) + 1 /\ x[Len(arg) + 1] = Colon
        /\ \A i \in 1 .. Len(arg) : x[i] = arg[i]
    <3>1. Follow(x, Byte, arg, <<Colon>>)
      BY <2>1, JoinedAt DEF Key
    <3> HIDE DEF x
    <3>2. QED
      BY <3>1 DEF Follow, Key
  <2>3. Spelled(y, c, id)
    BY <1>1, PrefixedSpells
  <2>4. pairsOf(arg) = Join(pairPrefix, x) /\ pairKey(c, id) = Join(pairPrefix, y)
    BY <1>1, PairKeyIs
  <2> HIDE DEF x, y
  <2>5. /\ y \in Key /\ Len(y) = Len(c) + 1 + Len(id)
        /\ \A i \in 1 .. Len(c) : y[i] = c[i]
        /\ \A i \in 1 .. Len(id) : y[Len(c) + 1 + i] = id[i]
    BY <2>3 DEF Spelled
  <2>6. Follow(Join(pairPrefix, x), Byte, pairPrefix, x)
        /\ Follow(Join(pairPrefix, y), Byte, pairPrefix, y)
    BY <2>1, <2>2, <2>5, JoinedAt DEF Key
  <2> DEFINE p == Join(pairPrefix, x)
             k == Join(pairPrefix, y)
  <2>7. p \in Key /\ k \in Key /\ Len(p) = 5 + Len(x) /\ Len(k) = 5 + Len(y)
        /\ (\A i \in 1 .. Len(x) : p[5 + i] = x[i])
        /\ (\A i \in 1 .. Len(y) : k[5 + i] = y[i])
    BY <2>1, <2>6 DEF Follow, Key
  <2>8. IsPrefix(p, k)
    BY <1>3, <2>4
  <2> HIDE DEF p, k
  <2>9. Len(p) <= Len(k) /\ \A i \in 1 .. Len(p) : p[i] = k[i]
    BY <2>7, <2>8, PrefixAt
  <2>10. /\ Len(arg) \in Nat /\ Len(c) \in Nat /\ Len(id) \in Nat
         /\ Len(x) \in Nat /\ Len(y) \in Nat
    BY <1>1, <2>2, <2>5 DEF Key
  <2>11. Len(x) <= Len(y) /\ \A i \in 1 .. Len(x) : x[i] = y[i]
    <3>1. Len(x) <= Len(y)
      BY <2>7, <2>9, <2>10
    <3>2. ASSUME NEW i \in 1 .. Len(x) PROVE x[i] = y[i]
      <4>1. i \in 1 .. Len(y) /\ 5 + i \in 1 .. Len(p)
        BY <2>7, <2>10, <3>1
      <4>2. QED
        BY <2>7, <2>9, <4>1
    <3>3. QED
      BY <3>1, <3>2
  <2>12. /\ \A i \in 1 .. Len(c) : c[i] # Colon
         /\ \A i \in 1 .. Len(id) : id[i] # Colon
    BY DEF ColonFree
  <2>13. y[Len(arg) + 1] = Colon
    BY <2>2, <2>10, <2>11
  <2>14. ~ (Len(arg) < Len(c))
    <3> SUFFICES ASSUME Len(arg) < Len(c) PROVE FALSE
      OBVIOUS
    <3>1. Len(arg) + 1 \in 1 .. Len(c)
      BY <2>10
    <3>2. QED
      BY <2>5, <2>12, <2>13, <3>1
  <2>15. ~ (Len(c) < Len(arg))
    <3> SUFFICES ASSUME Len(c) < Len(arg) PROVE FALSE
      OBVIOUS
    <3> DEFINE l == Len(arg) - Len(c)
    <3>1. l \in 1 .. Len(id) /\ Len(c) + 1 + l = Len(arg) + 1
      BY <2>2, <2>5, <2>10, <2>11
    <3> HIDE DEF l
    <3>2. QED
      BY <2>5, <2>12, <2>13, <3>1
  <2>16. Len(arg) = Len(c)
    BY <2>10, <2>14, <2>15
  <2>17. ASSUME NEW i \in 1 .. Len(arg) PROVE arg[i] = c[i]
    <3>1. i \in 1 .. Len(x) /\ i \in 1 .. Len(c)
      BY <2>2, <2>10, <2>16
    <3>2. QED
      BY <2>2, <2>5, <2>11, <3>1
  <2>18. QED
    BY <1>1, <2>16, <2>17, SameKey DEF Alike
<1>4. QED
  BY <1>2, <1>3

LEMMA SuffixAt ==
  ASSUME NEW s \in Key, NEW t \in Key
  PROVE  IsSuffix(s, t) <=>
           /\ Len(s) <= Len(t)
           /\ \A i \in 1 .. Len(s) : s[i] = t[Len(t) - Len(s) + i]
<1> DEFINE u == Reverse(s)
           v == Reverse(t)
<1>1. Len(s) \in Nat /\ Len(t) \in Nat
  BY DEF Key
<1>2. /\ u \in Key /\ Len(u) = Len(s) /\ \A i \in 1 .. Len(s) : u[i] = s[Len(s) - i + 1]
  BY <1>1 DEF Reverse, Key
<1>3. /\ v \in Key /\ Len(v) = Len(t) /\ \A i \in 1 .. Len(t) : v[i] = t[Len(t) - i + 1]
  BY <1>1 DEF Reverse, Key
<1>4. IsSuffix(s, t) <=> IsPrefix(u, v)
  BY DEF IsSuffix
<1> HIDE DEF u, v
<1>5. IsPrefix(u, v) <=> Len(s) <= Len(t) /\ \A i \in 1 .. Len(s) : u[i] = v[i]
  BY <1>2, <1>3, PrefixAt
<1>6. ASSUME Len(s) <= Len(t), NEW i \in 1 .. Len(s)
      PROVE  /\ Len(s) - i + 1 \in 1 .. Len(s) /\ Len(s) - (Len(s) - i + 1) + 1 = i
             /\ u[i] = s[Len(s) - i + 1]
             /\ v[i] = t[Len(t) - Len(s) + (Len(s) - i + 1)]
  <2>1. i \in 1 .. Len(t) /\ Len(t) - Len(s) + (Len(s) - i + 1) = Len(t) - i + 1
    BY <1>1, <1>6
  <2>2. QED
    BY <1>1, <1>2, <1>3, <2>1
<1>7. ASSUME Len(s) <= Len(t), \A i \in 1 .. Len(s) : u[i] = v[i], NEW i \in 1 .. Len(s)
      PROVE  s[i] = t[Len(t) - Len(s) + i]
  <2> DEFINE j == Len(s) - i + 1
  <2>1. j \in 1 .. Len(s) /\ Len(s) - j + 1 = i
    BY <1>1
  <2> HIDE DEF j
  <2>2. QED
    BY <1>6, <1>7, <2>1
<1>8. ASSUME Len(s) <= Len(t), \A i \in 1 .. Len(s) : s[i] = t[Len(t) - Len(s) + i],
             NEW i \in 1 .. Len(s)
      PROVE  u[i] = v[i]
  BY <1>6, <1>8
<1>9. QED
  BY <1>4, <1>5, <1>7, <1>8

(* An entry is of the user whose id is its last part, and of no user whose  *)
(* id ends in that or that ends in.                                         *)
LEMMA PairOfOne ==
  ASSUME NEW c \in Key, NEW id, ColonFree(id), NEW w, ColonFree(w)
  PROVE  IsPairOf(pairKey(c, id), w) <=> id = w
<1> DEFINE s == Join(<<Colon>>, w)
           t == Join(<<Colon>>, id)
           k == pairKey(c, id)
<1>1. id \in Key /\ w \in Key /\ <<Colon>> \in Key /\ Len(<<Colon>>) = 1 /\ <<Colon>>[1] = Colon
  BY PrefixKeys DEF ColonFree, Key
<1>2. /\ s \in Key /\ Len(s) = 1 + Len(w) /\ s[1] = Colon
      /\ \A i \in 1 .. Len(w) : s[1 + i] = w[i]
  <2>1. Follow(s, Byte, <<Colon>>, w)
    BY <1>1, JoinedAt DEF Key
  <2> HIDE DEF s
  <2>2. QED
    BY <1>1, <2>1 DEF Follow, Key
<1>3. IsPairOf(k, w) <=> IsSuffix(s, k)
  BY DEF IsPairOf, ByDelimitedId, Join
<1> DEFINE p == pairsOf(c)
<1>4. k = Join(p, id) /\ p \in Key /\ p # <<>> /\ p[Len(p)] = Colon
  BY <1>1, PairKeyIs DEF EndsInColon
<1> HIDE DEF s, k, p
<1>5. Follow(k, Byte, p, id)
  BY <1>1, <1>4, JoinedAt DEF Key
<1>6. /\ k \in Key /\ Len(k) = Len(p) + Len(id)
      /\ \A i \in 1 .. Len(p) : k[i] = p[i]
      /\ \A i \in 1 .. Len(id) : k[Len(p) + i] = id[i]
  BY <1>5 DEF Follow, Key
<1>7. Len(p) \in Nat /\ Len(id) \in Nat /\ Len(w) \in Nat /\ Len(p) >= 1
  BY <1>1, <1>4 DEF Key
<1>8. IsSuffix(s, k) <=>
        /\ Len(s) <= Len(k)
        /\ \A i \in 1 .. Len(s) : s[i] = k[Len(k) - Len(s) + i]
  BY <1>2, <1>6, SuffixAt
<1>9. CASE id = w
  <2>1. Len(s) <= Len(k) /\ Len(k) - Len(s) = Len(p) - 1
    BY <1>2, <1>6, <1>7, <1>9
  <2>2. ASSUME NEW i \in 1 .. Len(s) PROVE s[i] = k[Len(p) - 1 + i]
    <3>1. CASE i = 1
      BY <1>2, <1>4, <1>6, <1>7, <3>1
    <3>2. CASE i # 1
      <4> DEFINE l == i - 1
      <4>1. l \in 1 .. Len(w) /\ i = 1 + l /\ Len(p) - 1 + i = Len(p) + l
        BY <1>2, <1>7, <3>2
      <4> HIDE DEF l
      <4>2. QED
        BY <1>2, <1>6, <1>9, <4>1
    <3>3. QED
      BY <3>1, <3>2
  <2>3. \A i \in 1 .. Len(s) : Len(k) - Len(s) + i = Len(p) - 1 + i
    BY <2>1
  <2>4. \A i \in 1 .. Len(s) : s[i] = k[Len(k) - Len(s) + i]
    BY <2>2, <2>3
  <2>5. IsSuffix(s, k)
    BY <1>8, <2>1, <2>4
  <2>6. QED
    BY <1>3, <1>9, <2>5 DEF k
<1>10. ASSUME IsSuffix(s, k) PROVE id = w
  <2>1. Len(s) <= Len(k) /\ \A i \in 1 .. Len(s) : s[i] = k[Len(k) - Len(s) + i]
    BY <1>8, <1>10
  <2>2. /\ \A i \in 1 .. Len(w) : w[i] # Colon
        /\ \A i \in 1 .. Len(id) : id[i] # Colon
    BY DEF ColonFree
  <2>3. ~ (Len(w) < Len(id))
    <3> SUFFICES ASSUME Len(w) < Len(id) PROVE FALSE
      OBVIOUS
    <3> DEFINE l == Len(id) - Len(w)
    <3>1. l \in 1 .. Len(id) /\ Len(k) - Len(s) + 1 = Len(p) + l /\ 1 \in 1 .. Len(s)
      BY <1>2, <1>6, <1>7
    <3> HIDE DEF l
    <3>2. s[1] = k[Len(p) + l]
      BY <2>1, <3>1
    <3>3. QED
      BY <1>2, <1>6, <2>2, <3>1, <3>2
  <2>4. ~ (Len(id) < Len(w))
    <3> SUFFICES ASSUME Len(id) < Len(w) PROVE FALSE
      OBVIOUS
    <3> DEFINE l == Len(w) - Len(id)
    <3>1. /\ l \in 1 .. Len(w) /\ 1 + l \in 1 .. Len(s)
          /\ Len(k) - Len(s) + (1 + l) = Len(p)
      BY <1>2, <1>6, <1>7
    <3>2. Len(p) \in 1 .. Len(p)
      BY <1>7
    <3> HIDE DEF l
    <3>3. s[1 + l] = Colon
      BY <1>4, <1>6, <2>1, <3>1, <3>2
    <3>4. QED
      BY <1>2, <2>2, <3>1, <3>3
  <2>5. Len(id) = Len(w)
    BY <1>7, <2>3, <2>4
  <2>6. ASSUME NEW i \in 1 .. Len(id) PROVE id[i] = w[i]
    <3>1. /\ 1 + i \in 1 .. Len(s) /\ i \in 1 .. Len(w)
          /\ Len(k) - Len(s) + (1 + i) = Len(p) + i
      BY <1>2, <1>6, <1>7, <2>5
    <3>2. QED
      BY <1>2, <1>6, <2>1, <3>1
  <2>7. QED
    BY <1>1, <2>5, <2>6, SameKey DEF Alike
<1>11. QED
  BY <1>3, <1>9, <1>10, <1>8 DEF k

(* The command of a pair's key, cut at the last delimiter.                  *)
LEMMA CommandOfPair ==
  ASSUME NEW c \in Key, NEW id, ColonFree(id)
  PROVE  LET rest == TrimPrefix(pairKey(c, id), pairPrefix)
             colon == CHOOSE i \in DOMAIN rest :
                        rest[i] = Colon /\ \A j \in i + 1 .. Len(rest) : rest[j] # Colon
         IN  SubSeq(rest, 1, colon - 1) = c
<1> DEFINE rest == TrimPrefix(pairKey(c, id), pairPrefix)
           FinalAt(i) == rest[i] = Colon /\ \A j \in i + 1 .. Len(rest) : rest[j] # Colon
           colon == CHOOSE i \in DOMAIN rest : FinalAt(i)
<1>1. id \in Key
  BY DEF ColonFree, Key
<1>2. rest = Prefixed(c, id)
  <2>1. pairKey(c, id) = Join(pairPrefix, Prefixed(c, id)) /\ Prefixed(c, id) \in Key
    BY <1>1, PairKeyIs
  <2>2. QED
    BY <2>1, PrefixKeys, Extended
<1>3. Spelled(rest, c, id)
  BY <1>1, <1>2, PrefixedSpells
<1> HIDE DEF rest
<1>4. /\ rest \in Key /\ Len(rest) = Len(c) + 1 + Len(id)
      /\ \A i \in 1 .. Len(c) : rest[i] = c[i]
      /\ rest[Len(c) + 1] = Colon
      /\ \A i \in 1 .. Len(id) : rest[Len(c) + 1 + i] = id[i]
  BY <1>3 DEF Spelled
<1>5. /\ Len(c) \in Nat /\ Len(id) \in Nat /\ \A i \in 1 .. Len(id) : id[i] # Colon
      /\ DOMAIN rest = 1 .. Len(rest)
  BY <1>1, <1>4 DEF ColonFree, Key
<1>6. ASSUME NEW j \in (Len(c) + 1) + 1 .. Len(rest) PROVE rest[j] # Colon
  <2> DEFINE l == j - (Len(c) + 1)
  <2>1. l \in 1 .. Len(id) /\ j = Len(c) + 1 + l
    BY <1>4, <1>5
  <2> HIDE DEF l
  <2>2. QED
    BY <1>4, <1>5, <2>1
<1>7. Len(c) + 1 \in DOMAIN rest /\ FinalAt(Len(c) + 1)
  BY <1>4, <1>5, <1>6
<1>8. ASSUME NEW i \in DOMAIN rest, FinalAt(i) PROVE i = Len(c) + 1
  <2>1. ~ (i < Len(c) + 1)
    <3> SUFFICES ASSUME i < Len(c) + 1 PROVE FALSE
      OBVIOUS
    <3>1. Len(c) + 1 \in i + 1 .. Len(rest)
      BY <1>4, <1>5
    <3>2. QED
      BY <1>4, <1>8, <3>1
  <2>2. ~ (Len(c) + 1 < i)
    <3> SUFFICES ASSUME Len(c) + 1 < i PROVE FALSE
      OBVIOUS
    <3>1. i \in (Len(c) + 1) + 1 .. Len(rest)
      BY <1>4, <1>5
    <3>2. QED
      BY <1>6, <1>8, <3>1
  <2>3. QED
    BY <1>4, <1>5, <2>1, <2>2
<1> HIDE DEF FinalAt
<1>9. colon = Len(c) + 1
  BY <1>7, <1>8
<1> HIDE DEF colon
<1>10. SubSeq(rest, 1, Len(c)) = c
  <2> DEFINE u == SubSeq(rest, 1, Len(c))
  <2>1. u \in Key /\ Len(u) = Len(c) /\ \A i \in 1 .. Len(c) : u[i] = rest[i]
    BY <1>4, <1>5 DEF Key
  <2> HIDE DEF u
  <2>2. u = c
    BY <1>4, <2>1, SameKey DEF Alike
  <2>3. QED
    BY <2>2 DEF u
<1>11. SubSeq(rest, 1, colon - 1) = c
  BY <1>5, <1>9, <1>10
<1>12. QED
  BY <1>11 DEF rest, colon, FinalAt

----------------------------------------------------------------------------
(* The rows of a reply.                                                     *)

Row == [display : Key, n : Int]

LEMMA AboveOrders ==
  ASSUME NEW row, DOMAIN row \subseteq Key, \A k \in DOMAIN row : row[k] \in Row
  PROVE  \A j, k \in DOMAIN row :
           /\ ~ Above(row, j, j)
           /\ j # k => Above(row, j, k) \/ Above(row, k, j)
           /\ \A l \in DOMAIN row : Above(row, j, k) /\ Above(row, k, l) => Above(row, j, l)
           /\ Above(row, j, k) => row[j].n >= row[k].n
<1> TAKE j, k \in DOMAIN row
<1>1. \A l \in DOMAIN row :
        l \in Key /\ row[l] = [display |-> row[l].display, n |-> row[l].n]
        /\ row[l].display \in Key /\ row[l].n \in Int
  BY DEF Row
<1>2. ~ Above(row, j, j)
  BY <1>1, LessIrreflexive DEF Above
<1>3. j # k => Above(row, j, k) \/ Above(row, k, j)
  <2> HAVE j # k
  <2>1. CASE row[j].n # row[k].n
    BY <1>1, <2>1 DEF Above
  <2>2. CASE row[j].n = row[k].n /\ row[j].display # row[k].display
    BY <1>1, <2>2, LessTotal DEF Above
  <2>3. CASE row[j].n = row[k].n /\ row[j].display = row[k].display
    <3>1. row[j] = row[k]
      BY <1>1, <2>3
    <3>2. QED
      BY <1>1, <3>1, LessTotal DEF Above
  <2>4. QED
    BY <2>1, <2>2, <2>3
<1>4. ASSUME NEW l \in DOMAIN row, Above(row, j, k), Above(row, k, l) PROVE Above(row, j, l)
  <2>1. /\ j \in Key /\ k \in Key /\ l \in Key
        /\ row[j].display \in Key /\ row[k].display \in Key /\ row[l].display \in Key
        /\ row[j].n \in Int /\ row[k].n \in Int /\ row[l].n \in Int
    BY <1>1
  <2>2. CASE row[j].n > row[k].n \/ row[k].n > row[l].n
    <3>1. row[j].n > row[l].n
      BY <1>4, <2>1, <2>2 DEF Above
    <3>2. QED
      BY <3>1 DEF Above
  <2>3. CASE /\ row[j].n = row[k].n /\ row[k].n = row[l].n
             /\ row[j] = row[k] => ~ Less(j, k)
    <3>1. Less(row[j].display, row[k].display)
      BY <1>4, <2>1, <2>3 DEF Above
    <3>2. Less(row[k].display, row[l].display) \/ row[k] = row[l]
      BY <1>4, <2>1, <2>3 DEF Above
    <3>3. Less(row[j].display, row[l].display)
      BY <2>1, <3>1, <3>2, LessTransitive
    <3>4. QED
      BY <2>3, <3>3 DEF Above
  <2>4. CASE /\ row[j].n = row[k].n /\ row[k].n = row[l].n
             /\ row[j] = row[k] /\ Less(j, k)
    <3>1. Less(row[k].display, row[l].display) \/ (row[k] = row[l] /\ Less(k, l))
      BY <1>4, <2>1, <2>4 DEF Above
    <3>2. CASE Less(row[k].display, row[l].display)
      BY <2>4, <3>2 DEF Above
    <3>3. CASE row[k] = row[l] /\ Less(k, l)
      <4>1. Less(j, l)
        BY <2>1, <2>4, <3>3, LessTransitive
      <4>2. QED
        BY <2>4, <3>3, <4>1 DEF Above
    <3>4. QED
      BY <3>1, <3>2, <3>3
  <2>5. row[j].n >= row[k].n /\ row[k].n >= row[l].n
    BY <1>4, <2>1 DEF Above
  <2>6. QED
    BY <2>1, <2>2, <2>3, <2>4, <2>5
<1>5. Above(row, j, k) => row[j].n >= row[k].n
  BY <1>1 DEF Above
<1>6. QED
  BY <1>2, <1>3, <1>4, <1>5

(* Which rows are told, and what those left out are told for.               *)
Tells(rows, row) ==
  /\ rows \in Seq(Row) /\ Len(rows) <= TopK
  /\ \E key \in [1 .. Len(rows) -> DOMAIN row] :
       /\ \A i \in 1 .. Len(rows) : rows[i] = row[key[i]]
       /\ \A i, j \in 1 .. Len(rows) : key[i] = key[j] => i = j
  /\ \A k \in DOMAIN row :
       \/ \E i \in 1 .. Len(rows) : rows[i] = row[k]
       \/ Len(rows) = TopK /\ \A i \in 1 .. Len(rows) : rows[i].n >= row[k].n

LEMMA RankedTells ==
  ASSUME NEW row, IsFiniteSet(DOMAIN row), DOMAIN row \subseteq Key,
         \A k \in DOMAIN row : row[k] \in Row
  PROVE  Tells(Ranked(row), row)
<1> DEFINE D == DOMAIN row
           N == Cardinality(D)
           Over(k) == {j \in D : Above(row, j, k)}
           Place(k) == 1 + Cardinality(Over(k))
           shown == IF N < TopK THEN N ELSE TopK
           key == [i \in 1 .. shown |-> CHOOSE k \in D : Place(k) = i]
           rows == [i \in 1 .. shown |-> row[CHOOSE k \in D : Place(k) = i]]
<1>1. Ranked(row) = rows
  BY DEF Ranked
<1>2. N \in Nat /\ TopK \in Nat /\ TopK # 0
  BY FS_CardinalityType, ViewsAssumption
<1>3. shown \in Nat /\ shown <= N /\ shown <= TopK /\ (shown # TopK => shown = N)
  BY <1>2
<1>4. \A j, k \in D :
        /\ ~ Above(row, j, j)
        /\ j # k => Above(row, j, k) \/ Above(row, k, j)
        /\ \A l \in D : Above(row, j, k) /\ Above(row, k, l) => Above(row, j, l)
        /\ Above(row, j, k) => row[j].n >= row[k].n
  BY AboveOrders
<1> HIDE DEF D
<1>5. IsFiniteSet(D)
  BY DEF D
<1>6. \A k \in D : IsFiniteSet(Over(k)) /\ Cardinality(Over(k)) \in Nat
  <2> TAKE k \in D
  <2>1. Over(k) \in SUBSET D
    OBVIOUS
  <2>2. QED
    BY <1>5, <2>1, FS_Subset, FS_CardinalityType
<1>7. ASSUME NEW k \in D PROVE Place(k) \in 1 .. N
  <2> DEFINE S == Over(k) \cup {k}
  <2>1. k \notin Over(k) /\ S \in SUBSET D
    BY <1>4
  <2>2. Cardinality(S) = Cardinality(Over(k)) + 1
    BY <1>6, <2>1, FS_AddElement
  <2>3. Cardinality(S) <= N
    BY <1>5, <2>1, FS_Subset
  <2> HIDE DEF S, Over, N
  <2>4. QED
    BY <1>2, <1>6, <2>2, <2>3
<1>8. ASSUME NEW j \in D, NEW k \in D, Above(row, j, k) PROVE Place(j) < Place(k)
  <2> DEFINE S == Over(j) \cup {j}
  <2>1. j \notin Over(j) /\ S \in SUBSET Over(k)
    BY <1>4, <1>8
  <2>2. Cardinality(S) = Cardinality(Over(j)) + 1
    BY <1>6, <2>1, FS_AddElement
  <2>3. Cardinality(S) <= Cardinality(Over(k))
    BY <1>6, <2>1, FS_Subset
  <2> HIDE DEF S, Over
  <2>4. QED
    BY <1>6, <2>2, <2>3
<1> HIDE DEF Over, N, shown
<1>9. \A j, k \in D : Place(j) = Place(k) => j = k
  <2> TAKE j, k \in D
  <2>1. Place(j) \in Int /\ Place(k) \in Int
    BY <1>7
  <2> HIDE DEF Place
  <2>2. QED
    BY <1>4, <1>8, <2>1
<1>10. ASSUME NEW i \in 1 .. N PROVE \E k \in D : Place(k) = i
  <2> DEFINE p == [k \in D |-> Place(k)]
  <2>1. p \in Injection(D, 1 .. N)
    BY <1>7, <1>9 DEF Injection, IsInjective
  <2>2. IsFiniteSet(1 .. N) /\ Cardinality(1 .. N) = N
    BY <1>2, FS_Interval
  <2>3. p \in Surjection(D, 1 .. N)
    BY <2>1, <2>2, FS_Injection DEF N
  <2> HIDE DEF Place
  <2>4. QED
    BY <2>3 DEF Surjection
<1> HIDE DEF Place
<1>11. \A i \in 1 .. shown : key[i] \in D /\ Place(key[i]) = i /\ rows[i] = row[key[i]]
  <2> TAKE i \in 1 .. shown
  <2>1. i \in 1 .. N
    BY <1>2, <1>3
  <2>2. \E k \in D : Place(k) = i
    BY <1>10, <2>1
  <2>3. QED
    BY <2>2
<1>12. key \in [1 .. shown -> D] /\ rows \in Seq(Row) /\ Len(rows) = shown
  <2>1. key \in [1 .. shown -> D]
    BY <1>11
  <2>2. \A i \in 1 .. shown : rows[i] \in Row
    BY <1>11 DEF D
  <2>3. rows \in [1 .. shown -> Row]
    BY <2>2
  <2>4. QED
    BY <1>3, <2>1, <2>3
<1> HIDE DEF key, rows
<1>13. \A i, j \in 1 .. shown : key[i] = key[j] => i = j
  BY <1>11
<1>14. ASSUME NEW k \in D
       PROVE  \/ \E i \in 1 .. shown : rows[i] = row[k]
              \/ shown = TopK /\ \A i \in 1 .. shown : rows[i].n >= row[k].n
  <2>1. CASE Place(k) <= shown
    <3>1. Place(k) \in 1 .. shown
      BY <1>3, <1>7, <2>1
    <3>2. key[Place(k)] = k
      BY <1>9, <1>11, <3>1
    <3>3. QED
      BY <1>11, <3>1, <3>2
  <2>2. CASE ~ (Place(k) <= shown)
    <3>1. shown = TopK
      BY <1>2, <1>3, <1>7, <2>2
    <3>2. ASSUME NEW i \in 1 .. shown PROVE rows[i].n >= row[k].n
      <4>1. /\ key[i] \in D /\ Place(key[i]) = i /\ rows[i] = row[key[i]]
            /\ Place(key[i]) \in Int /\ Place(k) \in Int /\ shown \in Int
        BY <1>3, <1>7, <1>11
      <4>2. key[i] # k /\ ~ Above(row, k, key[i])
        BY <1>8, <2>2, <4>1
      <4>3. QED
        BY <1>4, <4>1, <4>2
    <3>3. QED
      BY <3>1, <3>2
  <2>3. QED
    BY <2>1, <2>2
<1>15. Tells(rows, row)
  BY <1>3, <1>11, <1>12, <1>13, <1>14 DEF Tells, D
<1>16. QED
  BY <1>1, <1>15

----------------------------------------------------------------------------
(* The inductive invariant of a view. *)

(* What the stats hold. *)
Has(k) == Address(backend, stats, k) \in DOMAIN base
At(k) == base[Address(backend, stats, k)]

EntriesInv ==
  /\ StoreInv
  /\ \A a \in DOMAIN base : base[a] \in Entry
  /\ \A k \in Key : Has(k) => k \in StatKey /\ At(k) \in EntryOf(k)
  /\ lag \subseteq StatKey
  /\ writes \in 0 .. MaxWrites

(* since has whatever an entry holds, and what was settled stays so.        *)
WatchInv ==
  /\ since \in [StatKey -> SUBSET Entry]
  /\ \A k \in StatKey : since[k] \subseteq EntryOf(k)
  /\ \A k \in StatKey : call # "idle" /\ Has(k) => At(k) \in since[k]
  /\ \A k \in before : k \in StatKey /\ Has(k) /\ k \notin lag

IdleInv ==
  call = "idle" =>
    /\ view = NoView /\ keys = {} /\ todo = {} /\ got = Empty /\ who = Unknown
    /\ answer = <<>> /\ before = {} /\ failed = FALSE
    /\ \A k \in StatKey : since[k] = {}

(* What is listed, and for whom. *)
AimInv ==
  call # "idle" =>
    /\ view \in View
    /\ \/ prefix = ListPrefix(view) /\ who = Unknown
       \/ /\ view.form = "user" /\ prefix = pairPrefix
          /\ who \in UserId /\ view.arg \in NamesOf(who)

Matching == {k \in StatKey : IsPrefix(prefix, k)}

(* The keys whose entries the list is for.                                  *)
Asked ==
  IF view.form = "user" /\ prefix = pairPrefix
  THEN {k \in Matching : IsPairOf(k, who)} ELSE Matching

(* No page skips a settled key. *)
ListInv ==
  call = "list" =>
    /\ todo = {} /\ got = Empty /\ answer = <<>> /\ cursor \in Key
    /\ keys \subseteq Matching
    /\ \A k \in before \cap Matching : k \in keys \/ Less(cursor, k)

(* What is read was held, and unless a read failed what was settled is read *)
(* or to be read.                                                           *)
ReadInv ==
  call = "get" =>
    /\ answer = <<>>
    /\ keys \subseteq Matching
    /\ \A k \in DOMAIN got : got[k] \in since[k]
    /\ \A k \in todo \cup DOMAIN got :
         k \in keys \cap Asked \/ (view.form = "cmd" /\ k \in UserKeys)
    /\ ~failed =>
         /\ \A k \in before \cap Asked : k \in keys /\ k \in todo \cup DOMAIN got
         /\ view.form = "cmd" =>
              \A id \in UserId : pairKey(view.arg, id) \in DOMAIN got =>
                                   userKey(id) \in todo \cup DOMAIN got

AnswerInv ==
  /\ RowsAreReal /\ OneUserPerView /\ NothingSettledIsMissing
  /\ view.form = "cmd" /\ answer # <<>> => view.arg \in Command

ViewsIInv ==
  /\ ViewsTypeOK /\ EntriesInv /\ WatchInv
  /\ IdleInv /\ AimInv /\ ListInv /\ ReadInv /\ AnswerInv
  /\ answer \in Seq(Row) /\ IsFiniteSet(DOMAIN got)

(* A write of the stats' own. *)
Sets(c, b, a, e) ==
  /\ DOMAIN c = DOMAIN b \cup {a} /\ c[a] = e
  /\ \A x \in DOMAIN b : x # a => c[x] = b[x]

LEMMA StatPut ==
  ASSUME NEW be \in Backend, NEW b, NEW k \in Key, NEW e, NEW c \in Put(be, b, stats, k, e)
  PROVE  c = b \/ Sets(c, b, Address(be, stats, k), e)
<1>1. c = b \/ c = PutAt(b, Address(be, stats, k), e)
  BY DEF Put, MemoryPut, DynamoPut, FirestorePut, doc, Address, Backend
<1>2. QED
  BY <1>1 DEF PutAt, Sets

(* A write of another module's. *)
LEMMA ForeignLeaves ==
  ASSUME NEW be \in Backend, NEW b, NEW m \in Module \ {stats}, NEW k \in Key, NEW e,
         NEW c \in Put(be, b, m, k, e) \cup Delete(be, b, m, k)
  PROVE  /\ \A a \in DOMAIN c : c[a] = e \/ (a \in DOMAIN b /\ c[a] = b[a])
         /\ \A j \in Key : /\ Address(be, stats, j) \in DOMAIN c <=>
                                Address(be, stats, j) \in DOMAIN b
                           /\ Address(be, stats, j) \in DOMAIN b =>
                                c[Address(be, stats, j)] = b[Address(be, stats, j)]
<1>1. \/ c = b \/ c = PutAt(b, Address(be, m, k), e) \/ c = DeleteAt(b, Address(be, m, k))
  BY DEF Put, MemoryPut, DynamoPut, FirestorePut, doc, Address, Backend,
         Delete, MemoryDelete, DynamoDelete, FirestoreDelete
<1>2. \A j \in Key : Address(be, stats, j) # Address(be, m, k)
  BY AddressesDiffer DEF Module
<1>3. QED
  BY <1>1, <1>2 DEF PutAt, DeleteAt

(* A read of the stats. *)
LEMMA StatGet ==
  ASSUME NEW be \in Backend, NEW b, NEW k, NEW found \in Get(be, b, stats, k), found # {}
  PROVE  Address(be, stats, k) \in DOMAIN b /\ found = {b[Address(be, stats, k)]}
<1>1. found = {b[a] : a \in {Address(be, stats, k)} \cap DOMAIN b}
  BY DEF Get, MemoryGet, DynamoGet, FirestoreGet, doc, Address, Backend
<1>2. QED
  BY <1>1

(* What the writers may do to a view under way.                             *)
Grows ==
  /\ UNCHANGED <<call, view, prefix, cursor, keys, todo, got, who, answer, before, failed>>
  /\ \A k \in StatKey : since[k] \subseteq since'[k]
  /\ call = "idle" => \A k \in StatKey : since'[k] = {}

LEMMA StatKeyType ==
  ASSUME NEW k \in StatKey
  PROVE  k \in Key /\ EntryOf(k) \subseteq Entry
BY StatKeysAreKeys DEF EntryOf, Entry, NamesIn

LEMMA HookGrows ==
  ASSUME ViewsIInv, NEW k \in StatKey, NEW username \in NamesIn(k), Hook(k, username)
  PROVE  EntriesInv' /\ WatchInv' /\ Grows
<1> DEFINE a == Address(backend, stats, k)
           e == [n |-> 1 + (IF a \in DOMAIN base THEN base[a].n ELSE 0),
                 username |-> username]
<1>1. EntriesInv /\ WatchInv /\ IdleInv
  BY DEF ViewsIInv
<1>2. /\ writes < MaxWrites /\ e.n <= MaxCount /\ writes' = writes + 1
      /\ base' \in Put(backend, base, stats, k, e)
      /\ lag' = IF backend = "dynamodb" /\ a \in DOMAIN base' \ DOMAIN base
                THEN lag \cup {k} ELSE lag
      /\ since' = [since EXCEPT ![k] = IF call = "idle" THEN {}
                                       ELSE @ \cup {base'[b] : b \in {a} \cap DOMAIN base'}]
      /\ UNCHANGED <<backend, call, view, prefix, cursor, keys, todo, got, who, answer,
                     before, failed>>
  BY DEF Hook
<1>3. k \in Key /\ backend \in Backend
  BY <1>1, StatKeyType DEF EntriesInv, StoreInv
<1>4. e \in EntryOf(k)
  <2>1. MaxCount \in Nat
    BY ViewsAssumption
  <2>2. a \in DOMAIN base => base[a].n \in 1 .. MaxCount
    BY <1>1, <1>3 DEF EntriesInv, EntryOf, Has, At
  <2>3. e.n \in 1 .. MaxCount
    BY <1>2, <2>1, <2>2
  <2>4. QED
    BY <2>3 DEF EntryOf
<1>5. StoreInv' /\ backend' = backend
  <2>1. [ViewsNext]_viewsVars
    BY DEF ViewsNext
  <2>2. QED
    BY <1>1, <2>1, StoreSteps DEF EntriesInv
<1> HIDE DEF e
<1>6. \/ base' = base
      \/ /\ DOMAIN base' = DOMAIN base \cup {a} /\ base'[a] = e
         /\ \A b \in DOMAIN base : b # a => base'[b] = base[b]
         /\ \A j \in Key : j # k => Address(backend, stats, j) # a
  <2>1. base' = base \/ Sets(base', base, a, e)
    BY <1>2, <1>3, StatPut
  <2>2. \A j \in Key : j # k => Address(backend, stats, j) # a
    BY <1>3, AddressesDiffer DEF Module
  <2>3. QED
    BY <2>1, <2>2 DEF Sets
<1>7. /\ \A j \in Key : Has(j)' <=> Has(j) \/ (j = k /\ base' # base)
      /\ \A j \in Key : Has(j)' => \/ At(j)' = e /\ j = k
                                   \/ Has(j) /\ At(j)' = At(j)
  BY <1>2, <1>3, <1>5, <1>6 DEF Has, At
<1>8. \A b \in DOMAIN base' : base'[b] = e \/ (b \in DOMAIN base /\ base'[b] = base[b])
  BY <1>6
<1>9. EntriesInv'
  <2>1. \A b \in DOMAIN base' : base'[b] \in Entry
    BY <1>1, <1>4, <1>8, StatKeyType DEF EntriesInv
  <2>2. \A j \in Key : Has(j)' => j \in StatKey /\ At(j)' \in EntryOf(j)
    BY <1>1, <1>4, <1>7 DEF EntriesInv
  <2>3. lag' \subseteq StatKey
    BY <1>1, <1>2 DEF EntriesInv
  <2>4. writes' \in 0 .. MaxWrites
    BY <1>1, <1>2, ViewsAssumption DEF EntriesInv
  <2>5. QED
    BY <1>5, <2>1, <2>2, <2>3, <2>4 DEF EntriesInv
<1>10. /\ \A j \in StatKey : j # k => since'[j] = since[j]
       /\ since'[k] = IF call = "idle" THEN {}
                      ELSE since[k] \cup {base'[b] : b \in {a} \cap DOMAIN base'}
       /\ since' = [j \in StatKey |-> since'[j]]
  BY <1>1, <1>2 DEF WatchInv
<1>11. \A x \in {base'[b] : b \in {a} \cap DOMAIN base'} : Has(k)' /\ x = At(k)'
  BY <1>5 DEF Has, At
<1>12. {base'[b] : b \in {a} \cap DOMAIN base'} \subseteq EntryOf(k)
  BY <1>3, <1>9, <1>11 DEF EntriesInv
<1>13. Has(k)' => At(k)' \in {base'[b] : b \in {a} \cap DOMAIN base'}
  BY <1>5 DEF Has, At
<1>14. \A j \in StatKey : since'[j] \subseteq EntryOf(j)
  BY <1>1, <1>10, <1>12 DEF WatchInv
<1>15. since' \in [StatKey -> SUBSET Entry]
  BY <1>10, <1>14, StatKeyType
<1>16. \A j \in StatKey : call' # "idle" /\ Has(j)' => At(j)' \in since'[j]
  <2> TAKE j \in StatKey
  <2> HAVE call' # "idle" /\ Has(j)'
  <2>1. CASE j = k
    BY <1>2, <1>10, <1>13, <2>1
  <2>2. CASE j # k
    <3>1. j \in Key /\ Has(j) /\ At(j)' = At(j)
      BY <1>7, <2>2, StatKeyType
    <3>2. QED
      BY <1>1, <1>2, <1>10, <2>2, <3>1 DEF WatchInv
  <2>3. QED
    BY <2>1, <2>2
<1>17. \A j \in before' : j \in StatKey /\ Has(j)' /\ j \notin lag'
  <2> TAKE j \in before'
  <2>1. j \in StatKey /\ Has(j) /\ j \notin lag /\ j \in Key
    BY <1>1, <1>2, StatKeyType DEF WatchInv
  <2>2. Has(j)'
    BY <1>7, <2>1
  <2>3. j = k => a \in DOMAIN base
    BY <2>1 DEF Has
  <2>4. QED
    BY <1>2, <2>1, <2>2, <2>3
<1>18. WatchInv'
  BY <1>14, <1>15, <1>16, <1>17 DEF WatchInv
<1>19. \A j \in StatKey : since[j] \subseteq since'[j]
  BY <1>1, <1>10 DEF IdleInv
<1>20. call = "idle" => \A j \in StatKey : since'[j] = {}
  BY <1>1, <1>10 DEF IdleInv
<1>21. QED
  BY <1>2, <1>9, <1>18, <1>19, <1>20 DEF Grows

LEMMA ReplicateGrows ==
  ASSUME ViewsIInv, Replicate
  PROVE  EntriesInv' /\ WatchInv' /\ Grows
<1>1. EntriesInv /\ WatchInv /\ IdleInv
  BY DEF ViewsIInv
<1>2. /\ lag' \subseteq lag
      /\ UNCHANGED <<backend, base, writes, call, view, prefix, cursor, keys, todo, got,
                     who, answer, before, since, failed>>
  BY DEF Replicate
<1>3. QED
  BY <1>1, <1>2 DEF EntriesInv, StoreInv, WatchInv, IdleInv, Grows, Has, At

LEMMA ForeignGrows ==
  ASSUME ViewsIInv, NEW f \in Foreign, ForeignWrite(f)
  PROVE  EntriesInv' /\ WatchInv' /\ Grows
<1> DEFINE e == [n |-> 1, username |-> <<>>]
<1>1. EntriesInv /\ WatchInv /\ IdleInv
  BY DEF ViewsIInv
<1>2. /\ writes < MaxWrites /\ writes' = writes + 1
      /\ base' \in Put(backend, base, f[1], f[2], e) \cup Delete(backend, base, f[1], f[2])
      /\ UNCHANGED <<backend, lag, call, view, prefix, cursor, keys, todo, got, who,
                     answer, before, since, failed>>
  BY DEF ForeignWrite
<1>3. f[1] \in Module \ {stats} /\ f[2] \in Key /\ backend \in Backend
  BY <1>1, ViewsAssumption DEF EntriesInv, StoreInv, Module, Key
<1>4. e \in Entry
  BY ViewsAssumption DEF Entry
<1>5. StoreInv' /\ backend' = backend
  <2>1. [ViewsNext]_viewsVars
    BY DEF ViewsNext
  <2>2. QED
    BY <1>1, <2>1, StoreSteps DEF EntriesInv
<1> HIDE DEF e
<1>6. /\ \A a \in DOMAIN base' : base'[a] = e \/ (a \in DOMAIN base /\ base'[a] = base[a])
      /\ \A j \in Key : /\ Address(backend, stats, j) \in DOMAIN base' <=>
                             Address(backend, stats, j) \in DOMAIN base
                        /\ Address(backend, stats, j) \in DOMAIN base =>
                             base'[Address(backend, stats, j)] = base[Address(backend, stats, j)]
  BY <1>2, <1>3, ForeignLeaves
<1>7. \A j \in Key : (Has(j)' <=> Has(j)) /\ (Has(j) => At(j)' = At(j))
  BY <1>5, <1>6 DEF Has, At
<1>8. EntriesInv'
  <2>1. \A a \in DOMAIN base' : base'[a] \in Entry
    BY <1>1, <1>4, <1>6 DEF EntriesInv
  <2>2. \A j \in Key : Has(j)' => j \in StatKey /\ At(j)' \in EntryOf(j)
    BY <1>1, <1>7 DEF EntriesInv
  <2>3. lag' \subseteq StatKey /\ writes' \in 0 .. MaxWrites
    BY <1>1, <1>2, ViewsAssumption DEF EntriesInv
  <2>4. QED
    BY <1>5, <2>1, <2>2, <2>3 DEF EntriesInv
<1>9. WatchInv'
  <2>1. \A j \in StatKey : call' # "idle" /\ Has(j)' => At(j)' \in since'[j]
    BY <1>1, <1>2, <1>7, StatKeyType DEF WatchInv
  <2>2. \A j \in before' : j \in StatKey /\ Has(j)' /\ j \notin lag'
    BY <1>1, <1>2, <1>7, StatKeyType DEF WatchInv
  <2>3. QED
    BY <1>1, <1>2, <2>1, <2>2 DEF WatchInv
<1>10. Grows
  BY <1>1, <1>2 DEF IdleInv, Grows
<1>11. QED
  BY <1>8, <1>9, <1>10

----------------------------------------------------------------------------
(* What the writers leave as it was. *)

LEMMA NamesAndCounts ==
  /\ \A id \in UserId : userKey(id) \in StatKey
  /\ \A c \in Command : countKey(c) \in StatKey
  /\ \A c \in Command, id \in UserId : pairKey(c, id) \in StatKey /\ pairKey(c, id) \in PairKeys
BY DEF StatKey, UserKeys, CountKeys, PairKeys

(* Nothing that was held is forgotten. *)
LEMMA GrowsWatch ==
  ASSUME Grows
  PROVE  /\ \A id \in UserId : NamesOf(id) \subseteq NamesOf(id)'
         /\ \A k \in StatKey : CountsOf(k) \subseteq CountsOf(k)'
         /\ Rows' = Rows
<1>1. \A k \in StatKey : since[k] \subseteq since'[k]
  BY DEF Grows
<1>2. \A id \in UserId : since[userKey(id)] \subseteq since'[userKey(id)]
  BY <1>1, NamesAndCounts
<1>3. \A id \in UserId : NamesOf(id) \subseteq NamesOf(id)'
  BY <1>2 DEF NamesOf
<1>4. \A k \in StatKey : CountsOf(k) \subseteq CountsOf(k)'
  BY <1>1 DEF CountsOf
<1>5. QED
  BY <1>3, <1>4 DEF Grows, Rows

LEMMA RowsStayReal ==
  ASSUME Grows, RowsAreReal, view.form = "cmd" /\ answer # <<>> => view.arg \in Command,
         answer \in Seq(Row)
  PROVE  RowsAreReal'
<1>1. view' = view /\ answer' = answer
  BY DEF Grows
<1>2. ASSUME NEW r \in Rows
      PROVE  CASE view.form = "commands" ->
                    \E c \in Command : r.display = c /\ r.n \in CountsOf(countKey(c))'
               [] view.form = "users" ->
                    \E id \in UserId : r.display \in NamesOf(id)' /\ r.n \in CountsOf(userKey(id))'
               [] view.form = "cmd" ->
                    \E id \in UserId : /\ r.display \in NamesOf(id)'
                                       /\ r.n \in CountsOf(pairKey(view.arg, id))'
               [] OTHER -> \E c \in Command : r.display = c
  <2>1. CASE view.form = "commands"
    <3>1. \E c \in Command : r.display = c /\ r.n \in CountsOf(countKey(c))
      BY <2>1 DEF RowsAreReal
    <3>2. \E c \in Command : r.display = c /\ r.n \in CountsOf(countKey(c))'
      BY <3>1, GrowsWatch, NamesAndCounts
    <3>3. QED
      BY <2>1, <3>2
  <2>2. CASE view.form = "users"
    <3>1. \E id \in UserId : r.display \in NamesOf(id) /\ r.n \in CountsOf(userKey(id))
      BY <2>2 DEF RowsAreReal
    <3>2. \E id \in UserId : r.display \in NamesOf(id)' /\ r.n \in CountsOf(userKey(id))'
      BY <3>1, GrowsWatch, NamesAndCounts
    <3>3. QED
      BY <2>2, <3>2
  <2>3. CASE view.form = "cmd"
    <3>1. \E id \in UserId : r.display \in NamesOf(id) /\ r.n \in CountsOf(pairKey(view.arg, id))
      BY <2>3 DEF RowsAreReal
    <3>2. answer # <<>>
      BY DEF Rows
    <3>3. \A id \in UserId : pairKey(view.arg, id) \in StatKey
      BY <2>3, <3>2, NamesAndCounts
    <3>4. \E id \in UserId : r.display \in NamesOf(id)' /\ r.n \in CountsOf(pairKey(view.arg, id))'
      <4>1. PICK id \in UserId :
               r.display \in NamesOf(id) /\ r.n \in CountsOf(pairKey(view.arg, id))
        BY <3>1
      <4>2. r.display \in NamesOf(id)' /\ r.n \in CountsOf(pairKey(view.arg, id))'
        <5>1. NamesOf(id) \subseteq NamesOf(id)'
          BY GrowsWatch
        <5>2. CountsOf(pairKey(view.arg, id)) \subseteq CountsOf(pairKey(view.arg, id))'
          BY <1>1, <3>3, GrowsWatch DEF CountsOf, Grows
        <5>3. QED
          BY <4>1, <5>1, <5>2
      <4>3. QED
        BY <4>2
    <3>5. QED
      BY <2>3, <3>4
  <2>4. CASE view.form \notin {"commands", "users", "cmd"}
    <3>1. \E c \in Command : r.display = c
      BY <2>4 DEF RowsAreReal
    <3>2. QED
      BY <2>4, <3>1
  <2>5. QED
    BY <2>1, <2>2, <2>3, <2>4
<1>3. view.form \in {"commands", "user"} =>
        \A i, j \in DOMAIN answer : answer[i].display = answer[j].display => i = j
  BY DEF RowsAreReal
<1>4. Rows' = Rows
  BY GrowsWatch
<1>5. QED
  BY <1>1, <1>2, <1>3, <1>4 DEF RowsAreReal

LEMMA OneUserStays ==
  ASSUME Grows, RowsAreReal, OneUserPerView
  PROVE  OneUserPerView'
<1>1. view' = view /\ answer' = answer
  BY DEF Grows
<1>2. ASSUME view.form = "user", answer # <<>>
      PROVE  \E id \in UserId :
               /\ view.arg \in NamesOf(id)'
               /\ \A r \in Rows : r.n \in CountsOf(pairKey(r.display, id))'
  <2>1. PICK id \in UserId :
               /\ view.arg \in NamesOf(id)
               /\ \A r \in Rows : r.n \in CountsOf(pairKey(r.display, id))
    BY <1>2 DEF OneUserPerView
  <2>2. \A r \in Rows : \E c \in Command : r.display = c
    BY <1>2 DEF RowsAreReal
  <2>3. \A r \in Rows : pairKey(r.display, id) \in StatKey
    BY <2>2, NamesAndCounts
  <2>4. QED
    BY <2>1, <2>3, GrowsWatch
<1>3. Rows' = Rows
  BY GrowsWatch
<1>4. QED
  BY <1>1, <1>2, <1>3 DEF OneUserPerView

LEMMA NothingGoesMissing ==
  ASSUME Grows, WatchInv, NothingSettledIsMissing
  PROVE  NothingSettledIsMissing'
<1>1. /\ UNCHANGED <<call, view, prefix, cursor, keys, todo, got, who, answer, before, failed>>
      /\ Rows' = Rows
  BY GrowsWatch DEF Grows
<1>2. SUFFICES ASSUME call = "answered", ~failed
               PROVE  /\ \A k \in Due :
                           \/ \E r \in Rows : r.display \in Displays(k)' /\ r.n \in CountsOf(k)'
                           \/ Len(answer) = TopK /\ \A r \in Rows : \E n \in CountsOf(k)' : r.n >= n
                      /\ view.form = "user" /\ who = Unknown =>
                           \A id \in UserId : userKey(id) \in before => NamesOf(id)' # {view.arg}
  <2>1. Due' = Due
    BY <1>1 DEF Due
  <2>2. QED
    BY <1>1, <2>1 DEF NothingSettledIsMissing
<1>3. ASSUME NEW k \in Due
      PROVE  \/ \E r \in Rows : r.display \in Displays(k)' /\ r.n \in CountsOf(k)'
             \/ Len(answer) = TopK /\ \A r \in Rows : \E n \in CountsOf(k)' : r.n >= n
  <2>1. k \in StatKey
    <3>1. k \in before
      BY DEF Due
    <3>2. QED
      BY <3>1 DEF WatchInv
  <2>2. CountsOf(k) \subseteq CountsOf(k)'
    BY <2>1, GrowsWatch
  <2>3. Displays(k) \subseteq Displays(k)'
    <3> DEFINE U == {d \in UserId : k = userKey(d)}
               P == {d \in UserId : k = pairKey(view.arg, d)}
    <3>1. UNION {NamesOf(id) : id \in U} \subseteq UNION {NamesOf(id)' : id \in U}
      BY GrowsWatch
    <3>2. UNION {NamesOf(id) : id \in P} \subseteq UNION {NamesOf(id)' : id \in P}
      BY GrowsWatch
    <3>3. CASE view.form = "users"
      BY <1>1, <3>1, <3>3 DEF Displays
    <3>4. CASE view.form = "cmd"
      BY <1>1, <3>2, <3>4 DEF Displays
    <3>5. CASE view.form \notin {"users", "cmd"}
      BY <1>1, <3>5 DEF Displays
    <3>6. QED
      BY <3>3, <3>4, <3>5
  <2>4. \/ \E r \in Rows : r.display \in Displays(k) /\ r.n \in CountsOf(k)
        \/ Len(answer) = TopK /\ \A r \in Rows : \E n \in CountsOf(k) : r.n >= n
    BY <1>2 DEF NothingSettledIsMissing
  <2>5. QED
    BY <2>2, <2>3, <2>4
<1>4. ASSUME view.form = "user", who = Unknown, NEW id \in UserId, userKey(id) \in before
      PROVE  NamesOf(id)' # {view.arg}
  <2>1. NamesOf(id) # {view.arg}
    BY <1>2, <1>4 DEF NothingSettledIsMissing
  <2>2. At(userKey(id)) \in since[userKey(id)]
    BY <1>2, <1>4 DEF WatchInv
  <2>3. At(userKey(id)).username \in NamesOf(id)
    BY <2>2 DEF NamesOf
  <2>4. NamesOf(id) \subseteq NamesOf(id)'
    BY GrowsWatch
  <2>5. QED
    BY <2>1, <2>3, <2>4
<1>5. QED
  BY <1>3, <1>4

LEMMA GrowsKeeps ==
  ASSUME ViewsIInv, EntriesInv', WatchInv', Grows
  PROVE  ViewsIInv'
<1>1. /\ UNCHANGED <<call, view, prefix, cursor, keys, todo, got, who, answer, before, failed>>
      /\ call = "idle" => \A k \in StatKey : since'[k] = {}
      /\ \A k \in StatKey : since[k] \subseteq since'[k]
  BY DEF Grows
<1>2. ViewsTypeOK'
  <2>1. StoreInv' /\ (\A a \in DOMAIN base' : base'[a] \in Entry) /\ lag' \subseteq StatKey
        /\ writes' \in 0 .. MaxWrites
    BY DEF EntriesInv
  <2>2. backend' \in Backend
    BY <2>1 DEF StoreInv
  <2>3. since' \in [StatKey -> SUBSET Entry]
    BY DEF WatchInv
  <2>4. QED
    BY <1>1, <2>1, <2>2, <2>3 DEF ViewsIInv, ViewsTypeOK
<1>3. IdleInv'
  BY <1>1 DEF ViewsIInv, IdleInv
<1>4. AimInv'
  BY <1>1, GrowsWatch DEF ViewsIInv, AimInv
<1>5. Matching' = Matching /\ Asked' = Asked
  BY <1>1 DEF Matching, Asked
<1>6. ListInv'
  BY <1>1, <1>5 DEF ViewsIInv, ListInv
<1>7. ReadInv'
  <2>1. DOMAIN got \subseteq StatKey
    BY DEF ViewsIInv, ViewsTypeOK
  <2>2. call = "get" => \A k \in DOMAIN got : got[k] \in since'[k]
    BY <1>1, <2>1 DEF ViewsIInv, ReadInv
  <2>3. QED
    BY <1>1, <1>5, <2>2 DEF ViewsIInv, ReadInv
<1>8. AnswerInv'
  <2>1. RowsAreReal' /\ OneUserPerView' /\ NothingSettledIsMissing'
    BY RowsStayReal, OneUserStays, NothingGoesMissing DEF ViewsIInv, AnswerInv
  <2>2. QED
    BY <1>1, <2>1 DEF ViewsIInv, AnswerInv
<1>9. QED
  BY <1>1, <1>2, <1>3, <1>4, <1>6, <1>7, <1>8 DEF ViewsIInv

----------------------------------------------------------------------------
(* The steps of a view. *)

LEMMA ListPrefixEnds ==
  ASSUME NEW v \in View
  PROVE  /\ EndsInColon(ListPrefix(v))
         /\ v.form \in {"commands", "users", "user", "cmd"}
         /\ v.form = "cmd" => v.arg \in Key /\ ListPrefix(v) = pairsOf(v.arg)
<1>1. v.form \in {"commands", "users", "user", "cmd"}
  BY DEF View
<1>2. v.form = "cmd" => v.arg \in Key /\ ListPrefix(v) = pairsOf(v.arg)
  BY PlainNames DEF View, ListPrefix, pairsOf
<1>3. <<>> \in Key
  BY DEF Key
<1>4. v.form = "cmd" => EndsInColon(ListPrefix(v))
  BY <1>2, <1>3, PairKeyIs
<1>5. v.form # "cmd" => EndsInColon(ListPrefix(v))
  BY <1>1, PrefixKeys DEF ListPrefix
<1>6. QED
  BY <1>1, <1>2, <1>4, <1>5

LEMMA AimEnds ==
  ASSUME AimInv, call # "idle"
  PROVE  EndsInColon(prefix)
BY ListPrefixEnds, PrefixKeys DEF AimInv

LEMMA EmptyIsLeast ==
  ASSUME NEW k \in Key, k # <<>>
  PROVE  Less(<<>>, k) /\ <<>> \in Key
<1>1. Len(k) \in Nat /\ Len(k) # 0 /\ Len(<<>>) = 0 /\ <<>> \in Key
  BY DEF Key
<1>2. 1 \in 1 .. Len(k) /\ 1 .. 1 - 1 = {} /\ ~ (1 <= Len(<<>>))
  BY <1>1
<1>3. Less(<<>>, k)
  BY <1>2 DEF Less
<1>4. QED
  BY <1>1, <1>3

LEMMA NoRows ==
  ASSUME answer' = <<>>, call' # "answered" \/ failed'
  PROVE  AnswerInv'
<1>1. DOMAIN answer' = {}
  OBVIOUS
<1>2. Rows' = {}
  BY <1>1 DEF Rows
<1>3. RowsAreReal'
  BY <1>1, <1>2 DEF RowsAreReal
<1>4. QED
  BY <1>3 DEF AnswerInv, OneUserPerView, NothingSettledIsMissing

(* A view writes nothing. *)
LEMMA ViewReads ==
  ASSUME ViewsIInv, call # "idle", UNCHANGED storeVars, UNCHANGED history
  PROVE  EntriesInv' /\ WatchInv'
<1>1. EntriesInv /\ WatchInv
  BY DEF ViewsIInv
<1>2. UNCHANGED <<backend, base, lag, writes, before, since>>
  BY DEF storeVars, history
<1>3. EntriesInv'
  BY <1>1, <1>2 DEF EntriesInv, StoreInv, Has, At
<1>4. WatchInv'
  BY <1>1, <1>2 DEF WatchInv, Has, At
<1>5. QED
  BY <1>3, <1>4

LEMMA StoredTypes ==
  ASSUME EntriesInv, WatchInv
  PROVE  /\ backend \in Backend /\ (\A a \in DOMAIN base : base[a] \in Entry)
         /\ lag \subseteq StatKey /\ writes \in 0 .. MaxWrites
         /\ since \in [StatKey -> SUBSET Entry] /\ before \subseteq StatKey
BY DEF EntriesInv, WatchInv, StoreInv

LEMMA StoredTypesNext ==
  ASSUME EntriesInv', WatchInv'
  PROVE  /\ backend' \in Backend /\ (\A a \in DOMAIN base' : base'[a] \in Entry)
         /\ lag' \subseteq StatKey /\ writes' \in 0 .. MaxWrites
         /\ since' \in [StatKey -> SUBSET Entry] /\ before' \subseteq StatKey
BY DEF EntriesInv, WatchInv, StoreInv

LEMMA BeginKeeps ==
  ASSUME ViewsIInv, NEW v \in View, Begin(v)
  PROVE  ViewsIInv'
<1>1. /\ call = "idle" /\ view' = v /\ prefix' = ListPrefix(v) /\ cursor' = <<>> /\ keys' = {}
      /\ call' = "list"
      /\ before' = List(backend, base, stats, <<>>) \ lag
      /\ since' = [k \in StatKey |-> Held(k)]
      /\ UNCHANGED <<backend, base, lag, writes, todo, got, who, answer, failed>>
  BY DEF Begin, StartList, storeVars
<1>2. EntriesInv /\ WatchInv /\ IdleInv /\ ViewsTypeOK
  BY DEF ViewsIInv
<1>3. todo = {} /\ got = Empty /\ who = Unknown /\ answer = <<>>
  BY <1>1, <1>2 DEF IdleInv
<1>4. backend \in Backend /\ IsStore(backend, base) /\ stats \in Module
  BY <1>2 DEF EntriesInv, StoreInv, Module
<1>5. List(backend, base, stats, <<>>) = {k \in Key : Has(k)}
  BY <1>4, ListsOwnKeys DEF Has
<1>6. \A k \in before' : k \in StatKey /\ Has(k) /\ k \notin lag
  BY <1>1, <1>2, <1>5 DEF EntriesInv
<1>7. \A k \in StatKey : (\A e \in Held(k) : Has(k) /\ e = At(k)) /\ (Has(k) => At(k) \in Held(k))
  BY DEF Held, Has, At
<1>8. \A k \in StatKey : Held(k) \subseteq EntryOf(k)
  BY <1>2, <1>7, StatKeyType DEF EntriesInv
<1>9. EntriesInv'
  BY <1>1, <1>2 DEF EntriesInv, StoreInv, Has, At
<1>10. WatchInv'
  <2>1. \A k \in StatKey : since'[k] = Held(k)
    BY <1>1
  <2>2. since' \in [StatKey -> SUBSET Entry]
    BY <1>1, <1>8, StatKeyType
  <2>3. \A k \in StatKey : Has(k)' = Has(k) /\ At(k)' = At(k)
    BY <1>1 DEF Has, At
  <2>4. QED
    BY <1>1, <1>6, <1>7, <1>8, <2>1, <2>2, <2>3 DEF WatchInv
<1>11. ViewsTypeOK'
  BY <1>1, <1>2, <1>9, <1>10, StoredTypesNext DEF ViewsTypeOK
<1>12. AimInv'
  BY <1>1, <1>3 DEF AimInv
<1>13. ListInv'
  <2>1. \A k \in before' \cap Matching' : k \in keys' \/ Less(cursor', k)
    BY <1>1, <1>6, PrefixKinds, EmptyIsLeast
  <2>2. cursor' \in Key
    BY <1>1 DEF Key
  <2>3. QED
    BY <1>1, <1>3, <2>1, <2>2 DEF ListInv
<1>14. AnswerInv'
  BY <1>1, <1>3, NoRows
<1>15. QED
  BY <1>1, <1>9, <1>10, <1>11, <1>12, <1>13, <1>14 DEF ViewsIInv, IdleInv, ReadInv

(* A page cut behind b, and its last key. *)
Cut(page, rest, b) == page = {k \in rest : ~Less(b, k)}

LastOf(page) == CHOOSE b \in page : \A k \in page : ~Less(b, k)

LEMMA PageEnds ==
  ASSUME NEW rest \in SUBSET Key, NEW b \in rest, NEW page, Cut(page, rest, b)
  PROVE  LastOf(page) \in page /\ \A k \in rest \ page : Less(LastOf(page), k)
<1> DEFINE last == LastOf(page)
<1>1. b \in page /\ \A k \in page : ~Less(b, k)
  BY LessIrreflexive DEF Cut
<1>2. last \in page
  BY <1>1 DEF LastOf
<1> HIDE DEF last
<1>3. ASSUME NEW k \in rest \ page PROVE Less(last, k)
  <2>1. Less(b, k) /\ ~Less(b, last) /\ b \in Key /\ k \in Key /\ last \in Key
    BY <1>2 DEF Cut
  <2>2. last = b \/ Less(last, b)
    BY <2>1, LessTotal
  <2>3. QED
    BY <2>1, <2>2, LessTransitive
<1>4. QED
  BY <1>2, <1>3 DEF last

LEMMA NextPageKeeps ==
  ASSUME ViewsIInv, NextPage
  PROVE  ViewsIInv'
<1>1. /\ call = "list"
      /\ UNCHANGED <<view, prefix, got, who, answer, failed>>
      /\ UNCHANGED storeVars /\ UNCHANGED history /\ before' = before
  BY DEF NextPage, history
<1>2. EntriesInv /\ WatchInv /\ AimInv /\ ListInv /\ ViewsTypeOK
  BY DEF ViewsIInv
<1>3. todo = {} /\ got = Empty /\ answer = <<>> /\ cursor \in Key /\ keys \subseteq Matching
      /\ \A k \in before \cap Matching : k \in keys \/ Less(cursor, k)
  BY <1>1, <1>2 DEF ListInv
<1>4. EndsInColon(prefix)
  BY <1>1, <1>2, AimEnds
<1> DEFINE All == List(backend, base, stats, prefix)
           Rest(missed) == {k \in All \ missed : Less(cursor, k)}
<1>5. All = {k \in Key : Has(k) /\ IsPrefix(prefix, k)}
  <2>1. backend \in Backend /\ IsStore(backend, base) /\ stats \in Module
    BY <1>2 DEF EntriesInv, StoreInv, Module
  <2>2. QED
    BY <1>4, <2>1, ListsByPrefix DEF Has
<1>6. PICK missed \in SUBSET lag :
        \E page \in IF backend = "dynamodb"
                    THEN {{k \in Rest(missed) : ~Less(b, k)} : b \in Rest(missed)}
                           \cup {Rest(missed)}
                    ELSE {Rest(missed)} :
          /\ keys' = keys \cup page
          /\ IF page = Rest(missed)
             THEN call' = "get" /\ Listed(keys') /\ UNCHANGED cursor
             ELSE /\ cursor' = CHOOSE b \in page : \A k \in page : ~Less(b, k)
                  /\ UNCHANGED <<call, todo>>
  BY DEF NextPage, LastPage, UntilNoMore
<1> DEFINE rest == Rest(missed)
<1>7. PICK page :
        /\ page = rest \/ \E b \in rest : page = {k \in rest : ~Less(b, k)}
        /\ keys' = keys \cup page
        /\ page = rest => call' = "get" /\ Listed(keys') /\ UNCHANGED cursor
        /\ page # rest => /\ cursor' = CHOOSE b \in page : \A k \in page : ~Less(b, k)
                          /\ UNCHANGED <<call, todo>>
  BY <1>6
<1>8. \A k \in rest : k \in Key /\ k \in Matching
  BY <1>2, <1>5 DEF EntriesInv, Matching
<1>9. \A k \in before \cap Matching : k \in keys \/ k \in rest
  <2> TAKE k \in before \cap Matching
  <2>1. Has(k) /\ k \notin missed /\ k \in Key /\ IsPrefix(prefix, k)
    BY <1>2, <1>6, StatKeyType DEF WatchInv, Matching
  <2>2. QED
    BY <1>3, <1>5, <2>1
<1> HIDE DEF All, rest, Rest
<1>10. page \subseteq rest
  BY <1>7
<1>11. keys' \subseteq Matching /\ Matching \subseteq StatKey
  BY <1>3, <1>7, <1>8, <1>10 DEF Matching
<1>12. Matching' = Matching /\ Asked' = Asked
  BY <1>1 DEF Matching, Asked
<1>13. EntriesInv' /\ WatchInv'
  BY <1>1, ViewReads
<1>14. AimInv'
  BY <1>1, <1>2 DEF AimInv, NamesOf, history
<1>15. CASE page = rest
  <2>1. call' = "get" /\ Listed(keys')
    BY <1>7, <1>15
  <2>2. todo' = IF view.form = "user" /\ prefix = pairPrefix
                THEN {k \in keys' : IsPairOf(k, who)} ELSE keys'
    BY <2>1 DEF Listed
  <2>3. \A k \in todo' : k \in keys' \cap Asked
    BY <1>11, <2>2 DEF Asked
  <2>4. \A k \in before \cap Asked : k \in keys' /\ k \in todo'
    BY <1>7, <1>9, <1>15, <2>2 DEF Asked
  <2>5. DOMAIN got' = {}
    BY <1>1, <1>3 DEF Empty
  <2>6. ReadInv'
    BY <1>1, <1>3, <1>11, <1>12, <2>3, <2>4, <2>5 DEF ReadInv
  <2>7. ViewsTypeOK'
    BY <1>1, <1>2, <1>11, <1>13, <2>1, <2>3, StoredTypesNext DEF ViewsTypeOK
  <2>8. AnswerInv'
    BY <1>1, <1>3, <2>1, NoRows
  <2>9. QED
    BY <1>1, <1>13, <1>14, <2>1, <2>6, <2>7, <2>8 DEF ViewsIInv, IdleInv, ListInv
<1>16. CASE page # rest
  <2>1. /\ cursor' = CHOOSE b \in page : \A k \in page : ~Less(b, k)
        /\ call' = "list" /\ todo' = todo
    BY <1>1, <1>7, <1>16
  <2>2. PICK b \in rest : page = {k \in rest : ~Less(b, k)}
    BY <1>7, <1>16
  <2>3. rest \in SUBSET Key
    BY <1>8
  <2>4. cursor' \in page /\ \A k \in rest \ page : Less(cursor', k)
    <3>1. LastOf(page) \in page /\ \A k \in rest \ page : Less(LastOf(page), k)
      <4>1. Cut(page, rest, b)
        BY <2>2 DEF Cut
      <4>2. QED
        BY <2>3, <4>1, PageEnds
    <3>2. cursor' = LastOf(page)
      BY <2>1 DEF LastOf
    <3>3. QED
      BY <3>1, <3>2
  <2>5. \A k \in before \cap Matching : k \in keys' \/ Less(cursor', k)
    BY <1>7, <1>9, <2>4
  <2>6. ListInv'
    BY <1>1, <1>3, <1>10, <1>11, <1>12, <2>1, <2>3, <2>4, <2>5 DEF ListInv
  <2>7. ViewsTypeOK'
    BY <1>1, <1>2, <1>11, <1>13, <2>1, StoredTypesNext DEF ViewsTypeOK
  <2>8. AnswerInv'
    BY <1>1, <1>3, <2>1, NoRows
  <2>9. QED
    BY <1>1, <1>13, <1>14, <2>1, <2>6, <2>7, <2>8 DEF ViewsIInv, IdleInv, ReadInv
<1>17. QED
  BY <1>15, <1>16

LEMMA ListFailsKeeps ==
  ASSUME ViewsIInv, ListFails
  PROVE  ViewsIInv'
<1>1. /\ call = "list" /\ failed' = TRUE /\ keys' = {} /\ call' \in {"get", "answered"}
      /\ UNCHANGED <<view, prefix, cursor, todo, got, who, answer>>
      /\ UNCHANGED storeVars /\ UNCHANGED history
  BY DEF ListFails
<1>2. AimInv /\ ListInv /\ ViewsTypeOK
  BY DEF ViewsIInv
<1>3. todo = {} /\ got = Empty /\ answer = <<>>
  BY <1>1, <1>2 DEF ListInv
<1>4. EntriesInv' /\ WatchInv'
  BY <1>1, ViewReads
<1>5. AimInv'
  BY <1>1, <1>2 DEF AimInv, NamesOf, history
<1>6. ReadInv'
  <2>1. DOMAIN got' = {}
    BY <1>1, <1>3 DEF Empty
  <2>2. QED
    BY <1>1, <1>3, <2>1 DEF ReadInv
<1>7. ViewsTypeOK'
  BY <1>1, <1>2, <1>4, StoredTypesNext DEF ViewsTypeOK
<1>8. AnswerInv'
  BY <1>1, <1>3, NoRows
<1>9. QED
  BY <1>1, <1>4, <1>5, <1>6, <1>7, <1>8 DEF ViewsIInv, IdleInv, ListInv

LEMMA GetEntryKeeps ==
  ASSUME ViewsIInv, NEW k \in StatKey, GetEntry(k)
  PROVE  ViewsIInv'
<1> DEFINE users == {userKey(id) :
                       id \in {d \in UserId : view.form = "cmd" /\ k = pairKey(view.arg, d)}}
<1>1. /\ call = "get" /\ k \in todo
      /\ UNCHANGED <<call, view, prefix, cursor, keys, who, answer>>
      /\ UNCHANGED storeVars /\ UNCHANGED history
  BY DEF GetEntry
<1>2. PICK found \in Get(backend, base, stats, k) :
        IF found = {}
        THEN todo' = todo \ {k} /\ failed' = TRUE /\ UNCHANGED got
        ELSE /\ todo' = (todo \ {k}) \cup users
             /\ got' = [x \in DOMAIN got \cup {k} |->
                          IF x = k THEN CHOOSE e \in found : TRUE ELSE got[x]]
             /\ UNCHANGED failed
  BY DEF GetEntry
<1>3. EntriesInv /\ WatchInv /\ AimInv /\ ReadInv /\ ViewsTypeOK /\ IsFiniteSet(DOMAIN got)
  BY DEF ViewsIInv
<1>4. EntriesInv' /\ WatchInv'
  BY <1>1, ViewReads
<1>5. AimInv'
  BY <1>1, <1>3 DEF AimInv, NamesOf, history
<1>6. Matching' = Matching /\ Asked' = Asked
  BY <1>1 DEF Matching, Asked
<1>7. AnswerInv'
  BY <1>1, <1>3, NoRows DEF ReadInv
<1>8. /\ answer = <<>> /\ keys \subseteq Matching
      /\ \A x \in DOMAIN got : got[x] \in since[x]
      /\ \A x \in todo \cup DOMAIN got :
           x \in keys \cap Asked \/ (view.form = "cmd" /\ x \in UserKeys)
      /\ ~failed =>
           /\ \A x \in before \cap Asked : x \in keys /\ x \in todo \cup DOMAIN got
           /\ view.form = "cmd" =>
                \A id \in UserId : pairKey(view.arg, id) \in DOMAIN got =>
                                     userKey(id) \in todo \cup DOMAIN got
  BY <1>1, <1>3 DEF ReadInv
<1>9. since' = since /\ before' = before
  BY <1>1 DEF history
<1>10. CASE found = {}
  <2>1. todo' = todo \ {k} /\ failed' = TRUE /\ UNCHANGED got
    BY <1>2, <1>10
  <2>2. ReadInv'
    BY <1>1, <1>6, <1>8, <1>9, <2>1 DEF ReadInv
  <2>3. ViewsTypeOK'
    BY <1>1, <1>3, <1>4, <2>1, StoredTypesNext DEF ViewsTypeOK
  <2>4. QED
    BY <1>1, <1>4, <1>5, <1>7, <2>1, <2>2, <2>3 DEF ViewsIInv, IdleInv, ListInv
<1>11. CASE found # {}
  <2>1. /\ todo' = (todo \ {k}) \cup users
        /\ got' = [x \in DOMAIN got \cup {k} |->
                     IF x = k THEN CHOOSE e \in found : TRUE ELSE got[x]]
        /\ UNCHANGED failed
    BY <1>2, <1>11
  <2>2. Has(k) /\ found = {At(k)}
    <3>1. backend \in Backend
      BY <1>3 DEF ViewsTypeOK
    <3>2. QED
      BY <1>11, <3>1, StatGet DEF Has, At
  <2>3. /\ DOMAIN got' = DOMAIN got \cup {k} /\ got'[k] = At(k)
        /\ \A x \in DOMAIN got : x # k => got'[x] = got[x]
    BY <2>1, <2>2
  <2>4. At(k) \in since[k] /\ At(k) \in EntryOf(k)
    BY <1>1, <1>3, <2>2, StatKeyType DEF WatchInv, EntriesInv
  <2>5. users \subseteq UserKeys /\ (view.form # "cmd" => users = {})
        /\ \A id \in UserId : view.form = "cmd" /\ k = pairKey(view.arg, id) => userKey(id) \in users
    BY DEF UserKeys
  <2> HIDE DEF users
  <2>6. todo' \cup DOMAIN got' = todo \cup DOMAIN got \cup users
    BY <1>1, <2>1, <2>3
  <2>7. \A x \in DOMAIN got' : got'[x] \in since[x] /\ got'[x] \in EntryOf(x)
    BY <1>3, <1>8, <2>3, <2>4 DEF ViewsTypeOK
  <2>8. \A x \in todo' \cup DOMAIN got' :
          x \in keys \cap Asked \/ (view.form = "cmd" /\ x \in UserKeys)
    BY <1>8, <2>5, <2>6
  <2>9. ~failed => \A x \in before \cap Asked : x \in keys /\ x \in todo' \cup DOMAIN got'
    BY <1>8, <2>6
  <2>10. ASSUME ~failed, view.form = "cmd", NEW id \in UserId,
                pairKey(view.arg, id) \in DOMAIN got'
         PROVE  userKey(id) \in todo' \cup DOMAIN got'
    <3>1. CASE pairKey(view.arg, id) \in DOMAIN got
      BY <1>8, <2>6, <2>10, <3>1
    <3>2. CASE pairKey(view.arg, id) = k
      BY <2>5, <2>6, <2>10, <3>2
    <3>3. QED
      BY <2>3, <2>10, <3>1, <3>2
  <2>11. ReadInv'
    BY <1>1, <1>6, <1>8, <1>9, <2>1, <2>7, <2>8, <2>9, <2>10 DEF ReadInv
  <2>12. UserKeys \subseteq StatKey
    BY DEF StatKey
  <2>13. ViewsTypeOK'
    BY <1>1, <1>3, <1>4, <2>1, <2>3, <2>5, <2>7, <2>12, StoredTypesNext DEF ViewsTypeOK
  <2>14. IsFiniteSet(DOMAIN got')
    BY <1>3, <2>3, FS_AddElement
  <2>15. QED
    BY <1>1, <1>4, <1>5, <1>7, <2>11, <2>13, <2>14 DEF ViewsIInv, IdleInv, ListInv
<1>12. QED
  BY <1>10, <1>11

(* What row r may say of entry k. *)
TellsOf(k, r) ==
  CASE view.form = "commands" ->
         \E c \in Command : k = countKey(c) /\ r.display = c /\ r.n \in CountsOf(k)
    [] view.form = "users" ->
         \E id \in UserId : k = userKey(id) /\ r.display \in NamesOf(id) /\ r.n \in CountsOf(k)
    [] view.form = "cmd" ->
         /\ view.arg \in Command
         /\ \E id \in UserId : /\ k = pairKey(view.arg, id)
                               /\ r.display \in NamesOf(id) /\ r.n \in CountsOf(k)
    [] OTHER ->
         /\ who \in UserId /\ view.arg \in NamesOf(who)
         /\ \E c \in Command : k = pairKey(c, who) /\ r.display = c /\ r.n \in CountsOf(k)

(* The last List has been read. *)
AllIn ==
  /\ ViewsIInv /\ call = "get" /\ todo = {}
  /\ ~ (view.form = "user" /\ prefix = userPrefix)

LEMMA CommandOfList ==
  ASSUME NEW arg \in Key, NEW k \in StatKey, IsPrefix(pairsOf(arg), k)
  PROVE  /\ arg \in Command /\ k \in PairKeys
         /\ \E id \in UserId : k = pairKey(arg, id)
<1>1. k \in Key
  BY StatKeyType
<1>2. pairsOf(arg) \in Key /\ Len(pairsOf(arg)) >= 1 /\ pairsOf(arg)[1] = 112
  <2>1. <<>> \in Key /\ <<Colon>> \in Key /\ Len(arg) \in Nat
    BY PrefixKeys DEF Key
  <2>2. /\ pairsOf(arg) = Join(pairPrefix, Join(arg, <<Colon>>)) /\ EndsInColon(pairsOf(arg))
        /\ Len(pairsOf(arg)) = 6 + Len(arg)
    BY <2>1, PairKeyIs
  <2>3. Join(arg, <<Colon>>) \in Key
    BY <2>1, Extended
  <2>4. 1 \in 1 .. Len(pairPrefix)
    BY PrefixKeys
  <2>5. pairsOf(arg)[1] = pairPrefix[1]
    <3> DEFINE d == Join(arg, <<Colon>>)
    <3>1. d \in Key /\ pairPrefix \in Key /\ pairsOf(arg) = Join(pairPrefix, d)
      BY <2>2, <2>3, PrefixKeys
    <3> HIDE DEF d
    <3>2. \A i \in 1 .. Len(pairPrefix) : Join(pairPrefix, d)[i] = pairPrefix[i]
      BY <3>1, Extended
    <3>3. QED
      BY <2>4, <3>1, <3>2
  <2>6. QED
    BY <2>1, <2>2, <2>5, PrefixKeys DEF EndsInColon
<1>3. k[1] = 112
  <2>1. 1 \in 1 .. Len(pairsOf(arg))
    BY <1>2, KeyType
  <2>2. QED
    BY <1>1, <1>2, <2>1, PrefixAt
<1>4. k \in PairKeys
  BY <1>3, FirstBytes DEF StatKey
<1>5. PICK c \in Command, id \in UserId : k = pairKey(c, id)
  BY <1>4 DEF PairKeys
<1>6. arg = c
  BY <1>5, PairsOfOne, PlainNames
<1>7. QED
  BY <1>4, <1>5, <1>6

LEMMA UserOfPair ==
  ASSUME NEW c \in Command, NEW id \in UserId
  PROVE  userPrefix \o TrimPrefix(pairKey(c, id), pairsOf(c)) = userKey(id)
<1>1. c \in Key /\ id \in Key
  BY PlainNames
<1>2. pairKey(c, id) = Join(pairsOf(c), id) /\ pairsOf(c) \in Key
  BY <1>1, PairKeyIs DEF EndsInColon
<1>3. TrimPrefix(pairKey(c, id), pairsOf(c)) = id
  BY <1>1, <1>2, Extended
<1>4. QED
  BY <1>3 DEF userKey

(* Each row is true of its entry.                                           *)
LEMMA RowsTell ==
  ASSUME AllIn, NEW k \in RowKeys
  PROVE  /\ k \in DOMAIN got /\ k \in Key
         /\ RowOf(k) \in Row /\ RowOf(k).n = got[k].n /\ TellsOf(k, RowOf(k))
<1>1. /\ call = "get" /\ todo = {} /\ ~ (view.form = "user" /\ prefix = userPrefix)
      /\ AimInv /\ ReadInv /\ ViewsTypeOK
  BY DEF AllIn, ViewsIInv
<1>2. view \in View /\ \/ prefix = ListPrefix(view) /\ who = Unknown
                       \/ /\ view.form = "user" /\ prefix = pairPrefix
                          /\ who \in UserId /\ view.arg \in NamesOf(who)
  BY <1>1 DEF AimInv
<1>3. /\ keys \subseteq Matching /\ (\A x \in DOMAIN got : got[x] \in since[x])
      /\ \A x \in DOMAIN got : x \in keys \cap Asked \/ (view.form = "cmd" /\ x \in UserKeys)
  BY <1>1 DEF ReadInv
<1>4. view.form \in {"commands", "users", "user", "cmd"}
  BY <1>2 DEF View
<1>5. k \in DOMAIN got /\ k \in StatKey /\ got[k] \in since[k] /\ got[k] \in EntryOf(k)
  BY <1>1, <1>3 DEF RowKeys, ViewsTypeOK
<1>6. k \in Key /\ got[k].n \in Int /\ got[k].n \in CountsOf(k)
  <2>1. got[k].n \in 1 .. MaxCount
    BY <1>5 DEF EntryOf
  <2>2. QED
    BY <1>5, <2>1, StatKeyType, ViewsAssumption DEF CountsOf
<1>7. \A id \in UserId : userKey(id) \in DOMAIN got =>
        /\ got[userKey(id)].username \in NamesOf(id)
        /\ got[userKey(id)].username \in Key
  <2> TAKE id \in UserId
  <2> HAVE userKey(id) \in DOMAIN got
  <2>1. got[userKey(id)] \in since[userKey(id)] /\ got[userKey(id)] \in EntryOf(userKey(id))
    BY <1>1, <1>3 DEF ViewsTypeOK
  <2>2. got[userKey(id)].username \in Username
    BY <2>1 DEF EntryOf, NamesIn, UserKeys
  <2>3. QED
    BY <2>1, <2>2, PlainNames DEF NamesOf
<1>8. CASE view.form = "commands"
  <2>1. IsPrefix(countPrefix, k)
    BY <1>2, <1>3, <1>5, <1>8 DEF ListPrefix, Matching
  <2>2. PICK c \in Command : k = countKey(c)
    BY <1>5, <2>1, PrefixKinds DEF CountKeys
  <2>3. TrimPrefix(k, countPrefix) = c /\ c \in Key
    BY <2>2, CountKeyIs, PlainNames, PrefixKeys, Extended
  <2>4. RowOf(k) = [display |-> c, n |-> got[k].n]
    BY <1>8, <2>3 DEF RowOf, EntryRead, OwnEntry
  <2>5. QED
    BY <1>5, <1>6, <1>8, <2>2, <2>3, <2>4 DEF Row, TellsOf
<1>9. CASE view.form = "users"
  <2>1. IsPrefix(userPrefix, k)
    BY <1>2, <1>3, <1>5, <1>9 DEF ListPrefix, Matching
  <2>2. PICK id \in UserId : k = userKey(id)
    BY <1>5, <2>1, PrefixKinds DEF UserKeys
  <2>3. RowOf(k) = [display |-> got[k].username, n |-> got[k].n]
    BY <1>9 DEF RowOf, EntryRead, OwnEntry
  <2>4. QED
    BY <1>5, <1>6, <1>7, <1>9, <2>2, <2>3 DEF Row, TellsOf
<1>10. CASE view.form = "cmd"
  <2>1. prefix = pairsOf(view.arg) /\ view.arg \in Key
    BY <1>2, <1>10, ListPrefixEnds
  <2>2. k \in keys /\ userPrefix \o TrimPrefix(k, prefix) \in DOMAIN got
    BY <1>10 DEF RowKeys
  <2>3. IsPrefix(pairsOf(view.arg), k)
    BY <1>3, <2>1, <2>2 DEF Matching
  <2>4. view.arg \in Command /\ \E id \in UserId : k = pairKey(view.arg, id)
    BY <1>5, <2>1, <2>3, CommandOfList
  <2>5. PICK id \in UserId : k = pairKey(view.arg, id)
    BY <2>4
  <2>6. userPrefix \o TrimPrefix(k, prefix) = userKey(id)
    BY <2>1, <2>4, <2>5, UserOfPair
  <2>7. RowOf(k) = [display |-> got[userKey(id)].username, n |-> got[k].n]
    BY <1>10, <2>6 DEF RowOf, EntryRead, OwnEntry
  <2>8. QED
    BY <1>5, <1>6, <1>7, <1>10, <2>2, <2>4, <2>5, <2>6, <2>7 DEF Row, TellsOf
<1>11. CASE view.form = "user"
  <2>1. prefix = pairPrefix /\ who \in UserId /\ view.arg \in NamesOf(who)
    BY <1>1, <1>2, <1>11 DEF ListPrefix
  <2>2. k \in Matching /\ IsPairOf(k, who)
    BY <1>3, <1>5, <1>11, <2>1 DEF Asked
  <2>3. IsPrefix(pairPrefix, k)
    BY <2>1, <2>2 DEF Matching
  <2>4. PICK c \in Command, id \in UserId : k = pairKey(c, id)
    BY <1>5, <2>3, PrefixKinds DEF PairKeys
  <2>5. id = who
    BY <2>1, <2>2, <2>4, PairOfOne, PlainNames
  <2>6. RowOf(k).display = c /\ RowOf(k) = [display |-> RowOf(k).display, n |-> got[k].n]
    <3> DEFINE rest == TrimPrefix(k, pairPrefix)
               colon == CHOOSE i \in DOMAIN rest :
                          rest[i] = Colon /\ \A j \in i + 1 .. Len(rest) : rest[j] # Colon
    <3>1. RowOf(k) = [display |-> SubSeq(rest, 1, colon - 1), n |-> got[k].n]
      BY <1>11 DEF RowOf, EntryRead, OwnEntry
    <3>2. SubSeq(rest, 1, colon - 1) = c
      BY <2>4, CommandOfPair, PlainNames
    <3> HIDE DEF rest, colon
    <3>3. QED
      BY <3>1, <3>2
  <2>7. c \in Key
    BY PlainNames
  <2>8. QED
    BY <1>5, <1>6, <1>11, <2>1, <2>4, <2>5, <2>6, <2>7 DEF Row, TellsOf
<1>12. QED
  BY <1>4, <1>8, <1>9, <1>10, <1>11

(* Unless a read failed, all a view is about makes a row.                   *)
LEMMA DueMakeRows ==
  ASSUME AllIn, ~failed, NEW k \in Due
  PROVE  k \in RowKeys
<1>1. /\ call = "get" /\ todo = {} /\ ~ (view.form = "user" /\ prefix = userPrefix)
      /\ AimInv /\ ReadInv /\ ViewsTypeOK
  BY DEF AllIn, ViewsIInv
<1>2. view \in View /\ \/ prefix = ListPrefix(view) /\ who = Unknown
                       \/ /\ view.form = "user" /\ prefix = pairPrefix
                          /\ who \in UserId /\ view.arg \in NamesOf(who)
  BY <1>1 DEF AimInv
<1>3. /\ \A x \in before \cap Asked : x \in keys /\ x \in DOMAIN got
      /\ view.form = "cmd" =>
           \A id \in UserId : pairKey(view.arg, id) \in DOMAIN got => userKey(id) \in DOMAIN got
  BY <1>1 DEF ReadInv
<1>4. view.form \in {"commands", "users", "user", "cmd"}
  BY <1>2 DEF View
<1>5. k \in before /\ k \in StatKey /\ before \subseteq StatKey
  BY <1>1 DEF Due, ViewsTypeOK
<1>6. CASE view.form = "commands"
  <2>1. k \in Matching
    BY <1>2, <1>5, <1>6, PrefixKinds DEF Due, ListPrefix, Matching
  <2>2. k \in DOMAIN got
    BY <1>3, <1>5, <1>6, <2>1 DEF Asked
  <2>3. QED
    BY <1>6, <2>2 DEF RowKeys
<1>7. CASE view.form = "users"
  <2>1. k \in UserKeys
    BY <1>7 DEF Due
  <2>2. k \in Matching
    BY <1>2, <1>5, <1>7, <2>1, PrefixKinds DEF ListPrefix, Matching
  <2>3. k \in DOMAIN got
    BY <1>3, <1>5, <1>7, <2>2 DEF Asked
  <2>4. got[k].username \in Username
    BY <1>1, <2>1, <2>3 DEF ViewsTypeOK, EntryOf, NamesIn
  <2>5. QED
    BY <1>7, <2>3, <2>4, PlainNames DEF RowKeys
<1>8. CASE view.form = "cmd"
  <2>1. PICK id \in UserId : k = pairKey(view.arg, id) /\ userKey(id) \in before
    BY <1>8 DEF Due
  <2>2. prefix = pairsOf(view.arg) /\ view.arg \in Key /\ id \in Key
    BY <1>2, <1>8, ListPrefixEnds, PlainNames
  <2>3. IsPrefix(prefix, k)
    BY <2>1, <2>2, PairKeyIs, Extended DEF EndsInColon
  <2>4. k \in keys /\ k \in DOMAIN got
    BY <1>3, <1>5, <1>8, <2>3 DEF Asked, Matching
  <2>5. userKey(id) \in DOMAIN got
    BY <1>3, <1>8, <2>1, <2>4
  <2>6. view.arg \in Command
    BY <1>5, <2>2, <2>3, CommandOfList
  <2>7. userPrefix \o TrimPrefix(k, prefix) = userKey(id)
    BY <2>1, <2>2, <2>6, UserOfPair
  <2>8. QED
    BY <1>8, <2>4, <2>5, <2>7 DEF RowKeys
<1>9. CASE view.form = "user"
  <2>1. PICK c \in Command : k = pairKey(c, who)
    BY <1>9 DEF Due
  <2>2. prefix = pairPrefix /\ who \in UserId
    BY <1>1, <1>2, <1>9 DEF ListPrefix
  <2>3. IsPrefix(pairPrefix, k) /\ IsPairOf(k, who)
    <3>1. k \in PairKeys
      BY <2>1, <2>2 DEF PairKeys
    <3>2. QED
      BY <1>5, <2>1, <2>2, <3>1, PrefixKinds, PairOfOne, PlainNames
  <2>4. k \in keys /\ k \in DOMAIN got
    BY <1>3, <1>5, <1>9, <2>2, <2>3 DEF Asked, Matching
  <2>5. QED
    BY <1>9, <2>4 DEF RowKeys
<1>10. QED
  BY <1>4, <1>6, <1>7, <1>8, <1>9

(* The rows of all that was read. *)
Told == [k \in RowKeys |-> RowOf(k)]

LEMMA ToldRows ==
  ASSUME AllIn
  PROVE  Tells(Ranked(Told), Told) /\ DOMAIN Told = RowKeys /\ \A k \in RowKeys : Told[k] = RowOf(k)
<1>1. DOMAIN Told = RowKeys /\ \A k \in RowKeys : Told[k] = RowOf(k)
  BY DEF Told
<1>2. RowKeys \subseteq DOMAIN got /\ RowKeys \subseteq Key /\ \A k \in RowKeys : RowOf(k) \in Row
  BY RowsTell
<1>3. IsFiniteSet(RowKeys)
  BY <1>2, FS_Subset DEF AllIn, ViewsIInv
<1>4. Tells(Ranked(Told), Told)
  BY <1>1, <1>2, <1>3, RankedTells
<1>5. QED
  BY <1>1, <1>4

(* The row of an entry says what it displays. *)
LEMMA TellsOne ==
  ASSUME AllIn, NEW k \in StatKey, NEW r, TellsOf(k, r)
  PROVE  /\ r.display \in Displays(k) /\ r.n \in CountsOf(k)
         /\ view.form = "commands" => k = countKey(r.display) /\ r.display \in Command
         /\ view.form = "user" => /\ k = pairKey(r.display, who) /\ r.display \in Command
                                  /\ who \in UserId /\ view.arg \in NamesOf(who)
<1>1. view.form \in {"commands", "users", "user", "cmd"}
  BY DEF AllIn, ViewsIInv, AimInv, View
<1>2. CASE view.form = "commands"
  BY <1>2 DEF TellsOf, Displays
<1>3. CASE view.form = "users"
  BY <1>3 DEF TellsOf, Displays
<1>4. CASE view.form = "cmd"
  BY <1>4 DEF TellsOf, Displays
<1>5. CASE view.form = "user"
  BY <1>5 DEF TellsOf, Displays
<1>6. QED
  BY <1>1, <1>2, <1>3, <1>4, <1>5

LEMMA ToldIsTrue ==
  ASSUME AllIn, answer' = Ranked(Told), UNCHANGED <<view, prefix, who, before, since, failed>>
  PROVE  AnswerInv' /\ answer' \in Seq(Row) /\ Len(answer') <= TopK
<1> DEFINE Place == 1 .. Len(answer')
<1>1. Tells(answer', Told) /\ DOMAIN Told = RowKeys /\ \A k \in RowKeys : Told[k] = RowOf(k)
  BY ToldRows
<1>2. PICK key \in [Place -> RowKeys] :
        /\ \A i \in Place : answer'[i] = Told[key[i]]
        /\ \A i, j \in Place : key[i] = key[j] => i = j
  BY <1>1 DEF Tells
<1>3. /\ answer' \in Seq(Row) /\ Len(answer') <= TopK
      /\ \A k \in RowKeys :
           \/ \E i \in Place : answer'[i] = Told[k]
           \/ Len(answer') = TopK /\ \A i \in Place : answer'[i].n >= Told[k].n
  BY <1>1 DEF Tells
<1>4. \A k \in RowKeys : k \in StatKey /\ TellsOf(k, Told[k])
  BY <1>1, RowsTell DEF AllIn, ViewsIInv, ViewsTypeOK
<1>5. \A i \in Place : key[i] \in RowKeys /\ key[i] \in StatKey /\ TellsOf(key[i], answer'[i])
  BY <1>2, <1>4
<1>6. DOMAIN answer' = Place
  BY <1>3
<1> HIDE DEF Place
<1>7. /\ \A k : CountsOf(k)' = CountsOf(k)
      /\ \A id : NamesOf(id)' = NamesOf(id)
  BY DEF CountsOf, NamesOf
<1>8. view.form \in {"commands", "users", "user", "cmd"}
  BY DEF AllIn, ViewsIInv, AimInv, View
<1>9. RowsAreReal'
  <2>1. ASSUME NEW i \in Place
        PROVE  CASE view.form = "commands" ->
                      \E c \in Command : answer'[i].display = c /\ answer'[i].n \in CountsOf(countKey(c))
                 [] view.form = "users" ->
                      \E id \in UserId : /\ answer'[i].display \in NamesOf(id)
                                         /\ answer'[i].n \in CountsOf(userKey(id))
                 [] view.form = "cmd" ->
                      \E id \in UserId : /\ answer'[i].display \in NamesOf(id)
                                         /\ answer'[i].n \in CountsOf(pairKey(view.arg, id))
                 [] OTHER -> \E c \in Command : answer'[i].display = c
    <3> DEFINE r == answer'[i]
    <3> HIDE DEF r
    <3>1. TellsOf(key[i], r)
      BY <1>5 DEF r
    <3> SUFFICES CASE view.form = "commands" ->
                        \E c \in Command : r.display = c /\ r.n \in CountsOf(countKey(c))
                   [] view.form = "users" ->
                        \E id \in UserId : /\ r.display \in NamesOf(id)
                                           /\ r.n \in CountsOf(userKey(id))
                   [] view.form = "cmd" ->
                        \E id \in UserId : /\ r.display \in NamesOf(id)
                                           /\ r.n \in CountsOf(pairKey(view.arg, id))
                   [] OTHER -> \E c \in Command : r.display = c
      BY DEF r
    <3>2. CASE view.form = "commands"
      <4>1. PICK c \in Command : key[i] = countKey(c) /\ r.display = c /\ r.n \in CountsOf(key[i])
        BY <3>1, <3>2 DEF TellsOf
      <4>2. r.display = c /\ r.n \in CountsOf(countKey(c))
        BY <4>1
      <4>3. QED
        BY <3>2, <4>2
    <3>3. CASE view.form = "users"
      <4>1. PICK id \in UserId :
              key[i] = userKey(id) /\ r.display \in NamesOf(id) /\ r.n \in CountsOf(key[i])
        BY <3>1, <3>3 DEF TellsOf
      <4>2. r.display \in NamesOf(id) /\ r.n \in CountsOf(userKey(id))
        BY <4>1
      <4>3. QED
        BY <3>3, <4>2
    <3>4. CASE view.form = "cmd"
      <4>1. PICK id \in UserId : /\ key[i] = pairKey(view.arg, id)
                                 /\ r.display \in NamesOf(id) /\ r.n \in CountsOf(key[i])
        BY <3>1, <3>4 DEF TellsOf
      <4>2. r.display \in NamesOf(id) /\ r.n \in CountsOf(pairKey(view.arg, id))
        BY <4>1
      <4>3. QED
        BY <3>4, <4>2
    <3>5. CASE view.form = "user"
      <4>1. \E c \in Command : r.display = c
        BY <3>1, <3>5 DEF TellsOf
      <4>2. QED
        BY <3>5, <4>1
    <3>6. QED
      BY <1>8, <3>2, <3>3, <3>4, <3>5
  <2>2. ASSUME view.form \in {"commands", "user"}, NEW i \in Place, NEW j \in Place,
               answer'[i].display = answer'[j].display
        PROVE  i = j
    <3>1. key[i] = key[j]
      BY <1>5, <2>2, TellsOne
    <3>2. QED
      BY <1>2, <3>1
  <2>3. QED
    BY <1>6, <1>7, <2>1, <2>2 DEF RowsAreReal, Rows
<1>10. OneUserPerView'
  <2>1. SUFFICES ASSUME view.form = "user", answer' # <<>>
                 PROVE  \E id \in UserId :
                          /\ view.arg \in NamesOf(id)
                          /\ \A i \in Place : answer'[i].n \in CountsOf(pairKey(answer'[i].display, id))
    BY <1>6, <1>7 DEF OneUserPerView, Rows
  <2>2. who \in UserId /\ view.arg \in NamesOf(who)
    BY <2>1 DEF AllIn, ViewsIInv, AimInv, ListPrefix
  <2>3. \A i \in Place : answer'[i].n \in CountsOf(pairKey(answer'[i].display, who))
    BY <1>5, <2>1, TellsOne
  <2>4. QED
    BY <2>2, <2>3
<1>11. NothingSettledIsMissing'
  <2>1. Due' = Due /\ \A k : Displays(k)' = Displays(k)
    BY <1>7 DEF Due, Displays
  <2>2. ASSUME ~failed, NEW k \in Due
        PROVE  \/ \E i \in Place : answer'[i].display \in Displays(k) /\ answer'[i].n \in CountsOf(k)
               \/ Len(answer') = TopK /\ \A i \in Place : \E n \in CountsOf(k) : answer'[i].n >= n
    <3>1. k \in RowKeys
      BY <2>2, DueMakeRows
    <3>2. Told[k].display \in Displays(k) /\ Told[k].n \in CountsOf(k)
      BY <1>4, <3>1, TellsOne
    <3>3. QED
      BY <1>3, <3>1, <3>2
  <2>3. view.form = "user" => who # Unknown
    BY PlainNames DEF AllIn, ViewsIInv, AimInv, ListPrefix, Unknown
  <2>4. QED
    BY <1>6, <1>7, <2>1, <2>2, <2>3 DEF NothingSettledIsMissing, Rows
<1>12. view.form = "cmd" /\ answer' # <<>> => view.arg \in Command
  <2>1. SUFFICES ASSUME view.form = "cmd", answer' # <<>> PROVE view.arg \in Command
    OBVIOUS
  <2>2. 1 \in Place
    BY <1>3, <2>1 DEF Place
  <2>3. TellsOf(key[1], answer'[1])
    BY <1>5, <2>2
  <2>4. QED
    BY <2>1, <2>3 DEF TellsOf
<1>13. QED
  BY <1>3, <1>9, <1>10, <1>11, <1>12 DEF AnswerInv

(* A name no user read has. *)
LEMMA NobodyMeans ==
  ASSUME ViewsIInv, call = "get", todo = {}, view.form = "user", prefix = userPrefix,
         Namesakes = {}
  PROVE  /\ who = Unknown /\ Due = {}
         /\ ~failed => \A id \in UserId : userKey(id) \in before => NamesOf(id) # {view.arg}
<1>1. ViewsTypeOK /\ AimInv /\ ReadInv
  BY DEF ViewsIInv
<1>2. prefix # pairPrefix
  BY PrefixKeys
<1>3. who = Unknown
  BY <1>1, <1>2 DEF AimInv
<1>4. Due = {}
  <2>1. Due = {pairKey(c, who) : c \in Command} \cap before
    BY DEF Due
  <2>2. ASSUME NEW c \in Command, pairKey(c, Unknown) \in before PROVE FALSE
    <3>1. pairKey(c, Unknown) \in StatKey
      BY <1>1, <2>2 DEF ViewsTypeOK
    <3>2. Unknown \in Key /\ c \in Key /\ ColonFree(c)
      BY PlainNames DEF Unknown, Key
    <3>3. IsPrefix(pairPrefix, pairKey(c, Unknown))
      BY <3>2, PairKeyIs, PrefixKeys, Extended
    <3>4. pairKey(c, Unknown) \in PairKeys
      BY <3>1, <3>3, PrefixKinds
    <3>5. PICK d \in Command, id \in UserId : pairKey(c, Unknown) = pairKey(d, id)
      BY <3>4 DEF PairKeys
    <3>6. ColonFree(d) /\ id \in Key /\ id # <<>>
      BY PlainNames
    <3>7. Unknown = id
      BY <3>2, <3>5, <3>6, PairDecodes
    <3>8. QED
      BY <3>6, <3>7 DEF Unknown
  <2>3. QED
    BY <1>3, <2>1, <2>2
<1>5. ASSUME ~failed, NEW id \in UserId, userKey(id) \in before, NamesOf(id) = {view.arg}
      PROVE  FALSE
  <2>1. userKey(id) \in StatKey /\ userKey(id) \in UserKeys
    BY NamesAndCounts, UserKeyIs
  <2>2. userKey(id) \in before \cap Asked
    BY <1>2, <1>5, <2>1, PrefixKinds DEF Asked, Matching
  <2>3. userKey(id) \in DOMAIN got /\ got[userKey(id)] \in since[userKey(id)]
    BY <1>1, <1>5, <2>2 DEF ReadInv
  <2>4. got[userKey(id)].username \in NamesOf(id)
    BY <2>3 DEF NamesOf
  <2>5. id \in Namesakes
    BY <1>5, <2>3, <2>4 DEF Namesakes
  <2>6. QED
    BY <2>5
<1>6. QED
  BY <1>3, <1>4, <1>5

LEMMA AllReadKeeps ==
  ASSUME ViewsIInv, AllRead
  PROVE  ViewsIInv'
<1>1. /\ call = "get" /\ todo = {}
      /\ UNCHANGED <<backend, base, lag, writes, view, todo, before, since, failed>>
      /\ UNCHANGED storeVars /\ UNCHANGED history
  BY DEF AllRead, storeVars, history
<1>2. EntriesInv /\ WatchInv /\ AimInv /\ ReadInv /\ ViewsTypeOK /\ answer = <<>>
  BY <1>1 DEF ViewsIInv, ReadInv
<1>3. EntriesInv' /\ WatchInv'
  BY <1>1, ViewReads
<1>4. \A id : NamesOf(id)' = NamesOf(id)
  BY <1>1 DEF NamesOf
<1>5. Empty = [k \in {} |-> {}] /\ DOMAIN Empty = {} /\ IsFiniteSet({})
  BY FS_EmptySet DEF Empty
<1>6. CASE view.form = "user" /\ prefix = userPrefix /\ Namesakes = {}
  <2>1. answer' = <<>> /\ call' = "answered" /\ got' = Empty /\ UNCHANGED <<prefix, cursor, keys, who>>
    BY <1>6 DEF AllRead, Reply
  <2>2. /\ who = Unknown /\ Due = {}
        /\ ~failed => \A id \in UserId : userKey(id) \in before => NamesOf(id) # {view.arg}
    BY <1>1, <1>6, NobodyMeans
  <2>3. AnswerInv'
    <3>1. DOMAIN answer' = {} /\ Rows' = {}
      BY <2>1 DEF Rows
    <3>2. RowsAreReal' /\ OneUserPerView'
      BY <2>1, <3>1 DEF RowsAreReal, OneUserPerView
    <3>3. Due' = Due
      BY <1>1, <2>1 DEF Due
    <3>4. ASSUME ~failed, NEW id \in UserId, userKey(id) \in before
          PROVE  NamesOf(id)' # {view.arg}
      BY <1>4, <2>2, <3>4
    <3>5. NothingSettledIsMissing'
      BY <1>1, <2>1, <2>2, <3>3, <3>4 DEF NothingSettledIsMissing
    <3>6. QED
      BY <2>1, <3>2, <3>5 DEF AnswerInv
  <2>4. AimInv'
    BY <1>1, <1>2, <1>4, <2>1 DEF AimInv
  <2>5. ViewsTypeOK'
    BY <1>1, <1>2, <1>3, <1>5, <2>1, StoredTypesNext, ViewsAssumption DEF ViewsTypeOK
  <2>6. QED
    BY <1>3, <1>5, <2>1, <2>3, <2>4, <2>5 DEF ViewsIInv, IdleInv, ListInv, ReadInv
<1>7. CASE view.form = "user" /\ prefix = userPrefix /\ Namesakes # {}
  <2>1. /\ who' \in Namesakes /\ prefix' = pairPrefix /\ cursor' = <<>> /\ keys' = {}
        /\ call' = "list" /\ answer' = answer /\ got' = Empty
    BY <1>7 DEF AllRead, StartList
  <2>2. who' \in UserId /\ view.arg \in NamesOf(who')
    <3>1. \A id \in Namesakes : id \in UserId /\ view.arg \in NamesOf(id)
      BY <1>1, <1>2 DEF Namesakes, ReadInv, NamesOf
    <3>2. QED
      BY <2>1, <3>1
  <2>3. AimInv'
    BY <1>1, <1>2, <1>4, <1>7, <2>1, <2>2 DEF AimInv
  <2>4. \A k \in StatKey : Less(<<>>, k) /\ <<>> \in Key
    BY PrefixKinds, EmptyIsLeast
  <2>5. ListInv'
    <3>1. cursor' \in Key
      BY <2>1, PrefixKeys DEF Key
    <3>2. \A k \in before' : Less(cursor', k)
      BY <1>1, <1>2, <2>1, <2>4 DEF ViewsTypeOK
    <3>3. QED
      BY <1>1, <1>2, <2>1, <3>1, <3>2 DEF ListInv
  <2>6. AnswerInv'
    BY <1>2, <2>1, NoRows
  <2>7. ViewsTypeOK'
    BY <1>1, <1>2, <1>3, <1>5, <2>1, <2>2, StoredTypesNext DEF ViewsTypeOK
  <2>8. QED
    BY <1>2, <1>3, <1>5, <2>1, <2>3, <2>5, <2>6, <2>7 DEF ViewsIInv, IdleInv, ReadInv
<1>8. CASE ~ (view.form = "user" /\ prefix = userPrefix)
  <2>1. answer' = Ranked(Told) /\ call' = "answered" /\ UNCHANGED <<prefix, cursor, keys, who, got>>
    BY <1>8 DEF AllRead, Reply, Told
  <2>2. AllIn
    BY <1>1, <1>8 DEF AllIn
  <2>3. AnswerInv' /\ answer' \in Seq(Row) /\ Len(answer') <= TopK
    BY <1>1, <2>1, <2>2, ToldIsTrue
  <2>4. AimInv'
    BY <1>1, <1>2, <1>4, <2>1 DEF AimInv
  <2>5. ViewsTypeOK'
    BY <1>1, <1>2, <1>3, <2>1, <2>3, StoredTypesNext DEF ViewsTypeOK
  <2>6. QED
    BY <1>3, <2>1, <2>3, <2>4, <2>5 DEF ViewsIInv, IdleInv, ListInv, ReadInv
<1>9. QED
  BY <1>6, <1>7, <1>8

LEMMA RepliedKeeps ==
  ASSUME ViewsIInv, Replied
  PROVE  ViewsIInv'
<1>1. /\ call = "answered" /\ call' = "idle" /\ view' = NoView /\ prefix' = <<>>
      /\ cursor' = <<>> /\ keys' = {} /\ todo' = {} /\ got' = Empty /\ who' = Unknown
      /\ answer' = <<>> /\ before' = {} /\ since' = [k \in StatKey |-> {}] /\ failed' = FALSE
      /\ UNCHANGED <<backend, base, lag, writes>>
  BY DEF Replied, storeVars
<1>2. EntriesInv /\ WatchInv /\ ViewsTypeOK
  BY DEF ViewsIInv
<1>3. EntriesInv'
  BY <1>1, <1>2 DEF EntriesInv, StoreInv, Has, At
<1>4. \A k \in StatKey : since'[k] = {}
  BY <1>1
<1>5. WatchInv'
  <2>1. since' \in [StatKey -> SUBSET Entry]
    BY <1>1
  <2>2. QED
    BY <1>1, <1>4, <2>1 DEF WatchInv
<1>6. DOMAIN got' = {} /\ IsFiniteSet(DOMAIN got')
  BY <1>1, FS_EmptySet DEF Empty
<1>7. ViewsTypeOK'
  <2>1. /\ backend' \in Backend /\ (\A a \in DOMAIN base' : base'[a] \in Entry)
        /\ lag' \subseteq StatKey /\ writes' \in 0 .. MaxWrites
        /\ since' \in [StatKey -> SUBSET Entry] /\ before' \subseteq StatKey
    BY <1>3, <1>5, StoredTypesNext
  <2>2. Len(answer') <= TopK
    BY <1>1, ViewsAssumption
  <2>3. keys' \cup todo' \cup DOMAIN got' \cup before' \subseteq StatKey
    BY <1>1, <1>6
  <2>4. QED
    BY <1>1, <1>6, <2>1, <2>2, <2>3 DEF ViewsTypeOK
<1>8. IdleInv'
  BY <1>1, <1>4 DEF IdleInv
<1>9. AnswerInv'
  BY <1>1, NoRows
<1>10. QED
  BY <1>1, <1>3, <1>5, <1>6, <1>7, <1>8, <1>9 DEF ViewsIInv, AimInv, ListInv, ReadInv

(* A view begins with nothing read, whatever the stats hold. *)
LEMMA InitHolds == ViewsInit => ViewsIInv
<1> SUFFICES ASSUME ViewsInit PROVE ViewsIInv
  OBVIOUS
<1>1. /\ backend \in Backend /\ lag = {} /\ writes = 0 /\ call = "idle" /\ view = NoView
      /\ prefix = <<>> /\ cursor = <<>> /\ keys = {} /\ todo = {} /\ got = Empty
      /\ who = Unknown /\ answer = <<>> /\ before = {} /\ failed = FALSE
      /\ \E s \in Stored :
           base = [a \in {Address(backend, stats, k) : k \in DOMAIN s} |->
                     s[CHOOSE k \in DOMAIN s : Address(backend, stats, k) = a]]
  BY DEF ViewsInit
<1>2. since \in [StatKey -> SUBSET Entry] /\ \A k \in StatKey : since[k] = {}
  <2>1. since = [k \in StatKey |-> {}]
    BY DEF ViewsInit
  <2>2. QED
    BY <2>1
<1>3. PICK s \in Stored :
        base = [a \in {Address(backend, stats, k) : k \in DOMAIN s} |->
                  s[CHOOSE k \in DOMAIN s : Address(backend, stats, k) = a]]
  BY <1>1
<1>4. \A k \in DOMAIN s : k \in StatKey /\ k \in Key /\ s[k] \in EntryOf(k) /\ s[k] \in Entry
  BY ViewsAssumption, StatKeyType
<1>5. stats \in Module
  BY DEF Module
<1>6. ASSUME NEW a \in DOMAIN base
      PROVE  \E k \in DOMAIN s : a = Address(backend, stats, k) /\ base[a] = s[k]
  <2> DEFINE j == CHOOSE k \in DOMAIN s : Address(backend, stats, k) = a
  <2>1. base[a] = s[j]
    BY <1>3
  <2>2. j \in DOMAIN s /\ Address(backend, stats, j) = a
    BY <1>3
  <2>3. QED
    BY <2>1, <2>2
<1>7. EntriesInv
  <2>1. StoreInv
    <3>1. DOMAIN base \subseteq Addresses(backend)
      BY <1>4, <1>5, <1>6 DEF Addresses
    <3>2. QED
      BY <1>1, <3>1 DEF StoreInv, IsStore
  <2>2. \A a \in DOMAIN base : base[a] \in Entry
    BY <1>4, <1>6
  <2>3. ASSUME NEW k \in Key, Has(k) PROVE k \in StatKey /\ At(k) \in EntryOf(k)
    <3>1. PICK j \in DOMAIN s : /\ Address(backend, stats, k) = Address(backend, stats, j)
                                /\ At(k) = s[j]
      BY <1>6, <2>3 DEF Has, At
    <3>2. k = j
      BY <1>1, <1>4, <1>5, <3>1, AddressesDiffer
    <3>3. QED
      BY <1>4, <3>1, <3>2
  <2>4. lag \subseteq StatKey /\ writes \in 0 .. MaxWrites
    BY <1>1, ViewsAssumption
  <2>5. QED
    BY <2>1, <2>2, <2>3, <2>4 DEF EntriesInv
<1>8. WatchInv
  BY <1>1, <1>2 DEF WatchInv
<1>9. DOMAIN got = {} /\ IsFiniteSet(DOMAIN got)
  BY <1>1, FS_EmptySet DEF Empty
<1>10. ViewsTypeOK
  <2>1. /\ backend \in Backend /\ (\A a \in DOMAIN base : base[a] \in Entry)
        /\ lag \subseteq StatKey /\ writes \in 0 .. MaxWrites
        /\ since \in [StatKey -> SUBSET Entry] /\ before \subseteq StatKey
    BY <1>7, <1>8, StoredTypes
  <2>2. Len(answer) <= TopK
    BY <1>1, ViewsAssumption
  <2>3. keys \cup todo \cup DOMAIN got \cup before \subseteq StatKey
    BY <1>1, <1>9
  <2>4. QED
    BY <1>1, <1>9, <2>1, <2>2, <2>3 DEF ViewsTypeOK
<1>11. IdleInv
  BY <1>1, <1>2 DEF IdleInv
<1>12. AnswerInv
  <2>1. DOMAIN answer = {} /\ Rows = {}
    BY <1>1 DEF Rows
  <2>2. QED
    BY <1>1, <2>1 DEF AnswerInv, RowsAreReal, OneUserPerView, NothingSettledIsMissing
<1>13. QED
  BY <1>1, <1>7, <1>8, <1>9, <1>10, <1>11, <1>12 DEF ViewsIInv, AimInv, ListInv, ReadInv

LEMMA StaysAsItWas ==
  ASSUME ViewsIInv, UNCHANGED viewsVars
  PROVE  ViewsIInv'
<1>1. UNCHANGED <<backend, base, lag, writes, call, view, prefix, cursor, keys, todo, got, who,
                  answer, before, since, failed>>
  BY DEF viewsVars
<1>2. EntriesInv'
  BY <1>1 DEF ViewsIInv, EntriesInv, StoreInv, Has, At
<1>3. WatchInv'
  BY <1>1 DEF ViewsIInv, WatchInv, Has, At
<1>4. Grows
  BY <1>1 DEF Grows, ViewsIInv, IdleInv
<1>5. QED
  BY <1>2, <1>3, <1>4, GrowsKeeps

LEMMA ViewsStep == ViewsIInv /\ [ViewsNext]_viewsVars => ViewsIInv'
<1> SUFFICES ASSUME ViewsIInv, [ViewsNext]_viewsVars PROVE ViewsIInv'
  OBVIOUS
<1>1. ASSUME NEW k \in StatKey, NEW username \in NamesIn(k), Hook(k, username)
      PROVE  ViewsIInv'
  BY <1>1, HookGrows, GrowsKeeps
<1>2. CASE Replicate
  BY <1>2, ReplicateGrows, GrowsKeeps
<1>3. ASSUME NEW f \in Foreign, ForeignWrite(f) PROVE ViewsIInv'
  BY <1>3, ForeignGrows, GrowsKeeps
<1>4. ASSUME NEW v \in View, Begin(v) PROVE ViewsIInv'
  BY <1>4, BeginKeeps
<1>5. CASE NextPage
  BY <1>5, NextPageKeeps
<1>6. CASE ListFails
  BY <1>6, ListFailsKeeps
<1>7. CASE AllRead
  BY <1>7, AllReadKeeps
<1>8. CASE Replied
  BY <1>8, RepliedKeeps
<1>9. ASSUME NEW k \in StatKey, GetEntry(k) PROVE ViewsIInv'
  BY <1>9, GetEntryKeeps
<1>10. CASE UNCHANGED viewsVars
  BY <1>10, StaysAsItWas
<1>11. QED
  BY <1>1, <1>2, <1>3, <1>4, <1>5, <1>6, <1>7, <1>8, <1>9, <1>10 DEF ViewsNext

LEMMA ViewsAreInvariant == ViewsSpec => []ViewsIInv
BY InitHolds, ViewsStep, PTL DEF ViewsSpec

(* Whatever hooks and other modules write while a view is read, and however *)
(* its pages are cut, each of its rows tells a name and a count that its    *)
(* entry held at some moment of the view, and no command is told twice      *)
(* (stats/views.go, viewTopCommands to viewCmdUsers).                       *)
THEOREM RowsAreAlwaysReal == ViewsSpec => []StatsViewsInv
<1>1. ViewsIInv => StatsViewsInv
  BY DEF ViewsIInv, AnswerInv, StatsViewsInv
<1>2. QED
  BY ViewsAreInvariant, <1>1, PTL

(* The rows of /stats user are of one user, who had the name asked for at   *)
(* some moment of the view, and of no user whose id ends in that user's     *)
(* (stats/views.go, viewUserCommands).                                      *)
THEOREM ViewsKeepToOneUser == ViewsSpec => []OneUserPerView
<1>1. ViewsIInv => OneUserPerView
  BY DEF ViewsIInv, AnswerInv
<1>2. QED
  BY ViewsAreInvariant, <1>1, PTL

(* As long as no read fails, whatever was counted and replicated before the *)
(* view began is in the reply or outranked by TopK rows that are: no page,  *)
(* no prefix of another's key and no write under way hides it               *)
(* (stats/views.go, storage/dynamodb.go).                                   *)
THEOREM NothingSettledGoesMissing == ViewsSpec => []NothingSettledIsMissing
<1>1. ViewsIInv => NothingSettledIsMissing
  BY DEF ViewsIInv, AnswerInv
<1>2. QED
  BY ViewsAreInvariant, <1>1, PTL

=============================================================================
