------------------------------ MODULE Trading ------------------------------
(***************************************************************************)
(* The paper-trading module (internal/modules/trading): /trade_topup,      *)
(* /trade_buy and /trade_sell, run by concurrent goroutines ("workers") of *)
(* one or more processes against the shared key-value store.               *)
(*                                                                         *)
(* A handler is the sequence of calls the code makes.  Another worker, a   *)
(* store failure, a change of the market or the death of the process can   *)
(* fall between any two of them.  The per-user lock is the process's own   *)
(* (a keylock.Map in the module's state), so it is indexed by process.     *)
(* Rendering is left out.  Money is an integer up to MaxMoney, beyond      *)
(* which it stands for the float64 overflow that JSON cannot encode.       *)
(***************************************************************************)
EXTENDS Integers

CONSTANTS Worker, Process,
          home,             \* the process each worker runs in
          User, Ticker,
          Amount, Qty,      \* what users type, zero and less included
          Price,            \* what the market quotes
          MaxMoney,         \* the largest encodable balance
          Half,             \* 2^63, at which a share count wraps
          None              \* no user, no ticker, no price, no holder

ASSUME ConstantsAssumption ==
  /\ home \in [Worker -> Process]
  /\ Amount \subseteq Int
  /\ Qty \subseteq Int
  /\ Price \subseteq Nat \ {0}
  /\ MaxMoney \in Nat
  /\ Half \in Nat \ {0}
  /\ None \notin Worker \cup User \cup Ticker \cup Price

VARIABLES
  store,    \* the portfolio stored for each user
  syms,     \* tickers with a "sym:" entry in the store
  market,   \* the close the price service returns now, None if it has no bar
  lock,     \* per process and user: the worker that holds the lock
  pc,       \* per worker: the call its handler makes next
  req,      \* per worker: the command it handles
  quote,    \* per worker: the price fetched before locking
  copy,     \* per worker: the portfolio it loaded
  told      \* history: per user, the sum of the top-ups confirmed to them

vars == <<store, syms, market, lock, pc, req, quote, copy, told>>
local == <<quote, copy>>

NewPortfolio == [cash |-> 0, invested |-> 0, shares |-> [t \in Ticker |-> 0]]

(* A sender is absent in channel posts and anonymous; a ticker outside     *)
(* [A-Z0-9]{1,16} is None.                                                 *)
TopUpRequest == [cmd : {"topup"}, user : User \cup {None}, amount : Amount]
TradeRequest == [cmd : {"buy", "sell"}, user : User \cup {None},
                 ticker : Ticker \cup {None}, qty : Qty]
Request == TopUpRequest \cup TradeRequest

Malformed(r) ==
  \/ r.user = None
  \/ r.cmd = "topup" /\ r.amount <= 0
  \/ r.cmd # "topup" /\ (r.qty <= 0 \/ r.ticker = None)

Idle == [cmd |-> "none", user |-> None]

Init ==
  /\ store = [u \in User |-> NewPortfolio]
  /\ syms = {}
  /\ market \in [Ticker -> Price \cup {None}]
  /\ lock = [p \in Process |-> [u \in User |-> None]]
  /\ pc = [w \in Worker |-> "idle"]
  /\ req = [w \in Worker |-> Idle]
  /\ quote = [w \in Worker |-> None]
  /\ copy = [w \in Worker |-> NewPortfolio]
  /\ told = [u \in User |-> 0]

Goto(w, label) == pc' = [pc EXCEPT ![w] = label]

----------------------------------------------------------------------------
(* Portfolio arithmetic. *)

Int64(x) == ((x + Half) % (2 * Half)) - Half

(* json.Marshal refuses the infinities a float64 sum overflows to. *)
Encodable(p) == p.cash <= MaxMoney /\ p.invested <= MaxMoney

ToppedUp(p, amount) ==
  [p EXCEPT !.cash = @ + amount, !.invested = @ + amount]

Bought(p, t, qty, price) ==
  [p EXCEPT !.cash = @ - qty * price, !.shares[t] = Int64(@ + qty)]

Sold(p, t, qty, price) ==
  [p EXCEPT !.cash = @ + qty * price, !.shares[t] = @ - qty]

(* DeductCurrency forgotten: the cost is never compared with the balance.  *)
CoveredBuyUnchecked(r, p, price) ==
  r.cmd = "sell" => p.shares[r.ticker] >= r.qty

(* DeductCurrency and DeductAsset refuse what the balance does not cover.  *)
Covered(r, p, price) ==
  CASE r.cmd = "topup" -> TRUE
    [] r.cmd = "buy"   -> p.cash >= r.qty * price
    [] r.cmd = "sell"  -> p.shares[r.ticker] >= r.qty

Applied(r, p, price) ==
  CASE r.cmd = "topup" -> ToppedUp(p, r.amount)
    [] r.cmd = "buy"   -> Bought(p, r.ticker, r.qty, price)
    [] r.cmd = "sell"  -> Sold(p, r.ticker, r.qty, price)

----------------------------------------------------------------------------
(* The steps of a handler. *)

(* Arguments are parsed at once.  A trade resolves its ticker and fetches  *)
(* the price before it locks; a top-up locks right away.                   *)
Receive(w, r) ==
  /\ pc[w] = "idle"
  /\ req' = [req EXCEPT ![w] = r]
  /\ Goto(w, IF Malformed(r) THEN "usage"
             ELSE IF r.cmd = "topup" THEN "lock" ELSE "resolve")
  /\ UNCHANGED <<store, syms, market, lock, local, told>>

(* ResolveSymbol: a cached ticker is trusted, a miss is validated by       *)
(* fetching its price, and a failed write of the cache is ignored.         *)
Resolve(w) ==
  /\ pc[w] = "resolve"
  /\ \/ Goto(w, IF req[w].ticker \in syms THEN "quote" ELSE "validate")
     \/ Goto(w, "usage")                                  \* cache read failed
  /\ UNCHANGED <<store, syms, market, lock, req, local, told>>

Validate(w) ==
  /\ pc[w] = "validate"
  /\ \/ market[req[w].ticker] # None /\ Goto(w, "cache")
     \/ Goto(w, "usage")                       \* ErrNoPrice or a failed fetch
  /\ UNCHANGED <<store, syms, market, lock, req, local, told>>

Cache(w) ==
  /\ pc[w] = "cache"
  /\ syms' \in {syms, syms \cup {req[w].ticker}}
  /\ Goto(w, "quote")
  /\ UNCHANGED <<store, market, lock, req, local, told>>

(* A close of zero, or none, taken for a price. *)
FetchAnyClose(w) ==
  /\ pc[w] = "quote"
  /\ quote' = [quote EXCEPT ![w] = market[req[w].ticker]]
  /\ Goto(w, "lock")
  /\ UNCHANGED <<store, syms, market, lock, req, copy, told>>

FetchPrice(w) ==
  /\ pc[w] = "quote"
  /\ \/ /\ market[req[w].ticker] # None
        /\ quote' = [quote EXCEPT ![w] = market[req[w].ticker]]
        /\ Goto(w, "lock")
     \/ Goto(w, "usage") /\ UNCHANGED quote
  /\ UNCHANGED <<store, syms, market, lock, req, copy, told>>

Free(w) == lock[home[w]][req[w].user] = None

(* Get, compute, Put with no lock around them. *)
FreeAlways(w) == TRUE

CanLock(w) == Free(w)

Acquire(w) ==
  /\ pc[w] = "lock"
  /\ CanLock(w)
  /\ lock' = [lock EXCEPT ![home[w]][req[w].user] = w]
  /\ Goto(w, "load")
  /\ UNCHANGED <<store, syms, market, req, local, told>>

Load(w) ==
  /\ pc[w] = "load"
  /\ \/ copy' = [copy EXCEPT ![w] = store[req[w].user]] /\ Goto(w, "save")
     \/ Goto(w, "refuse") /\ UNCHANGED copy
  /\ UNCHANGED <<store, syms, market, lock, req, quote, told>>

(* The computation is local, so it belongs to the step of the Put.  A Put  *)
(* that reports an error may have been applied (the answer was lost) or    *)
(* not; one that does not encode was not sent.                             *)
Save(w) ==
  LET u == req[w].user
      p == Applied(req[w], copy[w], quote[w])
  IN  /\ pc[w] = "save"
      /\ Covered(req[w], copy[w], quote[w])
      /\ \/ /\ Encodable(p)
            /\ store' = [store EXCEPT ![u] = p]
            /\ \/ Goto(w, "confirm") /\ copy' = [copy EXCEPT ![w] = p]
               \/ Goto(w, "refuse") /\ UNCHANGED copy
         \/ Goto(w, "refuse") /\ UNCHANGED <<store, copy>>
      /\ UNCHANGED <<syms, market, lock, req, quote, told>>

Insufficient(w) ==
  /\ pc[w] = "save"
  /\ ~Covered(req[w], copy[w], quote[w])
  /\ Goto(w, "refuse")
  /\ UNCHANGED <<store, syms, market, lock, req, local, told>>

Forget(w) ==
  /\ Goto(w, "idle")
  /\ req' = [req EXCEPT ![w] = Idle]
  /\ quote' = [quote EXCEPT ![w] = None]
  /\ copy' = [copy EXCEPT ![w] = NewPortfolio]

(* A reply that needed no lock: usage, unknown ticker, no price.           *)
ReplyUnlocked(w) ==
  /\ pc[w] = "usage"
  /\ Forget(w)
  /\ UNCHANGED <<store, syms, market, lock, told>>

Unlocked(w) == [lock EXCEPT ![home[w]][req[w].user] = None]

(* Unlock by hand, forgotten on the early returns. *)
UnlockedOnSuccess(w) ==
  IF pc[w] = "confirm" THEN Unlocked(w) ELSE lock

AfterReply(w) == Unlocked(w)

(* The reply is sent under the lock: the unlock is deferred. *)
ReplyAndUnlock(w) ==
  /\ pc[w] \in {"confirm", "refuse"}
  /\ told' = IF pc[w] = "confirm" /\ req[w].cmd = "topup"
             THEN [told EXCEPT ![req[w].user] = @ + req[w].amount] ELSE told
  /\ lock' = AfterReply(w)
  /\ Forget(w)
  /\ UNCHANGED <<store, syms, market>>

----------------------------------------------------------------------------
(* The world. *)

(* The market moves; a suspended ticker has no price. *)
MarketMoves(t) ==
  /\ market' \in {[market EXCEPT ![t] = x] : x \in Price \cup {None}}
  /\ UNCHANGED <<store, syms, lock, pc, req, local, told>>

(* A process dies: its workers and its locks go, the store stays.          *)
Crash(p) ==
  LET gone(f, x) == [w \in Worker |-> IF home[w] = p THEN x ELSE f[w]]
  IN  /\ pc' = gone(pc, "idle")
      /\ req' = gone(req, Idle)
      /\ quote' = gone(quote, None)
      /\ copy' = gone(copy, NewPortfolio)
      /\ lock' = [lock EXCEPT ![p] = [u \in User |-> None]]
      /\ UNCHANGED <<store, syms, market, told>>

Handle(w) ==
  \/ Resolve(w) \/ Validate(w) \/ Cache(w) \/ FetchPrice(w)
  \/ Acquire(w) \/ Load(w) \/ Save(w) \/ Insufficient(w)
  \/ ReplyUnlocked(w) \/ ReplyAndUnlock(w)

Next ==
  \/ \E w \in Worker : \E r \in Request : Receive(w, r)
  \/ \E w \in Worker : Handle(w)
  \/ \E t \in Ticker : MarketMoves(t)
  \/ \E p \in Process : Crash(p)

Spec == Init /\ [][Next]_vars

----------------------------------------------------------------------------
(* Properties.  Those that relate the lock to the store hold when all      *)
(* workers share one process, the deployment the code is written for.      *)

OneProcess == \A v, w \in Worker : home[v] = home[w]

Portfolio == [cash : Int, invested : Int, shares : [Ticker -> Int]]

Locking == {"load", "save", "confirm", "refuse"}    \* the lock is held
Trades == {"resolve", "validate", "cache", "quote"} \* before the lock

(* The values the variables take, and which request is at which label.     *)
TypeOK ==
  /\ store \in [User -> Portfolio]
  /\ syms \subseteq Ticker
  /\ market \in [Ticker -> Price \cup {None}]
  /\ lock \in [Process -> [User -> Worker \cup {None}]]
  /\ pc \in [Worker -> {"idle", "usage", "lock"} \cup Trades \cup Locking]
  /\ req \in [Worker -> Request \cup {Idle}]
  /\ quote \in [Worker -> Price \cup {None}]
  /\ copy \in [Worker -> Portfolio]
  /\ told \in [User -> Int]
  /\ \A w \in Worker :
       /\ pc[w] \in {"lock"} \cup Trades \cup Locking =>
            req[w] \in Request /\ ~Malformed(req[w])
       /\ pc[w] \in Trades => req[w].cmd # "topup"
       /\ pc[w] \in {"lock"} \cup Locking /\ req[w].cmd # "topup" =>
            quote[w] \in Price

(* The lock names the one worker of its process that is past Acquire for   *)
(* the user, and is free otherwise: no return path, error or crash leaves  *)
(* a user locked out.                                                      *)
LockMatchesHolder ==
  /\ \A w \in Worker :
       pc[w] \in Locking => lock[home[w]][req[w].user] = w
  /\ \A p \in Process, u \in User : \A w \in Worker :
       lock[p][u] = w => home[w] = p /\ pc[w] \in Locking /\ req[w].user = u

(* The portfolio a worker is about to change, or has just reported to the  *)
(* user as saved, is the one in the store: nobody wrote between its Get    *)
(* and its Put, nor before its reply was out.  (keylock.go:4-8 claims this *)
(* of every game and trading handler.)                                     *)
CopyIsCurrent ==
  \A w \in Worker :
    pc[w] \in {"save", "confirm"} => copy[w] = store[req[w].user]

(* No sequence of commands, failures and crashes leaves a user in debt.    *)
NoOverdraft == \A u \in User : store[u].cash >= 0

(* A top-up the bot has confirmed is never lost, whatever other handlers,  *)
(* failed writes and crashes do: the invested total covers every confirmed *)
(* amount, the one of a reply under way included.                          *)
ConfirmedTopUpsKept ==
  /\ \A u \in User : told[u] <= store[u].invested
  /\ \A w \in Worker :
       pc[w] = "confirm" /\ req[w].cmd = "topup" =>
         told[req[w].user] + req[w].amount <= store[req[w].user].invested

(* Every change of the store is one operation of the ledger, computed from *)
(* the balance it replaces: handlers that interleave, fail or die in the   *)
(* middle never apply half an operation or apply one to a stale balance.   *)
L == INSTANCE Ledger WITH account <- store
ImplementsLedger == L!Spec

(* What is sold was held when it was sold, not only when it was looked up   *)
(* (DeductAsset, portfolio.go:108): a holding that shrinks ends at zero or  *)
(* more.  The exception is a purchase that carries the count in the store   *)
(* past the largest int64, which makes it negative (portfolio.go:102).  The *)
(* ledger promises this, so ImplementsLedger covers it.                     *)
HoldingsCoverSales ==
  [][\A u \in User, t \in Ticker :
       LET held == store[u].shares[t]
           left == store'[u].shares[t]
       IN  left < held =>
             \/ left >= 0
             \/ \E qty \in Qty : 0 < qty /\ Half <= held + qty
                                   /\ left = Int64(held + qty)]_store

(* With the types: what the lock is for.                                   *)
TradingInv == TypeOK /\ LockMatchesHolder /\ CopyIsCurrent /\ NoOverdraft

============================================================================
