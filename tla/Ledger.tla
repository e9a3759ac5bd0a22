------------------------------- MODULE Ledger -------------------------------
(***************************************************************************)
(* What the trading module promises a user: a ledger on which every        *)
(* top-up, purchase and sale happens at once and exactly as computed from  *)
(* the balance it finds, and a purchase or sale the balance does not cover *)
(* does not happen.  Trading implements it with a Get, a computation and a *)
(* Put under a per-user lock.                                              *)
(***************************************************************************)
EXTENDS Integers

CONSTANTS User, Ticker,
          Amount,    \* the amounts users type
          Qty,       \* the share counts users type
          Price,     \* the prices the market quotes
          Half       \* 2^63: share counts are int64 and wrap at it

VARIABLE account     \* per user: [cash, invested, shares]

EmptyAccount == [cash |-> 0, invested |-> 0, shares |-> [t \in Ticker |-> 0]]

Init == account = [u \in User |-> EmptyAccount]

(* int64 arithmetic. *)
Int64(x) == ((x + Half) % (2 * Half)) - Half

TopUp(u, amount) ==
  /\ amount > 0
  /\ account' = [account EXCEPT ![u].cash = @ + amount,
                                ![u].invested = @ + amount]

Buy(u, t, qty, price) ==
  /\ qty > 0
  /\ account[u].cash >= qty * price
  /\ account' = [account EXCEPT ![u].cash = @ - qty * price,
                                ![u].shares[t] = Int64(@ + qty)]

Sell(u, t, qty, price) ==
  /\ qty > 0
  /\ account[u].shares[t] >= qty
  /\ account' = [account EXCEPT ![u].cash = @ + qty * price,
                                ![u].shares[t] = @ - qty]

Next ==
  \E u \in User :
    \/ \E amount \in Amount : TopUp(u, amount)
    \/ \E t \in Ticker, qty \in Qty, price \in Price :
         Buy(u, t, qty, price) \/ Sell(u, t, qty, price)

Spec == Init /\ [][Next]_account

============================================================================
