------------------------------ MODULE OrderBook ------------------------------
(***************************************************************************)
(* src/engine/OrderBook.cpp and the comparators of                         *)
(* include/engine/OrderBook.hpp: one side of a book is a priority queue of *)
(* resting orders.  It is modelled as the set of those orders; top() is any*)
(* order that no other outranks, so that orders with equal price and equal *)
(* timestamp, which the comparators leave unordered, may come out in any   *)
(* order.  Prices and quantities are integers in units of a tick and of a  *)
(* share lot; the tolerance 1e-9 of the code is then the comparison with 0.*)
(***************************************************************************)
EXTENDS Integers

Side == {"BUY", "SELL"}

Opposite(side) == IF side = "BUY" THEN "SELL" ELSE "BUY"

Remaining(o) == o.quantity - o.filled

\* BidComparator and AskComparator: the better price first, then the earlier
\* timestamp.
Outranks(side, a, b) ==
    \/ side = "BUY"  /\ a.price > b.price
    \/ side = "SELL" /\ a.price < b.price
    \/ a.price = b.price /\ a.timestamp < b.timestamp

\* Mutant: the comparators forget the timestamp.
TopByPrice(side, orders) ==
    {o \in orders : \A p \in orders :
        ~(Outranks(side, p, o) /\ p.price # o.price)}

\* best_bid() / best_ask(): the orders priority_queue::top() may return.
Top(side, orders) == {o \in orders : \A p \in orders : ~Outranks(side, p, o)}

\* add_order()
AddOrder(orders, o) == orders \cup {o}

\* Mutants: a spent order is pushed back; the rest of an order is not.
UpdateTopKeepsSpent(orders, top, updated) == (orders \ {top}) \cup {updated}

UpdateTopDropsRest(orders, top, updated) == orders \ {top}

\* update_top_bid() / update_top_ask(): pop the top, and push its updated copy
\* back unless nothing of it remains.
UpdateTop(orders, top, updated) ==
    (orders \ {top}) \cup {o \in {updated} : Remaining(o) > 0}
=============================================================================
