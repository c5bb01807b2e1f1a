------------------------------ MODULE Dashboard ------------------------------
(***************************************************************************)
(* frontend/app.js, one page of it, with what it asks of ApiServer.cpp and *)
(* DisplayManager.cpp.  The page polls every 500 ms and gives a request up *)
(* after 800 ms: polls overlap and their replies come in any order.  Of    *)
(* the five requests of a poll, each on its own, only /trades adds to what *)
(* the page has from earlier ones.  An order is posted by a button that is *)
(* disabled until the answer or the timeout.  main() may shut the queue of *)
(* orders down while the API server, which it joins last, still serves.    *)
(***************************************************************************)
EXTENDS Naturals, Sequences, FiniteSets

CONSTANTS Id,               \* ids of buy orders
          max_trades,       \* of DisplayManager: 10
          FeedLength,       \* fills that the page lists: 40
          MaxPolls,         \* polls that overlap: 2
          MaxFills, MaxClicks   \* bounds: fills, orders posted

\* Entries of a trade list: n tells apart fills of one buy order, which the page
\* cannot.
Fill == [id : Id, n : 1..MaxFills]

Polls == 1..MaxPolls

ASSUME DashboardAssumption ==
    /\ max_trades \in Nat \ {0}
    /\ {FeedLength, MaxFills, MaxClicks, MaxPolls} \subseteq Nat

VARIABLES recent_trades, fills, again,  \* DisplayManager's list; fills so far;
                                        \* whether the last is to be booked again
          connected,                    \* tryConnect() succeeded
          trades,                       \* per poll: its request of /trades
          seenTradeIds, allFills,       \* what the page has listed
          post,                         \* the order form: none, sent, answered
          adrift,                       \* posts given up that may yet arrive
          queued, dropped,              \* history: orders pushed for the page, and
                                        \* those that push() dropped
          clicks, accepted, unreachable,\* posts so far, and what the page said
          queue_down,                   \* shutdown_ of order_queue
          serving                       \* run() of the server has not returned

display == <<recent_trades, fills, again>>
feed == <<trades, seenTradeIds, allFills>>
form == <<post, adrift, queued, dropped, clicks, accepted, unreachable>>
backend == <<queue_down, serving>>
pageVars == <<display, connected, feed, form, backend>>

\* A request is not made, on its way, or answered.
PageTypeOK ==
    /\ recent_trades \in Seq(Fill) /\ Len(recent_trades) <= max_trades
    /\ fills \in 0..MaxFills /\ again \in BOOLEAN
    /\ connected \in BOOLEAN
    /\ trades \in [Polls -> [at : {"none", "sent", "answered"}, reply : Seq(Fill)]]
    /\ seenTradeIds \subseteq Id
    /\ allFills \in Seq(Fill) /\ Len(allFills) <= FeedLength
    /\ post \in {"none", "sent", "answered"}
    /\ {adrift, queued, dropped, clicks, accepted, unreachable} \subseteq 0..MaxClicks
    /\ queue_down \in BOOLEAN /\ serving \in BOOLEAN

NoRequest == [at |-> "none", reply |-> <<>>]

PageInit ==
    /\ recent_trades = <<>> /\ fills = 0 /\ again = FALSE
    /\ connected = FALSE
    /\ trades = [k \in Polls |-> NoRequest]
    /\ seenTradeIds = {} /\ allFills = <<>>
    /\ post = "none"
    /\ adrift = 0 /\ queued = 0 /\ dropped = 0
    /\ clicks = 0 /\ accepted = 0 /\ unreachable = 0
    /\ queue_down = FALSE /\ serving = TRUE

Shorter(s, length) == SubSeq(s, 1, IF Len(s) < length THEN Len(s) ELSE length)

-----------------------------------------------------------------------------
(* The server: the PnL thread books every fill twice (Settlement) *)

OnTrade(fill) == recent_trades' = Shorter(<<fill>> \o recent_trades, max_trades)

BookFill(id) ==
    /\ ~again
    /\ fills < MaxFills
    /\ fills' = fills + 1
    /\ OnTrade([id |-> id, n |-> fills'])
    /\ again' = TRUE
    /\ UNCHANGED <<connected, feed, form, backend>>

BookAgain ==
    /\ again
    /\ OnTrade(recent_trades[1])
    /\ again' = FALSE
    /\ UNCHANGED <<fills, connected, feed, form, backend>>

-----------------------------------------------------------------------------
(* tryConnect() and poll() *)

\* Until it succeeds it is tried again, every 2 s.
Connect ==
    /\ ~connected
    /\ serving
    /\ connected' = TRUE
    /\ UNCHANGED <<display, feed, form, backend>>

Poll(k) ==
    /\ connected
    /\ trades[k].at = "none"
    /\ trades' = [trades EXCEPT ![k].at = "sent"]
    /\ UNCHANGED <<display, connected, seenTradeIds, allFills, form, backend>>

-----------------------------------------------------------------------------
(* pollTrades() *)

\* GET /api/trades
AnswerTrades(k) ==
    /\ serving
    /\ trades[k].at = "sent"
    /\ trades' = [trades EXCEPT ![k] = [at |-> "answered", reply |-> recent_trades]]
    /\ UNCHANGED <<display, connected, seenTradeIds, allFills, form, backend>>

EndTrades(k) == trades' = [trades EXCEPT ![k] = NoRequest]

ListFills(newFills) ==
    /\ seenTradeIds' = seenTradeIds \cup {newFills[i].id : i \in DOMAIN newFills}
    /\ allFills' = Shorter(newFills \o allFills, FeedLength)

Unseen(fill) == fill.id \notin seenTradeIds

\* The entries of a list that are unseen, in its order: list.filter().
Filtered(list) ==
    LET kept[i \in 0..Len(list)] ==
          IF i = 0 THEN <<>>
          ELSE IF Unseen(list[i]) THEN Append(kept[i - 1], list[i]) ELSE kept[i - 1]
    IN kept[Len(list)]

\* Mutant: what was listed is not filtered out.
ReceiveTradesAll(k) ==
    /\ trades[k].at = "answered"
    /\ ListFills(trades[k].reply)
    /\ EndTrades(k)
    /\ UNCHANGED <<display, connected, form, backend>>

\* Mutant: only the newest fill of a reply is looked at.
ReceiveTradesNewest(k) ==
    /\ trades[k].at = "answered"
    /\ ListFills(Filtered(Shorter(trades[k].reply, 1)))
    /\ EndTrades(k)
    /\ UNCHANGED <<display, connected, form, backend>>

\* What follows the await is not interrupted.  Within one reply an id may be new
\* more than once.
ReceiveTrades(k) ==
    /\ trades[k].at = "answered"
    /\ ListFills(Filtered(trades[k].reply))
    /\ EndTrades(k)
    /\ UNCHANGED <<display, connected, form, backend>>

\* It timed out, or failed.
LoseTrades(k) ==
    /\ trades[k].at # "none"
    /\ EndTrades(k)
    /\ UNCHANGED <<display, connected, seenTradeIds, allFills, form, backend>>

-----------------------------------------------------------------------------
(* placeOrder() *)

PlaceOrder ==
    /\ connected
    /\ post = "none"
    /\ clicks < MaxClicks
    /\ clicks' = clicks + 1
    /\ post' = "sent"
    /\ UNCHANGED <<display, connected, feed, adrift, queued, dropped, accepted,
                   unreachable, backend>>

\* POST /api/order pushes and answers "accepted", whatever push() did: it drops
\* the order once the queue is shut down.
ServeOrder ==
    /\ serving
    /\ IF queue_down
       THEN dropped' = dropped + 1 /\ UNCHANGED queued
       ELSE queued' = queued + 1 /\ UNCHANGED dropped
    /\ UNCHANGED <<display, connected, feed, clicks, accepted, unreachable, backend>>

PostArrives ==
    /\ post = "sent"
    /\ post' = "answered"
    /\ ServeOrder
    /\ UNCHANGED adrift

ReceivePost ==
    /\ post = "answered"
    /\ post' = "none"
    /\ accepted' = accepted + 1
    /\ UNCHANGED <<display, connected, feed, adrift, queued, dropped, clicks,
                   unreachable, backend>>

\* Where a request that is given up is: it may still arrive, or it has arrived.
GiveUp ==
    /\ post # "none"
    /\ adrift' = adrift + (IF post = "sent" THEN 1 ELSE 0)
    /\ UNCHANGED <<display, connected, feed, queued, dropped, clicks, accepted, backend>>

\* Mutant: after the timeout the order is posted again.
LosePostRetries ==
    /\ GiveUp
    /\ adrift < MaxClicks
    /\ post' = "sent"
    /\ UNCHANGED unreachable

\* After 2 s, or when there is no server: "Backend unreachable".
LosePost ==
    /\ GiveUp
    /\ post' = "none"
    /\ unreachable' = unreachable + 1

\* A request that the page gave up is served all the same.
AdriftArrives ==
    /\ adrift > 0
    /\ adrift' = adrift - 1
    /\ ServeOrder
    /\ UNCHANGED post

-----------------------------------------------------------------------------
(* The end: after a signal, main() shuts order_queue down when the strategy
   thread has ended, and the server ends on its own, before or after that.  main()
   does not wait for the server until its last join. *)

ShutdownQueue ==
    /\ ~queue_down
    /\ queue_down' = TRUE
    /\ UNCHANGED <<display, connected, feed, form, serving>>

\* listen() returns, after the last handler.
StopServing ==
    /\ serving
    /\ serving' = FALSE
    /\ UNCHANGED <<display, connected, feed, form, queue_down>>

-----------------------------------------------------------------------------

PageNext ==
    \/ \E id \in Id : BookFill(id)
    \/ BookAgain
    \/ Connect
    \/ \E k \in Polls :
         \/ Poll(k)
         \/ AnswerTrades(k) \/ ReceiveTrades(k) \/ LoseTrades(k)
    \/ PlaceOrder \/ PostArrives \/ ReceivePost \/ LosePost \/ AdriftArrives
    \/ ShutdownQueue \/ StopServing

PageSpec == PageInit /\ [][PageNext]_pageVars

\* The page polls as long as it is open, and its requests end.  Not all of them
\* are lost: of replies that come again and again some come in time.
PageFairSpec ==
    /\ PageSpec
    /\ WF_pageVars(Connect)
    /\ \A k \in Polls :
         /\ WF_pageVars(Poll(k))
         /\ SF_pageVars(AnswerTrades(k))
         /\ SF_pageVars(ReceiveTrades(k))

-----------------------------------------------------------------------------
(* Properties *)

\* How often a list has the n-th fill, and how often the server booked it.
Copies(list, n) == Cardinality({i \in DOMAIN list : list[i].n = n})
TimesBooked(n) == IF n > fills THEN 0 ELSE IF n = fills /\ again THEN 1 ELSE 2

\* However the replies of overlapping polls are ordered, the page lists a fill at
\* most as often as the server booked it.
FeedWithinBooked ==
    \A n \in 1..MaxFills : Copies(allFills, n) <= TimesBooked(n)

\* A buy order with a fill among the server's recent trades gets into the feed, or
\* its fills are pushed out of the recent trades first, or the server ends.
FillsGetShown ==
    \A id \in Id :
        LET Recent == \E i \in DOMAIN recent_trades : recent_trades[i].id = id
        IN Recent ~> (id \in seenTradeIds \/ ~Recent \/ ~serving)

\* However requests and answers are lost or late, no more orders reach push() than
\* the page has reported, as accepted or as unreachable, but for one whose answer is
\* on its way.  And what it has reported as accepted was queued, all of it until the
\* queue is shut down, and but for what push() dropped from then on.
OrdersAccountedFor ==
    /\ queued + dropped
          <= accepted + unreachable + (IF post = "answered" THEN 1 ELSE 0)
    /\ accepted <= queued + (IF queue_down THEN dropped ELSE 0)
=============================================================================
