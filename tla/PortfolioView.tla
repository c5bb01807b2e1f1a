---------------------------- MODULE PortfolioView ----------------------------
(***************************************************************************)
(* Settlement with one who reads its books while they change: a handler of *)
(* GET /api/portfolio (ApiServer.cpp) or the UI thread that draws the      *)
(* header (DisplayManager.cpp).  Every getter of PositionManager locks the *)
(* mutex for itself, and total_pnl() is two of them: a trade may be booked *)
(* and a position be marked in between.  The figures that are one read are *)
(* left out: each of them was true when it was read.                       *)
(***************************************************************************)
EXTENDS Settlement

VARIABLES reading,   \* total_pnl() has read the realized PnL
          realized,  \* what it read
          totals     \* history: what the total PnL was since

view == <<reading, realized, totals>>

TotalPnl == realized_pnl + UnrealizedPnl

ViewInit ==
    /\ Init
    /\ reading = FALSE
    /\ realized = 0
    /\ totals = {}

ReadRealized ==
    /\ ~reading
    /\ reading' = TRUE
    /\ realized' = realized_pnl
    /\ totals' = {TotalPnl}
    /\ UNCHANGED vars

\* The sum of both reads goes to the reply, and is forgotten.
ReadUnrealized ==
    /\ reading
    /\ reading' = FALSE
    /\ realized' = 0
    /\ totals' = {}
    /\ UNCHANGED vars

\* Any step of Settlement, which knows nothing of the reader.
Watched ==
    /\ Next
    /\ UNCHANGED <<reading, realized>>
    /\ totals' = IF reading THEN totals \cup {TotalPnl'} ELSE totals

ViewNext == Watched \/ ReadRealized \/ ReadUnrealized

\* The PnL thread keeps running.
ViewSpec == ViewInit /\ [][ViewNext]_<<vars, view>> /\ WF_vars(PnlStep)

-----------------------------------------------------------------------------

\* The total PnL that a client or the screen is shown was the total PnL at some
\* moment of the request, although a BUY, a SELL or a mark may come between the
\* two reads (PositionManager.cpp:93-95): RoundTrips makes one of them constant.
TotalPnlIsReal ==
    [][ReadUnrealized => realized + UnrealizedPnl \in totals]_<<vars, view>>
=============================================================================
