----------------------------- MODULE MCDashboard -----------------------------
(* TLC instance of Dashboard: its constants are in Dashboard.cfg. *)
EXTENDS Dashboard
=============================================================================
