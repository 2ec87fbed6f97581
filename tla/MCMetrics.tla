------------------------------ MODULE MCMetrics -------------------------------
(***************************************************************************)
(* MCController with the gauges beside it.                                 *)
(***************************************************************************)
EXTENDS MCController, Metrics

ObservedInit == MetricsInit /\ events = 0

MetricsNext ==
    \/ ObservedWork /\ UNCHANGED events
    \/ ((Deliver /\ UNCHANGED events) \/ Others) /\ UNCHANGED series
    \/ ObservedRestart /\ Happens("restart")

MetricsSpec == ObservedInit /\ [][MetricsNext]_<<vars, events, series>>
=============================================================================
