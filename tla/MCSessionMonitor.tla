--------------------------- MODULE MCSessionMonitor ---------------------------
EXTENDS SessionMonitor, TLC

AllFaults == FaultKinds

IntactStream == {"times_out", "stream_breaks"}

=============================================================================
