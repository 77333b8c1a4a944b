------------------------- MODULE MCSimulatedBenchmark -------------------------
(***************************************************************************)
(* Two samples and a cap of two attempts, as in the fixtures' policy.      *)
(***************************************************************************)
EXTENDS SimulatedBenchmark

CONSTANTS runner, server, none

TwoProcesses == {runner, server}
TwoJobs == {1, 2}

RedThenGreen == <<{"failure"}, {"success"}>>

Publishing == {"publish_fix"}

\* What may happen to the first job and to the second.
Retried  == <<Publishing \cup {"waiting", "failed"}, {}>>
Stray    == <<Publishing \cup {"monitor_gives_up", "window_expires"}, Publishing>>
Declined == <<{"rerun_pipeline", "post_provider_comment", "waiting"}, {"send_fails"}>>
Cut      == <<{"stream_ends", "continuation_send_fails", "window_expires"}, {"failed"}>>
Remerged == <<Publishing \cup {"merge_change"}, {"abandoned"}>>
Broken   == <<Publishing \cup {"server_exits"}, {"fixture_broken"}>>

SixCourses == {Retried, Stray, Declined, Cut, Remerged, Broken}

DiskFaults == {"disk_fails"}

=============================================================================
