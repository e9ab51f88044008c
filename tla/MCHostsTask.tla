----------------------------- MODULE MCHostsTask -----------------------------
(* Instances of HostsTask for TLC.                                         *)
EXTENDS HostsTask

\* number_of_concurrent_tasks as the violation run configures it.
CONSTANT TaskLimit

\* At most TaskLimit hosts are scanned at a time, as etc/nvtengine.conf:2 says.
WithinTaskLimit == ConcurrencyLimit(TaskLimit)

=============================================================================
