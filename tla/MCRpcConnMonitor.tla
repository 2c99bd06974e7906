-------------------------- MODULE MCRpcConnMonitor --------------------------
EXTENDS RpcConnMonitor

\* A time-out without a limit, so that several connections are expelled at once, and
\* a limit without a time-out, so that one makes room for the other.
EitherSetting ==
  {[timeout_flag |-> TRUE, timeout |-> 1, max_limit_flag |-> FALSE, max_limit |-> 0],
   [timeout_flag |-> FALSE, timeout |-> 0, max_limit_flag |-> TRUE, max_limit |-> 1]}
=============================================================================
