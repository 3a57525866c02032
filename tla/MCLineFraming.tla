---- MODULE MCLineFraming ----
EXTENDS LineFraming

\* A scaled-down set of defaults: a kilobyte is two bytes.
MCKiB == 2
MCBuiltIn ==
  [max_read |-> 2, max_output |-> 1, max_concurrency |-> 2, approval_mode |-> "elicitation",
   timeout_seconds |-> 1800, startup_timeout_seconds |-> 120, turn_cancel_timeout_seconds |-> 10,
   local_process_terminate_timeout_seconds |-> 10, remote_ssh_cleanup_timeout_seconds |-> 20,
   stdout_overflow_retry_tolerance |-> 1, stderr_tail_buffer_size |-> 2]

\* Lines of every kind of key, with values of every kind.
Values == {Number(1, FALSE, ""), Number(0, FALSE, ""), Number(1, TRUE, ""), Number(0, TRUE, ""),
           Number(1, FALSE, "b"), Number(1, FALSE, "kb"), Number(1, FALSE, "kib"),
           Number(1, FALSE, "mb"), Number(1, FALSE, "gib"), Number(1, FALSE, "tb"), Word("compatible"), Word("always")}
Keys == {"max_read", "stderr_tail_buffer_size", "stdout_overflow_retry_tolerance",
         "timeout_seconds", "approval_mode", "retries"}
Lines == {Blank, Malformed} \cup {Entry(k, v) : k \in Keys, v \in Values}
MCFiles == {<<>>} \cup {<<l>> : l \in Lines}
             \cup {<<k, l>> : k \in Lines, l \in {Blank, Entry("max_read", Number(1, FALSE, ""))}}

MCArguments == {<<>>, [max_read |-> 1], [max_read |-> 0], [approval_mode |-> "always"],
                [max_read |-> 3, approval_mode |-> "compatible"]}
====
