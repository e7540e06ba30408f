----------------------------- MODULE RunnerProofs -----------------------------
(***************************************************************************)
(* Three invariants of module Runner for every set of configurations, any  *)
(* number of attempts and any environment: TypeOK, NothingLeftOver and     *)
(* EndsOnlyWhenAsked.                                                      *)
(***************************************************************************)
EXTENDS Runner, TLAPS

\* Nothing of an attempt is there without runner_op, and no ping or timer of
\* the health checker without check_health_op.
AttemptInv ==
    /\ rec # "running" => step = "off" /\ hello = "off" /\ health = "off"
    /\ health # "checking" => ping \in {"off", "exited"} /\ chk \in {"off", "exited"}

\* What makes reconnection_op give up was asked for.
AskedInv ==
    /\ cancelled \/ rec = "aborted" => asked
    /\ rec # "off" /\ ~will_reconnect => asked \/ ~cfg.reconnect
    /\ EndsOnlyWhenAsked

RunnerInv == TypeOK /\ AttemptInv /\ AskedInv

\* cancel(operation::run) ends the exec_op of the requests in done, and of no
\* other request: it at most marks it.
LEMMA CancelRunRequests ==
  ASSUME TypeOK, NEW done \in SUBSET Requests, cancel_run(done)
  PROVE  /\ rq' \in [Requests -> {"none", "waiting", "written", "answered", "stopped"}]
         /\ \A r \in Requests : rq'[r] # "none" <=> rq[r] # "none" /\ r \notin done
         /\ open' \in BOOLEAN /\ cancel_run_called' \in BOOLEAN
BY Zenon DEF TypeOK, cancel_run, stopped_requests

\* exec_op of r ends.
LEMMA ExecOpEndsRequests ==
  ASSUME TypeOK, NEW r \in Requests, exec_op_ends(r)
  PROVE  /\ rq' \in [Requests -> {"none", "waiting", "written", "answered", "stopped"}]
         /\ \A q \in Requests : rq'[q] # "none" <=> rq[q] # "none" /\ q # r
         /\ open' \in BOOLEAN /\ cancel_run_called' \in BOOLEAN
BY Zenon DEF TypeOK, exec_op_ends

\* The session, and the steps of run_all_op before it.
LEMMA RunAllStep ==
  ASSUME RunnerInv,
         \/ \E r \in Requests : writes(r)
         \/ \E r \in Requests, a \in {"value", "error"} : answers(r, a)
         \/ SessionNext \/ TimedNext \/ step_timer_completes \/ RunAllNext
  PROVE  RunnerInv'
<1> USE DEF rec_vars, run_all_vars, health_vars, conn_vars, reply_vars, Requests, Timer
<1>t. TypeOK /\ AttemptInv /\ AskedInv
  BY Zenon DEF RunnerInv
<1>1. ASSUME NEW r \in Requests, writes(r) PROVE RunnerInv'
  BY <1>t, <1>1 DEF RunnerInv, TypeOK, AttemptInv, AskedInv, EndsOnlyWhenAsked, writes
<1>2. ASSUME NEW r \in Requests, NEW a \in {"value", "error"}, answers(r, a) PROVE RunnerInv'
  BY <1>t, <1>2 DEF RunnerInv, TypeOK, AttemptInv, AskedInv, EndsOnlyWhenAsked, answers
<1>3. CASE run_op_fails
  <2>1. cancel_run({})
    BY <1>3, Zenon DEF run_op_fails
  <2> QED
    BY <1>t, <1>3, <2>1, CancelRunRequests
    DEF RunnerInv, TypeOK, AttemptInv, AskedInv, EndsOnlyWhenAsked, run_op_fails
<1>4. CASE run_op_cancelled
  BY <1>t, <1>4 DEF RunnerInv, TypeOK, AttemptInv, AskedInv, EndsOnlyWhenAsked, run_op_cancelled
<1>5. CASE TimedNext
  <2>1. PICK s \in Timed, c \in BOOLEAN : timed_op_completes(s, c)
    BY <1>t, <1>5, Zenon
    DEF TypeOK, Timed, TimedNext, async_resolve_completes, async_connect_completes,
        async_handshake_completes
  <2>2. first' \in {"none", "ok", "failed", "timer"} /\ both' \in BOOLEAN
    BY <1>t, <2>1, Zenon DEF TypeOK, timed_op_completes
  <2>3. UNCHANGED <<rec_vars, step, session, hello, health_vars, conn_vars, killed, reply_vars>>
    BY <2>1, Zenon DEF timed_op_completes
  <2> QED
    BY <1>t, <2>2, <2>3 DEF RunnerInv, TypeOK, AttemptInv, AskedInv, EndsOnlyWhenAsked
<1>6. CASE step_timer_completes
  <2>1. first' \in {"none", "ok", "failed", "timer"} /\ both' \in BOOLEAN
    BY <1>t, <1>6, Zenon DEF TypeOK, step_timer_completes
  <2>2. UNCHANGED <<rec_vars, step, session, hello, health_vars, conn_vars, killed, reply_vars>>
    BY <1>6, Zenon DEF step_timer_completes
  <2>3. TypeOK'
    BY <1>t, <2>1, <2>2 DEF TypeOK
  <2>4. AttemptInv'
    BY <1>t, <1>6, Zenon
    DEF AttemptInv, TypeOK, step_timer_completes, Timed
  <2>5. AskedInv'
    BY <1>t, <1>6, Zenon
    DEF AskedInv, EndsOnlyWhenAsked, TypeOK, step_timer_completes, Timed
  <2> QED
    BY <2>3, <2>4, <2>5, Zenon DEF RunnerInv
<1>7. CASE run_all_op_fails
  <2>1. cancel_run({})
    BY <1>7, Zenon DEF run_all_op_fails
  <2>2. step' = "exited" /\ first' = "none" /\ both' \in BOOLEAN
    BY <1>7, Zenon DEF run_all_op_fails
  <2>3. UNCHANGED <<rec_vars, session, hello, health_vars, killed, reply_vars>>
    BY <1>7, Zenon DEF run_all_op_fails
  <2>4. TypeOK'
    BY <1>t, <2>1, <2>2, <2>3, CancelRunRequests DEF TypeOK
  <2>5. AttemptInv'
    BY <1>t, <1>7, <2>1, CancelRunRequests, Zenon
    DEF AttemptInv, TypeOK, run_all_op_fails, Timed
  <2>6. AskedInv'
    BY <1>t, <1>7, <2>1, CancelRunRequests, Zenon
    DEF AskedInv, EndsOnlyWhenAsked, TypeOK, run_all_op_fails, Timed
  <2> QED
    BY <2>4, <2>5, <2>6, Zenon DEF RunnerInv
<1>8. CASE run_all_op_continues
  <2>1. step' \in {"connect", "handshake", "lean"} /\ first' = "none" /\ both' \in BOOLEAN
    BY <1>8, Zenon DEF run_all_op_continues
  <2>2. open' \in BOOLEAN /\ cancel_run_called' \in BOOLEAN
    BY <1>t, <1>8, Zenon DEF TypeOK, run_all_op_continues
  <2>3. UNCHANGED <<rec_vars, session, hello, health_vars, rq, killed, reply_vars>>
    BY <1>8, Zenon DEF run_all_op_continues
  <2>4. TypeOK'
    BY <1>t, <2>1, <2>2, <2>3 DEF TypeOK
  <2>5. AttemptInv'
    BY <1>t, <1>8, Zenon
    DEF AttemptInv, TypeOK, run_all_op_continues,
        resolve_op, connect_op, handshake_op
  <2>6. AskedInv'
    BY <1>t, <1>8, Zenon
    DEF AskedInv, EndsOnlyWhenAsked, TypeOK, run_all_op_continues,
        resolve_op, connect_op, handshake_op
  <2> QED
    BY <2>4, <2>5, <2>6, Zenon DEF RunnerInv
<1>9. CASE run_all_op_exits
  BY <1>t, <1>9 DEF RunnerInv, TypeOK, AttemptInv, AskedInv, EndsOnlyWhenAsked, run_all_op_exits
<1> QED
  BY <1>1, <1>2, <1>3, <1>4, <1>5, <1>6, <1>7, <1>8, <1>9, Zenon DEF SessionNext, RunAllNext

\* hello_op, which ends its request whichever way it completes.
LEMMA HelloStep ==
  ASSUME RunnerInv, hello_op_completes
  PROVE  RunnerInv'
<1> USE DEF rec_vars, run_all_vars, health_vars, conn_vars, reply_vars, Requests, Timer
<1>t. TypeOK /\ AttemptInv /\ AskedInv
  BY Zenon DEF RunnerInv
<1>1. exec_op_ends("HELLO") \/ cancel_run({"HELLO"})
  BY Zenon DEF hello_op_completes
<1>2. /\ rq' \in [Requests -> {"none", "waiting", "written", "answered", "stopped"}]
      /\ rq'["HELLO"] = "none"
      /\ rq'["PING"] # "none" <=> rq["PING"] # "none"
      /\ open' \in BOOLEAN /\ cancel_run_called' \in BOOLEAN
  <2>1. CASE exec_op_ends("HELLO")
    BY <1>t, <2>1, ExecOpEndsRequests, Zenon
  <2>2. CASE cancel_run({"HELLO"})
    BY <1>t, <2>2, CancelRunRequests
  <2> QED
    BY <1>1, <2>1, <2>2, Zenon
<1> QED
  BY <1>t, <1>2 DEF RunnerInv, TypeOK, AttemptInv, AskedInv, EndsOnlyWhenAsked, hello_op_completes

\* ping_op: a PING is in the connection exactly while it waits for it.
LEMMA PingStep ==
  ASSUME RunnerInv, PingNext
  PROVE  RunnerInv'
<1> USE DEF rec_vars, run_all_vars, health_vars, conn_vars, reply_vars, Requests, Timer
<1>t. TypeOK /\ AttemptInv /\ AskedInv
  BY Zenon DEF RunnerInv
<1>1. CASE ping_op_waits
  <2>1. exec_op_ends("PING")
    BY <1>1, Zenon DEF ping_op_waits
  <2> QED
    BY <1>t, <1>1, <2>1, ExecOpEndsRequests
    DEF RunnerInv, TypeOK, AttemptInv, AskedInv, EndsOnlyWhenAsked, ping_op_waits
<1>2. CASE ping_op_fails
  <2>1. exec_op_ends("PING") \/ cancel_run({"PING"})
    BY <1>2, Zenon DEF ping_op_fails
  <2>2. /\ rq' \in [Requests -> {"none", "waiting", "written", "answered", "stopped"}]
        /\ rq'["PING"] = "none"
        /\ rq'["HELLO"] # "none" <=> rq["HELLO"] # "none"
        /\ open' \in BOOLEAN /\ cancel_run_called' \in BOOLEAN
    <3>1. CASE exec_op_ends("PING")
      BY <1>t, <3>1, ExecOpEndsRequests, Zenon
    <3>2. CASE cancel_run({"PING"})
      BY <1>t, <3>2, CancelRunRequests
    <3> QED
      BY <2>1, <3>1, <3>2, Zenon
  <2> QED
    BY <1>t, <1>2, <2>2
    DEF RunnerInv, TypeOK, AttemptInv, AskedInv, EndsOnlyWhenAsked, ping_op_fails,
        ping_op_exits, cancel_timer
<1>3. CASE ping_timer_fires
  BY <1>t, <1>3 DEF RunnerInv, TypeOK, AttemptInv, AskedInv, EndsOnlyWhenAsked, ping_timer_fires
<1>4. CASE ping_op_resumes
  BY <1>t, <1>4
  DEF RunnerInv, TypeOK, AttemptInv, AskedInv, EndsOnlyWhenAsked, ping_op_resumes,
      ping_op_exits, cancel_timer
<1> QED
  BY <1>1, <1>2, <1>3, <1>4, Zenon DEF PingNext

\* check_timeout_op and the end of check_health_op.
LEMMA CheckTimeoutStep ==
  ASSUME RunnerInv, CheckTimeoutNext \/ check_health_op_completes
  PROVE  RunnerInv'
<1> USE DEF rec_vars, run_all_vars, health_vars, conn_vars, reply_vars, Requests, Timer
<1>t. TypeOK /\ AttemptInv /\ AskedInv
  BY Zenon DEF RunnerInv
<1>1. CASE wait_timer_fires
  BY <1>t, <1>1 DEF RunnerInv, TypeOK, AttemptInv, AskedInv, EndsOnlyWhenAsked, wait_timer_fires
<1>2. CASE check_timeout_op_waits
  BY <1>t, <1>2
  DEF RunnerInv, TypeOK, AttemptInv, AskedInv, EndsOnlyWhenAsked, check_timeout_op_waits,
      resp_after_check
<1>3. CASE check_timeout_op_times_out
  <2>1. cancel_run({})
    BY <1>3, Zenon DEF check_timeout_op_times_out
  <2> QED
    BY <1>t, <1>3, <2>1, CancelRunRequests
    DEF RunnerInv, TypeOK, AttemptInv, AskedInv, EndsOnlyWhenAsked, check_timeout_op_times_out,
        check_timeout_op_exits, cancel_timer
<1>4. CASE check_timeout_op_ends
  BY <1>t, <1>4
  DEF RunnerInv, TypeOK, AttemptInv, AskedInv, EndsOnlyWhenAsked, check_timeout_op_ends,
      check_is_cancelled, check_finds_error, check_timeout_op_exits, cancel_timer
<1>5. CASE check_health_op_completes
  BY <1>t, <1>5
  DEF RunnerInv, TypeOK, AttemptInv, AskedInv, EndsOnlyWhenAsked, check_health_op_completes
<1> QED
  BY <1>1, <1>2, <1>3, <1>4, <1>5, Zenon DEF CheckTimeoutNext

\* async_run and reconnection_op.  It gives up only for a reason the user has
\* given, and starts an attempt only when nothing of the last one is left.
LEMMA ReconnectionStep ==
  ASSUME RunnerInv, async_run \/ ReconnectionNext
  PROVE  RunnerInv'
<1> USE DEF rec_vars, run_all_vars, health_vars, conn_vars, reply_vars, Requests, Timer
<1>t. TypeOK /\ AttemptInv /\ AskedInv
  BY Zenon DEF RunnerInv
<1>1. ASSUME NEW c \in Configs, runner_op_starts(c),
             cfg' = c /\ will_reconnect' \in BOOLEAN /\ cancelled' \in BOOLEAN,
             asked' \in BOOLEAN /\ open' \in BOOLEAN,
             UNCHANGED <<cancel_run_called, thrown>>
      PROVE  TypeOK' /\ AttemptInv'
  <2>1. c.health_check \in BOOLEAN
    BY <1>1, RunnerAssumption, Zenon
  <2>2. /\ rq' \in [Requests -> {"none", "waiting", "written", "answered", "stopped"}]
        /\ rq'["HELLO"] # "none"
        /\ rq'["PING"] # "none" <=> c.health_check
    BY <1>1, <2>1, Zenon DEF runner_op_starts
  <2>3. resp' \in [Requests -> {"empty", "value", "error"}]
    BY <1>t, <1>1, Zenon DEF TypeOK, runner_op_starts, add_hello
  <2>4. attempts' \in 0 .. MaxAttempts
    BY <1>t, <1>1, RunnerAssumption DEF TypeOK, runner_op_starts
  <2> QED
    BY <1>t, <1>1, <2>1, <2>2, <2>3, <2>4, Zenon
    DEF TypeOK, AttemptInv, runner_op_starts, async_check_health
<1>2. CASE async_run
  <2>1. cfg'.reconnect \in BOOLEAN
    BY <1>2, RunnerAssumption, Zenon DEF async_run
  <2>2. TypeOK' /\ AttemptInv'
    BY <1>t, <1>1, <1>2, <2>1, Zenon DEF TypeOK, async_run
  <2>3. AskedInv'
    BY <1>2, Zenon DEF AskedInv, EndsOnlyWhenAsked, async_run, runner_op_starts
  <2> QED
    BY <2>2, <2>3, Zenon DEF RunnerInv
<1>3. CASE reconnection_op_after_run
  BY <1>t, <1>3, Zenon
  DEF RunnerInv, TypeOK, AttemptInv, AskedInv, EndsOnlyWhenAsked, reconnection_op_after_run,
      runner_op_done, gives_up
<1>4. CASE reconnect_timer_fires
  BY <1>t, <1>4
  DEF RunnerInv, TypeOK, AttemptInv, AskedInv, EndsOnlyWhenAsked, reconnect_timer_fires
<1>5. CASE reconnection_op_reconnects
  <2>1. TypeOK' /\ AttemptInv'
    BY <1>t, <1>1, <1>5, Zenon DEF TypeOK, reconnection_op_reconnects, reset_stream
  <2>2. AskedInv'
    BY <1>t, <1>5, Zenon
    DEF AskedInv, EndsOnlyWhenAsked, reconnection_op_reconnects, runner_op_starts
  <2> QED
    BY <2>1, <2>2, Zenon DEF RunnerInv
<1>6. CASE reconnection_op_ends
  BY <1>t, <1>6
  DEF RunnerInv, TypeOK, AttemptInv, AskedInv, EndsOnlyWhenAsked, reconnection_op_ends, gives_up
<1> QED
  BY <1>2, <1>3, <1>4, <1>5, <1>6, Zenon DEF ReconnectionNext

\* The user: cancel and terminal cancellation.
LEMMA UserStep ==
  ASSUME RunnerInv, (\E o \in Operations : user_cancel(o)) \/ terminal_cancel
  PROVE  RunnerInv'
<1> USE DEF rec_vars, run_all_vars, health_vars, conn_vars, reply_vars, Requests, Timer
<1>t. TypeOK /\ AttemptInv /\ AskedInv
  BY Zenon DEF RunnerInv
<1>1. ASSUME NEW o \in Operations, user_cancel(o) PROVE RunnerInv'
  <2>1. /\ rq' \in [Requests -> {"none", "waiting", "written", "answered", "stopped"}]
        /\ \A r \in Requests : rq'[r] # "none" <=> rq[r] # "none"
        /\ open' \in BOOLEAN /\ cancel_run_called' \in BOOLEAN
    <3>1. CASE o = "run"
      BY <1>t, <1>1, <3>1, CancelRunRequests DEF user_cancel
    <3>2. CASE o = "exec"
      BY <1>t, <1>1, <3>2 DEF TypeOK, user_cancel, unwritten_stopped
    <3>3. CASE o = "all"
      <4>1. /\ rq' = unwritten_stopped(IF cancel_run_called THEN rq ELSE stopped_requests)
            /\ open' = (open /\ cancel_run_called) /\ cancel_run_called' = TRUE
        BY <1>1, <3>3, Zenon DEF user_cancel
      <4> QED
        BY <1>t, <4>1, Zenon DEF TypeOK, unwritten_stopped, stopped_requests
    <3>4. CASE o \notin {"run", "exec", "all"}
      BY <1>t, <1>1, <3>4, Zenon DEF TypeOK, user_cancel
    <3> QED
      BY <3>1, <3>2, <3>3, <3>4, Zenon
  <2>2. /\ first' \in {"none", "ok", "failed", "timer"}
        /\ ping' = ping \/ (ping = "timer" /\ ping' = "aborted")
        /\ chk' = chk \/ (chk = "timer" /\ chk' = "aborted")
        /\ UNCHANGED <<cfg, cancelled, attempts, step, both, session, hello, health,
                       checker_has_exited, killed, resp, thrown>>
    BY <1>t, <1>1, Zenon DEF TypeOK, user_cancel, cancel_timer
  <2>3. \/ UNCHANGED <<will_reconnect, rec, asked>>
        \/ /\ will_reconnect' = FALSE /\ asked' = TRUE
           /\ rec' = rec \/ (rec = "timer" /\ rec' = "aborted")
    BY <1>1, Zenon DEF user_cancel, cancel_timer
  <2>4. will_reconnect' \in BOOLEAN /\ asked' \in BOOLEAN
    BY <1>t, <2>3, Zenon DEF TypeOK
  <2>5. rec' = rec \/ (rec = "timer" /\ rec' = "aborted")
    BY <2>3, Zenon
  <2>6. TypeOK'
    BY <1>t, <2>1, <2>2, <2>4, <2>5 DEF TypeOK
  <2>7. AttemptInv'
    BY <1>t, <2>1, <2>2, <2>3, Zenon DEF AttemptInv, TypeOK
  <2>8. AskedInv'
    BY <1>t, <2>1, <2>2, <2>3, Zenon DEF AskedInv, EndsOnlyWhenAsked, TypeOK
  <2> QED
    BY <2>6, <2>7, <2>8, Zenon DEF RunnerInv
<1>2. CASE terminal_cancel
  <2>1. cancelled' \in BOOLEAN /\ asked' \in BOOLEAN
    BY <1>2, Zenon DEF terminal_cancel
  <2>2. /\ rec' = rec \/ (rec = "timer" /\ rec' = "aborted")
        /\ ping' = ping \/ (ping = "timer" /\ ping' = "aborted")
        /\ chk' = chk \/ (chk = "timer" /\ chk' = "aborted")
    BY <1>2, Zenon DEF terminal_cancel, cancel_timer
  <2>3. first' \in {"none", "ok", "failed", "timer"} /\ killed' \subseteq Requests
    BY <1>t, <1>2, Zenon DEF TypeOK, terminal_cancel, pending_execs
  <2>4. UNCHANGED <<cfg, will_reconnect, attempts, step, both, session, hello, health,
                    checker_has_exited, conn_vars, reply_vars>>
    BY <1>2, Zenon DEF terminal_cancel
  <2>5. TypeOK'
    BY <1>t, <2>1, <2>2, <2>3, <2>4 DEF TypeOK
  <2>6. AttemptInv'
    BY <1>t, <1>2, Zenon
    DEF AttemptInv, TypeOK, terminal_cancel, cancel_timer, pending_execs
  <2>7. AskedInv'
    BY <1>t, <1>2, Zenon
    DEF AskedInv, EndsOnlyWhenAsked, TypeOK, terminal_cancel, cancel_timer, pending_execs
  <2> QED
    BY <2>5, <2>6, <2>7, Zenon DEF RunnerInv
<1> QED
  BY <1>1, <1>2, Zenon

\* The inductive invariant of the runner.
THEOREM RunnerInvariant == Spec => []RunnerInv
<1>1. Init => RunnerInv
  <2> SUFFICES ASSUME Init PROVE RunnerInv
    BY Zenon
  <2> USE DEF Requests, Timer
  <2>1. /\ will_reconnect \in BOOLEAN /\ cancelled \in BOOLEAN /\ asked \in BOOLEAN
        /\ both \in BOOLEAN /\ checker_has_exited \in BOOLEAN /\ thrown \in BOOLEAN
        /\ open \in BOOLEAN /\ cancel_run_called \in BOOLEAN
    BY Zenon DEF Init
  <2>2. /\ rq \in [Requests -> {"none"}]
        /\ resp \in [Requests -> {"empty"}]
        /\ attempts \in 0 .. MaxAttempts
    BY RunnerAssumption DEF Init
  <2>3. /\ cfg \in Configs /\ rec = "off" /\ step = "off" /\ first = "none"
        /\ session = "pending" /\ hello = "off" /\ health = "off" /\ ping = "off"
        /\ chk = "off" /\ killed = {}
    BY Zenon DEF Init
  <2>4. TypeOK
    BY <2>1, <2>2, <2>3, Zenon DEF TypeOK
  <2>5. AttemptInv /\ AskedInv
    BY Zenon DEF Init, AttemptInv, AskedInv, EndsOnlyWhenAsked
  <2> QED
    BY <2>4, <2>5, Zenon DEF RunnerInv
<1>2. RunnerInv /\ [Next]_vars => RunnerInv'
  <2> SUFFICES ASSUME RunnerInv, [Next]_vars PROVE RunnerInv'
    BY Zenon
  <2>1. CASE Next
    BY <2>1, RunAllStep, HelloStep, PingStep, CheckTimeoutStep, ReconnectionStep, UserStep, Zenon DEF Next
  <2>2. CASE UNCHANGED vars
    BY <2>2
    DEF vars, rec_vars, run_all_vars, health_vars, conn_vars, reply_vars, RunnerInv, TypeOK,
        AttemptInv, AskedInv, EndsOnlyWhenAsked
  <2> QED
    BY <2>1, <2>2, Zenon
<1> QED
  BY <1>1, <1>2, PTL DEF Spec

\* The types of the runner's variables, and that HELLO and PING are in the
\* connection exactly while hello_op and ping_op wait for them.
THEOREM RunnerTypeCorrect == Spec => []TypeOK
<1>1. RunnerInv => TypeOK
  BY Zenon DEF RunnerInv
<1> QED
  BY <1>1, RunnerInvariant, PTL

\* No attempt leaves a request or a timer behind for the next one, whatever
\* the order in which its operations end or are cancelled.
THEOREM NoAttemptLeavesAnything == Spec => []NothingLeftOver
<1>1. RunnerInv => NothingLeftOver
  BY Zenon DEF RunnerInv, TypeOK, AttemptInv, NothingLeftOver, Requests, Timer
<1> QED
  BY <1>1, RunnerInvariant, PTL

\* async_run does not give up by itself while reconnection is enabled.
THEOREM RunEndsOnlyWhenAsked == Spec => []EndsOnlyWhenAsked
<1>1. RunnerInv => EndsOnlyWhenAsked
  BY Zenon DEF RunnerInv, AskedInv
<1> QED
  BY <1>1, RunnerInvariant, PTL
===============================================================================
