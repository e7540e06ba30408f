# Verification of the Boost.Redis client

TLA+ models of the asynchronous core of this repository (`src/include/boost/redis`),
the TLC runs that check them, and TLAPS proofs of the safety of the request queue, of the
connection attempts and of the parser.

## 1. The system

| part | state | operations | talks to |
|---|---|---|---|
| request queue, `exec_op` (`detail/connection_base.hpp`) | `reqs_`; per request `status_`, `expected_responses_`, `ec_`, `notifier_` | `async_exec`, completion, stop, terminal cancellation | writer, reader, `cancel` |
| `writer_op` | `write_buffer_`, `writer_timer_` | coalesce, write, `on_write`, sleep | queue, socket |
| `reader_op`, `on_read` | `read_buffer_`, `on_push_`, parser | append, tell a push from a response, hand it over | queue, socket, `receive_channel_` |
| `run_op`, `cancel` | `cancel_run_called_`, the socket | start and end of reader and writer, `cancel(run/exec/receive/all)` | all of the above |
| receive channel | its capacity and content | `receive`, `async_receive`, `try_send`, `async_send` | reader, user |
| `run_all_op`, `hello_op`, `runner_op` (`detail/runner.hpp`) | `hello_req_`, `hello_resp_` | resolve, connect, handshake, run; HELLO; wait for all | connection, health checker |
| health checker (`detail/health_checker.hpp`) | two timers, `resp_`, `checker_has_exited_` | ping, check, `cancel(health_check)` | connection |
| `reconnection_op` (`connection.hpp`) | `reconnect_wait_interval`, `timer_` | run, wait, run again | runner, user |
| RESP3 parser (`resp3/parser.hpp`) | `depth_`, `sizes_`, `bulk_`, `consumed_` | `consume`, `commit_elem`, `reset` | reader, adapters |
| request (`request.hpp`, `resp3/serialization.hpp`) | `payload_`, `commands_`, `expected_responses_`, `has_hello_priority_` | `push`, `push_range`, `clear` | queue, server |
| adapters (`adapter/detail`), response (`response.hpp`) | a result and the adapter's own counters | one call per node; `consume_one` | parser, user |
| logger, usage, error codes | none that a decision depends on | formatting, counting | users |

Everything runs on one executor, so handlers do not overlap.  What makes the code
hard is that a completed operation is not a handler that has run: a socket may be
closed, a request stopped or a run cancelled in between; that six places call
`cancel(operation::run)` for the same loss; that requests are matched with
responses by their position in a queue that five operations change; that
requests may be sent again on another connection; and that three levels of
parallel groups each wait for all their members.

## 2. Modules

| module | models |
|---|---|
| `Deque` | the standard algorithms used on `reqs_`: stable partition and erase, `partition_point`, insertion by rotation |
| `Connection` | `connection_base`: queue, `exec_op`, `writer_op`, `reader_op`, `run_op`, `cancel`, receive channel; a server |
| `Runner` | `reconnection_op`, `runner_op`, `run_all_op`, `hello_op`, the health checker |
| `Delivery` | abstract: what `async_exec` promises about a request, and no queue; `Connection` implements it |
| `Request` | the calls that put a request together, and what a server reads in its payload |
| `Resp3Type` | the types of RESP3 values that parser and adapters tell apart |
| `Adapters` | every adapter class as an operator from a node and a state to a state |
| `Response` | one `async_exec` from the request to the response, or an `async_receive`: composes `Request`, `Parser` and `Adapters` with `on_read` and `consume_one` |
| `Framing` | abstract: a message ends when all the values it has announced have arrived |
| `Parser` | the stack of counters of the RESP3 parser; implements `Framing` |
| `DequeTheorems` | proofs about `Deque`, and about sequences that hold a part of an ordered set |
| `ConnectionInv` | the inductive invariant `Inv` of `Connection`; the steps of `exec_op`, `writer_op` and `reader_op` keep it |
| `ConnectionProofs` | the steps of the run and of the server keep it; theorems that need no more, and the counts of missing responses |
| `ConnectionLoss` | theorems about what a lost or cancelled connection leaves behind |
| `ConnectionMatch` | steps on an open connection keep responses and requests in the same order |
| `ConnectionDelivery` | theorems: responses match their requests, and `Connection` implements `Delivery` |
| `RunnerProofs`, `ParserProofs` | inductive invariants and theorems of `Runner` and `Parser` |
| `MCConnection`, `MCRunner`, `MCParser`, `MCResponse` | values of the constants for TLC |

**Connection.**  A variable has the name of the member it stands for, without the
underscore; `op[e]` says where the `exec_op` of call `e` is suspended or how it
completed, `wr` and `rd` do so for writer and reader.  `notified`, `stopped` and
`failed` are the three ways a request is woken up.  A payload is the identity of
its request; a message is a push or a pair of exec and command number, so that a
response handed to the wrong command can be seen.  `server_replies` answers
commands in order, `server_pushes` adds unsolicited messages, `server_leaves`
ends the connection.  Each action is one handler with everything it calls:
`writer_op_on_write`, for instance, is `on_write`, `cancel_push_requests`, the test of
the socket and the next `coalesce_requests`.  The reader loops over the messages in its
buffer without suspending; that loop is one step per message, and while
`rd = "parsing"` no other handler runs (`ExecutorFree`).  `Delivers` maps it to `Delivery`: a
request is answered only after it was sent, completes once, with success only when no response
is missing, and with `not_connected` only if it was never sent.

**Runner.**  `connection_base` is reduced to what the operations around it see: the
state `rq` of HELLO and PING in the queue, `open` and `cancel_run_called`.
`step`, `first`, `both` and `session` are `run_all_op`; `rec`, `hello`, `health`, `ping` and `chk` are the
other operations.  In each of the steps `resolve`, `connect` and `handshake` an operation
and a timer run in a group: `first` is what completed first and decides, and `both` says
that the other one has completed too, which the group waits for.  A timer is `timer`, then `fired` or `aborted`, then its handler
runs.  Timers fire at any time after they have been set: the model does not
compare durations, since resolving and connecting may take longer than a health
check (with the defaults, ten seconds each against two times two).  `thrown` says
that an adapter has thrown; this destroys the reader's operation, so `run_op` cannot
complete.

**Parser.**  A step is one element of a message.  `commit_elem` is the loop in closed
form: it stops at the innermost level with more than one element missing.  `error`
says that the message was given up, because it is invalid, too deep, or the session
ended.  `outstanding` is the refinement mapping into `Framing`: the number of values
still to come, counted as `places`, the pairs of an open level and a number up to what is
unread there.  A streamed string takes a level without the test that aggregates have, so
the model has one word more than the array (`Words`): `bulk_length_`, the next member.  What is
read there is any number.  `StreamLevels` are the levels at which the server begins to stream a
string; with the deepest one among them the index leaves the array (section 4).  `last`, the aggregate just announced, is
a variable of both, so that a map has to count for twice its length.

**Request.**  The payload is a sequence of headers and bulks.  A call names its overload, its
command, the bulks that each argument or element of a range is written as, and the class of their type,
which is all that `bulk_counter` looks at.  `server_reads` is the reading of
such a payload by whoever receives it, and `PayloadIsRead` compares it with the calls.

**Adapters, Response.**  A type of result is a record that says which class `impl_map` and
`result_traits` choose.  A node has the type, size and depth that `consume` gives it; its
value is its position in what was read, so that a value in the wrong place can be seen.  A
string that is put together from parts is a sequence.  A number is a string that `from_chars`
accepts, and is the only one that an `int` accepts.  `fits` and `holds` say, without an
adapter, which replies a type is for and what it should then hold; the properties compare the
adapters with them.  `fits` is what the documentation says, and `departs` names the replies for
which the code does something else (section 4): `RejectsMismatch` excepts
these, and says less of tuples, as its comment explains.  The error `throws` is an exception that leaves the adapter, `undefined`
an index past the end.  A response object has not been used before.

### Assumptions about asio

These are library behaviours that the code relies on and the models build in.

- A completed operation is not undone by a later `cancel` or `close`.
- `channel::cancel` cancels pending senders and receivers and keeps buffered items.
- `wait_for_one` cancels the other operations and completes when all have completed.
- `async_compose` lets only terminal cancellation through by default.  Lines 154-161 of
  `connection_base.hpp` are therefore not reached and not modelled.
- `async_connect` opens the socket when it is initiated.
- `writer_timer_` never expires by itself; it only wakes by `cancel`.

Pending completions run in any order.  An executor runs them first in, first out, so
the models allow more interleavings than a given executor does.  What holds in them
holds under such an executor too; section 4 says for each violation why it does not
depend on an order that an executor would not produce.

## 3. Passing runs

| run | instance | checks |
|---|---|---|
| `any` | 2 execs, 3 kinds of request, 2 connections, losses, rejected responses, every cancellation | `TypeOK`, `QueueOrder`, `SuspendedAreQueued`, `RemoveFindsRequest`, `NoLostWakeup` |
| `loss` | 2 execs with up to 3 commands of 3 kinds, 2 connections, losses, 1 push, split messages, a receiver | `AtMostOnce`, `AllWaitingAtStart`, `HelloFirst`, `ResponsesMatch`, `OrderIsStable`, `Delivers` |
| `live` | 2 execs whose commands bring pushes, 1 connection, losses, rejected messages, every operation of `cancel`, a receiver, fairness | `QueuedAreLive`, `ExecsComplete`, `ClosedRunEnds` |
| `cycle` | 2 configurations, 3 attempts, losses, error replies, every cancellation, fairness | `TypeOK`, `NothingLeftOver`, `EndsOnlyWhenAsked`, `LostSessionEnds`, `CancelledRunEnds`, `StepsEnd`, `SilenceIsNoticed` |
| `nesting` | depth 5, aggregates of 0 to 2 elements, strings of up to 3 parts streamed at levels 0 to 4 | `TypeOK`, `LevelsAreOpen`, `FindsEndOfMessage` |
| `exec` | 14 calls with results of 12 types, requests of up to 2 commands, one reply of up to 5 nodes or two of 3 in all, depth 3, 2 pushes | `RepliesAreRead`, `RejectsMismatch`, `GenericIsInOrder`, `PayloadIsRead`, `CountsAreRight` |

What each property says, and of which code, is in the comment above it.

**Bounds.**  Two execs make a queue with a front and a back, which is all that
matching, waking and removal distinguish; that more requests than two keep their order and
their responses after a loss is proved (section 5).  Two connections are one loss with a retry.
`Capacity = 1` (the code's default is 256) lets one push fill the channel and the
next block the reader.  Three attempts are one more than the state that an attempt
leaves to the next.  Depth 5 is the code's own limit; with lengths 0, 1 and 2 a level
can be empty, closed at once, or left open.  In `exec` five nodes are a transaction of two
elements with two nodes nested in one of them, a map of two pairs, or two levels; two replies
are enough for one to go to the other's result.  Replies of types that do not fit the result
are sent too.  Once a request is handed over nothing but its number of responses is used of
it, so states that differ only in the request are one (`VIEW AfterBuilding`).  Execs are interchangeable, so the safety
runs use symmetry; the run with liveness does not.

**Where the passing runs stop.**  `loss` has no terminal cancellation of
`async_run`, no request of several commands that is retained after a loss and none that consists of
pushes alone; `live` has no request that is retained and rejected.  With those, `ResponsesMatch`, `QueuedAreLive`,
`AllWaitingAtStart` and `HelloFirst` fail, and with rejected responses `Delivers` does, since a request
that has completed is sent again: section 4 has the cases, and section 5 the conditions under which
these properties are proved.

**Deadlock** is not checked: with the bounds used up, or with nothing to do, a
connection may stop.

**Fairness.**  Weak fairness of the handlers of each operation: an executor runs what is
queued, a timer expires.  In `Connection` the transport and the server also make
progress, and nothing obliges the user to connect, call, cancel or receive; hence
`ExecsComplete` is conditional on the reader not being blocked for good.  In
`Runner` the server need not answer, and a session need only end once its socket is
closed or it is cancelled, which is `ClosedRunEnds` of `Connection`.  `SilenceIsNoticed` asks that
the session ends; the check may stop without ending it only if it is cancelled or finds an error
in `resp_`.  An operation that races with a timer need not end by itself, only once `wait_for_one` has cancelled it; the timer expires.  `LostSessionEnds`
and `CancelledRunEnds` except the case that an adapter has thrown.

## 4. Violations

Each of these runs checks a property that a comment or document of the repository states,
and TLC finds a behaviour of the code against it.

- `two_commands`: a retained request of two commands that has had one response is
  written again in full while `expected_responses_` still counts one.  Only the order
  of events on the connection matters, not that of handlers.
- `subscribe`: a SUBSCRIBE staged at the front makes `is_next_push` take the response to
  the next request for a push.  The response has to arrive while the write is in
  progress, as when the payload of a later request is only partly written.
- `retry`: after two attempts that fail before a session starts, `cancel(run)` is without
  effect, HELLO stays queued and `runner_op` waits for ever.  A single sequence.
- `transaction`: the transaction of `src/README.md:310` with an empty list.  `count` leaves an
  empty element without going on to the next adapter, so HGETALL's reply goes to the vector.
- `generic`: of two commands the first is answered with an error; the reply to the second
  (no reply is an aggregate in this run) is appended to a `generic_response` that holds an error,
  and `value()` throws.  A HELLO with
  `database_index` is such a request, since it has a SELECT.  An error inside of one reply does the
  same to the nodes that follow it.
- `streamed`: a string streamed inside of five aggregates, which `parser.hpp:33` says are
  supported.  `++depth_` at `parser.ipp:145` has no test, so the counter of the string is the word
  behind `sizes_`; the headers of the parts overwrite it, since that is `bulk_length_`.

These differences from the documentation, or from what a user would expect, were met as well
and have no run of their own.

In the connection:

- A request with `cancel_if_unresponded = false` whose response is rejected completes but
  stays in the queue (`connection_base.hpp:912`; `request.hpp:64`).
- A terminal cancellation of `async_run` can leave staged or written requests that the
  next run does not write (`connection_base.hpp:246`, `:334`; `connection.hpp:129`).
- After a loss, retained requests stand before a retained HELLO (`request.hpp:71`).
- `cancel(receive)` fails the reader's blocked `async_send`, which closes the connection
  (`connection_base.hpp:595`; `connection.hpp:268`).
- `cancel_if_not_connected` tests `is_open()`, true while connecting (`request.hpp:57`).

In the runner:

- A health check that times out while the address is being resolved (4 s against a limit of
  10 s by default) stops HELLO and PING but not `run_all_op`: the session then runs without
  them (`health_checker.hpp:99`; `connection.hpp:120`).
- An error once answered to HELLO or PING stays in `hello_resp_` or `resp_`, and the next good
  answer makes `value()` throw (`runner.hpp:235`).  `thrown` in `Runner` is this case.
- `push_hello` sends AUTH with an empty user name if there is a password but no client name
  (`runner.ipp:18`; `config.hpp:37`).

In requests and responses:

- `push_range` of an empty range adds no command (`request.hpp:198`), so the elements of a
  response that follow are shifted; `RPUSH` in `MCResponse` is this case.  A range of tuples
  gets a header for one bulk per element, as the note at `serialization.hpp:18` says;
  `PayloadIsRead` is about ranges of values and of pairs.
- PUNSUBSCRIBE is not among the commands without a response (`request.ipp:15`).
- EXEC answered with null or an error is `incompatible_size` for a tuple, which closes the
  connection (`result_traits.hpp:142`).  In a tuple the elements nested twice are miscounted,
  and a single value is accepted by a list, set or map, whose test of the depth is for roots.
- A null inside an optional map or array is skipped, which exchanges the keys and values
  that follow (`adapters.hpp:430`).
- Aggregates nested in a reply are flattened into a container without an error, though they
  "can't be read in STL containers" (`src/README.md:354`) and a type that cannot store a
  response is to be an error (`src/README.md:183`).
- The adapters for `ignore` fail on null, though only errors are documented
  (`adapter/ignore.hpp:29`).
- A push that a lost connection cuts off leaves its nodes in the response of `async_receive`;
  `consume_one` takes them for a message and is one behind from then on.  A streamed string
  has no node of depth 0, so `consume_one` refuses it, or takes it with the message before it.
- A response object that is used again is not cleared if it is generic or optional, and if it
  holds an error its adapter's constructor throws in a `noexcept` function (`adapt.hpp:38`).

## 5. Proofs

The theorems hold for any values of the constants (any execs, requests, capacity, bounds,
configurations, depth and lengths) and any behaviour of the environment, except for the
conditions in the last column.  `ConnectionAssumption`, `RunnerAssumption` and
`ParserAssumption` are all that is assumed beside them.

| module | theorem | states | condition |
|---|---|---|---|
| `ConnectionProofs` | `TypeCorrect` | `Spec => []TypeOK` | |
| | `QueueIsOrdered` | `Spec => []QueueOrder` | |
| | `SuspendedStayQueued` | `Spec => []SuspendedAreQueued` | |
| | `RemoveIsDefined` | `Spec => []RemoveFindsRequest` | |
| | `WakeupsAreNotLost` | `Spec => []NoLostWakeup` | |
| | `RequestsAreSentAtMostOnce` | `Spec => []AtMostOnce` | |
| | `OrderNeverChanges` | `Spec => OrderIsStable` | |
| `ConnectionLoss` | `RunsStartWithWaitingRequests` | `Spec => []AllWaitingAtStart` | `"cancel_run_op" \notin Env` |
| | `QueuedRequestsAreLive` | `Spec => []QueuedAreLive` | `AbandonedAreDropped` |
| | `HelloComesFirst` | `Spec => []HelloFirst` | `HellosStayFirst` |
| `ConnectionDelivery` | `ResponsesAreMatched` | `Spec => []ResponsesMatch` | `Matchable` |
| | `ConnectionDelivers` | `Spec => Delivers` | `Matchable`, `AbandonedAreDropped` |
| `RunnerProofs` | `RunnerTypeCorrect` | `Spec => []TypeOK` | |
| | `NoAttemptLeavesAnything` | `Spec => []NothingLeftOver` | |
| | `RunEndsOnlyWhenAsked` | `Spec => []EndsOnlyWhenAsked` | |
| `ParserProofs` | `ParserTypeCorrect` | `Spec => []TypeOK` | |
| | `ParserLevelsAreOpen` | `Spec => []LevelsAreOpen` | |
| | `ParserFindsEndOfMessage` | `Spec => FindsEndOfMessage` | `StreamsFit` |

**Connection.**  The first five follow from the inductive invariant `Inv`, the conjunction of
`TypeOK`, `QueueInv` and `WriterInv`.  The properties are not inductive alone.
`RemoveFindsRequest` needs `WaitingAreQueued`: a request that `exec_op` may remove has not
been stopped, and whatever takes a waiting request out of the queue stops it.  `QueueOrder`
needs `IdleIsFresh`, or `async_exec` could insert a request twice or with an old status.
`NoLostWakeup` needs that the writer sleeps only with an empty `write_buffer_`, since
that is what `add_request_info` looks at.  `Inv` is in `ConnectionInv`, with lemmas on the
operators that several actions share (`stop_requests`, `coalesce_requests`,
`cancel_run`).  There is one lemma for each action, except for the two pairs that
differ only at the end (`CancelExecSteps`, `StagingSteps`); `StepInv` in
`ConnectionProofs` combines them.

`AtMostOnce` needs `SentInv` in addition: a request that may be sent once and is waiting has not
been sent, nor has one whose place in `write_buffer_` is still to be handed over, and no request
has two places in it.  Only `write_some` adds to `sent`, and only `cancel_on_conn_lost` turns a staged or
written request into a waiting one, which it does to none of these (`LossKeepsStatus`).

**The conditions.**  Each of them names what the code does not handle, and is about the requests
that a program makes (`Kinds`) and the events that happen (`Env`), never about a state.
- `"cancel_run_op" \notin Env`: `async_run` is not cancelled through its own operation.  Then
  reader and writer end without `cancel(operation::run)`, and staged requests stay.
- `AbandonedAreDropped`: every request has `cancel_if_unresponded`, or no response is rejected and
  no call is cancelled through its operation while its request is on the way.  Otherwise the
  request of a call that has completed stays in the queue.
- `HellosStayFirst`: no HELLO outlives a connection, or no written request without
  priority does.  `cancel_on_conn_lost` makes both wait again without sorting them.
- `Matchable`: the first one; every request expects a response; and one that may be
  written again expects exactly one, because `cancel_on_conn_lost` does not reset
  `expected_responses_`.
- `StreamsFit`, of the parser: no string is streamed at the deepest level.

The violations `subscribe` and `two_commands` (section 4) are what happens without the last two
parts of `Matchable`, and `streamed` without `StreamsFit`.  The instances of `loss`, `live` and
`nesting` satisfy the conditions of the properties they check, with losses, retries and rejected
responses in them.

**A lost connection.**  `ClosedInv`: once `cancel(operation::run)` has been called, whatever is in the
queue waits, and the socket is closed until the run has ended.  `EndInv`: reader and writer do not end,
nor are they found on a closed socket, before it has been called.  Together they
give `AllWaitingAtStart`.  `LiveInv` adds to `QueuedAreLive` that a queued call is neither
stopped nor failed and is woken only by its own cancellation.  `HelloFirst` is inductive
with `Inv`.

**Matching.**  `stream` is what the reader has not taken yet, in its buffer or from the server;
`line` is what the server has not answered, received or still to be handed over.
A response is a pair of exec and command number.  On an open connection
(`Linked`) the responses in `stream` are the first ones that the requests
in `owing`, staged or written, are still owed, in the order of the queue and without a
gap, and those that `line` will bring come after them.  `Matched` says so for any sequence, sets and order, so that
what a push, a reply, a read and a new batch of requests do to it is shown in `DequeTheorems` without a state.
As long as the server is there nothing else is owed.  A staged or written request leaves the queue of an
open connection only with its last response; to cancel its call closes the connection.  `CountInv`: a request in the queue
misses at least one response, a waiting one misses them all.  `MatchInv` is `CountInv`, `Linked` while
the connection is open, and a silent server between runs.  `ResponsesMatch` follows: the first
response in the buffer is the first that the front of the queue is owed (`FirstResponse`), and
`is_next_push` is true of pushes only (`FirstMessage`).

**Delivery.**  The refinement mapping is that of `Delivers` in `Connection`.  `DeliveryInv`: on an open
connection a request that is owed a response has been handed over or is still
in the writer's buffer, and a call that is told to proceed has been sent and has
all its responses.  One lemma for each action of `Delivery` shows which steps of
`Connection` implement it; `SameCalls` covers the others, which leave it unchanged.

`DequeTheorems` proves what the standard algorithms do to the order of a queue: a stable
partition keeps it (`KeepBefore`), `partition_point` splits a partitioned queue
(`PartitionSplit`), an insertion adds one element and moves none past another
(`InsertBefore`).

**Runner.**  `RunnerInv` is `TypeOK`, `AttemptInv` (outside of `runner_op` its operations are off, and
outside of `check_health_op` there is no ping and no timer of it) and `AskedInv` (whatever makes
`reconnection_op` give up was asked for).  That a request is queued exactly while its operation
waits for it, a part of `TypeOK`, is what turns "no operation is left" into "nothing is queued".

**Parser.**  `ParserInv` is `TypeOK`, `LevelsAreOpen` and `ConsumedInv`: a string that has begun has been
consumed in part, so the message is not taken for a new one.  `TypeOK` has the index inside the array, or
one behind it while a string is streamed at the deepest level.  With `StreamsFit` also `StringInv` is
invariant: a string is streamed on a level of its own inside the array, whose counter does not run out
before its last part.  `CommitElem` shows that the loop
ends at a level with elements missing or has used the sentinel once.

`ParserFindsEndOfMessage` is the refinement of `Framing` by `outstanding`: the parser says that a
message is done exactly when all the values announced in it have arrived, for every depth and
every length.  A sum over the levels would need induction, a set of places does not: what a step
does to it is one element less (`CommitTakesOne`, whatever number of levels `commit_elem`
leaves, since a level below has counted its open element when that was opened), or one
less and the places of a new level more (`OpeningAdds`); the cardinality follows.
`CellsTake` and `CellsOpen` say this of any function from levels to numbers, without a state.
`StreamInv` is needed beside `ParserInv`: inside a streamed string `last` is not an aggregate.

**Only model-checked.**  Liveness under fairness, which is out of reach of the prover
(`ExecsComplete`, `ClosedRunEnds`, `LostSessionEnds`, `CancelledRunEnds`, `StepsEnd`,
`SilenceIsNoticed`), and the properties of `Request` and `Response` (`RepliesAreRead`, `RejectsMismatch`,
`GenericIsInOrder`, `PayloadIsRead`, `CountsAreRight`), which compare sequences that folds and
recursive functions build: what those compute for every input needs induction over data.

## 6. Not modelled

- RESP3 characters, the conversion of numbers and doubles, `get_suggested_buffer_growth`: data
  without control.
- Logger, usage counters, error codes: no decision depends on them.  `runner_op`
  (`runner.hpp:101`) only chooses which code to report.
- `impl/connection.ipp`, `ignore.hpp`, `detail/write.hpp` and the public functions of
  `connection.hpp` that only forward; `push_hello`, which chooses among four texts of HELLO.
- In `Response` the server streams only whole replies, to results that can hold one, and calls
  have no range of tuples.
- An empty length of a blob: `elem.at(0)` throws in `consume`, which is `noexcept`, so the program
  ends.
- A response object that is used a second time, except HELLO's and PING's in `Runner`.
- Several threads running one connection without a strand, which its users must avoid.
