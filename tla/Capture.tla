------------------------------- MODULE Capture -------------------------------
(***************************************************************************)
(* The capturing proxy of RustForge: starts and stops of the proxy         *)
(* (proxy/mod.rs), the exchanges it records (proxy/interceptor.rs) and the *)
(* passive rule worker behind a bounded queue (rules/worker.rs).           *)
(*                                                                         *)
(* A start checks the shutdown handle, awaits the bind, gives its traffic  *)
(* handler a queue and a worker thread, and stores its own handle.  Every  *)
(* exchange owns a clone of the handler; the worker leaves when the last   *)
(* clone is gone.  The queue never blocks: a job that does not fit is      *)
(* dropped and counted.  The model covers one life of the process: queue,  *)
(* counters and handles are in memory only, nothing is resumed at boot.    *)
(***************************************************************************)
EXTENDS Naturals, Sequences, FiniteSets

CONSTANTS Starts,       \* bound: calls of start_proxy
          Exchanges,    \* bound: requests that reach a proxy
          Capacity,     \* RULE_QUEUE_CAPACITY
          NoStart, NoExchange

ASSUME CapacityAssumption == Capacity \in Nat \ {0}
ASSUME ExchangesAssumption == IsFiniteSet(Exchanges) /\ NoExchange \notin Exchanges
ASSUME NoStartAssumption == NoStart \notin Starts

VARIABLES
    handle,             \* whose sender is in ProxyInner.shutdown
    proxy,              \* where a call of start and its background task are
    fired,              \* starts whose shutdown receiver has been answered
    flow, via, rows,    \* exchanges: progress, their proxy, the rows of traffic
    queue,              \* the channel of each start's worker
    worker, job,        \* the worker threads
    submitted, completed, dropped,      \* Counters; failures and timeouts left out
    active,             \* ACTIVE: the worker state that diagnostics reads
    flows, tags,        \* traffic:new and traffic:tags events sent
    reader              \* a call of snapshot, which loads one counter at a time

lifecycle == <<handle, proxy, fired>>
exchange == <<flow, via, rows>>
counters == <<submitted, completed, dropped>>
threads == <<queue, worker, job>>
events == <<flows, tags>>
vars == <<lifecycle, exchange, threads, counters, active, events, reader>>

Reading == [phase : {"submitted", "completed", "done"}, of : Starts \cup {NoStart},
            depth : Nat, real : Nat]

Init ==
    /\ handle = NoStart /\ fired = {}
    /\ proxy = [s \in Starts |-> "idle"]
    /\ flow = [x \in Exchanges |-> "idle"]
    /\ via = [x \in Exchanges |-> NoStart]
    /\ rows = {}
    /\ queue = [s \in Starts |-> <<>>]
    /\ worker = [s \in Starts |-> "none"]
    /\ job = [s \in Starts |-> NoExchange]
    /\ submitted = [s \in Starts |-> 0] /\ completed = [s \in Starts |-> 0]
    /\ dropped = [s \in Starts |-> 0]
    /\ active = NoStart
    /\ flows = {} /\ tags = {}
    /\ reader = [phase |-> "done", of |-> NoStart, depth |-> 0, real |-> 0]

(* An exchange whose connection task is running, with a clone of the       *)
(* handler of its proxy.                                                   *)
Open(x) == flow[x] \notin {"idle", "over"}

Users(s) == {x \in Exchanges : via[x] = s /\ Open(x)}

-----------------------------------------------------------------------------
(* Starting and stopping the proxy *)

(* The head of start: an error when some proxy is running.                 *)
StartProxy(s) ==
    /\ proxy[s] = "idle"
    /\ proxy' = [proxy EXCEPT ![s] = IF handle = NoStart THEN "binding" ELSE "over"]
    /\ UNCHANGED <<handle, fired, exchange, threads, counters, active, events, reader>>

(* The await of the bind is over; on success the handler gets its worker,  *)
(* whose state replaces the one diagnostics showed.                        *)
Bind(s) ==
    /\ proxy[s] = "binding"
    /\ \/ /\ proxy' = [proxy EXCEPT ![s] = "bound"]
          /\ worker' = [worker EXCEPT ![s] = "waiting"]
          /\ active' = s
       \/ /\ proxy' = [proxy EXCEPT ![s] = "over"]
          /\ UNCHANGED <<worker, active>>
    /\ UNCHANGED <<handle, fired, exchange, queue, job, counters, events, reader>>

(* Builder::build fails; the handler and with it the queue are dropped.    *)
BuildFails(s) ==
    /\ proxy[s] = "bound"
    /\ proxy' = [proxy EXCEPT ![s] = "over"]
    /\ UNCHANGED <<handle, fired, exchange, threads, counters, active, events, reader>>

(* A sender that is sent on, replaced or cleared answers its receiver:     *)
(* rx.await.unwrap_or_default().                                           *)
Released == fired \cup ({handle} \ {NoStart})

(* inner.shutdown = Some(tx), and the main loop is spawned.                *)
Serve(s) ==
    /\ proxy[s] = "bound"
    /\ proxy' = [proxy EXCEPT ![s] = "serving"]
    /\ handle' = s
    /\ fired' = Released
    /\ UNCHANGED <<exchange, threads, counters, active, events, reader>>

(* Mutant: stop sends on the handle and leaves it in place.                *)
StopProxyKeepsHandle ==
    /\ handle # NoStart
    /\ fired' = Released
    /\ UNCHANGED <<handle, proxy, exchange, threads, counters, active, events, reader>>

(* stop takes the handle and sends on it; an error without one.            *)
StopProxy ==
    /\ handle # NoStart
    /\ handle' = NoStart
    /\ fired' = Released
    /\ UNCHANGED <<proxy, exchange, threads, counters, active, events, reader>>

(* The main loop sees the signal and accepts no further connection.        *)
Drain(s) ==
    /\ proxy[s] = "serving" /\ s \in fired
    /\ proxy' = [proxy EXCEPT ![s] = "draining"]
    /\ UNCHANGED <<handle, fired, exchange, threads, counters, active, events, reader>>

(* The main loop returns, with an error or drained; its task clears the    *)
(* handle, whosever it is.                                                 *)
Finish(s) ==
    /\ \/ proxy[s] = "serving"
       \/ proxy[s] = "draining" /\ Users(s) = {}
    /\ proxy' = [proxy EXCEPT ![s] = "over"]
    /\ handle' = NoStart
    /\ fired' = Released
    /\ UNCHANGED <<exchange, threads, counters, active, events, reader>>

-----------------------------------------------------------------------------
(* Exchanges *)

Moves(x, from, to) == flow[x] = from /\ flow' = [flow EXCEPT ![x] = to]

(* handle_request: an authorized request is held as pending, any other is  *)
(* passed through.  A draining proxy may still serve a tunnel.             *)
Request(x) ==
    /\ \/ Moves(x, "idle", "pending")
       \/ Moves(x, "idle", "passing")
    /\ \E s \in Starts : /\ proxy[s] \in {"serving", "draining"}
                         /\ via' = [via EXCEPT ![x] = s]
    /\ UNCHANGED <<lifecycle, rows, threads, counters, active, events, reader>>

(* handle_response: the pending request goes into the body's callback.     *)
Respond(x) ==
    /\ Moves(x, "pending", "streaming")
    /\ UNCHANGED <<lifecycle, via, rows, threads, counters, active, events, reader>>

(* store_and_emit up to the INSERT; when it fails that is all.  An error   *)
(* of the upstream calls it at once, a response when its body ends, fails  *)
(* or is dropped.                                                          *)
Settle(x) ==
    /\ flow[x] \in {"pending", "streaming"}
    /\ \/ /\ flow' = [flow EXCEPT ![x] = "stored"]
          /\ rows' = rows \cup {x}
       \/ flow' = [flow EXCEPT ![x] = "over"] /\ UNCHANGED rows
    /\ UNCHANGED <<lifecycle, via, threads, counters, active, events, reader>>

(* The client leaves before the response: the pending request is dropped   *)
(* with the task.  Or a passed exchange ends.                              *)
Leave(x) ==
    /\ \/ Moves(x, "pending", "over")
       \/ Moves(x, "passing", "over")
    /\ UNCHANGED <<lifecycle, via, rows, threads, counters, active, events, reader>>

Increment(counter, s) == counter' = [counter EXCEPT ![s] = @ + 1]

(* on_flow, and the head of try_submit.                                    *)
Announce(x) ==
    /\ Moves(x, "stored", "sending")
    /\ flows' = flows \cup {x}
    /\ Increment(submitted, via[x])
    /\ UNCHANGED <<lifecycle, via, rows, threads, completed, dropped, active, tags, reader>>

HasRoom(s) == Len(queue[s]) < Capacity

Enqueue(x) == queue' = [queue EXCEPT ![via[x]] = Append(@, x)]

(* Mutant: a job that does not fit is dropped without being counted.       *)
SendUncounted(x) ==
    /\ Moves(x, "sending", "over")
    /\ \/ HasRoom(via[x]) /\ Enqueue(x)
       \/ ~HasRoom(via[x]) /\ UNCHANGED queue
    /\ UNCHANGED <<lifecycle, via, rows, worker, job, counters, active, events, reader>>

(* try_send, which never waits.                                            *)
Send(x) ==
    /\ Moves(x, "sending", "over")
    /\ \/ HasRoom(via[x]) /\ Enqueue(x) /\ UNCHANGED dropped
       \/ ~HasRoom(via[x]) /\ Increment(dropped, via[x]) /\ UNCHANGED queue
    /\ UNCHANGED <<lifecycle, via, rows, worker, job, submitted, completed, active, events, reader>>

-----------------------------------------------------------------------------
(* The rule worker *)

WorkerMoves(s, from, to) == worker[s] = from /\ worker' = [worker EXCEPT ![s] = to]

(* recv returns a job.                                                     *)
Receive(s) ==
    /\ WorkerMoves(s, "waiting", "loading")
    /\ queue[s] # <<>>
    /\ job' = [job EXCEPT ![s] = Head(queue[s])]
    /\ queue' = [queue EXCEPT ![s] = Tail(@)]
    /\ UNCHANGED <<lifecycle, exchange, counters, active, events, reader>>

(* Mutant: a job that fails ends the thread.                               *)
LoadOrQuit(s) ==
    /\ \/ /\ WorkerMoves(s, "loading", "storing")
          /\ job[s] \in rows
       \/ WorkerMoves(s, "loading", "gone")
    /\ UNCHANGED <<lifecycle, exchange, queue, job, counters, active, events, reader>>

(* was_evaluated and load_rule_input; the row may have been cleared or the *)
(* database may refuse.  Row ids are not reused and each is submitted      *)
(* once, so the idempotency key is always free.                            *)
Load(s) ==
    /\ \/ /\ WorkerMoves(s, "loading", "storing")
          /\ job[s] \in rows
       \/ WorkerMoves(s, "loading", "counting")
    /\ UNCHANGED <<lifecycle, exchange, queue, job, counters, active, events, reader>>

(* The rules ran on the copy; one transaction stores evaluation, tags and  *)
(* findings, then the sink is told.  Nothing is tagged without a hit.      *)
Evaluate(s) ==
    /\ WorkerMoves(s, "storing", "counting")
    /\ \/ /\ job[s] \in rows
          /\ tags' \in {tags, tags \cup {job[s]}}
       \/ UNCHANGED tags
    /\ UNCHANGED <<lifecycle, exchange, queue, job, counters, active, flows, reader>>

Complete(s) ==
    /\ WorkerMoves(s, "counting", "waiting")
    /\ Increment(completed, s)
    /\ job' = [job EXCEPT ![s] = NoExchange]
    /\ UNCHANGED <<lifecycle, exchange, queue, submitted, dropped, active, events, reader>>

(* Some clone of the handler is alive: in the proxy or in an exchange.     *)
Held(s) == proxy[s] \in {"bound", "serving", "draining"} \/ Users(s) # {}

(* recv finds the channel empty and no sender left; running = false.       *)
Exit(s) ==
    /\ WorkerMoves(s, "waiting", "gone")
    /\ queue[s] = <<>> /\ ~Held(s)
    /\ UNCHANGED <<lifecycle, exchange, queue, job, counters, active, events, reader>>

-----------------------------------------------------------------------------
(* Diagnostics, and the command that empties the table *)

Busy(s) == IF job[s] = NoExchange THEN 0 ELSE 1

Sending(s) == {x \in Exchanges : via[x] = s /\ flow[x] = "sending"}

(* Jobs submitted and neither completed nor dropped.                       *)
InFlight(s) == Len(queue[s]) + Busy(s) + Cardinality(Sending(s))

(* snapshot loads submitted first; real is what depth is to estimate.      *)
ReadSubmitted ==
    /\ reader.phase = "done" /\ active # NoStart
    /\ reader' = [phase |-> "submitted", of |-> active,
                  depth |-> submitted[active], real |-> InFlight(active)]
    /\ UNCHANGED <<lifecycle, exchange, threads, counters, active, events>>

(* saturating_sub.                                                         *)
Minus(a, b) == IF a >= b THEN a - b ELSE 0

ReadCompleted ==
    /\ reader.phase = "submitted"
    /\ reader' = [reader EXCEPT !.phase = "completed",
                                !.depth = Minus(reader.depth, completed[reader.of])]
    /\ UNCHANGED <<lifecycle, exchange, threads, counters, active, events>>

ReadDropped ==
    /\ reader.phase = "completed"
    /\ reader' = [reader EXCEPT !.phase = "done", !.of = NoStart,
                                !.depth = Minus(reader.depth, dropped[reader.of])]
    /\ UNCHANGED <<lifecycle, exchange, threads, counters, active, events>>

(* clear_traffic.                                                          *)
ClearTraffic ==
    /\ rows # {}
    /\ rows' = {}
    /\ UNCHANGED <<lifecycle, flow, via, threads, counters, active, events, reader>>

ProxyStep(s) == StartProxy(s) \/ Bind(s) \/ BuildFails(s) \/ Serve(s) \/ Drain(s) \/ Finish(s)

ExchangeStep(x) ==
    Request(x) \/ Respond(x) \/ Settle(x) \/ Leave(x) \/ Announce(x) \/ Send(x)

WorkerStep(s) == Receive(s) \/ Load(s) \/ Evaluate(s) \/ Complete(s) \/ Exit(s)

Diagnose == ReadSubmitted \/ ReadCompleted \/ ReadDropped

Next ==
    \/ StopProxy \/ Diagnose \/ ClearTraffic
    \/ \E s \in Starts : ProxyStep(s) \/ WorkerStep(s)
    \/ \E x \in Exchanges : ExchangeStep(x)

(* Only the worker thread is sure to run on: bodies may never end and      *)
(* nobody has to start or stop anything.                                   *)
Spec == Init /\ [][Next]_vars /\ \A s \in Starts : WF_vars(WorkerStep(s))

-----------------------------------------------------------------------------
(* Properties *)

(* Every variable has its type, and no queue is beyond its capacity.       *)
TypeOK ==
    /\ handle \in Starts \cup {NoStart}
    /\ proxy \in [Starts -> {"idle", "binding", "bound", "serving", "draining", "over"}]
    /\ fired \subseteq Starts
    /\ flow \in [Exchanges -> {"idle", "passing", "pending", "streaming", "stored",
                               "sending", "over"}]
    /\ via \in [Exchanges -> Starts \cup {NoStart}]
    /\ rows \subseteq Exchanges
    /\ queue \in [Starts -> Seq(Exchanges)]
    /\ \A s \in Starts : Len(queue[s]) <= Capacity
    /\ worker \in [Starts -> {"none", "waiting", "loading", "storing", "counting", "gone"}]
    /\ job \in [Starts -> Exchanges \cup {NoExchange}]
    /\ submitted \in [Starts -> Nat] /\ completed \in [Starts -> Nat]
    /\ dropped \in [Starts -> Nat]
    /\ active \in Starts \cup {NoStart}
    /\ flows \subseteq Exchanges /\ tags \subseteq Exchanges
    /\ reader \in Reading

(* "Some means running" (the comment on ProxyInner.shutdown): the handle   *)
(* that status and start look at always belongs to a proxy that serves and *)
(* that nobody has told to shut down, so a stop always reaches a live one. *)
HandleIsServing == handle # NoStart => proxy[handle] = "serving" /\ handle \notin fired

(* The counters of a worker account for every job, whatever the order in   *)
(* which exchanges and worker meet: what was submitted is completed,       *)
(* dropped, queued, in work or on its way into the queue.                  *)
Accounted ==
    \A s \in Starts : submitted[s] = completed[s] + dropped[s] + InFlight(s)

(* The depth that diagnostics shows, from three loads at three moments,    *)
(* is never more than the jobs in flight at the first of them: no alarm    *)
(* about a backlog that never was, and no wrap around.                     *)
DepthNeverOverstates == reader.phase = "done" => reader.depth <= reader.real

(* The interface hears of a flow before it hears of its tags: traffic:tags *)
(* is applied to a row of the list (stores/traffic.ts) and lost without.   *)
TagsFollowFlow == tags \subseteq flows

CaughtUp(s) ==
    \/ worker[s] = "none"
    \/ queue[s] = <<>> /\ job[s] = NoExchange /\ (Held(s) \/ worker[s] = "gone")

(* Whatever fails, the workers catch up with the jobs they were given, and *)
(* each leaves, with nothing left behind, once the last clone of its       *)
(* handler is gone.                                                        *)
WorkersCatchUp == []<>(\A s \in Starts : CaughtUp(s))
=============================================================================
