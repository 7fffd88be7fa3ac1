---------------------------- MODULE CaptureProofs ----------------------------
(***************************************************************************)
(* Theorems about Capture for every set of starts and exchanges and every  *)
(* capacity.  The argument: types; then Shape, which ties exchanges and    *)
(* jobs to their proxy and worker; then each safety property, made         *)
(* inductive by what it says of the steps in between.                      *)
(***************************************************************************)
EXTENDS Capture, FiniteSetTheorems, TLAPS

USE CapacityAssumption, ExchangesAssumption, NoStartAssumption

(* An exchange that has begun knows its proxy; a worker begins with the    *)
(* bind and holds a job exactly while it works on one.                     *)
Shape ==
    /\ \A x \in Exchanges : flow[x] # "idle" => via[x] \in Starts
    /\ \A s \in Starts : proxy[s] \in {"idle", "binding"} => worker[s] = "none"
    /\ \A s \in Starts : job[s] = NoExchange <=> worker[s] \in {"none", "waiting", "gone"}

(* Only a proxy that has served is told to end.                            *)
FiredHasServed == \A s \in fired : proxy[s] \in {"serving", "draining", "over"}

(* Whatever a worker has, or is about to get, has been announced.          *)
Told ==
    /\ TagsFollowFlow
    /\ \A x \in Exchanges : flow[x] = "sending" => x \in flows
    /\ \A s \in Starts : \A i \in 1..Len(queue[s]) : queue[s][i] \in flows
    /\ \A s \in Starts : job[s] # NoExchange => job[s] \in flows

(* What is left to subtract keeps the estimate below the truth.            *)
Estimate ==
    /\ reader.phase = "submitted" =>
          /\ reader.of \in Starts
          /\ reader.depth <= reader.real + completed[reader.of] + dropped[reader.of]
    /\ reader.phase = "completed" =>
          /\ reader.of \in Starts
          /\ reader.depth <= reader.real + dropped[reader.of]
    /\ DepthNeverOverstates

-----------------------------------------------------------------------------
(* Cardinalities *)

(* The exchanges on their way into a queue are finitely many.              *)
LEMMA SendingFinite ==
    ASSUME NEW s PROVE IsFiniteSet(Sending(s)) /\ Cardinality(Sending(s)) \in Nat
BY FS_Subset, FS_CardinalityType DEF Sending

(* The jobs in flight are a number.                                        *)
LEMMA InFlightType == ASSUME TypeOK, NEW s \in Starts PROVE InFlight(s) \in Nat
<1>1. Len(queue[s]) \in Nat
  BY DEF TypeOK
<1>2. Busy(s) \in Nat
  BY DEF Busy
<1> QED BY <1>1, <1>2, SendingFinite DEF InFlight

(* The parts of an account are numbers.                                    *)
LEMMA Numbers ==
    ASSUME TypeOK, NEW s \in Starts
    PROVE  /\ submitted[s] \in Nat /\ completed[s] \in Nat /\ dropped[s] \in Nat
           /\ Len(queue[s]) \in Nat /\ Busy(s) \in Nat /\ Cardinality(Sending(s)) \in Nat
<1>1. Len(queue[s]) \in Nat
  BY DEF TypeOK
<1> QED BY <1>1, SendingFinite DEF TypeOK, Busy

-----------------------------------------------------------------------------
(* Types *)

(* What the steps of an exchange keep.                                     *)
LEMMA ExchangeTypes ==
    ASSUME TypeOK, Shape, NEW x \in Exchanges, ExchangeStep(x) PROVE TypeOK'
<1> USE DEF TypeOK, Moves, Increment, lifecycle, threads, counters, events
<1>1. CASE Request(x)
  <2>1. flow' \in [Exchanges -> {"idle", "passing", "pending", "streaming", "stored",
                                 "sending", "over"}]
    BY <1>1 DEF Request
  <2>2. via' \in [Exchanges -> Starts \cup {NoStart}]
    <3> PICK s \in Starts : via' = [via EXCEPT ![x] = s]
      BY <1>1 DEF Request
    <3> QED OBVIOUS
  <2> QED BY <1>1, <2>1, <2>2 DEF Request
<1>2. CASE Respond(x) \/ Leave(x)
  BY <1>2 DEF Respond, Leave
<1>3. CASE Settle(x)
  BY <1>3 DEF Settle
<1>4. CASE Announce(x)
  <2>1. via[x] \in Starts /\ submitted' \in [Starts -> Nat]
    BY <1>4 DEF Announce, Shape
  <2> QED BY <1>4, <2>1 DEF Announce
<1>5. CASE Send(x)
  <2>1. via[x] \in Starts
    BY <1>5 DEF Send, Shape
  <2>2. CASE HasRoom(via[x]) /\ Enqueue(x) /\ UNCHANGED dropped
    <3>1. /\ Append(queue[via[x]], x) \in Seq(Exchanges)
          /\ Len(Append(queue[via[x]], x)) = Len(queue[via[x]]) + 1
      BY <2>1
    <3>2. queue' \in [Starts -> Seq(Exchanges)]
      BY <2>1, <2>2, <3>1 DEF Enqueue
    <3>3. \A s \in Starts : Len(queue'[s]) <= Capacity
      BY <2>1, <2>2, <3>1 DEF Enqueue, HasRoom
    <3> QED BY <1>5, <2>2, <3>2, <3>3 DEF Send
  <2>3. CASE ~HasRoom(via[x]) /\ Increment(dropped, via[x]) /\ UNCHANGED queue
    <3>1. dropped' \in [Starts -> Nat]
      BY <2>1, <2>3
    <3> QED BY <1>5, <2>3, <3>1 DEF Send
  <2> QED BY <1>5, <2>2, <2>3 DEF Send
<1> QED BY <1>1, <1>2, <1>3, <1>4, <1>5 DEF ExchangeStep

(* What the steps of a worker keep.                                        *)
LEMMA WorkerTypes ==
    ASSUME TypeOK, Shape, NEW s \in Starts, WorkerStep(s) PROVE TypeOK'
<1> USE DEF TypeOK, WorkerMoves, Increment, lifecycle, exchange, counters, events
<1>1. CASE Receive(s)
  <2>1. /\ Head(queue[s]) \in Exchanges /\ Tail(queue[s]) \in Seq(Exchanges)
        /\ Len(Tail(queue[s])) = Len(queue[s]) - 1
    BY <1>1 DEF Receive
  <2>2. queue' \in [Starts -> Seq(Exchanges)] /\ \A r \in Starts : Len(queue'[r]) <= Capacity
    BY <1>1, <2>1 DEF Receive
  <2> QED BY <1>1, <2>1, <2>2 DEF Receive
<1>2. CASE Load(s) \/ Exit(s)
  BY <1>2 DEF Load, Exit
<1>3. CASE Evaluate(s)
  <2>1. job[s] \in Exchanges
    BY <1>3 DEF Evaluate, Shape
  <2> QED BY <1>3, <2>1 DEF Evaluate
<1>4. CASE Complete(s)
  <2>1. completed' \in [Starts -> Nat]
    BY <1>4 DEF Complete
  <2> QED BY <1>4, <2>1 DEF Complete
<1> QED BY <1>1, <1>2, <1>3, <1>4 DEF WorkerStep

(* What the steps of diagnostics keep, provided the reader knows whose     *)
(* counters it reads.                                                      *)
LEMMA DiagnoseTypes == ASSUME TypeOK, Estimate, Diagnose PROVE TypeOK'
<1> USE DEF TypeOK, Reading, lifecycle, exchange, threads, counters, events
<1>1. CASE ReadSubmitted
  <2>1. active \in Starts /\ submitted[active] \in Nat /\ InFlight(active) \in Nat
    BY <1>1, InFlightType DEF ReadSubmitted
  <2> QED BY <1>1, <2>1 DEF ReadSubmitted
<1>2. CASE ReadCompleted
  <2>1. completed[reader.of] \in Nat
    BY <1>2 DEF ReadCompleted, Estimate
  <2>2. Minus(reader.depth, completed[reader.of]) \in Nat
    BY <2>1 DEF Minus
  <2> QED BY <1>2, <2>2 DEF ReadCompleted
<1>3. CASE ReadDropped
  <2>1. dropped[reader.of] \in Nat
    BY <1>3 DEF ReadDropped, Estimate
  <2>2. Minus(reader.depth, dropped[reader.of]) \in Nat
    BY <2>1 DEF Minus
  <2> QED BY <1>3, <2>2 DEF ReadDropped
<1> QED BY <1>1, <1>2, <1>3 DEF Diagnose

(* The initial state is well typed, ...                                    *)
LEMMA InitTypes == Init => TypeOK
BY DEF Init, TypeOK, Reading

(* ... and every step keeps it so.                                         *)
LEMMA StepTypes == TypeOK /\ Shape /\ Estimate /\ [Next]_vars => TypeOK'
<1> SUFFICES ASSUME TypeOK, Shape, Estimate, [Next]_vars PROVE TypeOK'
  OBVIOUS
<1>1. CASE UNCHANGED vars \/ StopProxy \/ ClearTraffic
  BY <1>1 DEF TypeOK, vars, StopProxy, ClearTraffic, Released, lifecycle, exchange, threads,
              counters, events
<1>2. ASSUME NEW s \in Starts, ProxyStep(s) PROVE TypeOK'
  BY <1>2 DEF TypeOK, ProxyStep, StartProxy, Bind, BuildFails, Serve, Drain, Finish, Released,
              exchange, threads, counters, events
<1> QED BY <1>1, <1>2, ExchangeTypes, WorkerTypes, DiagnoseTypes DEF Next

-----------------------------------------------------------------------------
(* Exchanges, proxies and jobs *)

(* Every step keeps exchanges with their proxies and jobs with their       *)
(* workers.                                                                *)
LEMMA StepShape == TypeOK /\ Shape /\ [Next]_vars => Shape'
<1> SUFFICES ASSUME TypeOK, Shape, [Next]_vars PROVE Shape'
  OBVIOUS
<1> USE DEF Shape, TypeOK, lifecycle, exchange, threads, counters, events
<1>1. CASE UNCHANGED vars \/ StopProxy \/ ClearTraffic \/ Diagnose
  BY <1>1 DEF vars, StopProxy, ClearTraffic, Diagnose, ReadSubmitted, ReadCompleted, ReadDropped
<1>2. ASSUME NEW s \in Starts, ProxyStep(s) PROVE Shape'
  <2>1. UNCHANGED <<flow, via, job>>
    BY <1>2 DEF ProxyStep, StartProxy, Bind, BuildFails, Serve, Drain, Finish
  <2>2. CASE Bind(s)
    BY <2>1, <2>2 DEF Bind
  <2>3. CASE ~Bind(s)
    <3>1. UNCHANGED worker
      BY <1>2, <2>3 DEF ProxyStep, StartProxy, BuildFails, Serve, Drain, Finish
    <3>2. \A r \in Starts : proxy'[r] \in {"idle", "binding"} => proxy[r] \in {"idle", "binding"}
      BY <1>2, <2>3 DEF ProxyStep, StartProxy, BuildFails, Serve, Drain, Finish
    <3> QED BY <2>1, <3>1, <3>2
  <2> QED BY <2>2, <2>3
<1>3. ASSUME NEW x \in Exchanges, ExchangeStep(x) PROVE Shape'
  <2>1. UNCHANGED <<proxy, worker, job>>
    BY <1>3 DEF ExchangeStep, Request, Respond, Settle, Leave, Announce, Send
  <2>2. \A y \in Exchanges \ {x} : flow'[y] = flow[y] /\ via'[y] = via[y]
    BY <1>3 DEF ExchangeStep, Request, Respond, Settle, Leave, Announce, Send, Moves
  <2>3. flow'[x] # "idle" => via'[x] \in Starts
    BY <1>3 DEF ExchangeStep, Request, Respond, Settle, Leave, Announce, Send, Moves
  <2> QED BY <2>1, <2>2, <2>3
<1>4. ASSUME NEW s \in Starts, WorkerStep(s) PROVE Shape'
  <2> USE DEF WorkerMoves
  <2>1. CASE Receive(s)
    <3>1. Head(queue[s]) \in Exchanges
      BY <2>1 DEF Receive
    <3> QED BY <2>1, <3>1 DEF Receive
  <2>2. CASE Load(s) \/ Exit(s)
    BY <2>2 DEF Load, Exit
  <2>3. CASE Evaluate(s)
    BY <2>3 DEF Evaluate
  <2>5. CASE Complete(s)
    BY <2>5 DEF Complete
  <2> QED BY <1>4, <2>1, <2>2, <2>3, <2>5 DEF WorkerStep
<1> QED BY <1>1, <1>2, <1>3, <1>4 DEF Next

(* Every step keeps the signal to proxies that have served.                *)
LEMMA StepFired ==
    TypeOK /\ FiredHasServed /\ HandleIsServing /\ [Next]_vars => FiredHasServed'
<1> SUFFICES ASSUME TypeOK, FiredHasServed, HandleIsServing, [Next]_vars,
                    NEW r \in fired' PROVE proxy'[r] \in {"serving", "draining", "over"}
  BY DEF FiredHasServed
<1>1. r \in fired \/ (r = handle /\ handle # NoStart)
  BY DEF Next, vars, StopProxy, ProxyStep, StartProxy, Bind, BuildFails, Serve, Drain, Finish,
         Released, Diagnose, ReadSubmitted, ReadCompleted, ReadDropped, ClearTraffic, WorkerStep,
         Receive, Load, Evaluate, Complete, Exit, ExchangeStep, Request, Respond, Settle, Leave,
         Announce, Send, lifecycle
<1>2. r \in Starts /\ proxy[r] \in {"serving", "draining", "over"}
  BY <1>1 DEF FiredHasServed, HandleIsServing, TypeOK
<1>3. proxy'[r] = proxy[r] \/ proxy'[r] \in {"serving", "draining", "over"}
  BY <1>2 DEF Next, vars, StopProxy, ProxyStep, StartProxy, Bind, BuildFails, Serve, Drain, Finish,
         Diagnose, ReadSubmitted, ReadCompleted, ReadDropped, ClearTraffic, WorkerStep,
         Receive, Load, Evaluate, Complete, Exit, ExchangeStep, Request, Respond, Settle, Leave,
         Announce, Send, lifecycle, TypeOK
<1> QED BY <1>2, <1>3

(* Every step keeps the handle at a proxy nobody told to end.              *)
LEMMA StepHandle ==
    TypeOK /\ FiredHasServed /\ HandleIsServing /\ [Next]_vars => HandleIsServing'
<1> SUFFICES ASSUME TypeOK, FiredHasServed, HandleIsServing, [Next]_vars PROVE HandleIsServing'
  OBVIOUS
<1> USE DEF HandleIsServing
<1>1. CASE UNCHANGED lifecycle
  BY <1>1 DEF lifecycle
<1>2. CASE StopProxy
  BY <1>2 DEF StopProxy
<1>3. ASSUME NEW s \in Starts, ProxyStep(s) PROVE HandleIsServing'
  <2> USE DEF TypeOK
  <2>1. CASE StartProxy(s) \/ Bind(s) \/ BuildFails(s) \/ Drain(s)
    <3>1. UNCHANGED <<handle, fired>> /\ handle # s
      BY <2>1 DEF StartProxy, Bind, BuildFails, Drain
    <3>2. \A r \in Starts \ {s} : proxy'[r] = proxy[r]
      BY <2>1 DEF StartProxy, Bind, BuildFails, Drain
    <3> QED BY <3>1, <3>2
  <2>2. CASE Serve(s)
    <3>1. s \notin fired
      BY <2>2 DEF Serve, FiredHasServed
    <3> QED BY <2>2, <3>1 DEF Serve, Released
  <2>3. CASE Finish(s)
    BY <2>3 DEF Finish
  <2> QED BY <1>3, <2>1, <2>2, <2>3 DEF ProxyStep
<1> QED BY <1>1, <1>2, <1>3 DEF Next, vars, Diagnose, ReadSubmitted, ReadCompleted, ReadDropped,
        ClearTraffic, WorkerStep, Receive, Load, Evaluate, Complete, Exit, ExchangeStep, Request,
        Respond, Settle, Leave, Announce, Send

-----------------------------------------------------------------------------
(* Flows and tags *)

(* Every step keeps the announcement of a flow ahead of its job.           *)
LEMMA StepTold == TypeOK /\ Shape /\ Told /\ [Next]_vars => Told'
<1> SUFFICES ASSUME TypeOK, Shape, Told, [Next]_vars PROVE Told'
  OBVIOUS
<1> USE DEF Told, TagsFollowFlow, TypeOK
<1>1. CASE UNCHANGED <<flow, queue, job, events>>
  BY <1>1 DEF events
<1>2. ASSUME NEW x \in Exchanges, Request(x) \/ Respond(x) \/ Settle(x) \/ Leave(x)
      PROVE  Told'
  BY <1>2 DEF Request, Respond, Settle, Leave, Moves, threads, events
<1>3. ASSUME NEW x \in Exchanges, Announce(x) PROVE Told'
  BY <1>3 DEF Announce, Moves, threads
<1>4. ASSUME NEW x \in Exchanges, Send(x) PROVE Told'
  <2>1. x \in flows /\ via[x] \in Starts /\ UNCHANGED <<job, events>>
    BY <1>4 DEF Send, Moves, Shape
  <2>2. ASSUME NEW s \in Starts, NEW i \in 1..Len(queue'[s]) PROVE queue'[s][i] \in flows
    <3>1. queue'[s] = queue[s] \/ queue'[s] = Append(queue[s], x)
      BY <1>4, <2>1 DEF Send, Enqueue
    <3>2. CASE queue'[s] = queue[s]
      BY <2>2, <3>2
    <3>3. CASE queue'[s] = Append(queue[s], x)
      <4>1. queue[s] \in Seq(Exchanges) /\ i \in 1..Len(queue[s]) + 1
        BY <2>2, <3>3
      <4>2. queue'[s][i] = IF i = Len(queue[s]) + 1 THEN x ELSE queue[s][i]
        BY <3>3, <4>1
      <4>3. i # Len(queue[s]) + 1 => i \in 1..Len(queue[s])
        BY <4>1
      <4> QED BY <2>1, <4>2, <4>3
    <3> QED BY <3>1, <3>2, <3>3
  <2>3. \A y \in Exchanges : flow'[y] = "sending" => y \in flows
    BY <1>4 DEF Send, Moves
  <2> QED BY <2>1, <2>2, <2>3 DEF events
<1>5. ASSUME NEW s \in Starts, Receive(s) PROVE Told'
  <2>1. Head(queue[s]) \in flows /\ \A i \in 1..Len(Tail(queue[s])) : Tail(queue[s])[i] \in flows
    <3>1. queue[s] \in Seq(Exchanges) /\ queue[s] # <<>>
      BY <1>5 DEF Receive
    <3>2. /\ Len(queue[s]) \in Nat \ {0}
          /\ Head(queue[s]) = queue[s][1]
          /\ Len(Tail(queue[s])) = Len(queue[s]) - 1
          /\ \A i \in 1..Len(Tail(queue[s])) : Tail(queue[s])[i] = queue[s][i + 1]
      BY <3>1
    <3>3. /\ 1 \in 1..Len(queue[s])
          /\ \A i \in 1..Len(Tail(queue[s])) : i + 1 \in 1..Len(queue[s])
      BY <3>2
    <3>4. \A i \in 1..Len(queue[s]) : queue[s][i] \in flows
      OBVIOUS
    <3> HIDE DEF Told, TypeOK
    <3> QED BY <3>2, <3>3, <3>4, Zenon
  <2>2. /\ queue' = [queue EXCEPT ![s] = Tail(queue[s])]
        /\ job' = [job EXCEPT ![s] = Head(queue[s])]
        /\ UNCHANGED <<flow, events>>
    BY <1>5 DEF Receive, exchange
  <2> QED BY <2>1, <2>2 DEF events
<1>6. ASSUME NEW s \in Starts, Evaluate(s) PROVE Told'
  BY <1>6 DEF Evaluate, WorkerMoves, Shape, exchange, threads
<1>7. ASSUME NEW s \in Starts, Complete(s) PROVE Told'
  BY <1>7 DEF Complete, exchange, events
<1> QED BY <1>1, <1>2, <1>3, <1>4, <1>5, <1>6, <1>7 DEF Next, vars, StopProxy, Diagnose,
        ReadSubmitted, ReadCompleted, ReadDropped, ClearTraffic, ProxyStep, StartProxy, Bind,
        BuildFails, Serve, Drain, Finish, WorkerStep, Load, Exit, ExchangeStep, exchange, threads

-----------------------------------------------------------------------------
(* Accounts *)

(* Where queue, jobs, counters and senders stay, the account stays.        *)
LEMMA AccountKept ==
    ASSUME Accounted, UNCHANGED <<queue, job, counters>>,
           \A s \in Starts : Sending(s)' = Sending(s)
    PROVE  Accounted'
BY DEF Accounted, InFlight, Busy, counters

(* An exchange that is announced is one more job on its way.               *)
LEMMA SendingGrows ==
    ASSUME TypeOK, NEW x \in Exchanges, Announce(x), NEW s \in Starts
    PROVE  Cardinality(Sending(s)') = Cardinality(Sending(s)) + (IF via[x] = s THEN 1 ELSE 0)
<1>1. x \notin Sending(s)
  BY DEF Announce, Moves, Sending
<1>2. Sending(s)' = IF via[x] = s THEN Sending(s) \cup {x} ELSE Sending(s)
  BY DEF Announce, Moves, Sending, TypeOK
<1>3. IsFiniteSet(Sending(s)) /\ Cardinality(Sending(s)) \in Nat
  BY SendingFinite
<1>4. x \notin Sending(s) => Cardinality(Sending(s) \cup {x}) = Cardinality(Sending(s)) + 1
  BY <1>3, FS_AddElement
<1>5. CASE via[x] = s
  BY <1>1, <1>2, <1>4, <1>5
<1>6. CASE via[x] # s
  BY <1>2, <1>3, <1>6
<1> QED BY <1>5, <1>6

(* An exchange that has sent is one less.                                  *)
LEMMA SendingShrinks ==
    ASSUME TypeOK, NEW x \in Exchanges, Send(x), NEW s \in Starts
    PROVE  Cardinality(Sending(s)') = Cardinality(Sending(s)) - (IF via[x] = s THEN 1 ELSE 0)
<1>1. via[x] = s => x \in Sending(s)
  BY DEF Send, Moves, Sending
<1>2. Sending(s)' = IF via[x] = s THEN Sending(s) \ {x} ELSE Sending(s)
  BY DEF Send, Moves, Sending, TypeOK
<1>3. IsFiniteSet(Sending(s)) /\ Cardinality(Sending(s)) \in Nat
  BY SendingFinite
<1>4. x \in Sending(s) => Cardinality(Sending(s) \ {x}) = Cardinality(Sending(s)) - 1
  BY <1>3, FS_RemoveElement
<1>5. CASE via[x] = s
  BY <1>1, <1>2, <1>4, <1>5
<1>6. CASE via[x] # s
  BY <1>2, <1>3, <1>6
<1> QED BY <1>5, <1>6

(* The account of s in numbers, ...                                        *)
Sum(s, q, b, c, m, n) ==
    /\ Len(queue[s]) = q /\ Busy(s) = b /\ Cardinality(Sending(s)) = c
    /\ completed[s] = m /\ dropped[s] = n
    /\ submitted[s] = m + n + (q + b + c)

(* ... which exist while the accounts hold.                                *)
LEMMA Account ==
    ASSUME TypeOK, Accounted, NEW s \in Starts
    PROVE  \E q, b, c, m, n \in Nat : Sum(s, q, b, c, m, n)
<1>1. Sum(s, Len(queue[s]), Busy(s), Cardinality(Sending(s)), completed[s], dropped[s])
  BY DEF Accounted, InFlight, Sum
<1> QED BY <1>1, Numbers

(* Every step keeps the accounts.                                          *)
LEMMA StepAccounted == TypeOK /\ Shape /\ Accounted /\ [Next]_vars => Accounted'
<1> SUFFICES ASSUME TypeOK, Shape, Accounted, [Next]_vars PROVE Accounted'
  OBVIOUS
<1>1. CASE UNCHANGED <<flow, via, queue, job, counters>>
  <2>1. \A s \in Starts : Sending(s)' = Sending(s)
    BY <1>1 DEF Sending
  <2> QED BY <1>1, <2>1, AccountKept
<1>2. ASSUME NEW x \in Exchanges, Request(x) \/ Respond(x) \/ Settle(x) \/ Leave(x)
      PROVE  Accounted'
  <2>1. UNCHANGED <<queue, job, counters>>
    BY <1>2 DEF Request, Respond, Settle, Leave, threads
  <2>2. /\ flow[x] # "sending" /\ flow'[x] # "sending"
        /\ \A y \in Exchanges \ {x} : flow'[y] = flow[y] /\ via'[y] = via[y]
    BY <1>2 DEF Request, Respond, Settle, Leave, Moves, TypeOK
  <2>3. \A s \in Starts : Sending(s)' = Sending(s)
    BY <2>2 DEF Sending
  <2> QED BY <2>1, <2>3, AccountKept
<1>3. ASSUME NEW x \in Exchanges, Announce(x) PROVE Accounted'
  <2> SUFFICES ASSUME NEW s \in Starts
               PROVE  submitted'[s] = completed'[s] + dropped'[s] + InFlight(s)'
    BY DEF Accounted
  <2>1. PICK q, b, c, m, n \in Nat : Sum(s, q, b, c, m, n)
    BY Account
  <2>2. InFlight(s)' = q + b + Cardinality(Sending(s)')
    BY <1>3, <2>1 DEF Announce, InFlight, Busy, threads, Sum
  <2>3. completed'[s] = m /\ dropped'[s] = n
    BY <1>3, <2>1 DEF Announce, Sum
  <2>4. CASE via[x] # s
    <3>1. submitted'[s] = m + n + (q + b + c)
      BY <1>3, <2>1, <2>4 DEF Announce, Increment, TypeOK, Sum
    <3>2. Cardinality(Sending(s)') = c
      BY <1>3, <2>1, <2>4, SendingGrows DEF Sum
    <3> QED BY <2>2, <2>3, <3>1, <3>2
  <2>5. CASE via[x] = s
    <3>1. submitted'[s] = m + n + (q + b + c) + 1
      BY <1>3, <2>1, <2>5 DEF Announce, Increment, TypeOK, Sum
    <3>2. Cardinality(Sending(s)') = c + 1
      BY <1>3, <2>1, <2>5, SendingGrows DEF Sum
    <3>3. InFlight(s)' = q + b + (c + 1)
      BY <2>2, <3>2
    <3>4. m + n + (q + b + c) + 1 = m + n + (q + b + (c + 1))
      OBVIOUS
    <3> QED BY <2>3, <3>1, <3>3, <3>4
  <2> QED BY <2>4, <2>5
<1>4. ASSUME NEW x \in Exchanges, Send(x) PROVE Accounted'
  <2> SUFFICES ASSUME NEW s \in Starts
               PROVE  submitted'[s] = completed'[s] + dropped'[s] + InFlight(s)'
    BY DEF Accounted
  <2>1. PICK q, b, c, m, n \in Nat : Sum(s, q, b, c, m, n)
    BY Account
  <2>2. InFlight(s)' = Len(queue'[s]) + b + Cardinality(Sending(s)')
    BY <1>4, <2>1 DEF Send, InFlight, Busy, Sum
  <2>3. submitted'[s] = m + n + (q + b + c) /\ completed'[s] = m
    BY <1>4, <2>1 DEF Send, Sum
  <2>4. CASE via[x] # s
    <3>1. Len(queue'[s]) = q /\ dropped'[s] = n
      BY <1>4, <2>1, <2>4 DEF Send, Enqueue, Increment, TypeOK, Sum
    <3>2. Cardinality(Sending(s)') = c
      BY <1>4, <2>1, <2>4, SendingShrinks DEF Sum
    <3> QED BY <2>2, <2>3, <3>1, <3>2
  <2>5. CASE via[x] = s /\ Enqueue(x) /\ UNCHANGED dropped
    <3>1. Len(queue'[s]) = q + 1
      <4>1. Len(Append(queue[s], x)) = Len(queue[s]) + 1
        BY DEF TypeOK
      <4>2. queue'[s] = Append(queue[s], x)
        BY <2>5 DEF Enqueue, TypeOK
      <4> QED BY <2>1, <4>1, <4>2 DEF Sum
    <3>2. Cardinality(Sending(s)') = c - 1
      BY <1>4, <2>1, <2>5, SendingShrinks DEF Sum
    <3>3. InFlight(s)' = (q + 1) + b + (c - 1)
      BY <2>2, <3>1, <3>2
    <3>4. m + n + (q + b + c) = m + n + ((q + 1) + b + (c - 1))
      OBVIOUS
    <3>5. dropped'[s] = n
      BY <2>1, <2>5 DEF Sum
    <3> QED BY <2>3, <3>3, <3>4, <3>5
  <2>6. CASE via[x] = s /\ Increment(dropped, via[x]) /\ UNCHANGED queue
    <3>1. dropped'[s] = n + 1
      BY <2>1, <2>6 DEF Increment, TypeOK, Sum
    <3>2. Cardinality(Sending(s)') = c - 1
      BY <1>4, <2>1, <2>6, SendingShrinks DEF Sum
    <3>3. InFlight(s)' = q + b + (c - 1)
      BY <2>1, <2>2, <2>6, <3>2 DEF Sum
    <3>4. m + n + (q + b + c) = m + (n + 1) + (q + b + (c - 1))
      OBVIOUS
    <3> QED BY <2>3, <3>1, <3>3, <3>4
  <2> QED BY <1>4, <2>4, <2>5, <2>6 DEF Send
<1>5. ASSUME NEW r \in Starts, Receive(r) \/ Complete(r) PROVE Accounted'
  <2> SUFFICES ASSUME NEW s \in Starts
               PROVE  submitted'[s] = completed'[s] + dropped'[s] + InFlight(s)'
    BY DEF Accounted
  <2>1. PICK q, b, c, m, n \in Nat : Sum(s, q, b, c, m, n)
    BY Account
  <2>2. Sending(s)' = Sending(s)
    BY <1>5 DEF Receive, Complete, Sending, exchange
  <2>3. InFlight(s)' = Len(queue'[s]) + Busy(s)' + c
    BY <2>1, <2>2 DEF InFlight, Sum
  <2>4. submitted'[s] = m + n + (q + b + c) /\ dropped'[s] = n
    BY <1>5, <2>1 DEF Receive, Complete, counters, Sum
  <2>5. CASE r # s
    <3>1. queue'[s] = queue[s] /\ Busy(s)' = Busy(s) /\ completed'[s] = completed[s]
      BY <1>5, <2>5 DEF Receive, Complete, Increment, Busy, counters, TypeOK
    <3> QED BY <2>1, <2>3, <2>4, <3>1 DEF Sum
  <2>6. CASE r = s /\ Receive(s)
    <3>1. Head(queue[s]) \in Exchanges /\ Len(Tail(queue[s])) = Len(queue[s]) - 1
      BY <2>6 DEF Receive, TypeOK
    <3>2. /\ queue'[s] = Tail(queue[s]) /\ job'[s] = Head(queue[s])
          /\ job[s] = NoExchange /\ completed'[s] = m
      BY <2>1, <2>6 DEF Receive, WorkerMoves, Shape, TypeOK, counters, Sum
    <3>3. b = 0 /\ Busy(s)' = 1
      BY <2>1, <3>1, <3>2 DEF Busy, Sum
    <3>4. Len(queue'[s]) = q - 1
      BY <2>1, <3>1, <3>2 DEF Sum
    <3>5. InFlight(s)' = (q - 1) + 1 + c
      BY <2>3, <3>3, <3>4
    <3>6. m + n + (q + 0 + c) = m + n + ((q - 1) + 1 + c)
      OBVIOUS
    <3> QED BY <2>4, <3>2, <3>3, <3>5, <3>6
  <2>7. CASE r = s /\ Complete(s)
    <3>1. /\ job[s] # NoExchange /\ job'[s] = NoExchange /\ queue' = queue
          /\ completed'[s] = completed[s] + 1
      BY <2>7 DEF Complete, WorkerMoves, Increment, Shape, TypeOK
    <3>2. b = 1 /\ Busy(s)' = 0
      BY <2>1, <3>1 DEF Busy, Sum
    <3>3. InFlight(s)' = q + 0 + c /\ completed'[s] = m + 1
      BY <2>1, <2>3, <3>1, <3>2 DEF Sum
    <3>4. m + n + (q + 1 + c) = (m + 1) + n + (q + 0 + c)
      OBVIOUS
    <3> QED BY <2>4, <3>2, <3>3, <3>4
  <2> QED BY <1>5, <2>5, <2>6, <2>7
<1> QED BY <1>1, <1>2, <1>3, <1>4, <1>5 DEF Next, vars, StopProxy, Diagnose, ReadSubmitted,
        ReadCompleted, ReadDropped, ClearTraffic, ProxyStep, StartProxy, Bind, BuildFails, Serve,
        Drain, Finish, WorkerStep, Load, Evaluate, Exit, ExchangeStep, exchange, threads

-----------------------------------------------------------------------------
(* The estimate *)

(* Counters only grow.                                                     *)
LEMMA StepCounts ==
    ASSUME TypeOK, Shape, [Next]_vars, NEW s \in Starts
    PROVE  completed'[s] >= completed[s] /\ dropped'[s] >= dropped[s]
<1>1. completed[s] \in Nat /\ dropped[s] \in Nat
  BY DEF TypeOK
<1>2. CASE UNCHANGED <<completed, dropped>>
  BY <1>1, <1>2
<1>3. ASSUME NEW x \in Exchanges, Send(x)
      PROVE  completed'[s] >= completed[s] /\ dropped'[s] >= dropped[s]
  <2>1. completed' = completed /\ dropped'[s] \in {dropped[s], dropped[s] + 1}
    BY <1>3 DEF Send, Increment, TypeOK
  <2> QED BY <1>1, <2>1
<1>4. ASSUME NEW r \in Starts, Complete(r)
      PROVE  completed'[s] >= completed[s] /\ dropped'[s] >= dropped[s]
  <2>1. dropped' = dropped /\ completed'[s] \in {completed[s], completed[s] + 1}
    BY <1>4 DEF Complete, Increment, TypeOK
  <2> QED BY <1>1, <2>1
<1> QED BY <1>2, <1>3, <1>4 DEF Next, vars, StopProxy, Diagnose, ReadSubmitted, ReadCompleted,
        ReadDropped, ClearTraffic, ProxyStep, StartProxy, Bind, BuildFails, Serve, Drain, Finish,
        WorkerStep, Receive, Load, Evaluate, Exit, ExchangeStep, Request, Respond, Settle, Leave,
        Announce, counters

(* Every step keeps the estimate below the truth.                          *)
LEMMA StepEstimate ==
    TypeOK /\ Shape /\ Accounted /\ Estimate /\ [Next]_vars => Estimate'
<1> SUFFICES ASSUME TypeOK, Shape, Accounted, Estimate, [Next]_vars PROVE Estimate'
  OBVIOUS
<1> USE DEF DepthNeverOverstates
<1>0. /\ reader.depth \in Nat /\ reader.real \in Nat
      /\ reader = [phase |-> reader.phase, of |-> reader.of,
                   depth |-> reader.depth, real |-> reader.real]
  BY DEF TypeOK, Reading
<1>1. CASE UNCHANGED reader
  <2>1. ASSUME reader.of \in Starts
        PROVE  /\ completed'[reader.of] >= completed[reader.of]
               /\ dropped'[reader.of] >= dropped[reader.of]
               /\ completed[reader.of] \in Nat /\ dropped[reader.of] \in Nat
               /\ completed'[reader.of] \in Nat /\ dropped'[reader.of] \in Nat
    <3>1. TypeOK'
      BY StepTypes
    <3> QED BY <2>1, <3>1, StepCounts DEF TypeOK
  <2> QED BY <1>0, <1>1, <2>1 DEF Estimate
<1>2. CASE ReadSubmitted
  <2>1. /\ active \in Starts /\ UNCHANGED <<completed, dropped>>
        /\ reader'.phase = "submitted" /\ reader'.of = active
        /\ reader'.depth = submitted[active] /\ reader'.real = InFlight(active)
    BY <1>2 DEF ReadSubmitted, TypeOK, counters
  <2>2. /\ submitted[active] = completed[active] + dropped[active] + InFlight(active)
        /\ completed[active] \in Nat /\ dropped[active] \in Nat /\ InFlight(active) \in Nat
    BY <2>1, Numbers, InFlightType DEF Accounted
  <2> QED BY <2>1, <2>2 DEF Estimate
<1>3. CASE ReadCompleted
  <2>1. /\ reader.of \in Starts /\ UNCHANGED <<completed, dropped>>
        /\ reader.depth <= reader.real + completed[reader.of] + dropped[reader.of]
        /\ reader'.phase = "completed" /\ reader'.of = reader.of
        /\ reader'.real = reader.real
        /\ reader'.depth = Minus(reader.depth, completed[reader.of])
    BY <1>0, <1>3 DEF ReadCompleted, Estimate, counters
  <2>2. completed[reader.of] \in Nat /\ dropped[reader.of] \in Nat
    BY <2>1 DEF TypeOK
  <2>3. Minus(reader.depth, completed[reader.of]) <= reader.real + dropped[reader.of]
    BY <1>0, <2>1, <2>2 DEF Minus
  <2> QED BY <2>1, <2>3 DEF Estimate
<1>4. CASE ReadDropped
  <2>1. /\ reader.of \in Starts /\ reader.depth <= reader.real + dropped[reader.of]
        /\ reader'.phase = "done" /\ reader'.real = reader.real
        /\ reader'.depth = Minus(reader.depth, dropped[reader.of])
    BY <1>0, <1>4 DEF ReadDropped, Estimate
  <2>2. dropped[reader.of] \in Nat
    BY <2>1 DEF TypeOK
  <2>3. Minus(reader.depth, dropped[reader.of]) <= reader.real
    BY <1>0, <2>1, <2>2 DEF Minus
  <2> QED BY <2>1, <2>3 DEF Estimate
<1> QED BY <1>1, <1>2, <1>3, <1>4 DEF Next, vars, StopProxy, Diagnose, ClearTraffic, ProxyStep,
        StartProxy, Bind, BuildFails, Serve, Drain, Finish, WorkerStep, Receive, Load, Evaluate,
        Complete, Exit, ExchangeStep, Request, Respond, Settle, Leave, Announce, Send

-----------------------------------------------------------------------------
(* The inductive invariant and what follows from it *)

(* The inductive invariant.                                               *)
Books ==
    /\ TypeOK /\ Shape
    /\ FiredHasServed /\ HandleIsServing
    /\ Told /\ Accounted /\ Estimate

(* It holds at first, ...                                                  *)
LEMMA InitBooks == Init => Books
<1> SUFFICES ASSUME Init PROVE Books
  OBVIOUS
<1>1. TypeOK
  BY InitTypes
<1>2. Shape /\ FiredHasServed /\ HandleIsServing /\ Told /\ Estimate
  BY DEF Init, Shape, FiredHasServed, HandleIsServing, Told, TagsFollowFlow, Estimate,
         DepthNeverOverstates
<1>3. \A s \in Starts : InFlight(s) = 0
  <2>1. \A s \in Starts : Sending(s) = {}
    BY DEF Init, Sending
  <2>2. \A s \in Starts : Len(queue[s]) = 0 /\ Busy(s) = 0 /\ Cardinality(Sending(s)) = 0
    BY <2>1, FS_EmptySet DEF Init, Busy
  <2> QED BY <2>2 DEF InFlight
<1>4. Accounted
  BY <1>3 DEF Init, Accounted
<1> QED BY <1>1, <1>2, <1>4 DEF Books

(* ... every step keeps it, ...                                            *)
LEMMA StepBooks == Books /\ [Next]_vars => Books'
BY StepTypes, StepShape, StepFired, StepHandle, StepTold, StepAccounted, StepEstimate DEF Books

(* ... so it always holds.                                                 *)
THEOREM BooksHold == Spec => []Books
BY InitBooks, StepBooks, PTL DEF Spec

(* The state is well typed and no queue outgrows its capacity.             *)
THEOREM TypeCorrect == Spec => []TypeOK
BY BooksHold, PTL DEF Books

(* The handle in ProxyInner.shutdown belongs to a proxy that serves and    *)
(* was not told to end, however starts, stops and late ends meet.          *)
THEOREM HandleHolds == Spec => []HandleIsServing
BY BooksHold, PTL DEF Books

(* The counters of the rule queue account for every job.                   *)
THEOREM AccountsHold == Spec => []Accounted
BY BooksHold, PTL DEF Books

(* No tags are sent to the interface before their flow.                    *)
THEOREM TagsFollow == Spec => []TagsFollowFlow
BY BooksHold, PTL DEF Books, Told

(* The depth shown by diagnostics never exceeds the jobs that were in      *)
(* flight when it began to read.                                           *)
THEOREM DepthHolds == Spec => []DepthNeverOverstates
BY BooksHold, PTL DEF Books, Estimate
=============================================================================
