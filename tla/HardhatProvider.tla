---------------------------- MODULE HardhatProvider ----------------------------
(***************************************************************************)
(* The door to the node: requests wait for a mutex and are served one at a *)
(* time. The timer of interval mining asks like any client; it is stopped, *)
(* started and replaced by requests while its own are still waiting.       *)
(***************************************************************************)
EXTENDS Naturals, Sequences, FiniteSets

CONSTANTS
  Clients,
  IntervalConfigured,  \* whether the configuration asks for interval mining
  MaxChanges,          \* bound on the requests that stop, start or replace a timer
  MaxScheds            \* bound on the calls that are due in one tick

ASSUME ProviderAssumption == IntervalConfigured \in BOOLEAN /\ MaxChanges \in Nat

VARIABLES
  tasks,     \* _tasks of the mutex: the requests that wait for it
  scheds,    \* how many calls of _sched are due in the next tick
  count,     \* count of the mutex: 1 when it is free
  serving,   \* the request that has it
  waiting,   \* the clients without an answer
  timers,    \* the MiningTimers made so far, the last one for the current node
  made,      \* how many
  node,      \* whether there is a node
  interval,  \* whether interval mining is asked for
  refused,   \* whether a request was refused with the mutex taken
  changes    \* how many requests were made that change timers

mutexVars == <<tasks, scheds, count, serving>>
nodeVars == <<timers, made, node, interval>>
providerVars == <<mutexVars, waiting, nodeVars, refused, changes>>

None == [op |-> "none"]
TimerIds == 1..(MaxChanges + 1)
Changing == {"set interval", "clear interval", "reset"}
Ops == {"call", "object params"} \cup Changing
Request(from, op) == [from |-> from, op |-> op]

(* Of the timeouts of a timer, _timeout holds the last; the others are past *)
(* clearing. A loop waits for a timeout, for its block, or is about to set  *)
(* a timeout.                                                               *)
NoTimer == [running |-> FALSE, enabled |-> FALSE, last |-> FALSE, others |-> 0, mining |-> 0, mined |-> 0]
Timeouts(t) == t.others + IF t.last THEN 1 ELSE 0
Loops(t) == Timeouts(t) + t.mining + t.mined

ProviderInit ==
  /\ tasks = <<>> /\ scheds = 0 /\ count = 1 /\ serving = None
  /\ waiting = {}
  /\ timers = [t \in TimerIds |-> NoTimer] /\ made = 0 /\ node = FALSE /\ interval = FALSE
  /\ refused = FALSE /\ changes = 0
------------------------------------------------------------------------------
(* The mutex                                                                *)
Acquire(r) == tasks' = Append(tasks, r) /\ scheds' = scheds + 1 /\ UNCHANGED <<count, serving>>

(* The first of those that wait gets the mutex if it is free.               *)
Taken(free) ==
  IF free > 0 /\ tasks # <<>>
    THEN count' = free - 1 /\ serving' = Head(tasks) /\ tasks' = Tail(tasks)
    ELSE count' = free /\ serving' = None /\ UNCHANGED tasks

Sched ==
  /\ scheds > 0
  /\ scheds' = scheds - 1
  /\ IF count > 0 THEN Taken(count) ELSE UNCHANGED <<tasks, count, serving>>
  /\ UNCHANGED <<waiting, nodeVars, refused, changes>>

(* Mutant: whoever waits is left to the calls of _sched that are due. *)
ReleaseOnly == count' = count + 1 /\ serving' = None /\ UNCHANGED <<tasks, scheds>>

Release == Taken(count + 1) /\ UNCHANGED scheds
------------------------------------------------------------------------------
(* A MiningTimer                                                            *)
WithTimeout(t) == [t EXCEPT !.last = TRUE, !.others = Timeouts(t)]

Start(t) == IF t.running \/ ~t.enabled THEN t ELSE WithTimeout([t EXCEPT !.running = TRUE])

Stop(t) == IF ~t.running THEN t ELSE [t EXCEPT !.running = FALSE, !.last = FALSE]

(* Mutant: the timeout is cleared and the state stays RUNNING. *)
SetBlockTimeWithoutStop(t, positive) ==
  IF positive THEN Start([t EXCEPT !.enabled = TRUE, !.last = FALSE]) ELSE Stop(t)

(* Mutant: a block time of zero is stored, and the timer goes on. *)
SetBlockTimeWhileRunning(t, positive) ==
  IF positive THEN Start(Stop([t EXCEPT !.enabled = TRUE])) ELSE [t EXCEPT !.enabled = FALSE]

(* A block time of zero stops the timer and leaves its block time.          *)
SetBlockTime(t, positive) ==
  IF positive THEN Start(Stop([t EXCEPT !.enabled = TRUE])) ELSE Stop(t)

NewTimer == Start([NoTimer EXCEPT !.enabled = IntervalConfigured])

(* A timeout is over: the loop asks for a block, or ends if it was stopped. *)
Timeout(t) ==
  /\ scheds < MaxScheds
  /\ \E t2 \in {[timers[t] EXCEPT !.last = FALSE], [timers[t] EXCEPT !.others = @ - 1]} :
       /\ t2 # timers[t] /\ t2.others >= 0
       /\ timers' = [timers EXCEPT ![t] = [t2 EXCEPT !.mining = IF t2.running THEN @ + 1 ELSE @]]
  /\ IF timers[t].running THEN Acquire(Request(t, "mine")) ELSE UNCHANGED mutexVars
  /\ UNCHANGED <<waiting, made, node, interval, refused, changes>>

(* Its block was mined: the loop sets its next timeout, stopped or not.     *)
LoopAgain(t) ==
  /\ timers[t].mined > 0
  /\ timers' = [timers EXCEPT ![t] = [WithTimeout(timers[t]) EXCEPT !.mined = timers[t].mined - 1]]
  /\ UNCHANGED <<mutexVars, waiting, made, node, interval, refused, changes>>
------------------------------------------------------------------------------
(* Requests                                                                 *)
Ask(c, op) ==
  /\ c \notin waiting /\ scheds < MaxScheds
  /\ op \in Changing => changes < MaxChanges
  /\ changes' = changes + IF op \in Changing THEN 1 ELSE 0
  /\ waiting' = waiting \cup {c}
  /\ Acquire(Request(c, op))
  /\ UNCHANGED <<nodeVars, refused>>

(* Params that are not an array: the request throws with the mutex taken.   *)
Refuse ==
  /\ serving.op = "object params"
  /\ serving' = None
  /\ waiting' = waiting \ {serving.from}
  /\ refused' = TRUE
  /\ UNCHANGED <<tasks, scheds, count, nodeVars, changes>>

(* The answer goes to a client, or to the loop of a timer.                  *)
Answered(ts) ==
  IF serving.op = "mine"
    THEN /\ timers' = [ts EXCEPT ![serving.from].mining = @ - 1, ![serving.from].mined = @ + 1]
         /\ UNCHANGED waiting
    ELSE /\ timers' = ts
         /\ waiting' = waiting \ {serving.from}

(* _init: a node with a timer of its own, unless there is one.              *)
Initialised ==
  IF node THEN [timers |-> timers, made |-> made, interval |-> interval]
  ELSE [timers |-> [timers EXCEPT ![made + 1] = NewTimer], made |-> made + 1,
        interval |-> IntervalConfigured]

Reply(ts, n, asked) ==
  /\ Release /\ Answered(ts)
  /\ made' = n /\ interval' = asked
  /\ UNCHANGED <<refused, changes>>

Serve ==
  /\ serving.op \in {"call", "mine"}
  /\ Reply(Initialised.timers, Initialised.made, Initialised.interval)
  /\ node' = TRUE

(* evm_setIntervalMining                                                    *)
SetInterval ==
  /\ serving.op \in {"set interval", "clear interval"}
  /\ LET positive == serving.op = "set interval"
         init == Initialised
     IN  Reply([init.timers EXCEPT ![init.made] = SetBlockTime(@, positive)], init.made, positive)
  /\ node' = TRUE

(* hardhat_reset: _send makes a node first if there is none; its timer is   *)
(* stopped, and another node with a timer of its own is made.               *)
Reset ==
  /\ serving.op = "reset"
  /\ LET init == Initialised
     IN  Reply([init.timers EXCEPT ![init.made] = Stop(@), ![init.made + 1] = NewTimer],
               init.made + 1, IntervalConfigured)
  /\ node' = TRUE

(* The node that a reset asks for could not be made.                        *)
FailReset ==
  /\ serving.op = "reset"
  /\ LET init == Initialised
     IN  Reply([init.timers EXCEPT ![init.made] = Stop(@)], init.made, FALSE)
  /\ node' = FALSE

(* Mutant: the mutex is released only after a success. *)
FailInitWithMutex ==
  /\ ~node /\ serving.op \in {"mine", "call"} \cup Changing
  /\ Answered(timers)
  /\ node' = FALSE /\ serving' = None
  /\ UNCHANGED <<tasks, scheds, count, made, interval, refused, changes>>

(* The first node could not be made, nor is there one until another request *)
(* makes it.                                                                *)
FailInit ==
  /\ ~node /\ serving.op \in {"mine", "call"} \cup Changing
  /\ Reply(timers, made, FALSE)
  /\ node' = FALSE

Answer == Serve \/ SetInterval \/ Reset \/ FailReset \/ FailInit
------------------------------------------------------------------------------
Next ==
  \/ Sched \/ Refuse \/ Answer
  \/ \E t \in TimerIds : Timeout(t) \/ LoopAgain(t)
  \/ \E c \in Clients, op \in Ops : Ask(c, op)

ProviderSpec == ProviderInit /\ [][Next]_providerVars

(* The event loop runs what is due: ticks, the continuations of requests    *)
(* and loops, and timeouts, which no chain of ticks keeps out for ever.     *)
FairProviderSpec ==
  /\ ProviderSpec
  /\ WF_providerVars(Sched) /\ WF_providerVars(Refuse) /\ WF_providerVars(Answer)
  /\ \A t \in TimerIds : SF_providerVars(Timeout(t)) /\ WF_providerVars(LoopAgain(t))
------------------------------------------------------------------------------
(* The requests of a kind under way: in line or being served.               *)
UnderWay(from, ops) ==
  Cardinality({i \in DOMAIN tasks : tasks[i].op \in ops /\ tasks[i].from = from})
    + IF serving # None /\ serving.op \in ops /\ serving.from = from THEN 1 ELSE 0

(* The mutex is never free while a request waits that nobody will wake, it  *)
(* is never given twice, and no request is forgotten: each client and each  *)
(* loop without an answer waits in line once or is being served.            *)
MutexOK ==
  /\ count \in {0, 1}
  /\ serving # None => count = 0
  /\ count = 0 /\ serving = None => refused
  /\ count = 1 /\ tasks # <<>> => scheds > 0
  /\ \A c \in Clients : UnderWay(c, Ops) = IF c \in waiting THEN 1 ELSE 0
  /\ \A t \in TimerIds : UnderWay(t, {"mine"}) = timers[t].mining

(* Every request is answered, as long as none with object params came.      *)
EveryRequestAnswered == \A c \in Clients : c \in waiting ~> (c \notin waiting \/ refused)

(* While interval mining is asked for, the loop of the current timer is     *)
(* served a block by a node again and again. Once it is no more, every loop *)
(* ends unless it is asked for again, those that still wait for a block and *)
(* those of stopped timeouts included; and so do the loops of the timer of  *)
(* a node that was replaced.                                                *)
IntervalMiningFollows ==
  /\ interval ~> (~interval \/ refused \/ (node /\ serving = Request(made, "mine")))
  /\ ~interval ~> (interval \/ refused \/ \A t \in TimerIds : Loops(timers[t]) = 0)
  /\ \A t \in TimerIds :
       t < made ~> (Loops(timers[t]) = 0 \/ refused)
================================================================================
