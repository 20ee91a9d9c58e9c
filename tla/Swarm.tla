--------------------------------- MODULE Swarm ---------------------------------
(***************************************************************************)
(* The hub and its agents.  One process runs the hub: its main thread      *)
(* starts the configured agents and then serves one request at a time; the *)
(* bus poll thread handles what agents send; relays run on a pool.  Every  *)
(* agent has a runner in a thread or process of its own, connected through *)
(* a DEALER socket.  A SIGTERM runs the shutdown inside whatever the main  *)
(* thread is doing.                                                        *)
(*                                                                         *)
(* An action is what one thread does between two points where another may  *)
(* come in between: a lock, a message, a wait.                             *)
(***************************************************************************)
EXTENDS Naturals, Sequences, FiniteSets, SequencesExt

CONSTANTS
  Injected,     \* the agents the hub starts
  External,     \* agents that join by themselves
  Processes,    \* injected agents that run in a process, not in a thread
  RelaysTo,     \* RelaysTo[a]: agents a's handler may relay to
  PoolSize,     \* threads of the bus's request pool
  Patient,      \* no wait times out while the hub runs
  MaxLives,     \* bound: how often an agent is started, restarts included
  MaxRequests,  \* bound: asks and relays
  MaxKills      \* bound: agents that die without leaving the bus

Agents == Injected \cup External

ASSUME SwarmAssumption ==
  /\ IsFiniteSet(Agents) /\ Injected \cap External = {}
  /\ Processes \subseteq Injected
  /\ RelaysTo \in [Agents -> SUBSET Agents]
  /\ PoolSize \in Nat \ {0} /\ Patient \in BOOLEAN /\ MaxLives \in Nat \ {0}
  /\ MaxRequests \in Nat /\ MaxKills \in Nat

VARIABLES
  bus,        \* the hub's sockets are open
  entries,    \* Registry: how each agent is registered
  runners,    \* Hub._runners
  channels,   \* agents with a channel and a transport
  inbox,      \* inbox[a]: what came for a's transport
  tasks,      \* relays given to the pool, in order
  poll,       \* the bus poll thread
  main,       \* the main thread: a stack, since a signal nests
  todo,       \* agents still to be started; served from then on
  signalled,  \* do_shutdown has run or is running
  ids,        \* requests made so far
  announced,  \* the last membership notice about an external agent
  toHub,      \* toHub[a]: what a's DEALER sent and the hub did not read yet
  toAgent,    \* toAgent[a]: what the hub sent and a did not take yet
  pc,         \* where a's runner is
  life,       \* how often a was started
  halted,     \* a's runner was told to stop, so that no policy restarts it
  stopEvent,  \* BaseAgentRunner._stop_event
  cur,        \* the request a's handler works on and the relay it waits for
  kills       \* deaths so far

hub == <<bus, entries, runners, channels, inbox, tasks>>
mainVars == <<main, todo, signalled>>
net == <<toHub, toAgent>>
agent == <<pc, life, halted, stopEvent, cur>>
vars == <<hub, poll, mainVars, ids, announced, net, agent, kills>>

-----------------------------------------------------------------------------
(* Messages and the sockets *)

Types == {"register", "unregister", "relay", "answer",
          "registered", "unregistered", "ask", "relayed"}
Msg(type, id, to) == [type |-> type, id |-> id, to |-> to]
NoAgent == "nobody"

(* An agent's DEALER exists from the start of its bus to the end of it. *)
Connected(a) ==
  pc[a] \in {"registering", "loop", "handling", "relaying", "leaving",
             "failing"}

(* The answers a's runner waits for, by type and id. *)
WaitsFor(a) ==
  CASE pc[a] = "registering" -> {<<"registered", life[a]>>}
    [] pc[a] = "relaying" -> {<<"relayed", cur[a].relay>>}
    [] pc[a] \in {"leaving", "failing"} -> {<<"unregistered", life[a]>>}
    [] OTHER -> {}

(* ROUTER drops what it cannot route; a closed bus sends nothing.  An answer
   that comes too late is dropped at once: the loop ignores what is no
   request. *)
Post(a, m) ==
  toAgent' = IF /\ bus /\ Connected(a)
                /\ m.type = "ask" \/ <<m.type, m.id>> \in WaitsFor(a)
             THEN [toAgent EXCEPT ![a] = Append(@, m)] ELSE toAgent
Sends(a, m) == toHub' = [toHub EXCEPT ![a] = Append(@, m)]

(* BufferedChannel.submit: the answer with the request's id, wherever in the
   queue it is; the others stay for later calls. *)
Answers(q, type, id) == {i \in DOMAIN q : q[i].type = type /\ q[i].id = id}

(* _broadcast_membership, of which the last notice about an external agent is
   remembered; a closed bus raises, and that is logged. *)
Announce(a, what) ==
  announced' = IF bus /\ a \in External /\ what # ""
               THEN [announced EXCEPT ![a] = what] ELSE announced

-----------------------------------------------------------------------------
(* Hub: the main thread *)

Frame(op, step, name, id, left) ==
  [op |-> op, step |-> step, name |-> name, id |-> id, left |-> left]
Top == Last(main)
At(op, step) == main # <<>> /\ Top.op = op /\ Top.step = step
Push(f) == main' = Append(main, f)
Pop == main' = Front(main)
GoTo(step) == main' = [main EXCEPT ![Len(main)].step = step]

Serving == todo = {} /\ ~signalled /\ main = <<>>

DropChannel_Keeps(a) == UNCHANGED <<channels, inbox>>
DropChannel(a) ==
  /\ channels' = channels \ {a}
  /\ inbox' = [inbox EXCEPT ![a] = <<>>]

(* start_agent: register as injected, create the channel and the runner. *)
StartAgent(a) ==
  /\ main = <<>> /\ ~signalled /\ a \in todo
  /\ todo' = todo \ {a}
  /\ entries' = [entries EXCEPT ![a] = "injected"]
  /\ channels' = channels \cup {a}
  /\ Push(Frame("start", "run", a, 0, {}))
  /\ UNCHANGED <<bus, runners, inbox, tasks, poll, signalled, ids, announced,
                 net, agent, kills>>

RunnerStarts ==
  /\ At("start", "run")
  /\ runners' = runners \cup {Top.name}
  /\ pc' = [pc EXCEPT ![Top.name] = "setup"]
  /\ life' = [life EXCEPT ![Top.name] = @ + 1]
  /\ Pop
  /\ UNCHANGED <<bus, entries, channels, inbox, tasks, poll, todo, signalled,
                 ids, announced, net, halted, stopEvent, cur, kills>>

(* The channel, the service or runner.start() raised. *)
RunnerRefuses ==
  /\ At("start", "run")
  /\ DropChannel(Top.name)
  /\ entries' = [entries EXCEPT ![Top.name] = "none"]
  /\ Pop
  /\ UNCHANGED <<bus, runners, tasks, poll, todo, signalled, ids, announced,
                 net, agent, kills>>

(* ask or feedback, through the target's channel; no channel, no request. *)
Ask(a) ==
  /\ Serving /\ ids < MaxRequests
  /\ a \in channels
  /\ ids' = ids + 1
  /\ Post(a, Msg("ask", ids + 1, NoAgent))
  /\ Push(Frame("ask", "wait", a, ids + 1, {}))
  /\ UNCHANGED <<hub, poll, todo, signalled, announced, toHub, agent, kills>>

AskAnswered ==
  /\ At("ask", "wait")
  /\ \E i \in Answers(inbox[Top.name], "answer", Top.id) :
       inbox' = [inbox EXCEPT ![Top.name] = RemoveAt(@, i)]
  /\ Pop
  /\ UNCHANGED <<bus, entries, runners, channels, tasks, poll, todo,
                 signalled, ids, announced, net, agent, kills>>

(* The messages of a queue that are in S, in their order. *)
Among(q, S) ==
  LET upTo[i \in 0..Len(q)] ==
        IF i = 0 THEN <<>>
        ELSE IF q[i] \in S THEN Append(upTo[i - 1], q[i]) ELSE upTo[i - 1]
  IN  upTo[Len(q)]

(* The timeout, or the channel was closed by a shutdown in between. *)
Late == bus => ~Patient
Without(q, id) == Among(q, {m \in Range(q) : m.id # id})
AskFails ==
  /\ At("ask", "wait") /\ (Late \/ Top.name \notin channels)
  /\ inbox' = [inbox EXCEPT ![Top.name] = Without(@, Top.id)]
  /\ Pop
  /\ UNCHANGED <<bus, entries, runners, channels, tasks, poll, todo, signalled, ids, announced, net, agent, kills>>

(* stop_agent of any name, over HTTP or by the shutdown: the runner is taken
   out of the table and told to stop. *)
StopRunner(a) ==
  /\ runners' = runners \ {a}
  /\ IF a \in runners
     THEN /\ halted' = [halted EXCEPT ![a] = TRUE]
          /\ stopEvent' = [stopEvent EXCEPT ![a] = TRUE]
     ELSE UNCHANGED <<halted, stopEvent>>

Stop(a) ==
  /\ Serving /\ entries[a] # "none"
  /\ StopRunner(a)
  /\ Push(Frame("stop", "join", a, 0, {}))
  /\ UNCHANGED <<bus, entries, channels, inbox, tasks, poll, todo, signalled,
                 ids, announced, net, pc, life, cur, kills>>

(* runner.stop() returns, raises or gives up; a process still running is
   killed.  Then the channel and its transport are closed. *)
Over == {"off", "ended", "failed", "killed"}
Joined_Waits(a) == pc[a] \in Over
Joined(a) == TRUE
StopJoins ==
  /\ At("stop", "join") /\ Joined(Top.name)
  /\ pc' = IF Top.name \in Processes /\ pc[Top.name] \notin Over
           THEN [pc EXCEPT ![Top.name] = "killed"] ELSE pc
  /\ DropChannel(Top.name)
  /\ GoTo("unregister")
  /\ UNCHANGED <<bus, entries, runners, tasks, poll, todo, signalled, ids,
                 announced, net, life, halted, stopEvent, cur, kills>>

StopUnregisters ==
  /\ At("stop", "unregister")
  /\ entries' = [entries EXCEPT ![Top.name] = "none"]
  /\ IF entries[Top.name] # "none" THEN GoTo("announce") ELSE Pop
  /\ UNCHANGED <<bus, runners, channels, inbox, tasks, poll, todo, signalled,
                 ids, announced, net, agent, kills>>

StopAnnounces ==
  /\ At("stop", "announce")
  /\ Announce(Top.name, "left")
  /\ Pop
  /\ UNCHANGED <<hub, poll, todo, signalled, ids, net, agent, kills>>

(* The signal: Hub.stop on top of whatever the main thread does. *)
Signal ==
  /\ todo = {} /\ ~signalled
  /\ main # <<>> => Top.op # "start"
  /\ signalled' = TRUE
  /\ Push(Frame("shutdown", "agents", NoAgent, 0, runners))
  /\ \E told \in SUBSET {a \in Agents : Connected(a)} :
       stopEvent' = [a \in Agents |-> stopEvent[a] \/ a \in told]
  /\ UNCHANGED <<hub, poll, todo, ids, announced, net, pc, life, halted, cur,
                 kills>>

ShutdownStops ==
  /\ At("shutdown", "agents")
  /\ \E a \in Top.left :
       /\ StopRunner(a)
       /\ main' = Append([main EXCEPT ![Len(main)].left = @ \ {a}],
                         Frame("stop", "join", a, 0, {}))
  /\ UNCHANGED <<bus, entries, channels, inbox, tasks, poll, todo, signalled,
                 ids, announced, net, pc, life, cur, kills>>

(* bus.stop joins the poll thread, then closes every transport and socket. *)
ShutdownClosesBus ==
  /\ At("shutdown", "agents") /\ Top.left = {}
  /\ bus' = FALSE
  /\ poll' = [poll EXCEPT !.at = "idle"]
  /\ inbox' = [a \in Agents |-> <<>>]
  /\ Pop
  /\ UNCHANGED <<entries, runners, channels, tasks, todo, signalled, ids,
                 announced, net, agent, kills>>

-----------------------------------------------------------------------------
(* Hub: the bus poll thread and the relay pool *)

Waiting == {i \in DOMAIN tasks : tasks[i].at = "waiting"}

Idle == [at |-> "idle", agent |-> NoAgent, life |-> 0, isNew |-> FALSE,
         tell |-> "", reply |-> ""]

(* _handle_router reads one message of a, when the thread is free.
   _route_to_transport: what is no request goes to its sender's transport, if
   it has one; the rest is dispatched by its type. *)
PollFree_Inline == poll.at = "idle" /\ Waiting = {}
PollFree == poll.at = "idle"
Routed(a, m) == a \in channels /\ m.type = "answer"
Reads(a) ==
  /\ bus /\ PollFree /\ toHub[a] # <<>>
  /\ toHub' = [toHub EXCEPT ![a] = Tail(@)]
Takes(a, type) ==
  Reads(a) /\ Head(toHub[a]).type = type /\ ~Routed(a, Head(toHub[a]))

(* _handle_register looks the agent up, and only then registers it. *)
PollLooksUp(a) ==
  /\ Takes(a, "register")
  /\ poll' = [Idle EXCEPT !.at = "merge", !.agent = a,
                          !.life = Head(toHub[a]).id,
                          !.isNew = entries[a] = "none"]
  /\ UNCHANGED <<hub, mainVars, ids, announced, toAgent, agent, kills>>

(* Registry.register_or_merge *)
Merged_Known(entry) == entry
Merged(entry) == IF entry = "injected" THEN "injected" ELSE "external"
PollRegisters ==
  /\ poll.at = "merge"
  /\ entries' = [entries EXCEPT ![poll.agent] = Merged(@)]
  /\ poll' = [poll EXCEPT !.at = "tell", !.reply = "registered",
                          !.tell = IF poll.isNew THEN "joined" ELSE ""]
  /\ UNCHANGED <<bus, runners, channels, inbox, tasks, mainVars, ids,
                 announced, net, agent, kills>>

(* _handle_unregister *)
PollUnregisters(a) ==
  /\ Takes(a, "unregister")
  /\ entries' = [entries EXCEPT ![a] = "none"]
  /\ poll' = [Idle EXCEPT !.at = "tell", !.agent = a,
                          !.life = Head(toHub[a]).id, !.reply = "unregistered",
                          !.tell = IF entries[a] # "none" THEN "left" ELSE ""]
  /\ UNCHANGED <<bus, runners, channels, inbox, tasks, mainVars, ids,
                 announced, toAgent, agent, kills>>

(* The membership notice, then the response. *)
PollTells ==
  /\ poll.at = "tell"
  /\ Announce(poll.agent, poll.tell)
  /\ Post(poll.agent, Msg(poll.reply, poll.life, NoAgent))
  /\ poll' = Idle
  /\ UNCHANGED <<hub, mainVars, ids, toHub, agent, kills>>

(* A relay goes to the pool, so that the poll thread goes on. *)
Task(m, a) == [id |-> m.id, from |-> a, to |-> m.to, at |-> "queued"]
PollRelays(a) ==
  /\ Takes(a, "relay")
  /\ tasks' = Append(tasks, Task(Head(toHub[a]), a))
  /\ UNCHANGED <<bus, entries, runners, channels, inbox, poll, mainVars, ids,
                 announced, toAgent, agent, kills>>

(* The transport's queue keeps what is still waited for; the answer to a
   request given up is dropped at once. *)
Awaited(a, id) ==
  \/ \E i \in DOMAIN main : main[i].op = "ask" /\ main[i].name = a
                            /\ main[i].id = id
  \/ \E i \in DOMAIN tasks : tasks[i].at = "waiting" /\ tasks[i].to = a
                             /\ tasks[i].id = id
PollDelivers(a) ==
  /\ Reads(a) /\ Routed(a, Head(toHub[a]))
  /\ inbox' = IF Awaited(a, Head(toHub[a]).id)
              THEN [inbox EXCEPT ![a] = Append(@, Head(toHub[a]))] ELSE inbox
  /\ UNCHANGED <<bus, entries, runners, channels, tasks, poll, mainVars, ids,
                 announced, toAgent, agent, kills>>

(* _dispatch_request ignores an answer nobody has a transport for. *)
PollIgnores(a) ==
  /\ Takes(a, "answer")
  /\ UNCHANGED <<hub, poll, mainVars, ids, announced, toAgent, agent, kills>>

Queued == {i \in DOMAIN tasks : tasks[i].at = "queued"}
FreeThread == Cardinality(Waiting) < PoolSize

Relayed(t) == Post(t.from, Msg("relayed", t.id, NoAgent))

(* _handle_relay reads the target's channel and submits the inner request. *)
RelayStarts ==
  /\ FreeThread /\ Queued # {}
  /\ LET i == CHOOSE j \in Queued : \A k \in Queued : j <= k
         t == tasks[i]
     IN IF bus /\ t.to \in channels
        THEN /\ tasks' = [tasks EXCEPT ![i].at = "waiting"]
             /\ Post(t.to, Msg("ask", t.id, NoAgent))
        ELSE /\ tasks' = RemoveAt(tasks, i)
             /\ Relayed(t)
  /\ UNCHANGED <<bus, entries, runners, channels, inbox, poll, mainVars, ids,
                 announced, toHub, agent, kills>>

RelayAnswered ==
  /\ \E i \in Waiting : LET t == tasks[i] IN
       /\ t.to \in channels
       /\ \E j \in Answers(inbox[t.to], "answer", t.id) :
            inbox' = [inbox EXCEPT ![t.to] = RemoveAt(@, j)]
       /\ tasks' = RemoveAt(tasks, i)
       /\ Relayed(t)
  /\ UNCHANGED <<bus, entries, runners, channels, poll, mainVars, ids,
                 announced, toHub, agent, kills>>

(* The channel was closed, or 30 seconds have passed. *)
RelayEndsWithout(i) ==
  /\ i \in Waiting
  /\ tasks' = RemoveAt(tasks, i)
  /\ inbox' = [inbox EXCEPT ![tasks[i].to] = Without(@, tasks[i].id)]
  /\ Relayed(tasks[i])
  /\ UNCHANGED <<bus, entries, runners, channels, poll, mainVars, ids,
                 announced, toHub, agent, kills>>
RelayTimesOut == Late /\ \E i \in DOMAIN tasks : RelayEndsWithout(i)
RelayClosed ==
  \E i \in DOMAIN tasks :
    (~bus \/ tasks[i].to \notin channels) /\ RelayEndsWithout(i)

-----------------------------------------------------------------------------
(* An agent's runner *)

Goes(a, to) == pc' = [pc EXCEPT ![a] = to]
NoWork == [ask |-> 0, relay |-> 0]

(* BaseAgentRunner.run: clear the stop event, connect, send the registration
   and wait for its answer. *)
Cleared(event) == FALSE
RunBegins(a) ==
  /\ pc[a] = "setup"
  /\ stopEvent' = [stopEvent EXCEPT ![a] = Cleared(@)]
  /\ Sends(a, Msg("register", life[a], NoAgent))
  /\ Goes(a, "registering")
  /\ UNCHANGED <<hub, poll, mainVars, ids, announced, toAgent, life, halted,
                 cur, kills>>

(* submit returned: take the answer out of the queue. *)
TakesReply(a, type, id) ==
  \E i \in Answers(toAgent[a], type, id) :
    toAgent' = [toAgent EXCEPT ![a] = RemoveAt(@, i)]

IsRegistered(a) ==
  /\ pc[a] = "registering"
  /\ TakesReply(a, "registered", life[a])
  /\ Goes(a, "loop")
  /\ UNCHANGED <<hub, poll, mainVars, ids, announced, toHub, life, halted,
                 stopEvent, cur, kills>>

(* The way out, whatever ended the run: stop event, Unregister.  What came
   meanwhile is not read any more. *)
Requests(q) == Among(q, {m \in Range(q) : m.type = "ask"})
Disconnects(a, to) ==
  /\ stopEvent' = [stopEvent EXCEPT ![a] = TRUE]
  /\ Sends(a, Msg("unregister", life[a], NoAgent))
  /\ toAgent' = [toAgent EXCEPT ![a] = <<>>]
  /\ Goes(a, to)
  /\ UNCHANGED <<hub, poll, mainVars, ids, announced, life, halted, cur, kills>>

RegistrationTimesOut(a) == pc[a] = "registering" /\ Disconnects(a, "failing")

(* The loop's condition is read between two polls. *)
LeavesLoop(a) == pc[a] = "loop" /\ stopEvent[a] /\ Disconnects(a, "leaving")

Disconnected(a) ==
  /\ Goes(a, IF pc[a] = "leaving" THEN "ended" ELSE "failed")
  /\ toAgent' = [toAgent EXCEPT ![a] = <<>>]
  /\ UNCHANGED <<hub, poll, mainVars, ids, announced, toHub, life, halted,
                 stopEvent, cur, kills>>
IsUnregistered(a) ==
  /\ pc[a] \in {"leaving", "failing"}
  /\ Answers(toAgent[a], "unregistered", life[a]) # {}
  /\ Disconnected(a)
UnregisterTimesOut(a) ==
  pc[a] \in {"leaving", "failing"} /\ Disconnected(a)

(* _poll_requests: the first request that came, also while a registration
   or a relay was waiting. *)
TakesRequest(a) ==
  /\ pc[a] = "loop" /\ ~stopEvent[a] /\ toAgent[a] # <<>>
  /\ toAgent' = [toAgent EXCEPT ![a] = Tail(@)]
  /\ cur' = [cur EXCEPT ![a].ask = Head(toAgent[a]).id]
  /\ Goes(a, "handling")
  /\ UNCHANGED <<hub, poll, mainVars, ids, announced, toHub, life, halted,
                 stopEvent, kills>>

(* on_ask or on_feedback returned or raised: either way a response is sent. *)
SendsAnswer(a) ==
  /\ pc[a] = "handling"
  /\ Sends(a, Msg("answer", cur[a].ask, NoAgent))
  /\ cur' = [cur EXCEPT ![a] = NoWork]
  /\ Goes(a, "loop")
  /\ UNCHANGED <<hub, poll, mainVars, ids, announced, toAgent, life, halted,
                 stopEvent, kills>>

(* The handler relays to b and waits. *)
Relays(a, b) ==
  /\ pc[a] = "handling" /\ b \in RelaysTo[a] /\ ids < MaxRequests
  /\ ids' = ids + 1
  /\ Sends(a, Msg("relay", ids + 1, b))
  /\ cur' = [cur EXCEPT ![a].relay = ids + 1]
  /\ Goes(a, "relaying")
  /\ UNCHANGED <<hub, poll, mainVars, announced, toAgent, life, halted,
                 stopEvent, kills>>

RelayReturns(a) ==
  /\ pc[a] = "relaying"
  /\ TakesReply(a, "relayed", cur[a].relay)
  /\ cur' = [cur EXCEPT ![a].relay = 0]
  /\ Goes(a, "handling")
  /\ UNCHANGED <<hub, poll, mainVars, ids, announced, toHub, life, halted,
                 stopEvent, kills>>
RelayGivesUp(a) ==
  /\ pc[a] = "relaying"
  /\ cur' = [cur EXCEPT ![a].relay = 0]
  /\ toAgent' = [toAgent EXCEPT ![a] = Requests(@)]
  /\ Goes(a, "handling")
  /\ UNCHANGED <<hub, poll, mainVars, ids, announced, toHub, life, halted,
                 stopEvent, kills>>

(* The process dies, or the service fails before its run begins. *)
Dies(a) ==
  /\ kills < MaxKills /\ pc[a] \notin Over
  /\ a \in External \cup Processes \/ pc[a] = "setup"
  /\ kills' = kills + 1
  /\ Goes(a, "killed")
  /\ cur' = [cur EXCEPT ![a] = NoWork]
  /\ toAgent' = [toAgent EXCEPT ![a] = <<>>]
  /\ UNCHANGED <<hub, poll, mainVars, ids, announced, toHub, life, halted,
                 stopEvent>>

(* The policy restarts a runner that failed; an external agent is started by
   its owner whenever it is not running (AgentRunner.start or run). *)
MayRestart(a) == life[a] < MaxLives
Restarts(a) ==
  /\ MayRestart(a)
  /\ \/ a \in Injected /\ pc[a] \in {"failed", "killed"} /\ ~halted[a]
     \/ a \in External /\ pc[a] \in Over
  /\ Goes(a, "setup")
  /\ life' = [life EXCEPT ![a] = @ + 1]
  /\ cur' = [cur EXCEPT ![a] = NoWork]
  /\ UNCHANGED <<hub, poll, mainVars, ids, announced, net, halted, stopEvent,
                 kills>>

(* AgentRunner.stop by its owner, or a ShutdownRequest. *)
OwnerStops(a) ==
  /\ a \in External /\ pc[a] \notin Over /\ ~stopEvent[a]
  /\ stopEvent' = [stopEvent EXCEPT ![a] = TRUE]
  /\ UNCHANGED <<hub, poll, mainVars, ids, announced, net, pc, life, halted,
                 cur, kills>>

-----------------------------------------------------------------------------
Init ==
  /\ bus = TRUE
  /\ entries = [a \in Agents |-> "none"]
  /\ runners = {} /\ channels = {}
  /\ inbox = [a \in Agents |-> <<>>]
  /\ tasks = <<>> /\ poll = Idle
  /\ main = <<>> /\ todo = Injected /\ signalled = FALSE
  /\ ids = 0
  /\ announced = [a \in External |-> ""]
  /\ toHub = [a \in Agents |-> <<>>]
  /\ toAgent = [a \in Agents |-> <<>>]
  /\ pc = [a \in Agents |-> "off"]
  /\ life = [a \in Agents |-> 0]
  /\ halted = [a \in Agents |-> FALSE]
  /\ stopEvent = [a \in Agents |-> FALSE]
  /\ cur = [a \in Agents |-> NoWork]
  /\ kills = 0

MainStep ==
  \/ \E a \in Agents : StartAgent(a)
  \/ RunnerStarts
  \/ AskAnswered
  \/ StopJoins \/ StopUnregisters \/ StopAnnounces
  \/ ShutdownStops \/ ShutdownClosesBus
PollStep(a) ==
  \/ PollLooksUp(a) \/ PollUnregisters(a) \/ PollRelays(a) \/ PollDelivers(a)
  \/ PollIgnores(a)
PollGoesOn == PollRegisters \/ PollTells
PoolStep == RelayStarts \/ RelayAnswered \/ RelayClosed
AgentStep(a) ==
  \/ RunBegins(a) \/ IsRegistered(a) \/ LeavesLoop(a)
  \/ IsUnregistered(a) \/ TakesRequest(a) \/ SendsAnswer(a) \/ RelayReturns(a)
TimesOut(a) ==
  Late /\ (RegistrationTimesOut(a) \/ UnregisterTimesOut(a) \/ RelayGivesUp(a))

(* What others decide: callers, owners, the clock, and deaths. *)
Environment ==
  \/ RunnerRefuses \/ AskFails \/ RelayTimesOut \/ Signal
  \/ \E a \in Agents :
       \/ Ask(a) \/ Stop(a) \/ Dies(a) \/ Restarts(a) \/ OwnerStops(a)
       \/ TimesOut(a)
       \/ \E b \in RelaysTo[a] : Relays(a, b)

Next ==
  \/ MainStep \/ PollGoesOn \/ PoolStep
  \/ \E a \in Agents : PollStep(a) \/ AgentStep(a)
  \/ Environment

Spec == Init /\ [][Next]_vars

(* Threads run; a wait ends by its timeout where no answer can come, the hub
   being gone.  Nothing is assumed of timeouts while the hub runs. *)
FairSpec ==
  /\ Spec
  /\ WF_vars(MainStep) /\ WF_vars(~bus /\ AskFails) /\ WF_vars(PollGoesOn) /\ WF_vars(PoolStep)
  /\ \A a \in Agents :
       /\ WF_vars(PollStep(a)) /\ WF_vars(AgentStep(a))
       /\ WF_vars(~bus /\ TimesOut(a))

-----------------------------------------------------------------------------
(* Properties *)

MsgOK(m) == m \in [type : Types, id : Nat, to : Agents \cup {NoAgent}]

(* Every variable has its type. *)
TypeOK ==
  /\ bus \in BOOLEAN /\ signalled \in BOOLEAN
  /\ entries \in [Agents -> {"none", "injected", "external"}]
  /\ runners \subseteq Injected /\ channels \subseteq Agents
  /\ todo \subseteq Injected
  /\ announced \in [External -> {"", "joined", "left"}]
  /\ pc \in [Agents -> Over \cup {"setup", "registering", "loop",
                       "handling", "relaying", "leaving", "failing"}]
  /\ life \in [Agents -> 0..MaxLives]
  /\ halted \in [Agents -> BOOLEAN] /\ stopEvent \in [Agents -> BOOLEAN]
  /\ ids \in 0..MaxRequests /\ kills \in 0..MaxKills
  /\ \A a \in Agents :
       /\ \A m \in Range(inbox[a]) : m.type = "answer"
       /\ \A m \in Range(toHub[a]) \cup Range(toAgent[a]) : MsgOK(m)

(* While the main thread is at rest the hub's tables agree: an agent has a
   channel exactly if the hub holds a runner for it, over refused starts,
   stops of any name and a shutdown in the middle of either. *)
ChannelsOfRunners == main = <<>> => channels = runners

(* The registry is true: an agent that left the bus and whose messages were
   handled is not in it, whatever the main thread stopped meanwhile, and who is
   in its loop is, unless the hub's main thread stopped it without ending it. *)
RegistryIsTrue ==
  \A a \in Agents :
    /\ (bus /\ pc[a] \in {"ended", "failed"} /\ toHub[a] = <<>>)
         => entries[a] = "none"
    /\ (a \in runners /\ pc[a] \in {"loop", "handling", "relaying"})
         => entries[a] # "none"

(* A relay to a connected agent is answered without any timeout, though it holds
   a thread of the pool and its target may be relaying too, unless agents leave
   meanwhile: relays do not go round in a circle and are no deeper than the
   pool. *)
Leaves(a) == halted[a] \/ stopEvent[a] \/ pc[a] \in Over
RelaysEnd ==
  \A a, b \in Agents :
    (/\ pc[a] = "relaying" /\ Connected(b)
     /\ \E m \in Range(toHub[a]) : m.type = "relay" /\ m.to = b)
      ~> (pc[a] # "relaying" \/ signalled \/ Leaves(a) \/ Leaves(b))

(* A shutdown ends, wherever the signal came. *)
ShutdownEnds == signalled ~> (~bus /\ main = <<>>)
=============================================================================
