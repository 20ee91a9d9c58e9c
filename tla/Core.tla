--------------------------------- MODULE Core ---------------------------------
(* The runtime core (runtime/core.py) over the agent registry and the bus: one
   caller registers, starts, stops and removes agents by name; each of a start's
   and a stop's calls into the bus and the runner is a step that may raise.  ask
   and feedback read this state and change none of it.                        *)
EXTENDS Naturals, FiniteSets, Sequences

CONSTANT Names  \* the agents' names

ASSUME FiniteNames == IsFiniteSet(Names)

VARIABLES
  handle,      \* handle[n]: the state of the registered handle, or "none"
  held,        \* held[n]: what is kept for n: its "transport" by the bus, its
               \* "channel" and its "runner" by the core
  busUp,       \* the bus has bound its sockets
  doing,       \* the operation in progress, on which name, and at which call
  stoppingAll  \* the names that shutdown has yet to stop

coreVars == <<handle, held, busUp, doing, stoppingAll>>

NoOperation == [op |-> "none"]
Free == doing = NoOperation /\ stoppingAll = <<>>
Active == {"starting", "running", "stopping"}

CoreTypeOK ==
  /\ handle \in [Names -> {"none", "created", "failed", "stopped"} \cup Active]
  /\ held \in [Names -> SUBSET {"transport", "channel", "runner"}]
  /\ busUp \in BOOLEAN
  /\ \/ doing = NoOperation
     \/ doing \in [op : {"start"}, of : Names, at : {"transport", "runner"}]
     \/ doing \in [op : {"stop"}, of : Names, at : {"runner", "channel"}, raised : BOOLEAN]
  /\ stoppingAll \in Seq(Names)

CoreInit ==
  /\ handle = [n \in Names |-> "none"] /\ held = [n \in Names |-> {}]
  /\ busUp = FALSE /\ doing = NoOperation /\ stoppingAll = <<>>

(* Bus.start, and Bus.stop once every agent was stopped: it closes the
   transports there still are. *)
StartBus == ~busUp /\ Free /\ busUp' = TRUE /\ UNCHANGED <<handle, held, doing, stoppingAll>>

StopBus ==
  /\ busUp /\ Free /\ \A n \in Names : handle[n] # "running"
  /\ busUp' = FALSE
  /\ held' = [n \in Names |-> held[n] \ {"transport"}]
  /\ UNCHANGED <<handle, doing, stoppingAll>>

(* AgentRegistry --------------------------------------------------------- *)
Register(n) ==
  /\ Free /\ handle[n] = "none"
  /\ handle' = [handle EXCEPT ![n] = "created"]
  /\ UNCHANGED <<held, busUp, doing, stoppingAll>>

Unregister(n) ==
  /\ Free /\ handle[n] \in {"created", "stopped"}
  /\ handle' = [handle EXCEPT ![n] = "none"]
  /\ UNCHANGED <<held, busUp, doing, stoppingAll>>

(* Core.start ------------------------------------------------------------ *)
StartAgent(n) ==
  /\ Free /\ handle[n] \notin Active \cup {"none"}
  /\ handle' = [handle EXCEPT ![n] = "starting"]
  /\ doing' = [op |-> "start", of |-> n, at |-> "transport"]
  /\ UNCHANGED <<held, busUp, stoppingAll>>

Starting(at) == doing.op = "start" /\ doing.at = at

Fails(n) == handle' = [handle EXCEPT ![n] = "failed"] /\ doing' = NoOperation

(* The bus hands out a transport, and the core keeps a channel over it. *)
OpenChannel ==
  /\ Starting("transport") /\ busUp
  /\ held' = [held EXCEPT ![doing.of] = @ \cup {"transport", "channel"}]
  /\ doing' = [doing EXCEPT !.at = "runner"]
  /\ UNCHANGED <<handle, busUp, stoppingAll>>

BusNotStarted ==
  /\ Starting("transport") /\ ~busUp
  /\ Fails(doing.of)
  /\ UNCHANGED <<held, busUp, stoppingAll>>

RunnerStarts ==
  /\ Starting("runner")
  /\ held' = [held EXCEPT ![doing.of] = @ \cup {"runner"}]
  /\ handle' = [handle EXCEPT ![doing.of] = "running"]
  /\ doing' = NoOperation
  /\ UNCHANGED <<busUp, stoppingAll>>

(* A runner that cannot be made or started takes the channel back. *)
RunnerFails_KeepsTransport ==
  /\ Starting("runner")
  /\ held' = [held EXCEPT ![doing.of] = @ \ {"channel"}]
  /\ Fails(doing.of)
  /\ UNCHANGED <<busUp, stoppingAll>>

RunnerFails ==
  /\ Starting("runner")
  /\ held' = [held EXCEPT ![doing.of] = @ \ {"channel", "transport"}]
  /\ Fails(doing.of)
  /\ UNCHANGED <<busUp, stoppingAll>>

(* Core.stop ------------------------------------------------------------- *)
EnterStop(n) ==
  /\ handle[n] = "running"
  /\ handle' = [handle EXCEPT ![n] = "stopping"]
  /\ doing' = [op |-> "stop", of |-> n, at |-> "runner", raised |-> FALSE]

StopAgent(n) == Free /\ EnterStop(n) /\ UNCHANGED <<held, busUp, stoppingAll>>

Stopping(at) == doing.op = "stop" /\ doing.at = at

(* The runner is forgotten, and then stopped, which may raise. *)
StopRunner ==
  /\ Stopping("runner")
  /\ held' = [held EXCEPT ![doing.of] = @ \ {"runner"}]
  /\ \E raises \in BOOLEAN : doing' = [doing EXCEPT !.at = "channel", !.raised = raises]
  /\ UNCHANGED <<handle, busUp, stoppingAll>>

CloseChannel ==
  /\ Stopping("channel")
  /\ held' = [held EXCEPT ![doing.of] = @ \ {"channel", "transport"}]
  /\ handle' = [handle EXCEPT ![doing.of] = IF doing.raised THEN "failed" ELSE "stopped"]
  /\ doing' = NoOperation
  /\ UNCHANGED <<busUp, stoppingAll>>

(* Core.shutdown --------------------------------------------------------- *)
Shutdown ==
  /\ Free
  /\ \E order \in [1..Cardinality(Names) -> Names] :
       /\ {order[i] : i \in DOMAIN order} = Names
       /\ stoppingAll' = order
  /\ UNCHANGED <<handle, held, busUp, doing>>

ShutdownGoesOn ==
  /\ doing = NoOperation /\ stoppingAll # <<>>
  /\ stoppingAll' = Tail(stoppingAll)
  /\ LET n == Head(stoppingAll) IN
       IF handle[n] = "running" THEN EnterStop(n) ELSE UNCHANGED <<handle, doing>>
  /\ UNCHANGED <<held, busUp>>

CoreNext ==
  \/ StartBus \/ StopBus
  \/ \E n \in Names : Register(n) \/ Unregister(n) \/ StartAgent(n) \/ StopAgent(n)
  \/ OpenChannel \/ BusNotStarted \/ RunnerStarts \/ RunnerFails
  \/ StopRunner \/ CloseChannel
  \/ Shutdown \/ ShutdownGoesOn

CoreSpec == CoreInit /\ [][CoreNext]_coreVars

(* Properties ------------------------------------------------------------ *)
(* Between the calls of a start or a stop, whichever of them raised: an agent
   that is running has its runner, its channel and its transport, and every
   other name, registered or not, has none that a later start would leak.    *)
HeldIffRunning ==
  \A n \in Names :
    (doing = NoOperation \/ doing.of # n) =>
      held[n] = IF handle[n] = "running" THEN {"transport", "channel", "runner"} ELSE {}
===============================================================================
