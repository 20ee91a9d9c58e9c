-------------------------------- MODULE Agents --------------------------------
(* One agent, its traits and the clients they hold: core/agent/agent.py, the
   registry, the traits and their factory under core/traits, and the threads of
   HTTPTrait that serve requests beside it.

   One thread owns the agent and calls its methods; each on_start and on_stop
   is a step of such a call, and the serving threads run between them.  A trait
   object is a number, and so is a client: a router, a chat client, an embedder,
   an HTTP server, a SAIA instance or a training factory.                     *)
EXTENDS Naturals, FiniteSets, SequencesExt

CONSTANTS
  Kits,        \* the traits that a factory attached, in their order
  Kinds,       \* the classes of the traits that are made later
  MaxObjects,  \* trait objects that are ever made (bound)
  MaxSpare,    \* those that no call was given yet (bound)
  MaxClients,  \* clients, before a construction that fails (bound)
  MaxLoops,    \* serving threads that are ever started (bound)
  MaxRequests  \* HTTP requests (bound)

(* What a trait of each class holds. *)
Slots ==
  [llm |-> {"router"}, memory |-> {"chat", "embedder"}, http |-> {"server"},
   saia |-> {"saia"}, training |-> {"factory"}, rating |-> {}, plain |-> {}]

ASSUME AgentConstants ==
  /\ Kinds \subseteq DOMAIN Slots /\ Kits \subseteq Seq(DOMAIN Slots)
  /\ MaxObjects \in Nat /\ MaxSpare \in Nat /\ MaxClients \in Nat /\ MaxLoops \in Nat /\ MaxRequests \in Nat

VARIABLES
  objects,   \* the trait objects made so far
  clients,   \* the clients made so far: who made each, and whether it is open
  up,        \* the HTTP servers whose subprocess runs
  registry,  \* the registered objects, in the order of the dict
  started,   \* Agent._started
  on,        \* objects whose on_start returned, and whose on_stop did not since
  left,      \* those of them that a raising start() left behind
  call,      \* the owner's call in progress
  loops,     \* the serving threads started so far
  thread,    \* thread[o]: HTTPTrait._ipc_thread of object o
  quit,      \* the objects whose _ipc_shutdown is set
  queue,     \* the requests in the servers' queues: request and server
  answers    \* answers[r]: what was put on the response queue for request r

traitVars == <<objects, clients, up, registry, started, on, left, call>>
serveVars == <<loops, thread, quit, queue, answers>>
agentVars == <<objects, clients, up, registry, started, on, left, call,
               loops, thread, quit, queue, answers>>

None == 0
Idle == [op |-> "idle", todo |-> <<>>, at |-> "rest", new |-> None, old |-> None]

(* The registry ------------------------------------------------------------ *)
KindOf(o) == objects[o].kind
Registered == ToSet(registry)

(* Registry.get *)
Get(kind) ==
  IF \E o \in Registered : KindOf(o) = kind
  THEN CHOOSE o \in Registered : KindOf(o) = kind ELSE None

(* A replacement takes the place of the object of its class. *)
Replaced(new, old) ==
  IF old = None THEN Append(registry, new)
  ELSE [i \in DOMAIN registry |-> IF registry[i] = old THEN new ELSE registry[i]]

Without(o) == RemoveFirst(registry, o)

(* Making traits ----------------------------------------------------------- *)
(* The clients that a class gets at its construction; SAIA and a training
   factory are made later. *)
BuiltWith(kind) ==
  CASE kind = "memory" -> {{"chat"}, {"chat", "embedder"}}
    [] kind \in {"saia", "training"} -> {{}}
    [] OTHER -> {Slots[kind]}

Widest(kind) == UNION BuiltWith(kind)

NewClient(by) == [by |-> by, open |-> TRUE]
Fresh == Len(clients) + 1

Numbered(slots, n) ==
  LET s == SetToSeq(slots) IN [slot \in slots |-> n + CHOOSE i \in DOMAIN s : s[i] = slot]

Makes == call = Idle /\ Len(objects) < MaxObjects
                     /\ Cardinality({o \in DOMAIN objects : ~objects[o].used}) < MaxSpare

Make(kind) ==
  /\ Makes
  /\ \E slots \in BuiltWith(kind) :
       /\ objects' = Append(objects, [kind |-> kind, holds |-> Numbered(slots, Len(clients)),
                                      owns |-> slots, used |-> FALSE])
       /\ clients' = clients \o [i \in 1..Cardinality(slots) |-> NewClient("agent")]
  /\ thread' = Append(thread, None)
  /\ UNCHANGED <<up, registry, started, on, left, call, loops, quit, queue, answers>>

(* Factory.create: an agent whose traits are attached, and not started.
   ClientsOf(kit)[i] is how many clients its first i traits hold. *)
ClientsOf(kit) ==
  LET count[i \in 0..Len(kit)] ==
        IF i = 0 THEN 0 ELSE count[i - 1] + Cardinality(Widest(kit[i]))
  IN  count

AgentInit ==
  /\ up = {} /\ started = FALSE /\ on = {} /\ left = {} /\ call = Idle
  /\ loops = <<>> /\ quit = {} /\ queue = <<>> /\ answers = <<>>
  /\ \E kit \in Kits :
       /\ objects = [i \in DOMAIN kit |->
                      [kind |-> kit[i], owns |-> Widest(kit[i]), used |-> TRUE,
                       holds |-> Numbered(Widest(kit[i]), ClientsOf(kit)[i - 1])]]
       /\ clients = [c \in 1..ClientsOf(kit)[Len(kit)] |-> NewClient("agent")]
       /\ registry = [i \in DOMAIN kit |-> i]
       /\ thread = [i \in DOMAIN kit |-> None]

(* create_memory_trait closes what it built when the rest of it raises. *)
MakeFails ==
  /\ "memory" \in Kinds /\ call = Idle /\ Len(clients) < MaxClients
  /\ \E slots \in BuiltWith("memory") :
       clients' = clients \o [i \in 1..Cardinality(slots) |-> [NewClient("agent") EXCEPT !.open = FALSE]]
  /\ UNCHANGED <<objects, up, registry, started, on, left, call, serveVars>>

(* with_router, with_chat_client, with_embedder, with_server, with_saia,
   with_train_factory: a view of a registered trait with a client of the
   caller's in one slot (or no embedder), which owns nothing. *)
With_KeepsOwnership(o, slot) ==
  /\ Makes
  /\ o \in Registered /\ slot \in Slots[KindOf(o)]
  /\ LET shared == [s \in DOMAIN objects[o].holds \ {slot} |-> objects[o].holds[s]] IN
       /\ objects' = Append(objects,
                        [kind |-> KindOf(o), owns |-> objects[o].owns \ {slot}, used |-> FALSE,
                         holds |-> [s \in DOMAIN shared \cup {slot} |->
                                      IF s = slot THEN Fresh ELSE shared[s]]])
       /\ clients' = Append(clients, NewClient("caller"))
  /\ thread' = Append(thread, None)
  /\ UNCHANGED <<up, registry, started, on, left, call, loops, quit, queue, answers>>

With(o, slot) ==
  /\ Makes
  /\ o \in Registered /\ slot \in Slots[KindOf(o)]
  /\ LET shared == [s \in DOMAIN objects[o].holds \ {slot} |-> objects[o].holds[s]]
         View(holds) == objects' = Append(objects, [kind |-> KindOf(o), holds |-> holds,
                                                    owns |-> {}, used |-> FALSE])
     IN  \/ /\ View([s \in DOMAIN shared \cup {slot} |->
                       IF s = slot THEN Fresh ELSE shared[s]])
            /\ clients' = Append(clients, NewClient("caller"))
         \/ slot = "embedder" /\ View(shared) /\ UNCHANGED clients
  /\ thread' = Append(thread, None)
  /\ UNCHANGED <<up, registry, started, on, left, call, loops, quit, queue, answers>>

(* SAIATrait and TrainingTrait build what they hold themselves, again once they
   dropped it: the new one takes the number of the one before. *)
Lacks(o, slot) ==
  slot \in DOMAIN objects[o].holds => ~clients[objects[o].holds[slot]].open

Builds(o, slot) ==
  IF DOMAIN objects[o].holds = {}
  THEN /\ objects' = [objects EXCEPT ![o].holds = [s \in {slot} |-> Fresh], ![o].owns = {slot}]
       /\ clients' = Append(clients, NewClient("agent"))
  ELSE /\ objects' = [objects EXCEPT ![o].owns = {slot}]
       /\ clients' = [clients EXCEPT ![objects[o].holds[slot]].open = TRUE]

(* At the first look at a manifest. *)
Lookup(o) ==
  /\ call = Idle /\ o \in Registered /\ KindOf(o) = "training" /\ Lacks(o, "factory")
  /\ Builds(o, "factory")
  /\ UNCHANGED <<up, registry, started, on, left, call, serveVars>>

(* The agent's methods ----------------------------------------------------- *)
Calls(op, todo, at, new, old) ==
  call' = [op |-> op, todo |-> todo, at |-> at, new |-> new, old |-> old]

(* Callers register an object once: an ejected one is stale. *)
Registers(o, old) ==
  /\ call = Idle /\ ~objects[o].used
  /\ registry' = Replaced(o, old)
  /\ objects' = [objects EXCEPT ![o].used = TRUE]
  /\ UNCHANGED <<clients, up, started, on, left, serveVars>>

(* A second object of a class is refused. *)
AddTrait(o) ==
  /\ Get(KindOf(o)) = None
  /\ Registers(o, None)
  /\ IF started THEN Calls("add", <<o>>, "start", o, None) ELSE UNCHANGED call

ReplaceTrait(o) ==
  /\ Registers(o, Get(KindOf(o)))
  /\ IF started THEN Calls("replace", <<o>>, "start", o, Get(KindOf(o))) ELSE UNCHANGED call

Enter(op, at) ==
  /\ call = Idle
  /\ Calls(op, registry, at, None, None)
  /\ UNCHANGED <<objects, clients, up, registry, started, on, left, serveVars>>

Start == ~started /\ Enter("start", "start")
Stop == started /\ Enter("stop", "stop")

Current == Head(call.todo)
Hooking(at) == call.todo # <<>> /\ call.at = at
Onward == call' = [call EXCEPT !.todo = Tail(@), !.at = IF @ = "join" THEN "stop" ELSE @]

(* on_start: HTTPTrait runs its server, the caller's too, and a new thread;
   SAIATrait builds its instance unless it holds one; RatingTrait needs memory
   and an LLM; the others read their configuration. *)
OnStart_KeepsShutdown(o) ==
  /\ on' = on \cup {o}
  /\ IF KindOf(o) = "http"
     THEN /\ Len(loops) < MaxLoops
          /\ up' = up \cup {objects[o].holds["server"]}
          /\ loops' = Append(loops, [of |-> o, pc |-> "poll", req |-> None])
          /\ thread' = [thread EXCEPT ![o] = Len(loops) + 1]
     ELSE UNCHANGED <<up, loops, thread>>
  /\ UNCHANGED <<quit, objects, clients>>

OnStart(o) ==
  /\ on' = on \cup {o}
  /\ IF KindOf(o) = "http"
     THEN /\ Len(loops) < MaxLoops
          /\ up' = up \cup {objects[o].holds["server"]}
          /\ quit' = quit \ {o}
          /\ loops' = Append(loops, [of |-> o, pc |-> "poll", req |-> None])
          /\ thread' = [thread EXCEPT ![o] = Len(loops) + 1]
     ELSE UNCHANGED <<up, quit, loops, thread>>
  /\ IF KindOf(o) = "saia" /\ Lacks(o, "saia")
     THEN Builds(o, "saia")
     ELSE UNCHANGED <<objects, clients>>

Needs(o) == IF KindOf(o) = "rating" THEN {"memory", "llm"} ELSE {}

StartHook ==
  /\ Hooking("start")
  /\ \A kind \in Needs(Current) : Get(kind) # None
  /\ OnStart(Current)
  /\ Onward
  /\ UNCHANGED <<registry, started, left, queue, answers>>

(* A raise leaves the traits that start() had started as they are; takes an
   added trait off the registry; has replace_trait stop the new trait and
   restore the old one. *)
StartRaises_KeepsAdded ==
  /\ Hooking("start") /\ KindOf(Current) # "plain"
  /\ left' = IF call.op = "start" THEN left \cup on ELSE left
  /\ IF call.op = "replace"
     THEN Calls("rollback", <<call.new>>, "stop", call.new, call.old)
     ELSE call' = Idle
  /\ UNCHANGED <<objects, clients, up, registry, started, on, serveVars>>

StartRaises ==
  /\ Hooking("start") /\ KindOf(Current) # "plain"
  /\ left' = IF call.op = "start" THEN left \cup on ELSE left
  /\ registry' = IF call.op = "add" THEN Without(call.new) ELSE registry
  /\ IF call.op = "replace"
     THEN Calls("rollback", <<call.new>>, "stop", call.new, call.old)
     ELSE call' = Idle
  /\ UNCHANGED <<objects, clients, up, started, on, serveVars>>

(* What on_stop gives up.  A close may raise: the other client of a memory trait
   is closed all the same, and the agent goes on. *)
Dropped == {"saia", "factory"}
Owned(o) == {objects[o].holds[s] : s \in objects[o].owns}
Closes(cs) == clients' = [c \in DOMAIN clients |->
                            IF c \in cs THEN [clients[c] EXCEPT !.open = FALSE] ELSE clients[c]]

Off(o) == on' = on \ {o} /\ left' = left \ {o} /\ Onward

StopHook ==
  /\ Hooking("stop") /\ KindOf(Current) # "http"
  /\ IF objects[Current].owns \cap Dropped # {}
     THEN /\ Closes(Owned(Current))
          /\ objects' = [objects EXCEPT ![Current].owns = {}]
     ELSE /\ \E closed \in SUBSET Owned(Current) : Closes(closed)
          /\ UNCHANGED objects
  /\ Off(Current)
  /\ UNCHANGED <<up, registry, started, serveVars>>

(* HTTPTrait tells its thread, waits for it for two seconds, which a thread in
   the middle of a request may outlast, and stops its own server. *)
StopServer(o) ==
  /\ \/ up' = up \ {objects[o].holds[s] : s \in objects[o].owns}
     \/ UNCHANGED up
  /\ Off(o)

StopLoop ==
  /\ Hooking("stop") /\ KindOf(Current) = "http"
  /\ IF thread[Current] = None
     THEN StopServer(Current) /\ UNCHANGED quit
     ELSE quit' = quit \cup {Current} /\ call' = [call EXCEPT !.at = "join"]
          /\ UNCHANGED <<up, on, left>>
  /\ UNCHANGED <<objects, clients, registry, started, loops, thread, queue, answers>>

JoinLoop ==
  /\ Hooking("join")
  /\ loops[thread[Current]].pc \in {"over", "has"}
  /\ thread' = [thread EXCEPT ![Current] = None]
  /\ StopServer(Current)
  /\ UNCHANGED <<objects, clients, registry, started, loops, quit, queue, answers>>

(* The last hook returned. *)
Ejects == call.op = "replace" /\ call.at = "start" /\ call.old # None

CallEnds ==
  /\ call # Idle /\ call.todo = <<>>
  /\ started' = IF call.op \in {"start", "stop"} THEN call.op = "start" ELSE started
  /\ registry' = IF call.op # "rollback" THEN registry
                 ELSE IF call.old = None THEN Without(call.new)
                 ELSE Replaced(call.old, call.new)
  /\ IF Ejects THEN Calls("replace", <<call.old>>, "stop", call.new, call.old) ELSE call' = Idle
  /\ UNCHANGED <<objects, clients, up, on, left, serveVars>>

CallGoesOn == StartHook \/ StartRaises \/ StopHook \/ StopLoop \/ JoinLoop \/ CallEnds

(* Serving ----------------------------------------------------------------- *)
ServerOf(o) == objects[o].holds["server"]
Waiting(c) == {i \in DOMAIN queue : queue[i].server = c}

(* A request reaches the queue of a server that runs. *)
Post(c) ==
  /\ c \in up /\ Len(answers) < MaxRequests
  /\ queue' = Append(queue, [req |-> Len(answers) + 1, server |-> c])
  /\ answers' = Append(answers, <<>>)
  /\ UNCHANGED <<traitVars, loops, thread, quit>>

Take(l) ==
  LET c == ServerOf(loops[l].of) IN
  /\ loops[l].pc = "poll" /\ loops[l].of \notin quit /\ Waiting(c) # {}
  /\ LET i == CHOOSE i \in Waiting(c) : \A j \in Waiting(c) : i <= j IN
       /\ loops' = [loops EXCEPT ![l].pc = "has", ![l].req = queue[i].req]
       /\ queue' = RemoveAt(queue, i)
  /\ UNCHANGED <<traitVars, thread, quit, answers>>

(* A completion succeeds with an LLM trait whose router is open; whatever the
   handler raises, the request is answered. *)
Completes == Get("llm") # None /\ clients[objects[Get("llm")].holds["router"]].open
Outcomes == IF Completes THEN {"ok", "error"} ELSE {"error"}

Answer(l) ==
  /\ loops[l].pc = "has"
  /\ \E outcome \in Outcomes : answers' = [answers EXCEPT ![loops[l].req] = Append(@, outcome)]
  /\ loops' = [loops EXCEPT ![l].pc = "poll", ![l].req = None]
  /\ UNCHANGED <<traitVars, thread, quit, queue>>

Over(l) ==
  /\ loops[l].pc = "poll" /\ loops[l].of \in quit
  /\ loops' = [loops EXCEPT ![l].pc = "over"]
  /\ UNCHANGED <<traitVars, thread, quit, queue, answers>>

Serves(l) == l \in DOMAIN loops /\ (Take(l) \/ Answer(l) \/ Over(l))

AgentNext ==
  \/ \E kind \in Kinds : Make(kind)
  \/ MakeFails
  \/ \E o \in DOMAIN objects :
       \/ \E slot \in Slots[KindOf(o)] : With(o, slot)
       \/ Lookup(o) \/ AddTrait(o) \/ ReplaceTrait(o)
  \/ Start \/ Stop \/ CallGoesOn
  \/ \E c \in DOMAIN clients : Post(c)
  \/ \E l \in DOMAIN loops : Serves(l)

(* The owner's call and the serving threads run on; a handler returns. *)
AgentFairness == WF_agentVars(CallGoesOn) /\ \A l \in 1..MaxLoops : WF_agentVars(Serves(l))

AgentSpec == AgentInit /\ [][AgentNext]_agentVars /\ AgentFairness

(* Properties -------------------------------------------------------------- *)
(* add_trait, replace_trait, start and stop keep the registry and the hooks in
   step, whichever of them raise: between two calls every registered trait of a
   started agent runs, and no other does, unless start() raised behind it.   *)
HooksMatchRegistry ==
  call = Idle =>
    /\ started => Registered \subseteq on
    /\ on \ left \subseteq (IF started THEN Registered ELSE {})

(* A client has one owner at most: an open one that the factory or a trait made
   has one, which will close it, and a caller's has none and stays open, through
   views, swaps, rollbacks and failed constructions. *)
Owners(c) == {o \in DOMAIN objects : c \in Owned(o)}

EachOwned ==
  \A c \in DOMAIN clients :
    IF clients[c].by = "caller" THEN Owners(c) = {} /\ clients[c].open
    ELSE /\ Cardinality(Owners(c)) <= 1
         /\ clients[c].open => Owners(c) # {}

(* A request is answered, by an error if need be, unless the trait that serves
   it is stopped: no exception ends a serving thread or drops the request it
   took, and a restarted trait serves again. *)
Pends(r) == r \in DOMAIN answers /\ answers[r] = <<>>
ServerOfRequest(r) ==
  {queue[i].server : i \in {j \in DOMAIN queue : queue[j].req = r}}
    \cup {ServerOf(loops[l].of) : l \in {k \in DOMAIN loops : loops[k].req = r}}
Serving(c) == \E o \in on : KindOf(o) = "http" /\ ServerOf(o) = c

RequestsAnswered ==
  \A r \in 1..MaxRequests :
    Pends(r) ~> (~Pends(r) \/ \A c \in ServerOfRequest(r) : ~Serving(c))
===============================================================================
