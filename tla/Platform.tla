------------------------------- MODULE Platform -------------------------------
(* Agents made one after another by factories that share a platform: its trait
   factory, and its tool factory, to which the memory trait of the agent in the
   making is lent (core/platform.py, core/agent/factory.py, core/tools).      *)
EXTENDS Naturals, FiniteSets, SequencesExt

CONSTANTS
  TraitLists,  \* what a configuration may require, in its order
  ToolLists,   \* the types of tools it may ask for, in its order
  MaxAgents    \* agents that are made (bound)

ASSUME PlatformConstants ==
  TraitLists \subseteq Seq(STRING) /\ ToolLists \subseteq Seq(STRING) /\ MaxAgents \in Nat

(* The traits that TraitFactory creates; the other names are valid, and raise. *)
Creatable == {"directive", "llm", "memory", "rating", "storage", "method", "training"}

(* A type, or its alias, and the name of the tool it makes. *)
ToolName ==
  [shell |-> "shell", read_file |-> "read_file", file_read |-> "read_file",
   web_fetch |-> "web_fetch", web_fetch_configured |-> "web_fetch",
   remember |-> "remember", recall |-> "recall"]

OfMemory == {"remember", "recall"}
Nobody == 0

VARIABLES
  made,    \* the agents made: their traits and tools
  making,  \* the one in the making
  lent,    \* whose memory trait ToolFactory._memory_trait is
  cached   \* the agent whose configuration ToolFactory._web_fetch has

platformVars == <<made, making, lent, cached>>

Unmade == [at |-> "rest", todo |-> <<>>, tools |-> <<>>, traits |-> {}, kit |-> <<>>]

PlatformInit ==
  /\ made = <<>> /\ making = Unmade
  /\ lent = Nobody /\ cached = Nobody

(* The number of the agent in the making. *)
Self == Len(made) + 1

(* Factory.create: the required traits first, then the tools. *)
Create(traits, tools) ==
  /\ making = Unmade /\ Len(made) < MaxAgents
  /\ making' = [Unmade EXCEPT !.at = "traits", !.todo = traits, !.tools = tools]
  /\ UNCHANGED <<made, lent, cached>>

(* A creator may lack its configuration; a class is attached once. *)
AttachTrait ==
  /\ making.at = "traits" /\ making.todo # <<>>
  /\ Head(making.todo) \in Creatable \ making.traits
  /\ making' = [making EXCEPT !.todo = Tail(@), !.traits = @ \cup {Head(making.todo)}]
  /\ UNCHANGED <<made, lent, cached>>

TraitFails ==
  /\ making.at = "traits" /\ making.todo # <<>>
  /\ making' = Unmade
  /\ UNCHANGED <<made, lent, cached>>

Remembers == "memory" \in making.traits

LendMemory ==
  /\ making.at = "traits" /\ making.todo = <<>>
  /\ making' = [making EXCEPT !.at = "tools"]
  /\ lent' = IF Remembers /\ making.tools # <<>> THEN Self ELSE lent
  /\ UNCHANGED <<made, cached>>

(* The finally of _configure_tools. *)
TakesBack == lent' = IF Remembers THEN Nobody ELSE lent

(* A tool: whose memory it reads and writes, and whose configuration it has. *)
Tool(type) ==
  [name |-> ToolName[type],
   memory |-> IF type \in OfMemory THEN lent ELSE Nobody,
   config |-> CASE type = "web_fetch_configured" -> Self
                [] type = "web_fetch" -> cached
                [] OTHER -> Self]

Type == Head(making.tools)
Known == Type \in DOMAIN ToolName
Named(kit) == {kit[i].name : i \in DOMAIN kit}
Adding == making.at = "tools" /\ making.tools # <<>>

(* A memory tool is left out when there is no memory; a type that is unknown, a
   second tool of one name and a configuration that does not fit raise. *)
AddTool ==
  /\ Adding /\ Known
  /\ LET skipped == Type \in OfMemory /\ lent = Nobody IN
       /\ skipped \/ ToolName[Type] \notin Named(making.kit)
       /\ making' = [making EXCEPT !.tools = Tail(@),
                                   !.kit = IF skipped THEN @ ELSE Append(@, Tool(Type))]
  /\ cached' = IF Type = "web_fetch_configured" THEN Self ELSE cached
  /\ UNCHANGED <<made, lent>>

Refused ==
  \/ Type \notin OfMemory
  \/ Type \in OfMemory /\ ToolName[Type] \in Named(making.kit)

ToolFails_KeepsMemory ==
  /\ Adding /\ Refused
  /\ making' = Unmade
  /\ UNCHANGED <<made, lent, cached>>

ToolFails ==
  /\ Adding /\ Refused
  /\ making' = Unmade
  /\ TakesBack
  /\ UNCHANGED <<made, cached>>

Created ==
  /\ making.at = "tools" /\ making.tools = <<>>
  /\ made' = Append(made, [traits |-> making.traits, kit |-> making.kit])
  /\ making' = Unmade
  /\ TakesBack
  /\ UNCHANGED cached

PlatformNext ==
  \/ \E traits \in TraitLists, tools \in ToolLists : Create(traits, tools)
  \/ AttachTrait \/ TraitFails \/ LendMemory \/ AddTool \/ ToolFails \/ Created

PlatformSpec == PlatformInit /\ [][PlatformNext]_platformVars

(* Every memory tool of an agent works on that agent's memory, whatever agents
   the platform made or failed to make before it: the tool factory they share
   lends no memory trait beyond the creation that lent it. *)
OwnTools ==
  \A a \in DOMAIN made : \A i \in DOMAIN made[a].kit :
    made[a].kit[i].name \in OfMemory =>
      made[a].kit[i].memory = a /\ "memory" \in made[a].traits
===============================================================================
