------------------------------- MODULE Composition -------------------------------
(***************************************************************************)
(* Building a composition of flows and running it.  Builder calls append   *)
(* steps to flows and attach a halt, signals, shortcuts, resources, a      *)
(* checkpoint store and checkpointers to them, in any order and on any     *)
(* flow; a flow may be used at several places, and within itself.  run()   *)
(* checks the whole graph, walking it once per flow and what encloses it,  *)
(* before it reads or writes anything.  Then the run descends, each flow's *)
(* ambients resolved from its parent's.                                    *)
(*                                                                         *)
(* A lambda or verb given as a body is a flow of the builder's own, so a   *)
(* body here is always a flow.  The hooks' and predicates' content, scoped *)
(* state, concurrency caps and deadlines are left out.                     *)
(***************************************************************************)
EXTENDS Naturals, Sequences, FiniteSets, SequencesExt

CONSTANTS
  Flows, FlowName,     \* the flows, and FlowName[f], the name f was built with
  Verbs, Labels,       \* verbs, and what name= gives to steps
  Keys, KeyName,       \* resource keys, and KeyName[k]
  Values, Childless,   \* resource objects, and those without child()
  Halts, Signals,      \* halt events, signal names
  Stores, Savers,      \* checkpoint stores, names given to checkpointers
  None,                \* Python's None
  StepHooks, MapHooks, \* the hooks of a step and of a map used
  MaxSteps, MaxWires,  \* bounds: steps appended, other builder calls
  Combined(_, _, _),   \* bound: the compositions built, of nodes, wiring and wires
  MaxItems,            \* bound: items of a map, passes of an iterate
  MaxDepth             \* bound: nested runs

VARIABLES
  nodes,   \* Flow._nodes
  wiring,  \* what with_... attached to each flow
  wires,   \* builder calls so far that appended no step
  root,    \* the flow of the run in progress, or None
  runs,    \* the runs of flows in progress: scope path to environment
  raised   \* what the last descent raised

vars == <<nodes, wiring, wires, root, runs, raised>>

ASSUME CompositionAssumption ==
  /\ IsFiniteSet(Flows)
  /\ None \notin Flows \cup Values
  /\ MaxItems \in Nat /\ MaxDepth \in Nat

Bare == [decl |-> [k \in Keys |-> None], ask |-> {}, halt |-> None, signals |-> {},
         shortcut |-> None, store |-> None, saver |-> None]

-----------------------------------------------------------------------------
(* Steps and node ids *)

(* What a step's id is made of: its kind, its target or name and its
   occurrence among the earlier steps of the chain that have both. *)
Target(f) == <<"flow", FlowName[f]>>
Local(step) == <<step.kind, step.label>>
Occurrence(chain, i) ==
  Cardinality({j \in 1..(i - 1) : Local(chain[j]) = Local(chain[i])})
StepKey(chain, i) == <<Local(chain[i]), Occurrence(chain, i)>>

MemberKeys(members) ==
  [i \in DOMAIN members |->
    <<"map", Target(members[i]),
      Cardinality({j \in 1..(i - 1) : Target(members[j]) = Target(members[i])})>>]

Step(kind, label, kids) ==
  [kids |-> kids, kind |-> kind, hooks |-> {}, label |-> label]
Kid(boundary, f) == [at |-> <<boundary>>, flow |-> f]

(* What a step descends into, and what a flow's steps do. *)
ChildFlows_Then(step) == SelectSeq(step.kids, LAMBDA kid : kid.at # <<"else">>)
ChildFlows(step) == step.kids
Below(f) ==
  UNION {{kid.flow : kid \in Range(ChildFlows(nodes[f][i]))} : i \in DOMAIN nodes[f]}

(* Structure.of: of the last flow of a descent, its steps in order and what each
   descends into, a flow that is above itself by its depth.  What is hashed names
   no occurrences: they follow from the order. *)
Nest(f, above) == [cycle |-> CHOOSE d \in DOMAIN above : above[d] = f, steps |-> <<>>]
Structure[inner \in Seq(Flows) \ {<<>>}] ==
  LET chain == nodes[inner[Len(inner)]] IN
  [i \in DOMAIN chain |->
    <<Local(chain[i]),
      [j \in DOMAIN ChildFlows(chain[i]) |->
        LET kid == ChildFlows(chain[i])[j] IN
        <<kid.at, IF kid.flow \in Range(inner) THEN Nest(kid.flow, inner)
                  ELSE [cycle |-> 0, steps |-> Structure[Append(inner, kid.flow)]]>>]>>]

-----------------------------------------------------------------------------
(* Builder calls *)

Building == root = None /\ raised = "nothing"
StepCount == FoldSet(LAMBDA f, n : n + Len(nodes[f]), 0, Flows)
Appends(f, step) ==
  /\ Building /\ StepCount < MaxSteps
  /\ nodes' = [nodes EXCEPT ![f] = Append(@, step)]
  /\ Combined(nodes', wiring, wires)
  /\ UNCHANGED <<wiring, wires, root, runs, raised>>

Named(label, target) == IF label = None THEN target ELSE <<"name", label>>
Primitive(kind, label) == IF label = None THEN <<kind>> ELSE <<kind, label>>

(* call and then; conclude differs only in a flag the ids leave out. *)
VerbStep(v, label) == Step("call", Named(label, <<"verb", v>>), <<>>)
CallVerb(f, v, label) == Appends(f, VerbStep(v, label))
CallFlow(f, g, label) ==
  g # f /\ Appends(f, Step("call", Named(label, Target(g)), <<Kid("call", g)>>))

Branch(f, then, else, label) ==
  Appends(f, Step("branch", Primitive("branch", label),
                  <<Kid("then", then)>>
                  \o (IF else = None THEN <<>> ELSE <<Kid("else", else)>>)))
Iterate(f, body, label) ==
  Appends(f, Step("iterate", Primitive("iterate", label), <<Kid("body", body)>>))
Map(f, body, label) ==
  Appends(f, Step("map", Primitive("map", label), <<Kid("item", body)>>))
MapMembers(f, members, label) ==
  LET keys == MemberKeys(members)
  IN Appends(f, Step("map", Primitive("map", label),
                     [i \in DOMAIN members |-> [at |-> keys[i], flow |-> members[i]]]))

(* rescue and after replace the last step's; guard, on_error and
   on_item_complete go on a map that has none. *)
Attaches(f, hook) ==
  /\ Building /\ wires < MaxWires /\ wires' = wires + 1
  /\ nodes[f] # <<>>
  /\ nodes' = [nodes EXCEPT ![f][Len(nodes[f])].hooks = @ \cup {hook}]
  /\ Combined(nodes', wiring, wires')
  /\ UNCHANGED <<wiring, root, runs, raised>>
StepHook(f, hook) == Attaches(f, hook)
MapHook(f, hook) ==
  /\ nodes[f] # <<>> /\ Last(nodes[f]).kind = "map" /\ hook \notin Last(nodes[f]).hooks
  /\ Attaches(f, hook)

Wires(f, w) ==
  /\ Building /\ wires < MaxWires /\ wires' = wires + 1
  /\ wiring' = [wiring EXCEPT ![f] = w]
  /\ Combined(nodes, wiring', wires')
  /\ UNCHANGED <<nodes, root, runs, raised>>

WithHalt(f, event) == Wires(f, [wiring[f] EXCEPT !.halt = event])
WithSignal(f, signal) == Wires(f, [wiring[f] EXCEPT !.signals = @ \cup {signal}])
WithShortcut(f, signal, drain) ==
  Wires(f, [wiring[f] EXCEPT !.shortcut = [signal |-> signal, drain |-> drain]])

(* A value replaces the resource, child arguments the request for one per run;
   with_cost_tracker and with_budget are with_resource of one key. *)
WithResource(f, key, value, child) ==
  /\ value # None \/ child
  /\ ~(child /\ value \in Childless)
  /\ Wires(f, [wiring[f] EXCEPT !.decl[key] = IF value = None THEN @ ELSE value,
                                !.ask = IF child THEN @ \cup {key} ELSE @])
WithStore(f, store) == Wires(f, [wiring[f] EXCEPT !.store = store])
WithCheckpointer(f, name) == Wires(f, [wiring[f] EXCEPT !.saver = <<name>>])

-----------------------------------------------------------------------------
(* The checks of run() *)

(* The flows in the graph under those of S, S included: of the sets that a step
   does not lead out of, the least one around S. *)
Closed(T) == \A g \in T : Below(g) \subseteq T
Reach(S) == {g \in Flows : \A T \in SUBSET Flows : S \subseteq T /\ Closed(T) => g \in T}
Tree(f) == Reach({f})

(* nested: the flows under f. *)
OneRepo(f, nested) ==
  /\ \A g \in nested : wiring[g].store = None
  /\ wiring[f].store # None \/ \A g \in nested \cup {f} : wiring[g].saver = None

OneHalt_Direct(f, nested) ==
  \A g \in Below(f) : wiring[g].halt \in {None, wiring[f].halt}
OneHalt(f, nested) == \A g \in nested : wiring[g].halt \in {None, wiring[f].halt}

(* _inner_region: a flow under f cut short by the same signal. *)
Regions(S, signal) ==
  {g \in S : wiring[g].shortcut # None /\ wiring[g].shortcut.signal = signal}
Inner(f) == Reach(Below(f))
ShortcutsFit(f, nested) ==
  /\ \A g \in nested : wiring[g].signals = {}
  /\ \A g \in nested \cup {f} : wiring[g].shortcut # None =>
       LET signal == wiring[g].shortcut.signal IN
         /\ signal \in wiring[f].signals
         /\ Regions(Inner(g), signal) = {}

(* check_resources: the walk goes into a flow once for every set of keys that
   cover it, so it makes the least set of visits that leads to no other.
   check_budgets_have_a_tracker is its case of one key. *)
Declared(f) == {k \in Keys : wiring[f].decl[k] # None}
Covered(visit) == visit[2] \cup Declared(visit[1]) \cup wiring[visit[1]].ask
Visits(visit) == Below(visit[1]) \X {Covered(visit)}
Known_Flows(visit, seen) == visit[1] \in {v[1] : v \in seen}
Known(visit, seen) == visit \in seen
Walked(seen) == \A v \in seen : \A w \in Visits(v) : Known(w, seen)
Covers(f) ==
  LET all == Flows \X SUBSET Keys IN
  {v \in all : \A seen \in SUBSET all : <<f, {}>> \in seen /\ Walked(seen) => v \in seen}
ResourcesFit(f, nested) ==
  /\ \A visit \in Covers(f) :
       wiring[visit[1]].ask \subseteq visit[2] \cup Declared(visit[1])
  /\ \A j, k \in UNION {Declared(g) \cup wiring[g].ask : g \in nested \cup {f}} :
       KeyName[j] = KeyName[k] => j = k

(* _check_run_args; that resume= and restart= need a store is left out. *)
Accepts(f) ==
  /\ nodes[f] # <<>>
  /\ LET nested == Tree(f) \ {f} IN
       /\ OneRepo(f, nested) /\ OneHalt(f, nested)
       /\ ShortcutsFit(f, nested) /\ ResourcesFit(f, nested)

-----------------------------------------------------------------------------
(* The run *)

(* A resource in use: the object it comes from, None if there is none, and the
   runs whose children it is under. *)
Value(v) == [of |-> v, via |-> <<>>]
Child(base, path) == [base EXCEPT !.via = Append(@, path)]

NoEnv == [res |-> [k \in Keys |-> Value(None)], halt |-> None, repo |-> None, saver |-> None,
          regions |-> <<>>]

(* run_resources: the flow's own resources in place of the parent's. *)
Base(f, env) ==
  [k \in Keys |-> IF wiring[f].decl[k] = None THEN env.res[k] ELSE Value(wiring[f].decl[k])]
Effective(f, env, path) ==
  [k \in Keys |-> IF k \in wiring[f].ask THEN Child(Base(f, env)[k], path)
                  ELSE Base(f, env)[k]]

(* What raises on the way in: no steps, a signal the run does not have, no
   resource in scope to make a child of, or one without child(). *)
Raises(f, env, signals) ==
  IF nodes[f] = <<>> THEN "no steps"
  ELSE IF wiring[f].shortcut # None /\ wiring[f].shortcut.signal \notin signals
       THEN "no signal"
  ELSE IF \E k \in wiring[f].ask : Base(f, env)[k].of = None THEN "no resource"
  ELSE IF \E k \in wiring[f].ask : Base(f, env)[k].of \in Childless THEN "no child"
  ELSE "nothing"

Env(f, env, path) ==
  [halt |-> IF env.halt = None THEN wiring[f].halt ELSE env.halt,
   saver |-> IF wiring[f].saver = None THEN env.saver ELSE wiring[f].saver,
   at |-> 1, flow |-> f,
   res |-> Effective(f, env, path),
   repo |-> IF wiring[f].store = None THEN env.repo ELSE wiring[f].store,
   regions |-> IF wiring[f].shortcut = None THEN env.regions
               ELSE Append(env.regions, [signal |-> wiring[f].shortcut.signal,
                                         drain |-> wiring[f].shortcut.drain,
                                         left |-> FALSE]),
   begun |-> 0]

(* _run_as_subflow of f at path, from the environment env of the scope it is
   entered from. *)
RunAsSubflow(f, env, path, others) ==
  LET why == Raises(f, env, wiring[root'].signals) IN
    /\ raised' = why
    /\ IF why = "nothing"
       THEN runs' = [p \in {path} \cup DOMAIN others |->
                     IF p = path THEN Env(f, env, path) ELSE others[p]]
       ELSE runs' = <<>>
    /\ UNCHANGED <<nodes, wiring, wires>>

Run(f) ==
  /\ root = None /\ raised = "nothing"
  /\ Accepts(f)
  /\ root' = f
  /\ RunAsSubflow(f, NoEnv, <<>>, <<>>)

Chain(p) == nodes[runs[p].flow]
At(p) == Chain(p)[runs[p].at]
InProgress(p) == p \in DOMAIN runs /\ runs[p].at \in DOMAIN Chain(p)
Entered(p) == {q \in DOMAIN runs : Len(q) = Len(p) + 1 /\ Front(q) = p}

Members(step) == step.kind = "map" /\ step.kids[1].at # <<"item">>

(* How many times a step descends, and must before it is over. *)
Most(step) == IF Members(step) THEN Len(step.kids)
              ELSE IF step.kind \in {"iterate", "map"} THEN MaxItems ELSE 1
Least(step) == IF Members(step) THEN Len(step.kids)
               ELSE IF step.kind = "map" \/ (step.kind = "branch" /\ Len(step.kids) = 1)
               THEN 0 ELSE 1

(* A started item leaves the drain regions it is in. *)
Leaves(regions) == [i \in DOMAIN regions |-> [regions[i] EXCEPT !.left = @ \/ regions[i].drain]]

(* The step's subflow, an arm, the next pass, or the next item or member: a
   map's run side by side.  Its place is the step's and, of a pass or item,
   its number or key; the boundary it is entered by is in the ids below. *)
Place(step, kid, n) ==
  IF step.kind \in {"call", "branch"} THEN <<>> ELSE IF Members(step) THEN kid.at ELSE <<n>>
Enter(p) ==
  /\ InProgress(p) /\ At(p).kids # <<>> /\ Len(p) < MaxDepth
  /\ runs[p].begun < Most(At(p))
  /\ At(p).kind # "map" => Entered(p) = {}
  /\ UNCHANGED root
  /\ LET step == At(p)
         n == runs[p].begun + 1
         env == IF step.kind = "map" THEN [runs[p] EXCEPT !.regions = Leaves(@)] ELSE runs[p]
     IN \E i \in (IF Members(step) THEN {n} ELSE DOMAIN step.kids) :
          RunAsSubflow(step.kids[i].flow, env,
                       Append(p, <<StepKey(Chain(p), runs[p].at), Place(step, step.kids[i], n)>>),
                       [runs EXCEPT ![p].begun = n])

(* A step is over: a verb returned, a branch took no arm, or what the step
   entered is done. *)
Goes(p) ==
  /\ InProgress(p) /\ Entered(p) = {}
  /\ At(p).kids # <<>> => runs[p].begun >= Least(At(p))
  /\ runs' = [runs EXCEPT ![p].at = @ + 1, ![p].begun = 0]
  /\ UNCHANGED <<nodes, wiring, wires, root, raised>>

Leave(p) ==
  /\ p \in DOMAIN runs /\ ~InProgress(p)
  /\ runs' = [q \in DOMAIN runs \ {p} |-> runs[q]]
  /\ root' = IF p = <<>> THEN None ELSE root
  /\ UNCHANGED <<nodes, wiring, wires, raised>>

(* The run raised out of every flow: the application sees it. *)
Fail ==
  /\ raised # "nothing" /\ root # None
  /\ root' = None /\ raised' = "nothing"
  /\ UNCHANGED <<nodes, wiring, wires, runs>>

(* Some flows have their first step. *)
Init ==
  /\ nodes \in [Flows -> {<<>>} \cup {<<VerbStep(v, None)>> : v \in Verbs}]
  /\ wiring \in [Flows -> {Bare}]
  /\ wires = 0
  /\ root = None /\ runs = <<>> /\ raised = "nothing"

Build(f) ==
  \/ \E label \in Labels \cup {None} :
       \/ \E v \in Verbs : CallVerb(f, v, label)
       \/ \E g \in Flows : CallFlow(f, g, label)
       \/ \E g \in Flows, h \in Flows \cup {None} : Branch(f, g, h, label)
       \/ \E g \in Flows : Iterate(f, g, label) \/ Map(f, g, label)
       \/ \E g, h \in Flows : MapMembers(f, <<g, h>>, label)
  \/ \E hook \in StepHooks : StepHook(f, hook)
  \/ \E hook \in MapHooks : MapHook(f, hook)
  \/ \E event \in Halts : WithHalt(f, event)
  \/ \E signal \in Signals :
       \/ WithSignal(f, signal)
       \/ \E drain \in BOOLEAN : WithShortcut(f, signal, drain)
  \/ \E key \in Keys, value \in Values \cup {None}, child \in BOOLEAN :
       WithResource(f, key, value, child)
  \/ \E store \in Stores : WithStore(f, store)
  \/ \E name \in Savers : WithCheckpointer(f, name)

Next ==
  \/ \E f \in Flows : Build(f) \/ Run(f)
  \/ \E p \in DOMAIN runs : Enter(p) \/ Goes(p) \/ Leave(p)
  \/ Fail

Spec == Init /\ [][Next]_vars

-----------------------------------------------------------------------------
(* Properties *)

(* Every variable has its type, and a run is inside the one it was entered
   from until it is over: nothing it started outlives it. *)
Kinds == {"call", "branch", "iterate", "map"}
FlowTargets == {Target(f) : f \in Flows}
StepLabels ==
  FlowTargets \cup ({"name"} \X Labels) \cup ({"verb"} \X Verbs)
    \cup {<<kind>> : kind \in Kinds} \cup (Kinds \X Labels)
ItemKeys == {"map"} \X FlowTargets \X Nat
Boundaries == {<<at>> : at \in {"call", "then", "else", "body", "item"}} \cup ItemKeys
KidSteps == [at : Boundaries, flow : Flows]
Steps == [kids : Seq(KidSteps), kind : Kinds, hooks : SUBSET (StepHooks \cup MapHooks),
          label : StepLabels]
Wirings ==
  [decl : [Keys -> Values \cup {None}], ask : SUBSET Keys, halt : Halts \cup {None},
   signals : SUBSET Signals, shortcut : [signal : Signals, drain : BOOLEAN] \cup {None},
   store : Stores \cup {None}, saver : {<<x>> : x \in Savers} \cup {None}]
StepKeys == (Kinds \X StepLabels) \X Nat
Places == {<<>>} \cup {<<n>> : n \in 1..MaxItems} \cup Boundaries
Segments == StepKeys \X Places
Envs ==
  [halt : Halts \cup {None}, saver : {<<x>> : x \in Savers} \cup {None}, at : Nat, flow : Flows,
   res : [Keys -> [of : Values \cup {None}, via : Seq(Seq(Segments))]],
   repo : Stores \cup {None},
   regions : Seq([signal : Signals, drain : BOOLEAN, left : BOOLEAN]), begun : Nat]

TypeOK ==
  /\ nodes \in [Flows -> Seq(Steps)]
  /\ wiring \in [Flows -> Wirings]
  /\ wires \in Nat
  /\ root \in Flows \cup {None}
  /\ raised \in {"nothing", "no steps", "no signal", "no resource", "no child"}
  /\ \A p \in DOMAIN runs :
       /\ p \in Seq(Segments) /\ runs[p] \in Envs
       /\ runs[p].at \in 1..(Len(Chain(p)) + 1)
       /\ p # <<>> => Front(p) \in DOMAIN runs

(* A run that passed the checks never fails, at any depth and whatever is
   shared or recursive, for a resource or a signal that is not there. *)
NoLateErrors == raised \notin {"no resource", "no signal"}

(* Whatever is shared, recursive or rescued on the way down, every run in
   progress is under what the runs around it are under: it observes the halt of
   the top-level flow, saves to its store if it saves at all, and is in one
   region at most that a signal cuts short; and every budget is tracked: below a
   run that asked for a child of a resource, every run uses that child or one
   made from it, unless a flow on the way declares its own. *)
OneOfEach(env) ==
  /\ env.halt = wiring[root].halt
  /\ env.repo = wiring[root].store
  /\ env.saver # None => env.repo # None
  /\ \A i, j \in DOMAIN env.regions :
       env.regions[i].signal = env.regions[j].signal => i = j

RollsUp(p, q) ==
  \A k \in wiring[runs[p].flow].ask :
    \/ p \in Range(runs[q].res[k].via)
    \/ \E r \in DOMAIN runs \ {p} :
         IsPrefix(p, r) /\ IsPrefix(r, q) /\ k \in Declared(runs[r].flow)

RunsInherit ==
  /\ \A p \in DOMAIN runs : OneOfEach(runs[p])
  /\ \A p, q \in DOMAIN runs : IsPrefix(p, q) => RollsUp(p, q)

(* Flows of one structure give every step they reach the same id, however
   deep, also through a flow that is within itself: a checkpoint of one can be
   resumed by the other. *)
Unrolled[depth \in 0..MaxDepth] ==
  [f \in Flows |->
    [i \in DOMAIN nodes[f] |->
      <<StepKey(nodes[f], i),
        [j \in DOMAIN nodes[f][i].kids |->
          <<nodes[f][i].kids[j].at,
            IF depth = 0 THEN <<>> ELSE Unrolled[depth - 1][nodes[f][i].kids[j].flow]>>]>>]]
HashTellsIds ==
  Building => \A f, g \in Flows :
    Structure[<<f>>] = Structure[<<g>>] => Unrolled[MaxDepth][f] = Unrolled[MaxDepth][g]

=============================================================================
