# A verification project for llm-gent

llm-gent runs LLM agents as *flows*: compositions of verbs (async functions,
often one or more model calls) that may take hours, are halted, cut short,
crash and are resumed; and it hosts agents, with traits, memory and ratings, behind
a hub. This directory holds TLA+ models of the parts where that is hard, the
TLC configurations that check them, and TLAPS proofs. Every
definition was translated from the source; `PROJECT.json` maps each one to the
lines it stands for.

To run it: `tlc -config FlowWalk.cfg MCFlowWalk` (each row of *Runs* gives
module and configuration), `tlapm FlowHistoryProofs.tla`.

## 1. The system

Paths are under `src/llm_gent/`.

| component | state it keeps | operations | interacts with |
|---|---|---|---|
| checkpoint history `flow/_checkpoint_ctx.py`, `_resume.py`, `state/cas.py`, `history.py` | per run: cached parent and head, objects already put; in the store: commits, trees, `HEAD`, tags | begin, checkout, save, halt commit, completion commit, delete; prune from outside | the store, by put and compare-and-set of refs; `Flow.run`; other processes on the same history |
| Postgres store `flow/stores/postgres.py` | rows of objects and refs | put, set_ref, delete, prune | the history |
| map step `flow/_map.py` | `done` per item, the merge lock, a semaphore; a scope per item | start items, guard, body, merge and save, hooks, rollback, aggregate | registry, history (policy saves), halt, shortcut |
| scope registry `flow/state/snapshot.py` | live scopes and cursors by path; saved ones not taken yet | open/close, take, capture, close_under | every running part of a flow |
| chain, iterate, branch `flow/_chain.py`, `_iterate.py`, `_executor.py`, `_shortcut.py`, `_halt_observer.py` | a cursor each | walk, skip, rescue, halt, fast-forward, until, bounds | registry, history, halt event, signals |
| `Flow.run` and the builder `flow/flow.py`, `nodes.py`, ... | the composition; one run's registry and context | run, resume, restart, validate | all of the above |
| Loop turns `flow/loop.py`, `state/paused_turn.py` | a paused SAIA turn per call path | hold, take, release, lower caps | registry, halt, cut, cost |
| builder and node ids `flow/flow.py`, `nodes.py`, `_node_id.py`, `structure.py` | the composition: steps, wiring, ids | then, map, iterate, branch, with_...; check; describe | every run, which resolves its environment from it |
| resources and cost `flow/resource/`, `core/cost/` | a tree of trackers: spend, cap, latch; a rate card | charge, price, amend, restore, halt on a cap | Loop turns, snapshots |
| values of a checkpoint `flow/state/codec.py` | none | encode, decode | snapshots |
| hub and registry `hub/`, `bus/registry.py`, `bus/health.py` | agents, channels, runners, relay pool | start/stop agent, register, relay, announce, shut down | bus, runners |
| message bus `bus/transport.py`, `channel.py` | sockets, request pool, pending replies | send, recv, request, close | hub, runners |
| runners `runtime/runner.py`, `service.py` | thread or process, stop event | set up, register, loop, leave, restart | agents, hub |
| runtime core `runtime/core.py`, `handle.py`, `registry.py` | handles, channels, runners by name | register, start, stop, shut down | bus, runners |
| agent and traits `core/agent/`, `core/traits/` | registry of traits, the clients each owns, serving threads | add, replace, start, stop; serve | LLM, memory, tools |
| tools and platform `core/platform.py`, `core/tools/` | the shared tool factory | make an agent's tools | agents |
| memory and rating `core/memory/`, `core/traits/builtin/rating.py`, `cli/tools/rate.py` | facts, feedback rows | remember, rate one by one or in batches, mark pairs | database, LLM |
| training pairs `core/training/pairing/` | none | pair by margin or threshold | the rated items |
| HTTP server, LLM callers, storage, CLI | configuration, database rows | request routing, model calls, SQL | the above |

What is hard: one history written by two processes; a save made of several
store calls, any of which may fail or never answer; tasks of one event loop
that interleave where a callback awaits; and a run that continues from a
snapshot taken at some instant of such an interleaving. There, a step can run
twice or not at all, a merge can be applied twice, or a commit can land where
another writer's belongs. Outside `flow/`, the hub's threads and the agents'
own register, stop and restart the same agents; hooks of a start, a stop or a
replacement raise in the middle; raters and trainers work on one table that
nothing locks. `PROJECT.json` lists each such hazard at the line where it bites,
with the properties that would catch it.

What makes each part correct:

- *history*: a run's commits are one unbroken line; `HEAD` moves forward; a
  resumed run absorbs nobody's work silently; what a ref names is readable;
  the `complete` tag tells the truth.
- *map*: each item's state is merged once; a checkpoint holds a merge with its
  record; a finished item does not run again; the map ends.
- *chain, iterate, branch*: over any halts and resumes the run is one walk of
  the program; cursors and state in a snapshot are of one moment; a halt
  starts nothing new; the loop ends.
- *Loop turns*: a paused turn is resumed once, or dropped, and its caps hold.
- *composition*: what `run()` accepted does not fail later for its wiring, and
  every run is under the halt, store, regions and budgets of those around it.
- *cost*: spend is the sum of what was recorded, across resumes; a crossed cap
  halts; a token is billed once, by the rule of its model.
- *values*: what a checkpoint stores comes back as what it was.
- *hub, runners*: what the registry holds is what runs; relays do not block
  each other; a shutdown ends.
- *agents*: the registry holds what was started, a client has one owner, a
  request is answered; a name holds a channel exactly while it runs.
- *ratings and pairs*: counts are what was done, nothing is paired twice, a pass
  ends; pairs keep their terms and none is left out.

## 2. The modules

    FlowHistory ---- MCFlowHistory                     (TLC)
        \---------- FlowHistoryProofs                  (TLAPS)
    MapRun --------- MCMapRun                          (TLC)
        \---------- MapRunProofs                       (TLAPS)
    LinearRun  <==refines== FlowWalk ---- MCFlowWalk   (TLC)
        FlowWalk --- FlowWalkProofs                    (TLAPS)
    LoopTurn ------- MCLoopTurn                        (TLC)
        \---------- LoopTurnProofs                     (TLAPS)
    Composition ---- MCComposition                     (TLC)
        \---------- CompositionProofs                  (TLAPS)
    Costs, Pricing, Codec ---- Records ---- MCRecords  (TLC)
        Records ---- RecordsProofs                     (TLAPS)
    Swarm ---------- MCSwarm                           (TLC, two cfgs)
        \---------- SwarmProofs                        (TLAPS)
    Pairing ---- Ratings ---- Learning ---- MCRatings  (TLC)
    Agents, Platform, Core ---- Hosting ---- MCHosting (TLC)
        Hosting, Learning ---- AgentsProofs            (TLAPS)

The models of `flow/` meet at the snapshot. `FlowHistory` treats it as an opaque
tree and asks where commits go; `FlowWalk`, `MapRun`, `LoopTurn` and `Costs`
treat the history as "the newest checkpoint" and ask what is in it, and `Codec`
how a value gets into it and out. `Composition` says which halt, store, region
and trackers each of their runs has. The others meet at the agent: `Swarm`
starts, connects and stops it, `Agents` is its inside, and `Ratings` the table
it works on.

### FlowHistory

One repository of the content-addressed store, and processes that run a flow
wired to it. One action is one store call, so other writers, a prune, a crash
or a store error come between any two of them; inside a process the commit lock
serialises saves.

- `ctx[w]` is `CheckpointContext` (parent, head, loaded, written); `objects`,
  `refs`, `fresh` are the store; `commit[i]` is what the hash `i` stands for,
  with two history fields (which run built it, its how-many-th).
- `BeginRun`, `CheckoutLatest/SkipStateless/CheckoutAt/ContinueFrom`,
  `PutSnapshot`, `LoadHead`, `PutCommit`, `MoveHead`, `ReadTag`, `MoveTag` are
  the calls `begin_run`, `Resume.checkout` and `continue_from`,
  `save_scope_commit`/`append_commit` and `put_tag` make, with their conflict
  and error outcomes. `DeleteHistory` is `gc_on_success`, and
  `MoveHeadUnacknowledged` a store that did it and did not say so.
- Left out: trace references, `History`'s read-only walk, snapshot contents.
  The repository itself (`appinfra`'s `Repo`) is external: put refuses an
  object whose references are missing, set_ref is a compare-and-set, prune
  keeps what a ref or a recent object reaches, as the callers rely on.

### MapRun

One `.map` step. One action is what an item's task does between two points
where it may suspend; which callbacks suspend is part of the declaration
(`ModeRecord`), and while a task stands where it does not suspend nobody else
moves (`Parked`, `Turn`): that is how a single event loop behaves.

- `done` is `MapRunner.done`, `scope`/`saved` the registry under the items'
  paths, `lock` the merge lock, `disk` the newest checkpoint, `parent[i]` how
  often item `i`'s state went into the parent's.
- Actions follow `_gather_items`, `MapItemRunner.run`, `_run_item`,
  `_on_success`, `_merge_and_save`, `_fail` and the run's ends. A policy save
  that raises may or may not have written its commit.
- Left out: maps over members, a computed cap, aggregation, the items'
  projections (taken as computed at once), and `merge_saved` without a saved
  scope only falls back to running the item (a checkpoint never holds that:
  `CheckpointsSound`).

### FlowWalk and LinearRun

`FlowWalk` is the walk: a chain of `TopLen` steps, step `IterAt` an iterate over
a chain of `BodyLen`, whose step `BranchAt` branches into arms of `ArmLen`.

- `live` and `kept` are the registry's two halves (what runs, and what a
  checkout saved and nothing took yet); a chain's cursor is its step, its input
  and whether the step has started; an iterate's is pass, carry and `until`'s
  verdict, where "unknown" is the verdict not computed yet.
- A step's work is its own name, appended both to the state it runs under
  (`root`, or the iterate's scope) and to the value it hands on. The two are
  kept by different code - the state by the scopes, the value by the cursors -
  and must agree in every snapshot.
- Actions: `StartStep`/`SkipStep`, `VerbReturns`/`VerbStops` (`_chain.py`),
  `TakeArm`/`Chooses`/`ChoosesNone`/`EndArm` (branch), `EnterIterate` to
  `Merge` (`_iterate.py`), `Raises`/`RescueReturns` (`_execute_node`), the halt
  commit, completion, crash and resume (`Flow.run`), and the environment: a
  halt, a signal, a checkpoint a verb asks for, allowed only where the walk
  awaits.
- Abstractions: a verb's work lands as one step when it returns, so a
  checkpoint it takes meanwhile has none of it; no step declares `project=` (a
  step's input is the previous result); `when` is free; `until` holds from a
  fixed pass on; the merge is synchronous; a deadline may pass only after a
  pass of the session has run, since the clock starts with the loop; the branch
  is never the first step of the body, arms have no conclude steps, and rescue
  is on the iterate only. The deferred-inputs path of a resumed chain needs a
  region that is gone on resume and is not reachable here.
- Left out: a subflow's own scope, a verb's own rescue and `after` hook, drain
  regions, paused turns (`LoopTurn`), `restart=`.

`LinearRun` is what such a run promises, without cursors, halts, sessions or a
registry: a trail of steps done; a step is admitted only if the program has it
next after the trail; it is done or falls back exactly to the newest
checkpoint. `FlowWalk` implements it under the mapping at its end: the trail is
what the scopes hold (`Trail`), the admitted step is what the cursors say has
started (`Running`), the newest checkpoint maps the same way.

### LoopTurn

A chain of `Len` steps, each a verb that makes Loop calls one by one or at once
(`mode.gathers`). One action is what a call does between two awaits: taking the
saved turn (`EnterCall`), SAIA's iterations and its return, `_after_run` up to
the awaited `on_cost` and past it (`CostPaid`), the last hook.

- `live` and `saved` are the registry's two halves again, here by step and call
  (`next_turn`'s numbering: a verb is taken to make the same calls in the same
  order when its step runs again, as the code takes it to); `call[k]` is the
  call with the turn it continues; `pos` the chain's cursor.
- A turn is a number of iterations twice over: `work`, those its conversation
  holds, and `used`, those `TurnUsage` counts. Tokens go the same way.
- SAIA is external: it may iterate up to its cap, return done after an
  iteration, raise, or return paused once an event it aborts on is set. The
  tasks that make one event of several (`follow`) only delay what it sees, so
  `Aborted` is the set of sources itself.
- A verb returns after all its calls, or early after one that paused or
  raised; it waits for the calls it started.
- Left out: a Loop outside a run, a resume without the `ConversationFactory`
  that captured the turn (it raises), cancellation, drain regions.

A turn saved for a call that the step's next run never makes, because an
earlier call raised and was rescued or paused and the verb returned, stays in
later checkpoints until the run ends (`drop_saved`). Nothing takes it: its path
is of a step that is over. `HeldUnderTheStep` therefore speaks of what is
registered, not of what is left over.

### Composition

Building flows and running them. Builder calls append steps and attach a halt,
signals, shortcuts, resources, a store and checkpointers, in any order and on
any flow, and a flow may be a step of several flows and of itself; `Accepts` is
what `run()` checks of the whole graph before it touches anything.

- `nodes[f]` and `wiring[f]` are what a flow was built with, `runs` maps the
  scope path of each run in progress to its environment, resolved from its
  parent's as `_run_as_subflow` and `run_resources` do.
- `StepKey` and `Structure` are the ids and the structure hash: a hash is the
  value that is hashed, so equal hashes are equal structures.
- The walks of the checks over a graph with cycles are the least sets they are
  closed in (`Reach` of flows, `Covers` of flows with what encloses them), and
  `Structure` and `Unrolled`, the ids to a depth, are recursive functions over
  descents and depths: the module has no RECURSIVE operator.
- Left out: what hooks and predicates compute, scoped state, the conclude flag,
  caps and deadlines, builder calls during a run, the check that `resume=` needs
  a store, and the builder's wrapping of a lambda into a flow of its own.

### Costs

The trackers of a flow over its sessions. `Record` is one level of
`_record_cost`; every level up to the root is recorded before `CalledBack` or
`CallbackRaises` goes down again, and a callback may charge or amend itself.
`Open`, `Close` and `Abandon` are a nested run with a budget, `Starts` the run
of a session with the trackers a checkout restores.

- `own[s]` is a history variable: what was recorded at scope `s` itself on the
  line of commits the run continues. What a closed run recorded stays with the
  enclosing one.
- Left out: resources declared below the top level, shortcuts that skip a saved
  scope, `resume="off"`, `costs_by_op`, calls from several threads.

### Pricing

What one event costs: which key of a rate card a model is billed by, and the
sum over the tokens a response was served. A name is a sequence of characters,
a rate an integer per token, an amount hundredths of it, so that the Anthropic
multipliers are integers; the rounding of floats is left out, and so are
malformed counts, which become 0. `Served` is what the provider did;
`InputTokens`, `ReadTokens` what the response and the caller say of it.

Neither is asked of an Anthropic response that has no tag and no usage fields,
nor of one a proxy tagged as its own: it is billed as OpenAI's, by the code's
own default.

### Codec

The values a checkpoint holds beside its scopes, over any number of saves and
resumes. A value is a tree; its keys and its types' names may be the codec's own
(`"$type"`, `"dict"`, `"tuple"`). Objects have `to_dict` and `from_dict`, a
map's `Failure` among them, whose exception comes back as what is known of it.
Left out: a class that is not imported at the resume, and subclasses of `dict`,
`list`, `tuple` and `str`, which come back as the plain type.

`Layer[n]` is what nests `n` deep or less, as JSON and as held values. `Encode`,
`Raises`, `Decode`, `Parts` and `Back` are recursive functions over the layers up
to `Nesting`, each of one step (`EncodedBy`, ...) that takes the function for the
parts. A level of a value takes up to three of JSON: its own, a `"$type"` with
its `"$data"`, and one more where an object's fields have a `"$type"` themselves.
A dict is a function on all `Keys`, `Absent` where it has none.

### Records

`Costs`, `Pricing` and `Codec` share no state: an event is priced before a
tracker hears of it, and a value is encoded by itself. A behaviour of `Records`
is one of one part, while the others rest in their initial states.

### Swarm

The hub process and its agents. An action is what one thread does between two
points where another may come in between: a lock, a message, a wait.

- `main` is the stack of the hub's main thread (start, stop, shutdown, and the
  shutdown again inside them, from the signal handler); `poll` its bus thread;
  `tasks` the relays its pool works on; `entries`, `runners`, `channels` the
  registry, `Hub._runners` and the channels with their transports.
- `pc[a]` is where agent `a`'s runner is, in a thread or a process; `toHub` and
  `toAgent` the sockets' queues; `cur[a]` the request its handler works on and
  the relay it waits for.
- Deaths without leaving, restarts by policy, refused starts, timeouts at any
  wait and a signal anywhere are actions of the environment.
- External: `appinfra`'s channels and runners, ZeroMQ (a message to a socket
  that exists arrives, in order), subprocesses.
- Left out: heartbeats, health and `cleanup_dead_agents`, which nothing calls;
  scheduled and autonomous loops; forwarding by `send_to_agent`; traffic before
  `on_request` is set; a relay handled inline while the pool shuts down; the
  second `Hub.stop` of the outer `finally`; loss on PUB/SUB.

### Pairing, Ratings, Learning

`Pairing` is the selection of pairs as operators: pools, one pass round the
chosen pool, several passes with looser bounds, and below them what pairs
promise (`Respects`, `Exhausts`, `Bounded`), which is stated without passes.

`Ratings` is one table of facts and feedback rows and the raters over it: the
rating trait's methods, the batch service and the rate tool in both modes. An
action is one statement, so other passes, `remember`, `forget` and the marking
of pairs come between any two. The LLM may raise, not parse, repeat a fact or
invent one; each save may fail. `oneRow` is whether the table refuses a second
row of a fact, which the code's `ON CONFLICT DO NOTHING` is written for and the
migrations do not say. Left out: context keys and schemas, embeddings, criteria
and prompts. `Learning` adds the caller who makes pairs of rated items.

### Agents, Platform, Core, Hosting

`Agents` is one agent: each `on_start` and `on_stop` is a step of the call that
its owner is in, and may raise; `clients` says who made each client and whether
it is open, so that "closed by its owner, and once" can be asked; `loops`,
`thread`, `quit`, `queue` and `answers` are `HTTPTrait`'s serving threads, its
shutdown event and its requests. Left out: lookup of traits by name, an ejected
object registered again, server subprocesses that do not die, what a hook did
before it raised, conversation and tool-loop traits, the task pipeline.

`Platform` is the making of agents one after another on a shared tool factory,
to which the memory trait of the agent in the making is lent. `Core` is
`runtime/core.py`: register, start, stop and shutdown by name, each call into
the bus and the runner a step that may raise. It has one caller; `ask` and
`feedback` change nothing. `Hosting` puts the three side by side, as `Records`
does: they run in threads or processes of their own and share no state.

## 3. Runs

| run | module, cfg | properties | bounds |
|---|---|---|---|
| history_two_writers | MCFlowHistory, FlowHistoryTwoWriters | RunsAreContiguous, NothingAbsorbed, HeadMovesForward | 2 writers, 3 commits, 3 runs: 3.4 million states |
| history_faults | MCFlowHistory, FlowHistoryFaults | CompleteIsLastFinished, RefsReadable | 2 writers, one with `gc_on_success`, any call fails, prunes, 2 commits, 2 runs: 3.8 million states |
| map_run | MCMapRun, MapRun | MergedOnce, CheckpointsSound, NeverRunsAgain, SessionEnds | 2 items, 8 declarations, 3 sessions: 197,000 states |
| map_async_merge | MCMapRun, MapAsyncMerge | MergedOnce, which TLC refutes | 2 items, an asynchronous merge |
| walk | MCFlowWalk, FlowWalk | StateMatchesCursor, RunIsLinear, HaltStartsNothing, SessionEnds | 3 steps around an iterate of 3 with a branch, 5 declarations, 2 passes, 3 sessions: 142,000 states |
| loop_turns | MCLoopTurn, LoopTurn | TurnsContinue, HeldUnderTheStep, CapsHold, OnlyWholeResultsPass, HaltEnds | 2 steps of 1 or 2 calls, 6 declarations, caps of 0 to 2, 3 sessions: 460,000 states |
| composition | MCComposition, Composition | NoLateErrors, RunsInherit, HashTellsIds | 3 flows, 3 steps, 3 other builder calls, nested 2 deep: 362,000 states |
| records | MCRecords, Records | SpendIsSum, LatchAgrees, TotalsContinue, RuleIsOwn, BilledOnce, ValuesSurvive | a root and two items, 2 charges, 3 sessions; 52 rate cards, 39 names, 2 tokens of a kind; values nested 3 deep, 2 saves: 2.6 million states |
| swarm | MCSwarm, Swarm | ChannelsOfRunners, RegistryIsTrue | an agent of the hub and an external one, 2 lives, 1 request, 1 death, any timeout: 3.9 million states |
| swarm_ends | MCSwarm, SwarmEnds | RelaysEnd, ShutdownEnds | 2 agents of the hub, 2 requests, a pool of 1: 120,000 states |
| ratings | MCRatings, Ratings | CountsAreTrue, PairsAreSound, PairedOnce, PassesEnd | 3 facts, a pass of any kind beside an inline one, 128 terms for pairs: 160,000 states |
| hosting | MCHosting, Hosting | HooksMatchRegistry, EachOwned, OwnTools, HeldIffRunning, RequestsAnswered | 4 kits of traits, 4 objects, 3 clients, 2 serving threads; 2 agents made of 28 configurations; 3 names: 321,000 states |

What they show is stated above each property in the modules. Why the bounds
are enough to meet the interesting cases:

- *history*: two writers and three commits let one commit land inside another
  run's line; a second run of a writer resumes what the first left.
- *map, walk, turns*: two items are enough for every "a sibling checkpoints
  meanwhile"; three sessions let a resumed run be halted or crash again before it
  took everything it had saved. Three steps per chain have a first, an inner and
  a last step, and two passes one that follows another. A cap of 2 can be passed
  by more than one per resume, and a cap of 1 is spent at the first pause.
- *composition*: `Combined` (`OnePart`) builds the graphs of all wirings of one
  kind together with those that meet (a halt with regions, a resource with its
  children, a store with its savers), not every product of them; three flows
  are a root, a shared one and one between.
- *records*: two items have their trackers open at once and a verb of the root
  beside them; a cap of 1 under one of 2 is crossed alone or together. Names of
  three characters have every place of a word boundary against keys of one to
  three. `Nested` has each form of a value in each other form, and the codec's
  own names as keys, types and leaves.
- *swarm*: one agent that may relay to another is every chain of relays that is
  no deeper than the pool; two lives let a late message of the first meet the
  second. `RelaysTo` goes downwards: relays round in a circle do wait for their
  timeouts, by design of the blocking handler.
- *ratings*: only the first of the two passes may be of every kind, the second
  adds ratings; a batch has 2 facts (10 in the rate tool, configured elsewhere),
  so that two facts are one batch and a third makes another; stars are 1 and 4,
  on both sides of the margin. Pairs are made while no pass has started: a call
  is made of its arguments alone.
- *hosting*: the four kits have each class of trait that owns a client and each
  one that borrows; objects made later are memory and HTTP traits, which are
  the ones whose replacement shares clients and threads.

Symmetry is used in one run without liveness, `composition`, for the flows,
which can be swapped. `CHECK_DEADLOCK FALSE` everywhere: a
history, a run or an agent really does stop, at its bounds or finished.

Type invariants are proved (section 4) of `FlowHistory`, `MapRun`, `LoopTurn`,
`FlowWalk`, `Composition`, `Costs` and `Swarm` as theorems of their own, of
`Core`, `Codec` and `Learning` as a part of the inductive invariant; `Pricing`,
`Agents` and `Platform` state none, and their proofs say what they need. For `FlowWalk`, `Swarm`,
`Costs` and `Composition` it is stated as `TypeOK` and left out of the
configurations to keep the runs short: add it to INVARIANTS to check it.

**Fairness.** `map_run` and `walk` check that a session ends. They assume weak
fairness of the walk, of each item's task and of the map's end: asyncio runs
every ready task, and the callbacks and the store do return or raise. `loop_turns`
checks that a halt ends the session; of SAIA it assumes only that it returns once
its abort is set, as `Loop._abort` relies on, not that it ever ends a turn nobody
aborts. `swarm_ends` assumes that every thread runs on, and that a wait whose
other side is gone with the hub ends by its timeout, never that one ends so while
the hub runs (`Patient`). `ratings` assumes that a pass's next statement runs and
that its calls return or raise; a user of the rate tool may stop answering.
`hosting` assumes the same of the owner's call and the serving threads. Nothing
is assumed of halts, signals, checkpoints, crashes, requests or of the caller
resuming.

**Mutants.** Each property of a passing run has a variant of one definition,
written just before it in its module (`Restored_Not`, `Moved_Input`, ...),
which is a plausible bug of that code and breaks the property.

**Where the code and what it says of itself disagree.** One is a run,
`map_async_merge`: "a merge and its record are one step" (`_map.py`) does not
hold with an asynchronous `merge_fn`; a sibling's checkpoint in between merges
twice on resume. The others were met while modelling; the models follow the code,
and no property claims the sentence:

- `_resume.py:96`: a checkout that finds no state leaves `HEAD` unread, so the
  first save absorbs another writer's commits without a conflict.
- `_resume.py:273`: a run whose move of the `complete` tag raises has written its
  final commit, though `flow.py` says that a run that raises writes none.
- `_checkpoint_ctx.py:230`: a run resumed by hash off the line holds its parent
  in memory alone; a prune "while a run writes" may take it.
- `_map.py:381-387`: an item with saved positions "was admitted by the guard",
  but its scope is registered before the guard answers.
- `_map.py:278-280`: a non-strict failure "is recorded as done", not from
  `merge_saved` (369).
- `agent.py:233-235`, `memory.py:232-234`: replacing a memory trait by its own
  `with_chat_client` view is documented as a persistent swap, and closes the
  client the view shares.
- `http.py:234`: a restart clears the shutdown event of the thread that outlived
  the last stop, and both serve.
- `rate.py:251-252`: a skip is "to skip this item without recording"; the fact is
  still the oldest unrated one, and the next list shows it again.
- `backends.py`: `ON CONFLICT DO NOTHING` needs a unique `fact_id`, which
  `AtomicFactsBackend` does not have: it keeps several rows.
- `tools/factory.py:104`: a configured `web_fetch` is cached in the shared
  factory; a later agent that asks for a plain one gets it.
- `runtime/core.py:80`: start and stop look at a state and then change it, with
  no lock: two callers start one agent twice. No code here has two.
- `pricing_provider.py:235`: a key with a publisher before it never matches, and
  an Anthropic response without tag and fields is billed OpenAI's way.
- `codec.py`: a named tuple and a string enum come back as a tuple and a string.

## 4. Proofs

`FlowHistoryProofs` proves for any writers, trees, names, commit and run
bounds, with faults and prunes or without:

- `TypeCorrect`: `Spec => []TypeOK`;
- `Contiguous`: `Spec => []RunsAreContiguous`, the reason for compare-and-set
  of `HEAD` and for the head cached per run;
- `HeadForward`: `Spec => HeadMovesForward`.

- `Readability`: `Spec => []RefsReadable`;
- `NoneAbsorbed`: `Spec => []NothingAbsorbed`;
- `LastFinished`: `Spec => []CompleteIsLastFinished`, if `OneFinisher`: all
  writers but one delete their history when they finish. Two runs that finish
  may tag in the other order than they began in, so without that condition "the
  last run" is not one run; the code relies on it as the run of two writers does.

They assume `ConstantsAssumption` alone (names, trees and ids are distinct kinds
of things; `None` is none of them), and `LastFinished` its condition.

The inductive invariant of the first three is `IInv == TypeOK /\ RunsOwned /\
NamesBuilt /\ Position /\ RunsAreContiguous`. `RunsAreContiguous` speaks of
built commits only, and the step that builds one knows nothing of its parent but
what the context holds: so `Position` says what a context knows at each place of
`Flow.run` (before the head is loaded its run has built nothing; after, its
parent is its own last commit or somebody else's), `RunsOwned` that no two
running writers share a run, so that another's step cannot change it, and
`NamesBuilt` that what is named was built, so that it does not change either.
Each conjunct has a lemma for its step, one case per action; `HeadForward`
uses `ForkOnlyOnce` of `Position` for the two steps that move `HEAD`.

The other three speak of whole lines of commits. `Line` is a recursive function
on ids, and since commits are built in order, each after its parent (`Ancestry`),
what it is for an id follows from what it is for a smaller one; a set of naturals
has a least element, which is all the induction it takes. `HistoryInv` adds to
`IInv` that the store is closed under what its objects name (`Stored`: a prune
keeps it, since every ref keeps its line) and that what a writer is about to name
is what it was asked to save (`Labelled`, `NamesKept`). `Absorption` says, of a
run that resumed, that the stretch between the commit it restored and its parent
holds no state, from the read of the head on; `Finals` how far the tag of a run
that ends is behind its last commit.

`MapRunProofs` proves for any set of items, any declarations and any number of
sessions:

- `TypeCorrect`: `Spec => []TypeOK`;
- `RunsOnce`: `Spec => NeverRunsAgain`;
- `MergesOnce` and `CheckpointsAgree`: `[]MergedOnce` and `[]CheckpointsSound`,
  if `MergesUnseen`: no declaration both suspends in its merge and lets bodies
  or hooks take checkpoints. That condition is what the code relies on without
  asking for it; `map_async_merge` shows what happens where it fails.

They assume `ItemsAssumption` alone. The inductive invariant there is `TypeOK
/\ Located /\ Locked /\ Counted /\ SavedWell /\ Unrecorded /\ Finished`.
What a snapshot holds is copied from `done`, `scope` and `parent` at the moment
it is taken, so the properties of checkpoints need to know those at *every*
moment: `Located` says, from where an item's task stands, which record and
which positions it has, `Counted` how often it is merged. `Locked` (who merges
or saves holds the lock) is what makes a policy save safe: the saver is past
its merge, and no sibling is between its own and its record. `SavedWell` and
`Unrecorded` say it of the newest checkpoint, which the next session starts
from.

`LoopTurnProofs` proves for any chain, number of calls, declarations and
sessions: `TypeCorrect`, `TurnsAreContinued` (`[]TurnsContinue`),
`HeldNowhereElse` (`[]HeldUnderTheStep`), `CapsAreKept` (`[]CapsHold`) and
`OnlyWholePass` (`OnlyWholeResultsPass`), from `LoopAssumption` alone. Its
invariant says what a call holds at each place (`CallsHold`), that the newest
checkpoint is of no later position (`Behind`: a step that starts cannot be
mistaken for one saved as running), what a session started with (`Between`),
that saved turns were held a session earlier (`Stored`, `Counted`: where the
one iteration over the cap per resume comes from), and why a call was paused
(`Pauses`: the events only get set within a session, so the answer of
`_cut_short` after `on_cost` still explains the pause when the step ends).

`FlowWalkProofs` proves for any program (lengths, where the iterate and the
branch are), declarations and number of sessions:

- `WalkTypeCorrect`: `Spec => []TypeOK`, so no cursor leaves its chain and no
  pass the iterate's bound;
- `CursorMatchesState`: `Spec => []StateMatchesCursor`;
- `HaltHolds`: `Spec => HaltStartsNothing`;
- `RunsLinearly`: `Spec => RunIsLinear`, the refinement of `LinearRun`.

They assume `ProgramAssumption` and `WalkAssumption` (declarations are of the
kind `LinearRun` says, `None` is no cursor and no step). That state and cursor agree in a
checkpoint is not inductive, since the next session walks on from what the
checkpoint holds, of which some is over: a body of a pass that ended, an arm of
a branch that did. `Inv == TypeOK /\ Good(disk) /\ Good(Snapshot) /\ Held` says
which cursors of a checkpoint are over (`Fits`: by their pass), and, where the
walk is, what is live and that a saved pass or arm is taken once (`Control`,
`Takeable`). A step inside a pass is proved over `PassFacts` and one between two
passes over `LoopFacts`, which split what is live from what was kept;
`PassOut`, `PassIn`, `LoopOut` and `LoopIn` lead from `Inv` to them and back.
`HaltHolds` adds `Halted`: under a halt a chain goes on only at its end or in the
arm just chosen.

`LinearRun` decides from the trail what may come next, the walk from its cursors,
and the two are known to agree only step by step. `Path` says so of the run, of
the newest checkpoint and of what a checkout left: `Ahead`, that the steps the
cursors lead to (`Upcoming`) are successors of the trail, with the shortcut taken
now or later, as a signal may come at any time; `Origin`, what the last step of
the trail says of the iterate and which steps the root holds, for the rescue that
gives a scope up; `Turn`, that a walk at the merge may leave the iterate, and that
no checkpoint is written of a pass whose body has not begun, which a cut run would
not take up again. A lemma for each action of the walk (`StartLeads` to
`MergeLeads`) shows that it keeps this and that what a checkpoint would see moves
by an `Admit`, a `Do` or not at all (`Leads`); `RescueLeads` is `GiveUp`,
`StopLeads` is `Lose` or `Save`, `FinishLeads` is `Return`, `SignalLeads` is
`Signal`. The lemmas before them compute the successors (`TopStepNext` to
`AfterArm`).

`CompositionProofs` proves for any flows, names, resources, signals and stores,
every composition the builder's calls can make of them, and any depth:

- `NothingLate`: `Spec => []NoLateErrors`, and `AllInherit`: `Spec =>
  []RunsInherit`, with `CompositionTyped`, from
  `Inv == Built /\ Calm /\ Checked /\ RunsTyped /\ Inside /\ Nested /\ AllUnder /\
  AllRollUp`. What a run needs was checked of a graph, which the run never looks
  at again: so `Checked` says that the flow that runs still passes the checks, and
  `AllUnder` of every run that the checks went through its flow, on some visit
  with no more keys declared around it than there are resources in use, and that
  the regions it is in are of flows it is under. A step into a flow keeps this
  because the sets that the checks walk are closed under it (`ReachClosed`,
  `CoversWalked`); a flow within itself needs nothing more.
- `IdsFollow`: `Spec => []HashTellsIds`. `Structure` is recursive over descents
  without a number to go down by: a descent that goes on leaves out fewer flows,
  of which there are finitely many, so the function exists (`StructureIs`). Two
  descents with one structure end in flows that give their steps the same ids
  to any depth, by the least depth at which they would not (`OneIds`); where one
  meets a flow again, so does the other, and as deep (`OneStructure`).

They assume `CompositionAssumption` alone: the flows are finitely many, `None` is
no flow and no resource, and the bounds are numbers.

`RecordsProofs` proves of `Costs`, from `CostsAssumption` alone (a finite tree of
scopes: what begins the path of one is the path of another):

- `CapsLatch`: `Spec => []LatchAgrees`. It is inductive once the spends of
  calls, snapshots and commits are known to be numbers (`CostsTyped`): a charge that
  crosses a cap latches before any callback runs, and a restore latches again
  what it finds over.
- `SpendSums`: `Spec => []SpendIsSum`, and `SessionsContinue`: `Spec =>
  TotalsContinue`. While a charge climbs to the root a tracker has less than what
  was recorded below it, and a callback may start another. `Books` says how much
  less: what the innermost call carries, at the trackers it has yet to reach
  (`Pending`), for `Stacked`: every outer call has already reached the root. `Tree`
  says which trackers there are, so that a closed run's spend stays with the
  enclosing one; `Kept` and `Closed` say the same of every commit.
- `CostsTypeCorrect`: `Spec => []TypeOK`, of which the two invariants are most: a
  call is at a place on the way to its scope, and no scope is both in use and
  still to be restored. `Placed` is the rest.

Of `Pricing` it proves, from `PricingConstants` (rates and multipliers are
naturals, a name is a list of its letters, the default is nobody's name):

- `TokensBilledOnce`: `PricingSpec => []BilledOnce`. The invariant is inductive as
  it stands; the work is in the lemmas, one for each provider's sum, which say
  that what the response calls input, with its cached tokens or without, comes
  to the same `Bill`.
- `RulesAreOwn`: `PricingSpec => []RuleIsOwn`. The code compares characters and
  looks at the one after a rule's end; the property speaks of words. The lemmas
  say that the words of a name cut after a rule are the rule's words.

Of `Codec`, for any strings, keys and classes, values nested to any depth and any
number of saves, from `CodecConstants` (the codec's own names are keys and
strings and no class has one of them, no class is of both kinds, and what runs
hold nests no deeper than `Nesting`):

- `ValuesReturn`: `CodecSpec => []ValuesSurvive`. `Sound` says of a value that is
  not refused that its code decodes to what comes back of it (`Back`), and that
  this is not refused, has the same code and comes back as itself, which is what
  the second save needs. `FormSound` shows it for each form of a value from its
  parts (`ItemsSound`, `EntriesSound`), `AllSound` for every layer; `DictCodes` is
  the case the code has its wrapping for, a dict with a `"$type"` of its own. That
  what is refused is what has a part that cannot come back is `AllTell`, by the
  same induction. `Room` is the three layers of JSON a value's code may take. That
  the five functions exist at all is `CodeIs` and `DecodeIs`: what each gives of a
  value depends on its parts alone (`ByAlike`, `DecodedAlike`), and these are of
  the layer below.

`EachPart`: a behaviour of `RecordsSpec` is one of `Spec`, `PricingSpec` and
`CodecSpec`, so all this holds of what `records` checks.

`AgentsProofs` proves of `Hosting`, for any kit of traits, configurations, names and number
of agents:

- `HooksMatch`: `AgentSpec => []HooksMatchRegistry`. Between two hooks of a call
  what is on is neither what was registered nor what will be; `Hooked` says for
  each of start, stop, add, replace and rollback what is on and what is to do.
- `OneOwner`: `AgentSpec => []EachOwned`. `OwnInv` adds that no two objects own
  a client together (`Single`) nor, but for views of one memory trait, hold one
  (`Alone`), and that an open client which is not a caller's is owned (`Ends`);
  without `Alone` a replacement that closes what it owns could close another's.
- `ToolsAreOwn`: `PlatformSpec => []OwnTools`. Its invariant says to whom the
  factory's memory trait is lent at each place of a creation: to nobody between
  two, also after one that failed, and to the agent in the making while its
  tools are made.
- `CoreHolds`: `CoreSpec => []HeldIffRunning`: whatever raised, a name that no
  call is busy with has a runner, a channel and a transport exactly when it
  runs. `InCall` says what a start has given its agent, or a stop left it, at
  the call it is in.
- `HostHolds`: all four of the composition `HostSpec`.

They assume `FiniteNames`, since shutdown lists the names there are, and that
configurations and kits are lists (`PlatformConstants`, `AgentConstants`).

`SwarmProofs` proves for any agents, pool and bounds on starts (one at least, the
hub's own), requests and deaths:

- `ChannelsMatch`: `Spec => []ChannelsOfRunners`. The property speaks of the main
  thread at rest, and a signal may put a shutdown on top of a start or a stop at
  any of their steps; `MainInv` says of any depth of the stack that an agent with
  a channel and no runner is one a frame of the stack has yet to finish.
- `RegistryTrue`: `Spec => []RegistryIsTrue`. `Link` follows what is on its way
  between an agent and the hub: registrations of earlier lives are followed by
  what takes them back (`Earlier`), this life's is the last that the agent sent,
  is being handled or answered, or the hub has it (`InOrder`), and of one that
  leaves the deregistration is the last message, or the hub has no entry nor is
  about to make one (`HasLeft`). What the poll thread read before and applies
  after is a part of the link, so another thread's step in between is covered.
- `SwarmTypeCorrect`: `Spec => []TypeOK`. That the hub's start of an agent is its
  first, and so within the bound, is a fact about the stack and the list of those
  to be started (`Fresh`, in `Lives`); that a transport holds answers only is one
  about what the poll thread gives it and what callers take out (`Inboxes`).

`AgentsProofs` also proves of `Learning`, for any facts, passes, providers, limits, answers of the
LLM and parameters of a caller:

- `RatingsCounted`: `LearnSpec => []CountsAreTrue`, by `RatingInv`: of a pass, what
  it has yet to rate or to save is apart from the rows it wrote, so that an answer
  that repeats a fact, or a second save, finds nothing to write twice; and what
  the batch service handed out it had kept or saved.
- `MarksKept`: `LearnSpec => PairedOnce`. A rating picked for a pair is still its
  fact's latest when it is marked, or a newer one without a mark is
  (`PairerHolds`): rows are only added.
- `PairsHold`: `LearnSpec => []PairsAreSound`. The invariant is inductive as it
  stands, for a call is one step; the work is the algorithm. A place of the
  chosen pool is reached from any start (`Turns`), so a rejected item that was
  passed over fits nothing that was free then, nor later, since what is used only
  grows (`SinglePassFinds`); a later pass is over all that the ones before it
  left, so what did not fit a bound still does not (`NextPassFinds`).

They assume `RatingConstants` and `LearningConstants` (bounds and parameters are
numbers; a limit or a bound left out is `Unset`).

`Words`, sums, sorted pools and passes are folds, structures, ids and codes
recursive functions. That such a fold or function exists, and what it is of each
argument, follows from its definition and from there being a least number for
which it would not: `LeastOf` (from `WFMin`) takes the place of the induction
theorems, which take an operator.

What the proofs changed in the model: a word of a name begins with the mark
before it (`Words` of `Pricing`, as the code compares it); two cases of
`CallEnds` that were not apart; a clause of `RegistryIsTrue` that the other
implied, now one that says more; `Ratings`, whose bounds are stated; and `GiveUp`
of `LinearRun`, which cuts the trail where the iterate began and no longer filters
it: what an iterate adds is the trail's end. `Composition` and `Codec` had
RECURSIVE operators over trees; they are least sets and recursive functions now.
`Swarm`'s bound on starts must leave room for the hub's own, which asks no bound;
and its two filters of a queue are one recursive function, `Among`.

Every safety invariant and action property that a passing run checks is stated by
a theorem. Model-checked only: liveness (`SessionEnds` of two runs, `HaltEnds`,
`RelaysEnd`, `ShutdownEnds`, `PassesEnd`, `RequestsAnswered`, which need fairness
and ENABLED).

## 5. Not modelled, and the plan

Not to be modelled, since they are I/O or pure code without a protocol of their
own: HTTP routing, SQL and migrations, model callers and the repair of their
JSON, running a tool, the entry points of the command line other than the rate
and serve tools, the examples. The train tool's submission cannot be reached
(its data provider is always None). The typed `StateData` base keeps no state.
The parts of a modelled component that are left out are named in its section.

Next, in this order:

1. Drain regions and a subflow's own scope in `FlowWalk`; an abstract line of
   runs that `FlowHistory` implements; a map inside an iterate.
2. Heartbeats and the cleanup of dead agents in `Swarm`, once something calls it.
