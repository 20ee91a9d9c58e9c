--------------------------------- MODULE Costs ---------------------------------
(***************************************************************************)
(* The cost trackers of a flow over its sessions.  The top-level flow runs *)
(* on the application's tracker, whose halt is the run's halt; a run of a  *)
(* nested flow with a budget runs on a child of the enclosing one.  A cost *)
(* is recorded at every level up to the root before any level's callback   *)
(* hears of it.  Checkpoints hold the spend of every tracker in use; a     *)
(* resumed run restores each as it reaches its place.                      *)
(*                                                                         *)
(* A scope is one place where a budgeted run can be: its path of scopes    *)
(* leads to it from the root.  Chains are sequential, maps open several    *)
(* scopes at once.  What was saved under a step is taken up again before   *)
(* that step can do anything else.                                         *)
(***************************************************************************)
EXTENDS Integers, Sequences, FiniteSets, SequencesExt

CONSTANTS
  Scopes,       \* places of budgeted runs, Root among them
  Root,         \* the top-level run
  Path,         \* Path[s]: the scopes from Root to s
  Budget,       \* Budget[s]: the budget of s's runs, for s other than Root
  RootBudgets,  \* the budgets an application may give, 0 for none
  Amendments,   \* what update_budget may set
  Costs,        \* what a call costs; an override may be a refund
  MaxCharges,   \* bound: costs recorded
  MaxSessions,  \* bound: runs of the flow
  MaxDepth      \* bound: callbacks that record costs themselves

ASSUME CostsAssumption ==
  /\ IsFiniteSet(Scopes) /\ Root \in Scopes
  /\ Path \in [Scopes -> Seq(Scopes)]
  /\ \A s \in Scopes : Path[s] # <<>> /\ Path[s][Len(Path[s])] = s
                       /\ Path[s][1] = Root
  /\ \A s \in Scopes : \A i \in DOMAIN Path[s] : Path[Path[s][i]] = SubSeq(Path[s], 1, i)
  /\ Budget \in [Scopes \ {Root} -> Nat \ {0}]
  /\ RootBudgets \subseteq Nat /\ Amendments \subseteq Nat \ {0}
  /\ Costs \subseteq Int
  /\ MaxCharges \in Nat /\ MaxSessions \in Nat /\ MaxDepth \in Nat

VARIABLES
  phase,    \* of the flow: before a session, in one, or how the last ended
  open,     \* scopes with a run in progress
  first,    \* scopes whose chain has not started a step in this session
  verb,     \* scopes in which a verb runs
  cap,      \* CostTracker._budget, 0 for None
  spent,    \* CostTracker._spent
  latched,  \* trackers whose urgent_wrapup is set
  lowered,  \* trackers over their cap by an amendment or a new run
  halt,     \* the run's halt event
  call,     \* the CostTracker.track calls on the stack
  saved,    \* what the checked-out snapshot holds and nobody took
  commits,  \* the newest two checkpoints
  own,      \* own[s]: costs recorded at s itself, on this line of commits
  charges,  \* costs recorded so far
  session   \* sessions so far

flow == <<phase, open, first, verb>>
tracker == <<cap, spent, latched, lowered, halt>>
history == <<saved, commits>>
count == <<charges, session>>
vars == <<flow, tracker, call, history, own, count>>

Parent(s) == Path[s][Len(Path[s]) - 1]
Children(s) == {c \in Scopes \ {Root} : Parent(c) = s}
Under(s) == {t \in Scopes : s \in Range(Path[t])}
Only(f, S) == [s \in DOMAIN f \cap S |-> f[s]]

-----------------------------------------------------------------------------
(* CostTracker *)

(* exceeded, with a budget and a spend *)
Over(budget, amount) == budget > 0 /\ amount >= budget
Exceeded(s) == Over(cap[s], spent[s])

(* What a spend that goes over the budget sets. *)
Fires_Once(s, was, is) == ~was /\ is /\ s \notin latched
Fires(s, was, is) == ~was /\ is
Latch(s) ==
  /\ latched' = latched \cup {s}
  /\ halt' = (halt \/ s = Root)
Stays == UNCHANGED <<latched, halt>>

(* track, called by a verb in s or by a callback. *)
Frame(s, n) == [path |-> Path[s], at |-> Len(Path[s]), up |-> TRUE, cost |-> n]
Tracks(s, n) ==
  /\ charges < MaxCharges
  /\ charges' = charges + 1
  /\ own' = [own EXCEPT ![s] = @ + n]
  /\ call' = Append(call, Frame(s, n))
  /\ UNCHANGED <<flow, tracker, history, session>>

Charge(s, n) == s \in verb /\ call = <<>> /\ Tracks(s, n)

Now == Last(call)
Level == Now.path[Now.at]
Moves(f) == [call EXCEPT ![Len(call)] = f]

(* _record_cost at one level; then its parent's, before any callback. *)
NextLevel(f) ==
  IF f.at > 1 THEN [f EXCEPT !.at = @ - 1] ELSE [f EXCEPT !.up = FALSE]
Record ==
  /\ call # <<>> /\ Now.up
  /\ LET s == Level
         sum == spent[s] + Now.cost
         over == Over(cap[s], sum)
     IN /\ spent' = [spent EXCEPT ![s] = sum]
        /\ IF Fires(s, Exceeded(s), over) THEN Latch(s) ELSE Stays
        /\ lowered' = IF over THEN lowered ELSE lowered \ {s}
  /\ call' = Moves(NextLevel(Now))
  /\ UNCHANGED <<flow, cap, history, own, count>>

(* The callbacks, root first. *)
CalledBack ==
  /\ call # <<>> /\ ~Now.up
  /\ call' = IF Now.at < Len(Now.path) THEN Moves([Now EXCEPT !.at = @ + 1])
             ELSE Front(call)
  /\ UNCHANGED <<flow, tracker, history, own, count>>

(* A callback raises, out of this track call and of those around it whose
   callers do not catch it. *)
CallbackRaises ==
  /\ call # <<>> /\ ~Now.up
  /\ \E k \in 0..(Len(call) - 1) : call' = SubSeq(call, 1, k)
  /\ UNCHANGED <<flow, tracker, history, own, count>>

CallbackCharges(s, n) ==
  /\ call # <<>> /\ ~Now.up /\ Len(call) < MaxDepth
  /\ s \in open
  /\ Tracks(s, n)

(* update_budget, by a verb or a callback: nothing fires. *)
UpdateBudget(s, budget) ==
  /\ s \in open
  /\ IF call = <<>> THEN verb # {} ELSE ~Now.up
  /\ cap' = [cap EXCEPT ![s] = budget]
  /\ lowered' = IF ~Over(budget, spent[s]) THEN lowered \ {s}
                ELSE IF Exceeded(s) THEN lowered ELSE lowered \cup {s}
  /\ UNCHANGED <<flow, spent, latched, halt, call, history, own, count>>

-----------------------------------------------------------------------------
(* Runs of nested flows: run_resources *)

AtRest == phase = "running" /\ call = <<>>

(* A chain looks at the halt after a step, so its first step runs. *)
MayStart(s) == halt => s \in first

(* The run's child tracker, restored from what was saved at its place; it has
   no halt of its own. *)
Restored(s) == s \in DOMAIN saved
Taken(s) == Only(saved, Scopes \ {s})
Open(s) ==
  /\ AtRest /\ s # Root /\ s \notin open
  /\ Parent(s) \in open \ verb /\ MayStart(Parent(s))
  /\ LET amount == IF Restored(s) THEN saved[s] ELSE 0 IN
       /\ spent' = [spent EXCEPT ![s] = amount]
       /\ cap' = [cap EXCEPT ![s] = Budget[s]]
       /\ latched' = IF Restored(s) /\ Over(Budget[s], amount)
                     THEN latched \cup {s} ELSE latched
  /\ open' = open \cup {s}
  /\ first' = (first \ {Parent(s)}) \cup {s}
  /\ saved' = Taken(s)
  /\ UNCHANGED <<phase, verb, lowered, halt, call, commits, own, count>>

(* A step that is a verb. *)
StartVerb(s) ==
  /\ AtRest /\ s \in open \ verb
  /\ Children(s) \cap (open \cup DOMAIN saved) = {}
  /\ MayStart(s)
  /\ verb' = verb \cup {s}
  /\ first' = first \ {s}
  /\ UNCHANGED <<phase, open, tracker, call, history, own, count>>

EndVerb(s) ==
  /\ AtRest /\ s \in verb
  /\ verb' = verb \ {s}
  /\ UNCHANGED <<phase, open, first, tracker, call, history, own, count>>

(* The trackers of the runs in S are dropped; what was recorded on them stays
   with the enclosing run. *)
SumOf(f, S) == FoldSet(LAMBDA s, sum : sum + f[s], 0, S)
Folded(S, into) ==
  [s \in Scopes |-> IF s \in S THEN 0
                    ELSE IF s = into THEN own[s] + SumOf(own, S) ELSE own[s]]
Drop(S, into) ==
  /\ open' = open \ S
  /\ first' = first \ S
  /\ verb' = verb \ S
  /\ spent' = [s \in Scopes |-> IF s \in S THEN 0 ELSE spent[s]]
  /\ latched' = latched \ S
  /\ lowered' = lowered \ S
  /\ own' = Folded(S, into)
  /\ UNCHANGED <<phase, cap, halt, call, history, count>>

(* The run completed. *)
Close(s) ==
  /\ AtRest /\ s # Root /\ s \in open \ (verb \cup first)
  /\ Children(s) \cap (open \cup DOMAIN saved) = {}
  /\ Drop({s}, Parent(s))

(* A verb raised out of the run of s, and the step that runs it is rescued, or
   is an item of a map that goes on: everything under it is closed. *)
Abandon(s) ==
  /\ AtRest /\ s # Root /\ s \in open
  /\ Under(s) \cap verb # {}
  /\ Under(s) \cap DOMAIN saved = {}
  /\ Drop(Under(s), Parent(s))

-----------------------------------------------------------------------------
(* Checkpoints and sessions *)

(* Every tracker in use, and what was saved and nobody took. *)
Capture_Live == [s \in open |-> spent[s]]
Capture == [s \in open \cup DOMAIN saved |->
             IF s \in open THEN spent[s] ELSE saved[s]]
Commit(entries) ==
  commits' = LET all == Append(commits, [entries |-> entries, own |-> own])
             IN SubSeq(all, IF Len(all) > 2 THEN 2 ELSE 1, Len(all))

Checkpoint ==
  /\ AtRest /\ verb # {}
  /\ Commit(Capture)
  /\ UNCHANGED <<flow, tracker, call, saved, own, count>>

SetHalt ==
  /\ phase = "running" /\ ~halt
  /\ halt' = TRUE
  /\ UNCHANGED <<flow, cap, spent, latched, lowered, call, history, own, count>>

(* The session is over; the application keeps its own tracker. *)
Ends(how) ==
  /\ phase' = how
  /\ open' = {} /\ first' = {} /\ verb' = {}
  /\ call' = <<>>
  /\ saved' = <<>>
  /\ UNCHANGED <<tracker, count>>

(* Every chain stopped after a step that saw the halt. *)
HaltCommit ==
  /\ AtRest /\ halt /\ verb = {}
  /\ \A s \in first : Children(s) \cap open # {}
  /\ Commit(Capture)
  /\ Ends("halted")
  /\ UNCHANGED own

(* The last step completed: unreached entries go, and the root's stay. *)
FinalCapture_None == <<>>
FinalCapture == Only(Capture, {Root})
Complete ==
  /\ AtRest /\ open = {Root} /\ Root \notin verb \cup first
  /\ DOMAIN saved = {}
  /\ Commit(FinalCapture)
  /\ Ends("complete")
  /\ UNCHANGED own

(* The run raises, is cancelled or dies. *)
Fail ==
  /\ phase = "running"
  /\ Ends("failed")
  /\ UNCHANGED <<commits, own>>

(* Flow.run: the root's tracker, a new one or the one of the session before,
   is restored before the first step. *)
AllAtRoot(f) == [s \in Scopes |-> IF s = Root THEN SumOf(f, Scopes) ELSE 0]
NoHistory == [entries |-> <<>>, own |-> [s \in Scopes |-> 0]]
Starts(commit, restart, budget, same) ==
  /\ phase # "running" /\ session < MaxSessions
  /\ session' = session + 1
  /\ phase' = "running"
  /\ open' = {Root} /\ first' = {Root}
  /\ LET restored == Root \in DOMAIN commit.entries
         amount == IF restored THEN commit.entries[Root]
                   ELSE IF same THEN spent[Root] ELSE 0
         out == restored /\ Over(budget, amount)
     IN /\ spent' = [s \in Scopes |-> IF s = Root THEN amount ELSE 0]
        /\ cap' = [cap EXCEPT ![Root] = budget]
        /\ latched' = IF out \/ (same /\ Root \in latched) THEN {Root} ELSE {}
        /\ lowered' = IF ~restored /\ same /\ Over(budget, amount)
                      THEN {Root} ELSE {}
        /\ halt' = out
        /\ own' = IF ~restored
                  THEN [s \in Scopes |-> IF s = Root THEN amount ELSE 0]
                  ELSE IF restart THEN AllAtRoot(commit.own) ELSE commit.own
  /\ saved' = IF restart THEN <<>> ELSE Only(commit.entries, Scopes \ {Root})
  /\ UNCHANGED <<verb, call, commits, charges>>

(* resume="latest", at a commit, or restart at it. *)
Run(budget, same) ==
  IF commits = <<>> THEN Starts(NoHistory, FALSE, budget, same)
  ELSE \E i \in DOMAIN commits, restart \in BOOLEAN :
         Starts(commits[i], restart, budget, same)

Init ==
  /\ phase = "none" /\ open = {} /\ first = {} /\ verb = {}
  /\ cap = [s \in Scopes |-> IF s = Root THEN 0 ELSE Budget[s]]
  /\ spent = [s \in Scopes |-> 0]
  /\ latched = {} /\ lowered = {} /\ halt = FALSE
  /\ call = <<>>
  /\ saved = <<>> /\ commits = <<>>
  /\ own = [s \in Scopes |-> 0]
  /\ charges = 0 /\ session = 0

Next ==
  \/ Record \/ CalledBack \/ CallbackRaises
  \/ \E s \in Scopes :
       \/ Open(s) \/ StartVerb(s) \/ EndVerb(s) \/ Close(s) \/ Abandon(s)
       \/ \E n \in Costs : Charge(s, n) \/ CallbackCharges(s, n)
       \/ \E b \in Amendments : UpdateBudget(s, b)
  \/ Checkpoint \/ SetHalt \/ HaltCommit \/ Complete \/ Fail
  \/ \E b \in RootBudgets, same \in BOOLEAN : Run(b, same)

Spec == Init /\ [][Next]_vars

-----------------------------------------------------------------------------
(* Properties *)

Phases == {"none", "running", "halted", "complete", "failed"}
Entry(f) == DOMAIN f \subseteq Scopes /\ \A s \in DOMAIN f : f[s] \in Int

(* Every variable has its type. *)
TypeOK ==
  /\ phase \in Phases
  /\ open \subseteq Scopes /\ first \subseteq open /\ verb \subseteq open
  /\ cap \in [Scopes -> Nat] /\ spent \in [Scopes -> Int]
  /\ latched \subseteq Scopes /\ lowered \subseteq Scopes
  /\ halt \in BOOLEAN
  /\ \A i \in DOMAIN call :
       /\ call[i].path \in {Path[s] : s \in Scopes}
       /\ call[i].at \in 1..Len(call[i].path)
       /\ call[i].up \in BOOLEAN /\ call[i].cost \in Costs
  /\ Entry(saved) /\ DOMAIN saved \cap open = {}
  /\ \A i \in DOMAIN commits :
       Entry(commits[i].entries) /\ commits[i].own \in [Scopes -> Int]
  /\ own \in [Scopes -> Int]

(* However the run was stopped, resumed, restarted and rescued, and whatever
   callbacks do, once no cost is on its way up a tracker's spend is exactly
   what was recorded at it and below it on the line of commits the run
   continues; so is the spend a checkpoint saved for it. *)
SpendIsSum ==
  (phase = "running" /\ \A i \in DOMAIN call : ~call[i].up) =>
    /\ \A s \in open : spent[s] = SumOf(own, Under(s))
    /\ \A s \in DOMAIN saved : saved[s] = SumOf(own, Under(s))

(* A tracker over its cap has latched, and the root's has set the run's halt,
   also after a restore, unless an amendment put it over: a callback that
   raises suppresses neither. *)
LatchAgrees ==
  phase = "running" =>
    \A s \in open : Exceeded(s) /\ s \notin lowered =>
      s \in latched /\ (s = Root => halt)

(* A session that continues from a halt or a completed run starts with the
   spend the session before ended with. *)
TotalsContinue ==
  [][ \A b \in RootBudgets, same \in BOOLEAN :
        (/\ phase \in {"halted", "complete"}
         /\ Starts(commits[Len(commits)], FALSE, b, same))
          => spent'[Root] = spent[Root] ]_vars
=============================================================================
