--------------------------- MODULE CompositionProofs ---------------------------
(* Theorems about composing flows and running what was composed, for every set
   of flows, resources, stores and signals, every composition that the builder's
   calls can make of them, to any depth: every run in progress inherits what the
   runs around it are under (RunsInherit), nothing that the checks of run() are
   for is missing later (NoLateErrors), and flows of one structure give their
   steps the same ids (HashTellsIds).

   The first two rest on Inv: the flow that runs still passes the checks, and
   every run is under it (Under), that is, its flow is in the graph the checks
   went through, one of their visits had no more keys than there are resources in
   use, and the regions it is in are of flows that it is under.  A step into a
   flow keeps this because the checks' sets of flows and of visits are closed
   (ReachClosed, CoversWalked).

   The last needs that Structure, which is recursive over descents, is the
   function its definition describes: a descent that goes on leaves out fewer
   flows, so there is such a function (StructureIs).  Then two descents of one
   structure all the way down end in flows with the same ids to any depth, by
   induction on the depth (OneIds). *)
EXTENDS Composition, FiniteSetTheorems, SequenceTheorems, WellFoundedInduction, TLAPS

(* Paths ----------------------------------------------------------------- *)

LEMMA AppendFacts ==
  ASSUME NEW S, NEW p \in Seq(S), NEW x \in S
  PROVE  /\ Append(p, x) \in Seq(S) /\ Append(p, x) # <<>>
         /\ Len(Append(p, x)) = Len(p) + 1
         /\ Front(Append(p, x)) = p /\ Last(Append(p, x)) = x
         /\ \A i \in 1..Len(p) : Append(p, x)[i] = p[i]
<1>1. /\ Append(p, x) \in Seq(S) /\ Len(Append(p, x)) = Len(p) + 1
      /\ \A i \in 1..Len(p) : Append(p, x)[i] = p[i]
      /\ Append(p, x)[Len(p) + 1] = x
  OBVIOUS
<1>2. Front(Append(p, x)) = p
  <2>1. Front(Append(p, x)) = SubSeq(Append(p, x), 1, Len(p))
    BY <1>1 DEF Front
  <2>2. /\ SubSeq(Append(p, x), 1, Len(p)) \in Seq(S)
        /\ Len(SubSeq(Append(p, x), 1, Len(p))) = Len(p)
        /\ \A i \in 1..Len(p) : SubSeq(Append(p, x), 1, Len(p))[i] = p[i]
    BY <1>1
  <2>. QED  BY <2>1, <2>2, SeqEqual
<1>. QED  BY <1>1, <1>2 DEF Last

(* A path begins with another, or it is the other and more. *)
LEMMA CutFacts ==
  ASSUME NEW S, NEW q \in Seq(S), NEW n \in 0..Len(q)
  PROVE  /\ SubSeq(q, 1, n) \in Seq(S) /\ Len(SubSeq(q, 1, n)) = n
         /\ \A i \in 1..n : SubSeq(q, 1, n)[i] = q[i]
         /\ (n = Len(q) => SubSeq(q, 1, n) = q)
<1>1. /\ SubSeq(q, 1, n) \in Seq(S) /\ Len(SubSeq(q, 1, n)) = n
      /\ \A i \in 1..n : SubSeq(q, 1, n)[i] = q[i]
  OBVIOUS
<1>2. n = Len(q) => SubSeq(q, 1, n) = q
  BY <1>1, SeqEqual
<1>. QED  BY <1>1, <1>2

LEMMA CutOfCut ==
  ASSUME NEW S, NEW q \in Seq(S), NEW n \in 0..Len(q), NEW m \in 0..n
  PROVE  SubSeq(SubSeq(q, 1, n), 1, m) = SubSeq(q, 1, m)
<1>1. m \in 0..Len(q)
  OBVIOUS
<1>2. /\ SubSeq(SubSeq(q, 1, n), 1, m) \in Seq(S) /\ Len(SubSeq(SubSeq(q, 1, n), 1, m)) = m
      /\ \A i \in 1..m : SubSeq(SubSeq(q, 1, n), 1, m)[i] = q[i]
  BY CutFacts
<1>3. /\ SubSeq(q, 1, m) \in Seq(S) /\ Len(SubSeq(q, 1, m)) = m
      /\ \A i \in 1..m : SubSeq(q, 1, m)[i] = q[i]
  BY <1>1, CutFacts
<1>. QED  BY <1>2, <1>3, SeqEqual

(* A shorter beginning of a longer path. *)
LEMMA CutOfAppend ==
  ASSUME NEW S, NEW p \in Seq(S), NEW x \in S, NEW n \in 0..Len(p)
  PROVE  SubSeq(Append(p, x), 1, n) = SubSeq(p, 1, n)
<1>1. n \in 0..Len(Append(p, x)) /\ Append(p, x) \in Seq(S)
  BY AppendFacts
<1>2. /\ SubSeq(Append(p, x), 1, n) \in Seq(S) /\ Len(SubSeq(Append(p, x), 1, n)) = n
      /\ \A i \in 1..n : SubSeq(Append(p, x), 1, n)[i] = Append(p, x)[i]
  BY <1>1, CutFacts
<1>3. /\ SubSeq(p, 1, n) \in Seq(S) /\ Len(SubSeq(p, 1, n)) = n
      /\ \A i \in 1..n : SubSeq(p, 1, n)[i] = p[i]
  BY CutFacts
<1>4. \A i \in 1..n : Append(p, x)[i] = p[i]
  BY AppendFacts
<1>. QED  BY <1>2, <1>3, <1>4, SeqEqual

LEMMA PrefixIsCut ==
  ASSUME NEW S, NEW p \in Seq(S), NEW q \in Seq(S)
  PROVE  IsPrefix(p, q) <=> (Len(p) <= Len(q) /\ p = SubSeq(q, 1, Len(p)))
BY CutFacts DEF IsPrefix

(* The prefixes of a path with one more segment: its own, and itself. *)
LEMMA PrefixOfAppend ==
  ASSUME NEW S, NEW p \in Seq(S), NEW q \in Seq(S), NEW x \in S
  PROVE  IsPrefix(p, Append(q, x)) <=> p = Append(q, x) \/ IsPrefix(p, q)
<1>1. Append(q, x) \in Seq(S) /\ Len(Append(q, x)) = Len(q) + 1
  BY AppendFacts
<1>0. /\ IsPrefix(p, Append(q, x)) <=>
           Len(p) <= Len(Append(q, x)) /\ p = SubSeq(Append(q, x), 1, Len(p))
      /\ IsPrefix(p, q) <=> Len(p) <= Len(q) /\ p = SubSeq(q, 1, Len(p))
  BY <1>1, PrefixIsCut
<1>2. CASE Len(p) <= Len(q)
  <2>1. SubSeq(Append(q, x), 1, Len(p)) = SubSeq(q, 1, Len(p))
    BY <1>2, CutOfAppend
  <2>2. p # Append(q, x)
    BY <1>1, <1>2
  <2>. QED  BY <1>0, <1>1, <1>2, <2>1, <2>2
<1>3. CASE ~(Len(p) <= Len(q))
  <2>1. Len(p) <= Len(q) + 1 => Len(p) = Len(q) + 1
    BY <1>3
  <2>2. SubSeq(Append(q, x), 1, Len(q) + 1) = Append(q, x)
    BY <1>1, CutFacts
  <2>3. ~IsPrefix(p, q)
    BY <1>0, <1>3
  <2>4. IsPrefix(p, Append(q, x)) => p = Append(q, x)
    BY <1>0, <1>1, <2>1, <2>2
  <2>5. p = Append(q, x) => IsPrefix(p, Append(q, x))
    BY <1>0, <1>1, <2>2
  <2>. QED  BY <2>3, <2>4, <2>5
<1>. QED  BY <1>2, <1>3

LEMMA PrefixItself ==
  ASSUME NEW S, NEW p \in Seq(S)
  PROVE  IsPrefix(p, p)
BY CutFacts, PrefixIsCut

(* The graph ------------------------------------------------------------- *)

NodesTyped == nodes \in [Flows -> Seq(Steps)]
WiringTyped == wiring \in [Flows -> Wirings]

(* A step of a flow leads to flows, those below it. *)
LEMMA StepTyped ==
  ASSUME NodesTyped, NEW f \in Flows, NEW i \in DOMAIN nodes[f]
  PROVE  /\ nodes[f][i] \in Steps /\ Len(nodes[f]) \in Nat /\ i \in 1..Len(nodes[f])
         /\ nodes[f][i].kids \in Seq(KidSteps)
         /\ \A j \in DOMAIN nodes[f][i].kids :
              nodes[f][i].kids[j] \in KidSteps /\ nodes[f][i].kids[j].flow \in Below(f)
<1>1. nodes[f] \in Seq(Steps)
  BY DEF NodesTyped
<1>2. nodes[f][i] \in Steps /\ Len(nodes[f]) \in Nat /\ i \in 1..Len(nodes[f])
  BY <1>1
<1>3. nodes[f][i].kids \in Seq(KidSteps)
  BY <1>2 DEF Steps
<1>4. ASSUME NEW j \in DOMAIN nodes[f][i].kids
      PROVE  nodes[f][i].kids[j] \in KidSteps /\ nodes[f][i].kids[j].flow \in Below(f)
  <2>1. nodes[f][i].kids[j] \in KidSteps
    BY <1>3
  <2>2. nodes[f][i].kids[j] \in Range(ChildFlows(nodes[f][i]))
    BY DEF Range, ChildFlows
  <2>. QED  BY <2>1, <2>2 DEF Below
<1>. QED  BY <1>2, <1>3, <1>4

LEMMA BelowAreFlows ==
  ASSUME NodesTyped, NEW f \in Flows
  PROVE  Below(f) \subseteq Flows
<1> SUFFICES ASSUME NEW g \in Below(f) PROVE g \in Flows
  OBVIOUS
<1>1. PICK i \in DOMAIN nodes[f] : \E kid \in Range(ChildFlows(nodes[f][i])) : g = kid.flow
  BY DEF Below
<1>2. PICK j \in DOMAIN nodes[f][i].kids : g = nodes[f][i].kids[j].flow
  BY <1>1 DEF Range, ChildFlows
<1>3. nodes[f][i].kids[j] \in KidSteps
  BY StepTyped
<1>. QED  BY <1>2, <1>3 DEF KidSteps

(* What is reached from S is around S, and no step leads out of it. *)
LEMMA ReachClosed ==
  ASSUME NodesTyped, NEW S \in SUBSET Flows
  PROVE  Reach(S) \in SUBSET Flows /\ S \subseteq Reach(S) /\ Closed(Reach(S))
<1>1. Reach(S) \in SUBSET Flows /\ S \subseteq Reach(S)
  BY DEF Reach
<1>2. ASSUME NEW g \in Reach(S), NEW h \in Below(g) PROVE h \in Reach(S)
  <2>1. g \in Flows /\ h \in Flows
    BY <1>1, BelowAreFlows
  <2>2. ASSUME NEW T \in SUBSET Flows, S \subseteq T, Closed(T) PROVE h \in T
    <3>1. g \in T
      BY <2>2 DEF Reach
    <3>. QED  BY <2>2, <3>1 DEF Closed
  <2>. QED  BY <2>1, <2>2 DEF Reach
<1>. QED  BY <1>1, <1>2 DEF Closed

(* The walk of the check goes into every flow that a run may, covered by what the
   flows around it have. *)
LEMMA CoversWalked ==
  ASSUME NodesTyped, WiringTyped, NEW f \in Flows
  PROVE  /\ <<f, {}>> \in Covers(f)
         /\ \A v \in Covers(f) :
              /\ v \in Flows \X SUBSET Keys
              /\ \A g \in Below(v[1]) : <<g, Covered(v)>> \in Covers(f)
<1> DEFINE all == Flows \X SUBSET Keys
<1>1. <<f, {}>> \in Covers(f)
  BY DEF Covers
<1>2. ASSUME NEW v \in Covers(f), NEW g \in Below(v[1])
      PROVE  v \in all /\ <<g, Covered(v)>> \in Covers(f)
  <2>1. v \in all
    BY DEF Covers
  <2>2. v[1] \in Flows /\ v[2] \in SUBSET Keys /\ wiring[v[1]] \in Wirings
    BY <2>1 DEF WiringTyped
  <2>3. g \in Flows
    BY <2>2, BelowAreFlows
  <2>4. Covered(v) \in SUBSET Keys
    BY <2>2 DEF Covered, Declared, Wirings
  <2>5. <<g, Covered(v)>> \in Visits(v)
    BY DEF Visits
  <2>6. ASSUME NEW seen \in SUBSET all, <<f, {}>> \in seen, Walked(seen)
        PROVE  <<g, Covered(v)>> \in seen
    <3>1. v \in seen
      BY <2>6 DEF Covers
    <3>. QED  BY <2>5, <2>6, <3>1 DEF Walked, Known
  <2>. QED  BY <2>1, <2>3, <2>4, <2>6 DEF Covers
<1>3. \A v \in Covers(f) : v \in all
  BY DEF Covers
<1>. QED  BY <1>1, <1>2, <1>3

(* What the checks establish ---------------------------------------------- *)

(* What run() has checked of a flow, of every flow of its graph. *)
LEMMA Accepted ==
  ASSUME NodesTyped, NEW r \in Flows, Accepts(r)
  PROVE  /\ r \in Tree(r) /\ Tree(r) \in SUBSET Flows /\ Closed(Tree(r))
         /\ \A g \in Tree(r) :
              /\ wiring[g].halt \in {None, wiring[r].halt}
              /\ g # r => wiring[g].store = None
              /\ wiring[g].saver # None => wiring[r].store # None
              /\ wiring[g].shortcut # None =>
                   /\ wiring[g].shortcut.signal \in wiring[r].signals
                   /\ Regions(Inner(g), wiring[g].shortcut.signal) = {}
         /\ \A v \in Covers(r) : wiring[v[1]].ask \subseteq v[2] \cup Declared(v[1])
<1>1. r \in Tree(r) /\ Tree(r) \in SUBSET Flows /\ Closed(Tree(r))
  BY ReachClosed DEF Tree
<1> DEFINE nested == Tree(r) \ {r}
<1>2. OneRepo(r, nested) /\ OneHalt(r, nested) /\ ShortcutsFit(r, nested) /\ ResourcesFit(r, nested)
  BY DEF Accepts
<1>3. nested \cup {r} = Tree(r)
  BY <1>1
<1>4. \A g \in Tree(r) : wiring[g].halt \in {None, wiring[r].halt}
  BY <1>2, <1>3 DEF OneHalt
<1>5. \A g \in Tree(r) : /\ g # r => wiring[g].store = None
                         /\ wiring[g].saver # None => wiring[r].store # None
  BY <1>2, <1>3 DEF OneRepo
<1>6. \A g \in Tree(r) : wiring[g].shortcut # None =>
        /\ wiring[g].shortcut.signal \in wiring[r].signals
        /\ Regions(Inner(g), wiring[g].shortcut.signal) = {}
  BY <1>2, <1>3 DEF ShortcutsFit
<1>7. \A v \in Covers(r) : wiring[v[1]].ask \subseteq v[2] \cup Declared(v[1])
  BY <1>2 DEF ResourcesFit
<1>. QED  BY <1>1, <1>4, <1>5, <1>6, <1>7

(* Environments ----------------------------------------------------------- *)

Uses == [of : Values \cup {None}, via : Seq(Seq(Segments))]
InRegion == [signal : Signals, drain : BOOLEAN, left : BOOLEAN]

(* What a flow takes from the scope it is entered from has its type. *)
AmbientTyped(env) ==
  /\ env.halt \in Halts \cup {None} /\ env.repo \in Stores \cup {None}
  /\ env.saver \in {<<x>> : x \in Savers} \cup {None}
  /\ env.res \in [Keys -> Uses] /\ env.regions \in Seq(InRegion)

(* A flow that r's run may come to, entered from env, finds there the resources
   that a visit of the check had, and is in the region of no flow under which
   its own is refused. *)
Opened(r, f, region) ==
  \E g \in Tree(r) : /\ wiring[g].shortcut # None
                     /\ wiring[g].shortcut.signal = region.signal
                     /\ f \in Inner(g)
Apart(regions) ==
  \A i, j \in DOMAIN regions : regions[i].signal = regions[j].signal => i = j

Offers(r, f, env) ==
  /\ f \in Tree(r)
  /\ \E v \in Covers(r) : v[1] = f /\ \A k \in v[2] : env.res[k].of # None
  /\ \A i \in DOMAIN env.regions : Opened(r, f, env.regions[i])
  /\ Apart(env.regions)
  /\ env.halt = wiring[r].halt \/ (f = r /\ env.halt = None)
  /\ env.repo = wiring[r].store \/ (f = r /\ env.repo = None)
  /\ env.saver # None => wiring[r].store # None

(* A run in progress of r's tree. *)
Under(r, env) ==
  /\ env.flow \in Tree(r)
  /\ \E v \in Covers(r) : v[1] = env.flow /\ \A k \in Covered(v) : env.res[k].of # None
  /\ \A i \in DOMAIN env.regions :
       \E g \in Tree(r) : /\ wiring[g].shortcut # None
                          /\ wiring[g].shortcut.signal = env.regions[i].signal
                          /\ Below(env.flow) \subseteq Inner(g)
  /\ Apart(env.regions)
  /\ env.halt = wiring[r].halt /\ env.repo = wiring[r].store
  /\ env.saver # None => wiring[r].store # None

(* The run itself starts with nothing, and needs no more. *)
LEMMA OffersFirst ==
  ASSUME NodesTyped, WiringTyped, NEW r \in Flows
  PROVE  AmbientTyped(NoEnv) /\ Offers(r, r, NoEnv)
<1>1. r \in Tree(r)
  BY ReachClosed DEF Tree
<1>2. <<r, {}>> \in Covers(r)
  BY CoversWalked
<1>3. /\ NoEnv.halt = None /\ NoEnv.repo = None /\ NoEnv.saver = None
      /\ NoEnv.regions = <<>> /\ NoEnv.res = [k \in Keys |-> Value(None)]
  BY DEF NoEnv
<1>4. Value(None) \in Uses
  <2>1. <<>> \in Seq(Seq(Segments))
    OBVIOUS
  <2>. QED  BY <2>1 DEF Value, Uses
<1>5. AmbientTyped(NoEnv)
  BY <1>3, <1>4 DEF AmbientTyped
<1>6. \E v \in Covers(r) : v[1] = r /\ \A k \in v[2] : NoEnv.res[k].of # None
  BY <1>2
<1>7. /\ \A i \in DOMAIN NoEnv.regions : Opened(r, r, NoEnv.regions[i])
      /\ Apart(NoEnv.regions)
  BY <1>3 DEF Apart
<1>. QED  BY <1>1, <1>3, <1>5, <1>6, <1>7 DEF Offers

(* What a run in progress has is what each flow below its own needs. *)
LEMMA OffersBelow ==
  ASSUME NodesTyped, WiringTyped, NEW r \in Flows, Accepts(r),
         NEW env, Under(r, env), NEW f \in Below(env.flow)
  PROVE  Offers(r, f, env)
<1>1. f \in Tree(r)
  BY Accepted DEF Closed, Under
<1>2. \E v \in Covers(r) : v[1] = f /\ \A k \in v[2] : env.res[k].of # None
  <2>1. PICK v \in Covers(r) : v[1] = env.flow /\ \A k \in Covered(v) : env.res[k].of # None
    BY DEF Under
  <2>2. <<f, Covered(v)>> \in Covers(r)
    BY <2>1, CoversWalked
  <2>. QED  BY <2>1, <2>2
<1>3. \A i \in DOMAIN env.regions : Opened(r, f, env.regions[i])
  BY DEF Under, Opened
<1>. QED  BY <1>1, <1>2, <1>3 DEF Offers, Under

(* A started item is in the same regions, of which it has left some. *)
LEMMA LeavesOffers ==
  ASSUME NEW r, NEW f, NEW env, AmbientTyped(env), Offers(r, f, env),
         NEW e, e = [env EXCEPT !.regions = Leaves(@)],
         DOMAIN env = {"halt", "saver", "at", "flow", "res", "repo", "regions", "begun"}
  PROVE  AmbientTyped(e) /\ Offers(r, f, e)
<1>1. /\ e.halt = env.halt /\ e.repo = env.repo /\ e.saver = env.saver /\ e.res = env.res
      /\ e.regions = Leaves(env.regions)
  OBVIOUS
<1>2. env.regions \in Seq(InRegion)
  BY DEF AmbientTyped
<1>7. ASSUME NEW x \in InRegion
      PROVE  /\ [x EXCEPT !.left = @ \/ x.drain] \in InRegion
             /\ [x EXCEPT !.left = @ \/ x.drain].signal = x.signal
  <2>1. x.left \in BOOLEAN /\ x.drain \in BOOLEAN
    BY DEF InRegion
  <2>2. (x.left \/ x.drain) \in BOOLEAN
    BY Zenon
  <2>3. [x EXCEPT !.left = @ \/ x.drain] = [x EXCEPT !.left = x.left \/ x.drain]
    BY DEF InRegion
  <2>4. \A b \in BOOLEAN : [x EXCEPT !.left = b] \in InRegion /\ [x EXCEPT !.left = b].signal = x.signal
    BY DEF InRegion
  <2>. QED  BY <2>2, <2>3, <2>4, Zenon
<1>3. /\ Leaves(env.regions) \in Seq(InRegion)
      /\ DOMAIN Leaves(env.regions) = DOMAIN env.regions
      /\ \A i \in DOMAIN env.regions : Leaves(env.regions)[i].signal = env.regions[i].signal
  BY <1>2, <1>7 DEF Leaves
<1>4. AmbientTyped(e)
  BY <1>1, <1>3 DEF AmbientTyped
<1>5. \A i \in DOMAIN e.regions : Opened(r, f, e.regions[i])
  BY <1>1, <1>3 DEF Offers, Opened
<1>6. Apart(e.regions)
  BY <1>1, <1>3 DEF Offers, Apart
<1>. QED  BY <1>1, <1>4, <1>5, <1>6 DEF Offers

(* What a flow finds and declares is enough for what it asks for. *)
LEMMA Resolved ==
  ASSUME NodesTyped, WiringTyped, NEW r \in Flows, Accepts(r), NEW f, NEW env,
         AmbientTyped(env), Offers(r, f, env), NEW path \in Seq(Segments)
  PROVE  /\ f \in Flows
         /\ Base(f, env) \in [Keys -> Uses] /\ Effective(f, env, path) \in [Keys -> Uses]
         /\ \A k \in wiring[f].ask : k \in Keys /\ Base(f, env)[k].of # None
         /\ \E v \in Covers(r) : v[1] = f /\ \A k \in Covered(v) : Effective(f, env, path)[k].of # None
<1>1. f \in Flows /\ wiring[f] \in Wirings
  BY Accepted DEF Offers, WiringTyped
<1>2. wiring[f].decl \in [Keys -> Values \cup {None}] /\ wiring[f].ask \in SUBSET Keys
  BY <1>1 DEF Wirings
<1>3. \A x \in Values \cup {None} : Value(x) \in Uses /\ Value(x).of = x
  <2>1. <<>> \in Seq(Seq(Segments))
    OBVIOUS
  <2>. QED  BY <2>1 DEF Value, Uses
<1>4. /\ Base(f, env) \in [Keys -> Uses]
      /\ \A k \in Keys : Base(f, env)[k] = IF wiring[f].decl[k] = None THEN env.res[k]
                                           ELSE Value(wiring[f].decl[k])
  BY <1>2, <1>3 DEF Base, AmbientTyped
<1>5. \A use \in Uses : Child(use, path) \in Uses /\ Child(use, path).of = use.of
  <2> SUFFICES ASSUME NEW use \in Uses
               PROVE  Child(use, path) \in Uses /\ Child(use, path).of = use.of
    OBVIOUS
  <2>1. use.via \in Seq(Seq(Segments)) /\ use.of \in Values \cup {None}
    BY DEF Uses
  <2> DEFINE more == Append(use.via, path)
  <2>2. more \in Seq(Seq(Segments))
    BY <2>1
  <2>3. Child(use, path) = [use EXCEPT !.via = more]
    BY DEF Child, Uses
  <2> HIDE DEF more
  <2>4. \A w \in Seq(Seq(Segments)) :
          [use EXCEPT !.via = w] \in Uses /\ [use EXCEPT !.via = w].of = use.of
    BY <2>1 DEF Uses
  <2>. QED  BY <2>2, <2>3, <2>4
<1>6. /\ Effective(f, env, path) \in [Keys -> Uses]
      /\ \A k \in Keys : Effective(f, env, path)[k].of = Base(f, env)[k].of
  BY <1>2, <1>4, <1>5 DEF Effective
<1>7. PICK v \in Covers(r) : v[1] = f /\ \A k \in v[2] : env.res[k].of # None
  BY DEF Offers
<1>8. wiring[f].ask \subseteq v[2] \cup Declared(f)
  BY <1>7, Accepted
<1>9. v[2] \in SUBSET Keys
  BY CoversWalked
<1>10. \A k \in v[2] \cup Declared(f) : k \in Keys /\ Base(f, env)[k].of # None
  BY <1>2, <1>3, <1>4, <1>7, <1>9 DEF Declared
<1>11. \A k \in Covered(v) : Effective(f, env, path)[k].of # None
  BY <1>6, <1>7, <1>8, <1>10 DEF Covered
<1>. QED  BY <1>1, <1>4, <1>6, <1>7, <1>8, <1>10, <1>11

(* Entering a flow of the tree fails for no wiring that is not there, and what it
   runs under is as the flows around it. *)
LEMMA Descends ==
  ASSUME NodesTyped, WiringTyped, NEW r \in Flows, Accepts(r), NEW f, NEW env,
         AmbientTyped(env), Offers(r, f, env), NEW path \in Seq(Segments)
  PROVE  /\ Raises(f, env, wiring[r].signals) \in {"nothing", "no steps", "no child"}
         /\ Under(r, Env(f, env, path))
         /\ Env(f, env, path) \in Envs
<1> DEFINE e == Env(f, env, path)
<1>1. f \in Flows /\ f \in Tree(r) /\ wiring[f] \in Wirings
  BY Resolved DEF Offers, WiringTyped
<1>2. /\ e.halt = IF env.halt = None THEN wiring[f].halt ELSE env.halt
      /\ e.saver = IF wiring[f].saver = None THEN env.saver ELSE wiring[f].saver
      /\ e.at = 1 /\ e.flow = f /\ e.begun = 0
      /\ e.res = Effective(f, env, path)
      /\ e.repo = IF wiring[f].store = None THEN env.repo ELSE wiring[f].store
      /\ e.regions = IF wiring[f].shortcut = None THEN env.regions
                     ELSE Append(env.regions, [signal |-> wiring[f].shortcut.signal,
                                               drain |-> wiring[f].shortcut.drain,
                                               left |-> FALSE])
  BY DEF Env
<1> HIDE DEF e
<1>3. /\ wiring[f].halt \in {None, wiring[r].halt}
      /\ f # r => wiring[f].store = None
      /\ wiring[f].saver # None => wiring[r].store # None
      /\ wiring[f].shortcut # None =>
           /\ wiring[f].shortcut.signal \in wiring[r].signals
           /\ Regions(Inner(f), wiring[f].shortcut.signal) = {}
  BY <1>1, Accepted
<1>4. Raises(f, env, wiring[r].signals) \in {"nothing", "no steps", "no child"}
  <2>1. \A k \in wiring[f].ask : Base(f, env)[k].of # None
    BY Resolved
  <2>. QED  BY <1>3, <2>1 DEF Raises
<1>5. e.halt = wiring[r].halt /\ e.repo = wiring[r].store
  BY <1>2, <1>3 DEF Offers
<1>6. e.saver # None => wiring[r].store # None
  BY <1>2, <1>3 DEF Offers
<1>7. \E v \in Covers(r) : v[1] = e.flow /\ \A k \in Covered(v) : e.res[k].of # None
  BY <1>2, Resolved
<1>8. Below(f) \subseteq Inner(f) /\ Below(f) \in SUBSET Flows
  BY <1>1, BelowAreFlows, ReachClosed DEF Inner
<1>9. ASSUME NEW i \in DOMAIN env.regions
      PROVE  \E g \in Tree(r) : /\ wiring[g].shortcut # None
                                /\ wiring[g].shortcut.signal = env.regions[i].signal
                                /\ f \in Inner(g) /\ Below(f) \subseteq Inner(g)
  <2>1. PICK g \in Tree(r) : /\ wiring[g].shortcut # None
                             /\ wiring[g].shortcut.signal = env.regions[i].signal
                             /\ f \in Inner(g)
    BY DEF Offers, Opened
  <2>2. g \in Flows
    BY <2>1, Accepted
  <2>3. Closed(Inner(g))
    BY <2>2, BelowAreFlows, ReachClosed DEF Inner
  <2>. QED  BY <2>1, <2>3 DEF Closed
<1>10. env.regions \in Seq(InRegion) /\ Apart(env.regions)
  BY DEF AmbientTyped, Offers
<1> DEFINE Fits == /\ e.regions \in Seq(InRegion) /\ Apart(e.regions)
                   /\ \A i \in DOMAIN e.regions :
                        \E g \in Tree(r) : /\ wiring[g].shortcut # None
                                           /\ wiring[g].shortcut.signal = e.regions[i].signal
                                           /\ Below(f) \subseteq Inner(g)
<1>11. ASSUME wiring[f].shortcut = None PROVE Fits
  <2>1. e.regions = env.regions
    BY <1>2, <1>11
  <2>. QED  BY <1>9, <1>10, <2>1
<1>12. ASSUME wiring[f].shortcut # None PROVE Fits
  <2> DEFINE new == [signal |-> wiring[f].shortcut.signal,
                     drain |-> wiring[f].shortcut.drain, left |-> FALSE]
             n == Len(env.regions)
  <2>1. wiring[f].shortcut \in [signal : Signals, drain : BOOLEAN]
    BY <1>1, <1>12 DEF Wirings
  <2>2. new \in InRegion /\ new.signal = wiring[f].shortcut.signal
    BY <2>1 DEF InRegion
  <2>3. e.regions = Append(env.regions, new)
    BY <1>2, <1>12
  <2> HIDE DEF new
  <2>4. /\ e.regions \in Seq(InRegion) /\ DOMAIN e.regions = 1..(n + 1) /\ n \in Nat
        /\ DOMAIN env.regions = 1..n
        /\ \A i \in 1..n : e.regions[i] = env.regions[i]
        /\ e.regions[n + 1] = new
    BY <1>10, <2>2, <2>3
  <2>5. ASSUME NEW i \in 1..n PROVE env.regions[i].signal # new.signal
    <3>1. PICK g \in Tree(r) : /\ wiring[g].shortcut # None
                               /\ wiring[g].shortcut.signal = env.regions[i].signal
                               /\ f \in Inner(g)
      BY <1>9, <2>4
    <3>2. Regions(Inner(g), wiring[g].shortcut.signal) = {}
      BY <3>1, Accepted
    <3>. QED  BY <1>12, <2>2, <3>1, <3>2 DEF Regions
  <2>6. Apart(e.regions)
    <3> SUFFICES ASSUME NEW i \in 1..(n + 1), NEW j \in 1..(n + 1),
                        e.regions[i].signal = e.regions[j].signal
                 PROVE  i = j
      BY <2>4 DEF Apart
    <3>1. CASE i \in 1..n /\ j \in 1..n
      BY <1>10, <2>4, <3>1 DEF Apart
    <3>2. CASE i = n + 1 /\ j \in 1..n
      BY <2>4, <2>5, <3>2
    <3>3. CASE j = n + 1 /\ i \in 1..n
      BY <2>4, <2>5, <3>3
    <3>. QED  BY <2>4, <3>1, <3>2, <3>3
  <2>7. \A i \in DOMAIN e.regions :
          \E g \in Tree(r) : /\ wiring[g].shortcut # None
                             /\ wiring[g].shortcut.signal = e.regions[i].signal
                             /\ Below(f) \subseteq Inner(g)
    <3> SUFFICES ASSUME NEW i \in DOMAIN e.regions
                 PROVE  \E g \in Tree(r) : /\ wiring[g].shortcut # None
                             /\ wiring[g].shortcut.signal = e.regions[i].signal
                             /\ Below(f) \subseteq Inner(g)
      OBVIOUS
    <3>1. CASE i \in 1..n
      BY <1>9, <2>4, <3>1
    <3>2. CASE i = n + 1
      BY <1>1, <1>8, <1>12, <2>2, <2>4, <3>2
    <3>. QED  BY <2>4, <3>1, <3>2
  <2>. QED  BY <2>4, <2>6, <2>7
<1>13. Fits
  <2> HIDE DEF Fits
  <2>. QED  BY <1>11, <1>12
<1>14. Under(r, e)
  <2>. QED  BY <1>1, <1>2, <1>5, <1>6, <1>7, <1>13 DEF Under
<1>15. e \in Envs
  <2>1. e.res \in [Keys -> Uses]
    BY <1>2, Resolved
  <2>2. /\ e.halt \in Halts \cup {None} /\ e.repo \in Stores \cup {None}
        /\ e.saver \in {<<x>> : x \in Savers} \cup {None}
    BY <1>1, <1>2 DEF Wirings, AmbientTyped
  <2>. QED  BY <1>1, <1>2, <1>13, <2>1, <2>2 DEF e, Envs, Env, Uses, InRegion
<1>. QED  BY <1>4, <1>14, <1>15 DEF e

(* What does not depend on the run --------------------------------------- *)

Same == nodes' = nodes /\ wiring' = wiring

(* The sets that the checks go through depend on what was built alone. *)
LEMMA SameBelow ==
  ASSUME Same
  PROVE  (\A g : Below(g)' = Below(g)) /\ (\A S : Reach(S)' = Reach(S))
         /\ (\A g : Tree(g)' = Tree(g)) /\ (\A g : Inner(g)' = Inner(g))
<1>1. ASSUME NEW g PROVE Below(g)' = Below(g)
  BY DEF Same, Below, ChildFlows
<1>2. ASSUME NEW T PROVE Closed(T)' <=> Closed(T)
  BY <1>1 DEF Closed
<1>3. ASSUME NEW S PROVE Reach(S)' = Reach(S)
  BY <1>2 DEF Reach
<1>. QED  BY <1>1, <1>3 DEF Tree, Inner

LEMMA SameCovers ==
  ASSUME Same
  PROVE  /\ \A g : Declared(g)' = Declared(g)
         /\ \A v : Covered(v)' = Covered(v)
         /\ \A r : Covers(r)' = Covers(r)
<1>1. ASSUME NEW g PROVE Declared(g)' = Declared(g)
  BY DEF Same, Declared
<1>2. ASSUME NEW v PROVE Covered(v)' = Covered(v)
  BY <1>1 DEF Same, Covered
<1>3. ASSUME NEW v PROVE Visits(v)' = Visits(v)
  BY <1>2, SameBelow DEF Visits
<1>4. ASSUME NEW seen PROVE Walked(seen)' <=> Walked(seen)
  BY <1>3 DEF Walked, Known
<1>5. ASSUME NEW r PROVE Covers(r)' = Covers(r)
  BY <1>4 DEF Covers
<1>. QED  BY <1>1, <1>2, <1>5

(* A flow that passed the checks passes them as long as nothing is built. *)
LEMMA SameAccepts ==
  ASSUME Same, NEW r
  PROVE  Accepts(r)' <=> Accepts(r)
<1>1. wiring' = wiring /\ nodes' = nodes
  BY DEF Same
<1> DEFINE N == Tree(r) \ {r}
<1>2. N' = N
  BY SameBelow
<1>3. ASSUME NEW S PROVE OneRepo(r, S)' <=> OneRepo(r, S)
  BY <1>1 DEF OneRepo
<1>4. ASSUME NEW S PROVE OneHalt(r, S)' <=> OneHalt(r, S)
  BY <1>1 DEF OneHalt
<1>5. ASSUME NEW S, NEW s PROVE Regions(S, s)' = Regions(S, s)
  BY <1>1 DEF Regions
<1>6. ASSUME NEW S PROVE ShortcutsFit(r, S)' <=> ShortcutsFit(r, S)
  BY <1>1, <1>5, SameBelow DEF ShortcutsFit
<1>7. ASSUME NEW S PROVE ResourcesFit(r, S)' <=> ResourcesFit(r, S)
  BY <1>1, SameCovers DEF ResourcesFit
<1>8. /\ (OneRepo(r, N))' <=> OneRepo(r, N)
      /\ (OneHalt(r, N))' <=> OneHalt(r, N)
      /\ (ShortcutsFit(r, N))' <=> ShortcutsFit(r, N)
      /\ (ResourcesFit(r, N))' <=> ResourcesFit(r, N)
  <2>1. (OneRepo(r, N))' <=> OneRepo(r, N)
    BY <1>1, <1>2 DEF OneRepo
  <2>2. (OneHalt(r, N))' <=> OneHalt(r, N)
    BY <1>1, <1>2 DEF OneHalt
  <2>3. (ShortcutsFit(r, N))' <=> ShortcutsFit(r, N)
    BY <1>1, <1>2, <1>5, SameBelow DEF ShortcutsFit
  <2>4. (ResourcesFit(r, N))' <=> ResourcesFit(r, N)
    BY <1>1, <1>2, SameCovers DEF ResourcesFit
  <2>. QED  BY <2>1, <2>2, <2>3, <2>4
<1>. QED  BY <1>1, <1>8 DEF Accepts

LEMMA SameUnder ==
  ASSUME Same, NEW r, NEW e
  PROVE  Under(r, e)' <=> Under(r, e)
BY SameBelow, SameCovers DEF Same, Under, Apart

(* Building -------------------------------------------------------------- *)

(* The members of a map have keys of their own. *)
Keyed == \A f \in Flows : \A i \in DOMAIN nodes[f] :
  nodes[f][i].kind = "map" =>
    \A j, k \in DOMAIN nodes[f][i].kids :
      nodes[f][i].kids[j].at = nodes[f][i].kids[k].at => j = k

Built == NodesTyped /\ WiringTyped /\ wires \in Nat /\ Keyed

OwnKeys(step) ==
  step.kind = "map" => \A j, k \in DOMAIN step.kids : step.kids[j].at = step.kids[k].at => j = k

(* A step appended to a flow, its members with keys of their own. *)
LEMMA AppendsBuilt ==
  ASSUME Built, NEW f \in Flows, NEW step \in Steps, OwnKeys(step), Appends(f, step)
  PROVE  Built'
<1>1. /\ nodes' = [nodes EXCEPT ![f] = Append(@, step)]
      /\ wiring' = wiring /\ wires' = wires
  BY DEF Appends
<1>2. nodes \in [Flows -> Seq(Steps)] /\ wiring \in [Flows -> Wirings] /\ wires \in Nat
  BY DEF Built, NodesTyped, WiringTyped
<1>3. nodes' \in [Flows -> Seq(Steps)]
  BY <1>1, <1>2
<1>4. ASSUME NEW g \in Flows, NEW i \in DOMAIN nodes'[g] PROVE OwnKeys(nodes'[g][i])
  <2>1. CASE g # f
    BY <1>1, <1>2, <2>1 DEF Built, Keyed, OwnKeys
  <2>2. CASE g = f
    <3>1. nodes'[f] = Append(nodes[f], step) /\ nodes[f] \in Seq(Steps)
      BY <1>1, <1>2
    <3>2. nodes'[f][i] = IF i \in DOMAIN nodes[f] THEN nodes[f][i] ELSE step
      BY <2>2, <3>1
    <3>. QED  BY <2>2, <3>2 DEF Built, Keyed, OwnKeys
  <2>. QED  BY <2>1, <2>2
<1>. QED  BY <1>1, <1>2, <1>3, <1>4 DEF Built, NodesTyped, WiringTyped, Keyed, OwnKeys

(* What a step can be called. *)
LEMMA LabelsTyped ==
  ASSUME NEW label \in Labels \cup {None}
  PROVE  /\ \A g \in Flows : Named(label, Target(g)) \in StepLabels
         /\ \A v \in Verbs : Named(label, <<"verb", v>>) \in StepLabels
         /\ \A kind \in Kinds : Primitive(kind, label) \in StepLabels
<1>1. \A g \in Flows : Target(g) \in StepLabels
  BY DEF StepLabels, FlowTargets
<1>2. \A v \in Verbs : <<"verb", v>> \in StepLabels
  BY DEF StepLabels
<1>3. \A kind \in Kinds : <<kind>> \in StepLabels
  BY DEF StepLabels
<1>4. label # None => <<"name", label>> \in StepLabels /\ \A kind \in Kinds : <<kind, label>> \in StepLabels
  BY DEF StepLabels
<1>. QED  BY <1>1, <1>2, <1>3, <1>4 DEF Named, Primitive

LEMMA NewStep ==
  ASSUME NEW kind \in Kinds, NEW label \in StepLabels, NEW kids \in Seq(KidSteps)
  PROVE  /\ Step(kind, label, kids) \in Steps
         /\ Step(kind, label, kids).kind = kind /\ Step(kind, label, kids).kids = kids
BY DEF Step, Steps

LEMMA NewKid ==
  ASSUME NEW at \in {"call", "then", "else", "body", "item"}, NEW g \in Flows
  PROVE  Kid(at, g) \in KidSteps
BY DEF Kid, KidSteps, Boundaries

(* An earlier member of the same target has the smaller number. *)
LEMMA KeysDiffer ==
  ASSUME NEW members \in Seq(Flows)
  PROVE  /\ MemberKeys(members) \in [DOMAIN members -> ItemKeys]
         /\ \A j, k \in DOMAIN members :
              MemberKeys(members)[j] = MemberKeys(members)[k] => j = k
<1> DEFINE C(i) == {j \in 1..(i - 1) : Target(members[j]) = Target(members[i])}
<1>1. Len(members) \in Nat /\ DOMAIN members = 1..Len(members)
  OBVIOUS
<1>2. ASSUME NEW i \in DOMAIN members PROVE IsFiniteSet(C(i)) /\ Cardinality(C(i)) \in Nat
  <2>1. C(i) \subseteq 1..(i - 1)
    OBVIOUS
  <2>2. 1 \in Int /\ i - 1 \in Int
    BY <1>1
  <2> HIDE DEF C
  <2>3. IsFiniteSet(1..(i - 1))
    BY <2>2, FS_Interval
  <2>. QED  BY <2>1, <2>3, FS_Subset, FS_CardinalityType
<1>3. \A i \in DOMAIN members :
        MemberKeys(members)[i] = <<"map", Target(members[i]), Cardinality(C(i))>>
  BY DEF MemberKeys
<1>4. MemberKeys(members) \in [DOMAIN members -> ItemKeys]
  <2>1. DOMAIN MemberKeys(members) = DOMAIN members
    BY DEF MemberKeys
  <2>2. MemberKeys(members) = [i \in DOMAIN members |-> MemberKeys(members)[i]]
    BY DEF MemberKeys
  <2>3. \A i \in DOMAIN members : Target(members[i]) \in FlowTargets
    BY DEF FlowTargets
  <2> HIDE DEF C
  <2>4. \A i \in DOMAIN members : MemberKeys(members)[i] \in ItemKeys
    <3> SUFFICES ASSUME NEW i \in DOMAIN members PROVE MemberKeys(members)[i] \in ItemKeys
      OBVIOUS
    <3>1. Target(members[i]) \in FlowTargets /\ Cardinality(C(i)) \in Nat
      BY <1>2, <2>3
    <3>2. MemberKeys(members)[i] = <<"map", Target(members[i]), Cardinality(C(i))>>
      BY <1>3
    <3> DEFINE t == Target(members[i])
               n == Cardinality(C(i))
    <3> HIDE DEF t, n
    <3>3. <<"map", t, n>> \in ItemKeys
      BY <3>1 DEF ItemKeys, t, n
    <3>. QED  BY <3>2, <3>3 DEF t, n
  <2>. QED  BY <2>1, <2>2, <2>4
<1>5. ASSUME NEW j \in DOMAIN members, NEW k \in DOMAIN members, j < k,
             MemberKeys(members)[j] = MemberKeys(members)[k]
      PROVE  FALSE
  <2>1. Target(members[j]) = Target(members[k]) /\ Cardinality(C(j)) = Cardinality(C(k))
    <3> HIDE DEF C
    <3>. QED  BY <1>3, <1>5
  <2>2. C(j) \subseteq C(k) /\ j \in C(k) /\ j \notin C(j)
    BY <1>1, <1>5, <2>1
  <2> HIDE DEF C
  <2>3. C(j) \subseteq C(k) \ {j}
    BY <2>2
  <2>4. /\ IsFiniteSet(C(k) \ {j}) /\ Cardinality(C(k) \ {j}) = Cardinality(C(k)) - 1
    BY <1>2, <2>2, FS_RemoveElement
  <2>5. Cardinality(C(j)) <= Cardinality(C(k) \ {j})
    BY <2>3, <2>4, FS_Subset
  <2>. QED  BY <1>2, <2>1, <2>4, <2>5
<1>. QED  BY <1>1, <1>4, <1>5

(* A hook of a step or a map changes nothing else of it. *)
LEMMA AttachesBuilt ==
  ASSUME Built, NEW f \in Flows, NEW hook \in StepHooks \cup MapHooks, Attaches(f, hook)
  PROVE  Built'
<1> DEFINE n == Len(nodes[f])
<1>1. /\ nodes' = [nodes EXCEPT ![f][n].hooks = @ \cup {hook}]
      /\ wiring' = wiring /\ wires' = wires + 1 /\ nodes[f] # <<>>
  BY DEF Attaches
<1>2. nodes \in [Flows -> Seq(Steps)] /\ wiring \in [Flows -> Wirings] /\ wires \in Nat
  BY DEF Built, NodesTyped, WiringTyped
<1>3. nodes[f] \in Seq(Steps) /\ n \in DOMAIN nodes[f] /\ nodes[f][n] \in Steps
  BY <1>1, <1>2
<1> DEFINE new == [nodes[f][n] EXCEPT !.hooks = @ \cup {hook}]
<1>4. new \in Steps /\ new.kind = nodes[f][n].kind /\ new.kids = nodes[f][n].kids
  BY <1>3 DEF Steps
<1>5. nodes' = [nodes EXCEPT ![f] = [nodes[f] EXCEPT ![n] = new]]
  BY <1>1, <1>2, <1>3
<1> HIDE DEF new, n
<1>6. [nodes[f] EXCEPT ![n] = new] \in Seq(Steps)
  BY <1>3, <1>4
<1>7. nodes' \in [Flows -> Seq(Steps)]
  BY <1>2, <1>5, <1>6
<1>8. ASSUME NEW g \in Flows, NEW i \in DOMAIN nodes'[g] PROVE OwnKeys(nodes'[g][i])
  <2>1. i \in DOMAIN nodes[g]
    BY <1>2, <1>3, <1>5
  <2>2. nodes'[g][i].kind = nodes[g][i].kind /\ nodes'[g][i].kids = nodes[g][i].kids
    BY <1>2, <1>3, <1>4, <1>5, <2>1
  <2>. QED  BY <2>1, <2>2 DEF Built, Keyed, OwnKeys
<1>. QED  BY <1>1, <1>2, <1>7, <1>8 DEF Built, NodesTyped, WiringTyped, Keyed, OwnKeys

LEMMA WiresBuilt ==
  ASSUME Built, NEW f \in Flows, NEW w \in Wirings, Wires(f, w)
  PROVE  Built'
<1>1. nodes' = nodes /\ wiring' = [wiring EXCEPT ![f] = w] /\ wires' = wires + 1
  BY DEF Wires
<1>. QED  BY <1>1 DEF Built, NodesTyped, WiringTyped, Keyed

LEMMA OneKid ==
  ASSUME NEW at \in {"call", "then", "else", "body", "item"}, NEW g \in Flows
  PROVE  /\ <<Kid(at, g)>> \in Seq(KidSteps)
         /\ \A j, k \in DOMAIN <<Kid(at, g)>> : j = k
<1>1. Kid(at, g) \in KidSteps
  BY NewKid
<1>. QED  BY <1>1

(* Whatever the builder's call, what is built has its type, and nothing runs. *)
LEMMA BuildStep ==
  ASSUME Built, NEW f \in Flows, Build(f)
  PROVE  Built' /\ root = None /\ raised = "nothing" /\ UNCHANGED <<root, runs, raised>>
<1> DEFINE Calm == root = None /\ raised = "nothing" /\ UNCHANGED <<root, runs, raised>>
<1>1. ASSUME NEW step \in Steps, OwnKeys(step), Appends(f, step) PROVE Built' /\ Calm
  BY <1>1, AppendsBuilt DEF Appends, Building
<1>2. ASSUME NEW hook \in StepHooks \cup MapHooks, Attaches(f, hook) PROVE Built' /\ Calm
  BY <1>2, AttachesBuilt DEF Attaches, Building
<1>3. ASSUME NEW w \in Wirings, Wires(f, w) PROVE Built' /\ Calm
  BY <1>3, WiresBuilt DEF Wires, Building
<1>4. wiring[f] \in Wirings
  BY DEF Built, WiringTyped
<1> HIDE DEF Calm
<1>5. ASSUME NEW label \in Labels \cup {None}, NEW v \in Verbs, CallVerb(f, v, label)
      PROVE  Built' /\ Calm
  <2>1. Named(label, <<"verb", v>>) \in StepLabels /\ "call" \in Kinds
    BY LabelsTyped DEF Kinds
  <2>2. <<>> \in Seq(KidSteps)
    OBVIOUS
  <2>3. VerbStep(v, label) \in Steps /\ OwnKeys(VerbStep(v, label))
    BY <2>1, <2>2, NewStep DEF VerbStep, OwnKeys
  <2>. QED  BY <1>1, <1>5, <2>3 DEF CallVerb
<1>6. ASSUME NEW label \in Labels \cup {None}, NEW g \in Flows, CallFlow(f, g, label)
      PROVE  Built' /\ Calm
  <2> DEFINE step == Step("call", Named(label, Target(g)), <<Kid("call", g)>>)
  <2>1. Named(label, Target(g)) \in StepLabels /\ "call" \in Kinds
    BY LabelsTyped DEF Kinds
  <2>2. <<Kid("call", g)>> \in Seq(KidSteps)
    BY OneKid
  <2>3. step \in Steps /\ OwnKeys(step)
    BY <2>1, <2>2, NewStep DEF OwnKeys
  <2>4. Appends(f, step)
    BY <1>6 DEF CallFlow
  <2>. QED  BY <1>1, <2>3, <2>4
<1>7. ASSUME NEW label \in Labels \cup {None}, NEW g \in Flows, NEW h \in Flows \cup {None},
             Branch(f, g, h, label)
      PROVE  Built' /\ Calm
  <2> DEFINE kids == <<Kid("then", g)>> \o (IF h = None THEN <<>> ELSE <<Kid("else", h)>>)
             step == Step("branch", Primitive("branch", label), kids)
  <2>1. Primitive("branch", label) \in StepLabels /\ "branch" \in Kinds
    BY LabelsTyped DEF Kinds
  <2>2. kids \in Seq(KidSteps)
    <3>1. <<Kid("then", g)>> \in Seq(KidSteps)
      BY OneKid
    <3>2. (IF h = None THEN <<>> ELSE <<Kid("else", h)>>) \in Seq(KidSteps)
      BY OneKid
    <3>. QED  BY <3>1, <3>2
  <2> HIDE DEF kids
  <2>3. step \in Steps /\ OwnKeys(step)
    BY <2>1, <2>2, NewStep DEF OwnKeys
  <2>4. Appends(f, step)
    BY <1>7 DEF Branch, kids
  <2>. QED  BY <1>1, <2>3, <2>4
<1>8. ASSUME NEW label \in Labels \cup {None}, NEW g \in Flows, Iterate(f, g, label)
      PROVE  Built' /\ Calm
  <2> DEFINE step == Step("iterate", Primitive("iterate", label), <<Kid("body", g)>>)
  <2>1. Primitive("iterate", label) \in StepLabels /\ "iterate" \in Kinds
    BY LabelsTyped DEF Kinds
  <2>2. <<Kid("body", g)>> \in Seq(KidSteps)
    BY OneKid
  <2>3. step \in Steps /\ OwnKeys(step)
    BY <2>1, <2>2, NewStep DEF OwnKeys
  <2>4. Appends(f, step)
    BY <1>8 DEF Iterate
  <2>. QED  BY <1>1, <2>3, <2>4
<1>9. ASSUME NEW label \in Labels \cup {None}, NEW g \in Flows, Map(f, g, label)
      PROVE  Built' /\ Calm
  <2> DEFINE kids == <<Kid("item", g)>>
             step == Step("map", Primitive("map", label), kids)
  <2>1. Primitive("map", label) \in StepLabels /\ "map" \in Kinds
    BY LabelsTyped DEF Kinds
  <2>2. kids \in Seq(KidSteps) /\ \A j, k \in DOMAIN kids : j = k
    BY OneKid
  <2>4. Appends(f, step)
    BY <1>9 DEF Map
  <2> HIDE DEF kids
  <2>3. step \in Steps /\ OwnKeys(step)
    BY <2>1, <2>2, NewStep DEF OwnKeys
  <2>. QED  BY <1>1, <2>3, <2>4
<1>10. ASSUME NEW label \in Labels \cup {None}, NEW g \in Flows, NEW h \in Flows,
              MapMembers(f, <<g, h>>, label)
       PROVE  Built' /\ Calm
  <2> DEFINE members == <<g, h>>
             keys == MemberKeys(members)
             kids == [i \in DOMAIN members |-> [at |-> keys[i], flow |-> members[i]]]
             step == Step("map", Primitive("map", label), kids)
  <2>1. Primitive("map", label) \in StepLabels /\ "map" \in Kinds
    BY LabelsTyped DEF Kinds
  <2>0. members \in Seq(Flows)
    OBVIOUS
  <2>5. Appends(f, step)
    BY <1>10 DEF MapMembers
  <2> HIDE DEF members
  <2>2. keys \in [DOMAIN members -> ItemKeys] /\ \A j, k \in DOMAIN members : keys[j] = keys[k] => j = k
    BY <2>0, KeysDiffer
  <2> HIDE DEF keys
  <2>3. kids \in Seq(KidSteps) /\ \A j, k \in DOMAIN kids : kids[j].at = kids[k].at => j = k
    <3>1. \A i \in DOMAIN members : kids[i] = [at |-> keys[i], flow |-> members[i]]
      OBVIOUS
    <3>2. \A i \in DOMAIN members : kids[i] \in KidSteps
      BY <2>0, <2>2 DEF KidSteps, Boundaries
    <3>3. DOMAIN kids = 1..Len(members) /\ Len(members) \in Nat
      BY <2>0
    <3>4. kids \in [1..Len(members) -> KidSteps]
      BY <3>2, <3>3
    <3>5. \A j, k \in DOMAIN kids : kids[j].at = kids[k].at => j = k
      BY <2>2, <3>1
    <3>. QED  BY <3>3, <3>4, <3>5
  <2> HIDE DEF kids
  <2>4. step \in Steps /\ OwnKeys(step)
    BY <2>1, <2>3, NewStep DEF OwnKeys
  <2>. QED  BY <1>1, <2>4, <2>5
<1>11. ASSUME NEW hook \in StepHooks, StepHook(f, hook) PROVE Built' /\ Calm
  BY <1>2, <1>11 DEF StepHook
<1>12. ASSUME NEW hook \in MapHooks, MapHook(f, hook) PROVE Built' /\ Calm
  BY <1>2, <1>12 DEF MapHook
<1>13. ASSUME NEW event \in Halts, WithHalt(f, event) PROVE Built' /\ Calm
  BY <1>3, <1>4, <1>13 DEF WithHalt, Wirings
<1>14. ASSUME NEW signal \in Signals, WithSignal(f, signal) PROVE Built' /\ Calm
  BY <1>3, <1>4, <1>14 DEF WithSignal, Wirings
<1>15. ASSUME NEW signal \in Signals, NEW drain \in BOOLEAN, WithShortcut(f, signal, drain)
       PROVE  Built' /\ Calm
  <2>1. [signal |-> signal, drain |-> drain] \in [signal : Signals, drain : BOOLEAN]
    OBVIOUS
  <2> DEFINE s == [signal |-> signal, drain |-> drain]
  <2>2. Wires(f, [wiring[f] EXCEPT !.shortcut = s])
    BY <1>15 DEF WithShortcut
  <2> HIDE DEF s
  <2>3. [wiring[f] EXCEPT !.shortcut = s] \in Wirings
    BY <1>4, <2>1 DEF Wirings, s
  <2>. QED  BY <1>3, <2>2, <2>3
<1>16. ASSUME NEW key \in Keys, NEW value \in Values \cup {None}, NEW child \in BOOLEAN,
              WithResource(f, key, value, child)
       PROVE  Built' /\ Calm
  <2> DEFINE d == [wiring[f].decl EXCEPT ![key] = IF value = None THEN @ ELSE value]
             a == IF child THEN wiring[f].ask \cup {key} ELSE wiring[f].ask
             w == [wiring[f] EXCEPT !.decl = d, !.ask = a]
  <2>1. wiring[f].decl \in [Keys -> Values \cup {None}] /\ wiring[f].ask \in SUBSET Keys
    BY <1>4 DEF Wirings
  <2>2. d \in [Keys -> Values \cup {None}] /\ a \in SUBSET Keys
    BY <2>1
  <2>3. w \in Wirings
    <3> HIDE DEF d, a
    <3>. QED  BY <1>4, <2>2 DEF Wirings
  <2>4. w = [wiring[f] EXCEPT !.decl[key] = IF value = None THEN @ ELSE value,
                              !.ask = IF child THEN @ \cup {key} ELSE @]
    BY <1>4, <2>1 DEF Wirings
  <2>5. Wires(f, w)
    BY <1>16, <2>4 DEF WithResource
  <2>. QED  BY <1>3, <2>3, <2>5
<1>17. ASSUME NEW store \in Stores, WithStore(f, store) PROVE Built' /\ Calm
  BY <1>3, <1>4, <1>17 DEF WithStore, Wirings
<1>18. ASSUME NEW name \in Savers, WithCheckpointer(f, name) PROVE Built' /\ Calm
  <2>1. [wiring[f] EXCEPT !.saver = <<name>>] \in Wirings
    BY <1>4 DEF Wirings
  <2>. QED  BY <1>3, <1>18, <2>1 DEF WithCheckpointer
<1>19. Built' /\ Calm
  BY <1>5, <1>6, <1>7, <1>8, <1>9, <1>10, <1>11, <1>12, <1>13, <1>14, <1>15, <1>16, <1>17, <1>18
     DEF Build
<1>. QED  BY <1>19 DEF Calm

(* The invariant --------------------------------------------------------- *)

(* Nothing runs between two runs, nor after one that raised. *)
Calm ==
  /\ root \in Flows \cup {None}
  /\ raised \in {"nothing", "no steps", "no child"}
  /\ root = None => raised = "nothing" /\ DOMAIN runs = {}
  /\ raised # "nothing" => DOMAIN runs = {}

(* The flow that runs is one that the checks let through, as it was then. *)
Checked == root # None => Accepts(root)

RunsTyped == \A p \in DOMAIN runs :
  /\ p \in Seq(Segments) /\ runs[p] \in Envs
  /\ runs[p].at \in 1..(Len(Chain(p)) + 1)

(* A run is inside every run that its path begins with. *)
Inside == \A q \in DOMAIN runs : \A n \in 0..Len(q) : SubSeq(q, 1, n) \in DOMAIN runs

(* What a run has entered is of its present step, which is not over; of a map, it
   is an item or member that began. *)
Numbered(p, x) == \E n \in 1..runs[p].begun :
  /\ Members(At(p)) => n \in DOMAIN At(p).kids
  /\ x = <<StepKey(Chain(p), runs[p].at),
           IF Members(At(p)) THEN At(p).kids[n].at ELSE <<n>>>>
Nested == \A p \in DOMAIN runs : \A q \in Entered(p) :
  InProgress(p) /\ (At(p).kind = "map" => Numbered(p, Last(q)))

AllUnder == \A p \in DOMAIN runs : Under(root, runs[p])

AllRollUp == \A p, q \in DOMAIN runs : IsPrefix(p, q) => RollsUp(p, q)

Inv == Built /\ Calm /\ Checked /\ RunsTyped /\ Inside /\ Nested /\ AllUnder /\ AllRollUp

(* To begin with nothing runs, and no flow has a map. *)
LEMMA InitInv == Init => Inv
<1> SUFFICES ASSUME Init PROVE Inv
  OBVIOUS
<1>1. /\ nodes \in [Flows -> {<<>>} \cup {<<VerbStep(v, None)>> : v \in Verbs}]
      /\ wiring \in [Flows -> {Bare}]
      /\ wires = 0 /\ root = None /\ runs = <<>> /\ raised = "nothing"
  BY DEF Init
<1>2. \A v \in Verbs : VerbStep(v, None) \in Steps /\ VerbStep(v, None).kind = "call"
  <2> TAKE v \in Verbs
  <2>1. Named(None, <<"verb", v>>) \in StepLabels /\ "call" \in Kinds
    BY LabelsTyped DEF Kinds
  <2>2. <<>> \in Seq(KidSteps)
    OBVIOUS
  <2>. QED  BY <2>1, <2>2, NewStep DEF VerbStep
<1>3. \A f \in Flows : /\ nodes[f] \in Seq(Steps)
                       /\ \A i \in DOMAIN nodes[f] : nodes[f][i].kind = "call"
  <2> TAKE f \in Flows
  <2>1. CASE nodes[f] = <<>>
    BY <2>1
  <2>2. CASE \E v \in Verbs : nodes[f] = <<VerbStep(v, None)>>
    BY <1>2, <2>2
  <2>. QED  BY <1>1, <2>1, <2>2
<1>4. Bare \in Wirings
  BY DEF Bare, Wirings
<1>5. Built
  BY <1>1, <1>3, <1>4 DEF Built, NodesTyped, WiringTyped, Keyed
<1>6. DOMAIN runs = {}
  BY <1>1
<1>. QED  BY <1>1, <1>5, <1>6 DEF Inv, Calm, Checked, RunsTyped, Inside, Nested, AllUnder, AllRollUp

(* With nothing running there is nothing to say of runs. *)
LEMMA NoRuns ==
  ASSUME DOMAIN runs = {}
  PROVE  RunsTyped /\ Inside /\ Nested /\ AllUnder /\ AllRollUp
BY DEF RunsTyped, Inside, Nested, AllUnder, AllRollUp

LEMMA SameBuilt ==
  ASSUME Same, UNCHANGED wires, Built
  PROVE  Built'
BY DEF Same, Built, NodesTyped, WiringTyped, Keyed

(* Building goes on between runs. *)
LEMMA BuildKeeps ==
  ASSUME Inv, NEW f \in Flows, Build(f)
  PROVE  Inv'
<1>1. Built' /\ root = None /\ raised = "nothing" /\ UNCHANGED <<root, runs, raised>>
  BY BuildStep DEF Inv
<1>2. Calm' /\ Checked' /\ DOMAIN runs' = {}
  BY <1>1 DEF Inv, Calm, Checked
<1>3. (RunsTyped /\ Inside /\ Nested /\ AllUnder /\ AllRollUp)'
  BY <1>2 DEF RunsTyped, Inside, Nested, AllUnder, AllRollUp
<1>. QED  BY <1>1, <1>2, <1>3 DEF Inv

(* After a run that raised nothing is left of it. *)
LEMMA FailKeeps ==
  ASSUME Inv, Fail
  PROVE  Inv'
<1>1. raised # "nothing" /\ root' = None /\ raised' = "nothing" /\ UNCHANGED <<nodes, wiring, wires, runs>>
  BY DEF Fail
<1>2. Built'
  BY <1>1, SameBuilt DEF Inv, Same
<1>3. Calm' /\ Checked' /\ DOMAIN runs' = {}
  BY <1>1 DEF Inv, Calm, Checked
<1>4. (RunsTyped /\ Inside /\ Nested /\ AllUnder /\ AllRollUp)'
  BY <1>3 DEF RunsTyped, Inside, Nested, AllUnder, AllRollUp
<1>. QED  BY <1>2, <1>3, <1>4 DEF Inv

(* What a flow that asks for a child of a resource runs with. *)
LEMMA ChildIsUsed ==
  ASSUME NEW f, NEW env, NEW path \in Seq(Segments), AmbientTyped(env),
         WiringTyped, f \in Flows, NEW k \in wiring[f].ask
  PROVE  path \in Range(Env(f, env, path).res[k].via)
<1>1. wiring[f] \in Wirings
  BY DEF WiringTyped
<1>2. k \in Keys /\ wiring[f].decl \in [Keys -> Values \cup {None}]
  BY <1>1 DEF Wirings
<1>3. Base(f, env)[k] \in Uses
  <2>1. \A x \in Values \cup {None} : Value(x) \in Uses
    <3>1. <<>> \in Seq(Seq(Segments))
      OBVIOUS
    <3>. QED  BY <3>1 DEF Value, Uses
  <2>. QED  BY <1>2, <2>1 DEF Base, AmbientTyped
<1>4. Env(f, env, path).res[k] = Child(Base(f, env)[k], path)
  BY <1>2 DEF Env, Effective
<1>5. Child(Base(f, env)[k], path).via = Append(Base(f, env)[k].via, path)
  BY <1>3 DEF Child, Uses
<1> DEFINE via == Base(f, env)[k].via
<1>6. via \in Seq(Seq(Segments))
  BY <1>3 DEF Uses
<1> HIDE DEF via
<1>7. Append(via, path)[Len(via) + 1] = path /\ Len(via) + 1 \in DOMAIN Append(via, path)
  BY <1>6
<1>. QED  BY <1>4, <1>5, <1>7 DEF Range, via

(* A flow that does not declare a resource uses the one it finds, or a child. *)
LEMMA UseIsKept ==
  ASSUME NEW f, NEW env, NEW path \in Seq(Segments), AmbientTyped(env),
         WiringTyped, f \in Flows, NEW k \in Keys, k \notin Declared(f),
         NEW p, p \in Range(env.res[k].via)
  PROVE  p \in Range(Env(f, env, path).res[k].via)
<1>1. wiring[f].decl[k] = None
  BY DEF Declared
<1>2. Base(f, env)[k] = env.res[k] /\ env.res[k] \in Uses
  BY <1>1 DEF Base, AmbientTyped
<1>3. Env(f, env, path).res[k] = IF k \in wiring[f].ask THEN Child(env.res[k], path) ELSE env.res[k]
  BY <1>2 DEF Env, Effective
<1>4. Child(env.res[k], path).via = Append(env.res[k].via, path)
  BY <1>2 DEF Child, Uses
<1> DEFINE via == env.res[k].via
<1>5. via \in Seq(Seq(Segments))
  BY <1>2 DEF Uses
<1>6. PICK i \in DOMAIN via : p = via[i]
  BY DEF Range
<1> HIDE DEF via
<1>7. i \in DOMAIN Append(via, path) /\ Append(via, path)[i] = p
  BY <1>5, <1>6
<1>8. p \in Range(Append(via, path)) /\ p \in Range(via)
  BY <1>6, <1>7 DEF Range
<1>. QED  BY <1>3, <1>4, <1>8 DEF via

(* A step that is over: what it entered is gone, so nothing is out of place. *)
LEMMA GoesKeeps ==
  ASSUME Inv, NEW p \in DOMAIN runs, Goes(p)
  PROVE  Inv'
<1>1. /\ InProgress(p) /\ Entered(p) = {}
      /\ runs' = [runs EXCEPT ![p].at = @ + 1, ![p].begun = 0]
      /\ UNCHANGED <<nodes, wiring, wires, root, raised>>
  BY DEF Goes
<1>2. Same /\ Built'
  BY <1>1, SameBuilt DEF Inv, Same
<1>3. DOMAIN runs' = DOMAIN runs /\ Calm' /\ raised = "nothing" /\ root # None /\ Accepts(root)
  BY <1>1 DEF Inv, Calm, Checked
<1>4. Checked'
  BY <1>1, <1>2, <1>3, SameAccepts DEF Checked
<1>5. ASSUME NEW q \in DOMAIN runs
      PROVE  /\ runs'[q] \in Envs
             /\ runs'[q].at \in 1..(Len(nodes[runs[q].flow]) + 1)
             /\ runs'[q].flow = runs[q].flow /\ runs'[q].res = runs[q].res
             /\ runs'[q].regions = runs[q].regions /\ runs'[q].halt = runs[q].halt
             /\ runs'[q].repo = runs[q].repo /\ runs'[q].saver = runs[q].saver
             /\ q # p => runs'[q] = runs[q]
  <2>1. /\ runs[q] \in Envs /\ runs[q].at \in 1..(Len(nodes[runs[q].flow]) + 1)
    BY DEF Inv, RunsTyped, Chain
  <2>2. CASE q # p
    BY <1>1, <2>1, <2>2
  <2>3. CASE q = p
    <3>1. runs'[p] = [runs[p] EXCEPT !.at = @ + 1, !.begun = 0]
      BY <1>1, <2>1
    <3>2. runs[p].flow \in Flows /\ runs[p].at \in DOMAIN nodes[runs[p].flow]
      BY <1>1, <2>1, <2>3 DEF InProgress, Chain, Envs
    <3>3. nodes[runs[p].flow] \in Seq(Steps)
      BY <3>2 DEF Inv, Built, NodesTyped
    <3>4. runs[p].at + 1 \in 1..(Len(nodes[runs[p].flow]) + 1)
      BY <3>2, <3>3
    <3> DEFINE m == runs[p].at + 1
    <3>5. runs'[p] = [runs[p] EXCEPT !.at = m, !.begun = 0] /\ m \in Nat
      BY <3>1, <3>2, <3>3
    <3> HIDE DEF m
    <3>6. /\ runs'[p] \in Envs /\ runs'[p].at = m
          /\ runs'[p].flow = runs[p].flow /\ runs'[p].res = runs[p].res
          /\ runs'[p].regions = runs[p].regions /\ runs'[p].halt = runs[p].halt
          /\ runs'[p].repo = runs[p].repo /\ runs'[p].saver = runs[p].saver
      <4> DEFINE e == runs[p]
      <4>1. e \in Envs /\ runs'[p] = [e EXCEPT !.at = m, !.begun = 0]
        BY <2>1, <2>3, <3>5
      <4> HIDE DEF e
      <4>2. [e EXCEPT !.at = m, !.begun = 0] \in Envs
        BY <3>5, <4>1 DEF Envs
      <4>3. /\ runs'[p].at = m /\ runs'[p].flow = e.flow /\ runs'[p].res = e.res
            /\ runs'[p].regions = e.regions /\ runs'[p].halt = e.halt
            /\ runs'[p].repo = e.repo /\ runs'[p].saver = e.saver
        BY <4>1 DEF Envs
      <4>. QED  BY <4>1, <4>2, <4>3 DEF e
    <3>. QED  BY <2>3, <3>4, <3>6 DEF m
  <2>. QED  BY <2>2, <2>3
<1>6. RunsTyped'
  BY <1>1, <1>3, <1>5 DEF Inv, RunsTyped, Chain
<1>7. Inside'
  BY <1>3 DEF Inv, Inside
<1>8. Nested'
  <2> SUFFICES ASSUME NEW q \in DOMAIN runs, NEW c \in Entered(q)'
               PROVE  InProgress(q)' /\ ((At(q).kind = "map")' => Numbered(q, Last(c))')
    BY <1>3 DEF Nested
  <2>1. c \in Entered(q)
    BY <1>3 DEF Entered
  <2>2. q # p
    BY <1>1, <2>1
  <2>3. runs'[q] = runs[q]
    BY <1>5, <2>2
  <2>4. InProgress(q) /\ (At(q).kind = "map" => Numbered(q, Last(c)))
    BY <2>1 DEF Inv, Nested
  <2>5. Chain(q)' = Chain(q) /\ At(q)' = At(q)
    BY <1>1, <2>3 DEF Chain, At
  <2>6. InProgress(q)'
    BY <1>3, <2>3, <2>4, <2>5 DEF InProgress
  <2>7. Numbered(q, Last(c)) => Numbered(q, Last(c))'
    BY <2>3, <2>5 DEF Numbered, Members
  <2>. QED  BY <2>4, <2>5, <2>6, <2>7
<1>9. AllUnder'
  <2> SUFFICES ASSUME NEW q \in DOMAIN runs PROVE Under(root, runs[q])'
    BY <1>3 DEF AllUnder
  <2>1. Under(root, runs[q])
    BY DEF Inv, AllUnder
  <2>2. Under(root, runs'[q])
    BY <1>5, <2>1 DEF Under
  <2>3. \A r, e : Under(r, e)' <=> Under(r, e)
    BY <1>2, SameUnder
  <2>. QED  BY <1>1, <2>2, <2>3
<1>10. AllRollUp'
  <2>1. \A q, c \in DOMAIN runs : RollsUp(q, c) => RollsUp(q, c)'
    BY <1>1, <1>2, <1>3, <1>5, SameCovers DEF RollsUp
  <2>. QED  BY <1>3, <2>1 DEF Inv, AllRollUp
<1>. QED  BY <1>2, <1>3, <1>4, <1>6, <1>7, <1>8, <1>9, <1>10 DEF Inv

(* A run that is over has nothing in it. *)
LEMMA NothingInside ==
  ASSUME Inv, NEW p \in DOMAIN runs, ~InProgress(p), NEW q \in DOMAIN runs, IsPrefix(p, q)
  PROVE  q = p
<1>1. p \in Seq(Segments) /\ q \in Seq(Segments)
  BY DEF Inv, RunsTyped
<1>2. Len(p) <= Len(q) /\ p = SubSeq(q, 1, Len(p)) /\ Len(p) \in Nat /\ Len(q) \in Nat
  BY <1>1, PrefixIsCut
<1>3. CASE Len(p) = Len(q)
  BY <1>1, <1>2, <1>3, CutFacts
<1>4. CASE Len(p) < Len(q)
  <2> DEFINE n == Len(p) + 1
             c == SubSeq(q, 1, n)
  <2>1. n \in 0..Len(q) /\ Len(p) \in 0..n
    BY <1>2, <1>4
  <2>2. c \in DOMAIN runs
    BY <2>1 DEF Inv, Inside
  <2>3. Len(c) = n /\ c \in Seq(Segments) /\ SubSeq(c, 1, Len(p)) = p
    BY <1>1, <1>2, <2>1, CutFacts, CutOfCut
  <2>4. n - 1 = Len(p)
    BY <1>2
  <2> HIDE DEF n, c
  <2>5. Front(c) = p
    BY <2>3, <2>4 DEF Front
  <2>6. c \in Entered(p)
    BY <2>2, <2>3, <2>5 DEF Entered, n
  <2>. QED  BY <2>6 DEF Inv, Nested
<1>. QED  BY <1>2, <1>3, <1>4

(* A run that is over is around no other, so nothing loses what it is inside. *)
LEMMA LeaveKeeps ==
  ASSUME Inv, NEW p \in DOMAIN runs, Leave(p)
  PROVE  Inv'
<1>1. /\ ~InProgress(p)
      /\ runs' = [q \in DOMAIN runs \ {p} |-> runs[q]]
      /\ root' = IF p = <<>> THEN None ELSE root
      /\ UNCHANGED <<nodes, wiring, wires, raised>>
  BY DEF Leave
<1>2. Same /\ Built'
  BY <1>1, SameBuilt DEF Inv, Same
<1>3. /\ DOMAIN runs' = DOMAIN runs \ {p}
      /\ \A q \in DOMAIN runs' : runs'[q] = runs[q] /\ q \in DOMAIN runs /\ ~IsPrefix(p, q)
  BY <1>1, NothingInside
<1>4. raised = "nothing" /\ root # None /\ Accepts(root) /\ root \in Flows
  BY DEF Inv, Calm, Checked
<1>5. \A q \in DOMAIN runs : q \in Seq(Segments)
  BY DEF Inv, RunsTyped
<1>6. CASE p = <<>>
  <2>1. \A q \in DOMAIN runs : IsPrefix(p, q)
    <3> SUFFICES ASSUME NEW q \in DOMAIN runs PROVE IsPrefix(p, q)
      OBVIOUS
    <3>1. q \in Seq(Segments) /\ <<>> \in Seq(Segments) /\ Len(<<>>) = 0 /\ Len(q) \in Nat
      BY <1>5
    <3>2. 0 \in 0..Len(q)
      BY <3>1
    <3>3. SubSeq(q, 1, 0) \in Seq(Segments) /\ Len(SubSeq(q, 1, 0)) = 0
      BY <3>1, <3>2, CutFacts
    <3>4. SubSeq(q, 1, 0) = <<>>
      BY <3>3
    <3>5. Len(<<>>) <= Len(q) /\ <<>> = SubSeq(q, 1, Len(<<>>))
      BY <3>1, <3>4
    <3>6. IsPrefix(<<>>, q)
      BY <3>1, <3>5, PrefixIsCut
    <3>. QED  BY <1>6, <3>6
  <2>2. DOMAIN runs' = {} /\ root' = None /\ raised' = "nothing"
    BY <1>1, <1>3, <1>4, <1>6, <2>1
  <2>3. Calm' /\ Checked'
    BY <2>2 DEF Calm, Checked
  <2>4. (RunsTyped /\ Inside /\ Nested /\ AllUnder /\ AllRollUp)'
    BY <2>2 DEF RunsTyped, Inside, Nested, AllUnder, AllRollUp
  <2>. QED  BY <1>2, <2>3, <2>4 DEF Inv
<1>7. CASE p # <<>>
  <2>1. root' = root /\ Calm' /\ Checked'
    BY <1>1, <1>2, <1>4, <1>7, SameAccepts DEF Inv, Calm, Checked
  <2>2. RunsTyped'
    BY <1>1, <1>3 DEF Inv, RunsTyped, Chain
  <2>3. Inside'
    <3> SUFFICES ASSUME NEW q \in DOMAIN runs', NEW n \in 0..Len(q)
                 PROVE  SubSeq(q, 1, n) \in DOMAIN runs'
      BY DEF Inside
    <3>1. q \in DOMAIN runs /\ q \in Seq(Segments) /\ ~IsPrefix(p, q)
      BY <1>3, <1>5
    <3>2. SubSeq(q, 1, n) \in DOMAIN runs
      BY <3>1 DEF Inv, Inside
    <3>3. SubSeq(q, 1, n) \in Seq(Segments) /\ Len(SubSeq(q, 1, n)) = n /\ Len(q) \in Nat
      BY <3>1, CutFacts
    <3>4. SubSeq(q, 1, n) # p
      <4> SUFFICES ASSUME SubSeq(q, 1, n) = p PROVE FALSE
        OBVIOUS
      <4>1. Len(p) = n /\ p \in Seq(Segments) /\ n <= Len(q)
        BY <3>3
      <4>. QED  BY <3>1, <4>1, PrefixIsCut
    <3>. QED  BY <1>3, <3>2, <3>4
  <2>4. Nested'
    <3> SUFFICES ASSUME NEW q \in DOMAIN runs', NEW c \in Entered(q)'
                 PROVE  InProgress(q)' /\ ((At(q).kind = "map")' => Numbered(q, Last(c))')
      BY DEF Nested
    <3>1. q \in DOMAIN runs /\ c \in Entered(q) /\ runs'[q] = runs[q]
      BY <1>3 DEF Entered
    <3>2. InProgress(q) /\ (At(q).kind = "map" => Numbered(q, Last(c)))
      BY <3>1 DEF Inv, Nested
    <3>3. Chain(q)' = Chain(q) /\ At(q)' = At(q)
      BY <1>1, <3>1 DEF Chain, At
    <3>4. InProgress(q)'
      BY <3>1, <3>2, <3>3 DEF InProgress
    <3>5. Numbered(q, Last(c)) => Numbered(q, Last(c))'
      BY <3>1, <3>3 DEF Numbered, Members
    <3>. QED  BY <3>2, <3>3, <3>4, <3>5
  <2>5. AllUnder'
    <3> SUFFICES ASSUME NEW q \in DOMAIN runs' PROVE Under(root, runs[q])'
      BY DEF AllUnder
    <3>1. Under(root, runs'[q])
      BY <1>3 DEF Inv, AllUnder
    <3>2. \A r, e : Under(r, e)' <=> Under(r, e)
      BY <1>2, SameUnder
    <3>. QED  BY <2>1, <3>1, <3>2
  <2>6. AllRollUp'
    <3> SUFFICES ASSUME NEW q \in DOMAIN runs', NEW c \in DOMAIN runs', IsPrefix(q, c)
                 PROVE  RollsUp(q, c)'
      BY DEF AllRollUp
    <3>1. q \in DOMAIN runs /\ c \in DOMAIN runs /\ runs'[q] = runs[q] /\ runs'[c] = runs[c]
      BY <1>3
    <3>2. RollsUp(q, c)
      BY <3>1 DEF Inv, AllRollUp
    <3>3. \A r \in DOMAIN runs \ {q} : IsPrefix(r, c) => r \in DOMAIN runs' \ {q} /\ runs'[r] = runs[r]
      BY <1>3
    <3> SUFFICES ASSUME NEW k \in wiring[runs[q].flow].ask,
                        ~(q \in Range(runs[c].res[k].via))
                 PROVE  \E r \in DOMAIN runs' \ {q} :
                          IsPrefix(q, r) /\ IsPrefix(r, c) /\ k \in Declared(runs[r].flow)'
      BY <1>1, <3>1 DEF RollsUp
    <3>4. PICK r \in DOMAIN runs \ {q} : IsPrefix(q, r) /\ IsPrefix(r, c) /\ k \in Declared(runs[r].flow)
      BY <3>2 DEF RollsUp
    <3>5. r \in DOMAIN runs' \ {q} /\ runs'[r] = runs[r]
      BY <3>3, <3>4
    <3>6. k \in Declared(runs[r].flow)'
      BY <1>2, <1>1, <3>4, <3>5, SameCovers
    <3>. QED  BY <3>4, <3>5, <3>6
  <2>. QED  BY <1>2, <2>1, <2>2, <2>3, <2>4, <2>5, <2>6 DEF Inv
<1>. QED  BY <1>6, <1>7

(* A flow that is entered fails, or it is one more run. *)
LEMMA Entering ==
  ASSUME NodesTyped, WiringTyped, NEW r \in Flows, r = root', Accepts(r), NEW f, NEW env,
         AmbientTyped(env), Offers(r, f, env), NEW path \in Seq(Segments), NEW others,
         RunAsSubflow(f, env, path, others)
  PROVE  /\ UNCHANGED <<nodes, wiring, wires>> /\ f \in Flows
         /\ raised' \in {"nothing", "no steps", "no child"}
         /\ raised' # "nothing" => DOMAIN runs' = {}
         /\ raised' = "nothing" =>
              /\ DOMAIN runs' = {path} \cup DOMAIN others
              /\ runs'[path] = Env(f, env, path)
              /\ \A p \in DOMAIN others \ {path} : runs'[p] = others[p]
              /\ runs'[path] \in Envs /\ runs'[path].at = 1 /\ runs'[path].flow = f
              /\ runs'[path].begun = 0
              /\ Under(r, runs'[path])
<1> DEFINE why == Raises(f, env, wiring[r].signals)
           e == Env(f, env, path)
<1>1. why \in {"nothing", "no steps", "no child"} /\ Under(r, e) /\ e \in Envs
  BY Descends
<1>2. /\ raised' = why
      /\ IF why = "nothing" THEN runs' = [p \in {path} \cup DOMAIN others |-> IF p = path THEN e ELSE others[p]]
         ELSE runs' = <<>>
      /\ UNCHANGED <<nodes, wiring, wires>>
  BY DEF RunAsSubflow
<1>3. e.at = 1 /\ e.flow = f /\ e.begun = 0
  BY DEF Env
<1>4. f \in Flows
  BY Resolved
<1> HIDE DEF why, e
<1>5. DOMAIN <<>> = {}
  OBVIOUS
<1>6. CASE why = "nothing"
  <2>1. runs' = [p \in {path} \cup DOMAIN others |-> IF p = path THEN e ELSE others[p]]
    BY <1>2, <1>6
  <2>2. DOMAIN runs' = {path} \cup DOMAIN others /\ runs'[path] = e
    BY <2>1
  <2>3. \A p \in DOMAIN others \ {path} : runs'[p] = others[p]
    BY <2>1
  <2>. QED  BY <1>1, <1>2, <1>3, <1>4, <1>6, <2>2, <2>3 DEF e
<1>7. CASE why # "nothing"
  BY <1>1, <1>2, <1>4, <1>5, <1>7
<1>. QED  BY <1>6, <1>7

(* A flow that passed the checks is run: the first run, inside no other. *)
LEMMA RunKeeps ==
  ASSUME Inv, NEW f \in Flows, Run(f)
  PROVE  Inv'
<1>1. /\ root = None /\ raised = "nothing" /\ Accepts(f) /\ root' = f
      /\ RunAsSubflow(f, NoEnv, <<>>, <<>>)
  BY DEF Run
<1>2. NodesTyped /\ WiringTyped
  BY DEF Inv, Built
<1>3. AmbientTyped(NoEnv) /\ Offers(f, f, NoEnv)
  BY <1>2, OffersFirst
<1>4. <<>> \in Seq(Segments) /\ DOMAIN <<>> = {}
  OBVIOUS
<1>5. /\ UNCHANGED <<nodes, wiring, wires>>
      /\ raised' \in {"nothing", "no steps", "no child"}
      /\ raised' # "nothing" => DOMAIN runs' = {}
      /\ raised' = "nothing" =>
           /\ DOMAIN runs' = {<<>>}
           /\ runs'[<<>>] = Env(f, NoEnv, <<>>)
           /\ runs'[<<>>] \in Envs /\ runs'[<<>>].at = 1 /\ runs'[<<>>].flow = f
           /\ Under(f, runs'[<<>>])
  <2>1. ASSUME NEW o, NEW t, NEW env, o = <<>>, t = <<>>, env = NoEnv
        PROVE  /\ UNCHANGED <<nodes, wiring, wires>>
               /\ raised' \in {"nothing", "no steps", "no child"}
               /\ raised' # "nothing" => DOMAIN runs' = {}
               /\ raised' = "nothing" =>
                    /\ DOMAIN runs' = {t}
                    /\ runs'[t] = Env(f, env, t)
                    /\ runs'[t] \in Envs /\ runs'[t].at = 1 /\ runs'[t].flow = f
                    /\ Under(root', runs'[t])
    <3>1. t \in Seq(Segments) /\ RunAsSubflow(f, env, t, o) /\ {t} \cup DOMAIN o = {t}
      BY <1>1, <1>4, <2>1
    <3>2. root' \in Flows /\ Accepts(root') /\ Offers(root', f, env) /\ AmbientTyped(env)
      BY <1>1, <1>3, <2>1
    <3>3. /\ UNCHANGED <<nodes, wiring, wires>> /\ f \in Flows
          /\ raised' \in {"nothing", "no steps", "no child"}
          /\ raised' # "nothing" => DOMAIN runs' = {}
          /\ raised' = "nothing" =>
               /\ DOMAIN runs' = {t} \cup DOMAIN o
               /\ runs'[t] = Env(f, env, t)
               /\ \A q \in DOMAIN o \ {t} : runs'[q] = o[q]
               /\ runs'[t] \in Envs /\ runs'[t].at = 1 /\ runs'[t].flow = f
               /\ runs'[t].begun = 0
               /\ Under(root', runs'[t])
      BY <1>2, <3>1, <3>2, Entering
    <3>. QED  BY <3>1, <3>3
  <2>. QED  BY <1>1, <2>1
<1>6. Same /\ Built'
  BY <1>5, SameBuilt DEF Inv, Same
<1>7. f # None
  BY CompositionAssumption
<1>8. Calm' /\ Checked'
  BY <1>1, <1>5, <1>6, <1>7, SameAccepts DEF Calm, Checked
<1>9. CASE raised' # "nothing"
  <2>1. (RunsTyped /\ Inside /\ Nested /\ AllUnder /\ AllRollUp)'
    BY <1>5, <1>9 DEF RunsTyped, Inside, Nested, AllUnder, AllRollUp
  <2>. QED  BY <1>6, <1>8, <2>1 DEF Inv
<1>10. CASE raised' = "nothing"
  <2>1. /\ DOMAIN runs' = {<<>>} /\ runs'[<<>>] = Env(f, NoEnv, <<>>) /\ runs'[<<>>] \in Envs
        /\ runs'[<<>>].at = 1 /\ runs'[<<>>].flow = f /\ Under(f, runs'[<<>>])
    BY <1>5, <1>10
  <2>2. RunsTyped'
    <3>1. nodes'[f] \in Seq(Steps)
      BY <1>2, <1>5 DEF NodesTyped
    <3>2. 1 \in 1..(Len(nodes'[f]) + 1)
      BY <3>1
    <3>. QED  BY <1>4, <2>1, <3>2 DEF RunsTyped, Chain
  <2>3. Inside'
    <3>1. \A n \in 0..Len(<<>>) : SubSeq(<<>>, 1, n) = <<>>
      BY <1>4, CutFacts
    <3>. QED  BY <2>1, <3>1 DEF Inside
  <2>4. Nested'
    <3>1. Entered(<<>>)' = {}
      BY <2>1 DEF Entered
    <3>. QED  BY <2>1, <3>1 DEF Nested
  <2>5. AllUnder'
    <3>1. \A r, e : Under(r, e)' <=> Under(r, e)
      BY <1>6, SameUnder
    <3>. QED  BY <1>1, <2>1, <3>1 DEF AllUnder
  <2>6. AllRollUp'
    <3>1. \A k \in wiring[f].ask : <<>> \in Range(runs'[<<>>].res[k].via)
      BY <1>2, <1>3, <1>4, <2>1, ChildIsUsed
    <3>2. RollsUp(<<>>, <<>>)'
      BY <1>5, <2>1, <3>1 DEF RollsUp
    <3>. QED  BY <2>1, <3>2 DEF AllRollUp
  <2>. QED  BY <1>6, <1>8, <2>2, <2>3, <2>4, <2>5, <2>6 DEF Inv
<1>. QED  BY <1>9, <1>10

(* The place of a subflow: a segment of paths, and one that nothing has that the
   run entered before. *)
LEMMA PlaceFacts ==
  ASSUME Inv, NEW p \in DOMAIN runs, InProgress(p), At(p).kids # <<>>,
         runs[p].begun < Most(At(p)), At(p).kind # "map" => Entered(p) = {},
         NEW n, n = runs[p].begun + 1,
         NEW i \in (IF Members(At(p)) THEN {n} ELSE DOMAIN At(p).kids),
         NEW x, x = <<StepKey(Chain(p), runs[p].at), Place(At(p), At(p).kids[i], n)>>
  PROVE  /\ n \in Nat \ {0} /\ i \in DOMAIN At(p).kids
         /\ x \in Segments /\ Append(p, x) \notin DOMAIN runs
         /\ At(p).kids[i].flow \in Below(runs[p].flow)
         /\ At(p).kind = "map" =>
              /\ Members(At(p)) => n \in DOMAIN At(p).kids
              /\ x = <<StepKey(Chain(p), runs[p].at),
                       IF Members(At(p)) THEN At(p).kids[n].at ELSE <<n>>>>
<1> DEFINE f == runs[p].flow
           step == At(p)
<1>1. /\ f \in Flows /\ runs[p].at \in DOMAIN nodes[f] /\ runs[p].begun \in Nat
      /\ step = nodes[f][runs[p].at] /\ p \in Seq(Segments)
  BY DEF Inv, RunsTyped, InProgress, Chain, At, Envs
<1>2. NodesTyped /\ Keyed
  BY DEF Inv, Built
<1>3. /\ step \in Steps /\ step.kids \in Seq(KidSteps) /\ step.kind \in Kinds
      /\ \A j \in DOMAIN step.kids : step.kids[j] \in KidSteps /\ step.kids[j].flow \in Below(f)
  BY <1>1, <1>2, StepTyped DEF Steps
<1>4. n \in Nat \ {0} /\ runs[p].begun = n - 1 /\ n <= Most(step)
  <2>1. Len(step.kids) \in Nat /\ MaxItems \in Nat
    BY <1>3, CompositionAssumption
  <2>2. Most(step) \in Nat
    BY <2>1 DEF Most
  <2> HIDE DEF step
  <2>. QED  BY <1>1, <2>2 DEF step
<1>5. Members(step) => n \in DOMAIN step.kids
  BY <1>3, <1>4 DEF Most
<1>6. i \in DOMAIN step.kids
  BY <1>5
<1>7. StepKey(Chain(p), runs[p].at) \in StepKeys
  <2>1. Chain(p) = nodes[f] /\ nodes[f] \in Seq(Steps)
    BY <1>1, <1>2 DEF Chain, NodesTyped
  <2> DEFINE C == {j \in 1..(runs[p].at - 1) : Local(Chain(p)[j]) = Local(Chain(p)[runs[p].at])}
  <2>2. runs[p].at \in Nat /\ C \subseteq 1..(runs[p].at - 1)
    BY <1>1, <2>1
  <2>3. 1 \in Int /\ runs[p].at - 1 \in Int
    BY <2>2
  <2>4. IsFiniteSet(C) /\ Cardinality(C) \in Nat
    <3> HIDE DEF C
    <3>. QED  BY <2>2, <2>3, FS_Interval, FS_Subset, FS_CardinalityType
  <2>5. Occurrence(Chain(p), runs[p].at) \in Nat
    BY <2>4 DEF Occurrence
  <2>6. Local(step) \in Kinds \X StepLabels
    BY <1>3 DEF Local, Steps
  <2>. QED  BY <1>1, <2>1, <2>5, <2>6 DEF StepKey, StepKeys
<1>8. Place(step, step.kids[i], n) \in Places
  <2>1. step.kids[i].at \in Boundaries
    BY <1>3, <1>6 DEF KidSteps
  <2>2. step.kind \notin {"call", "branch"} /\ ~Members(step) => n \in 1..MaxItems
    BY <1>3, <1>4, CompositionAssumption DEF Most, Kinds
  <2>. QED  BY <2>1, <2>2 DEF Place, Places
<1>9. x \in Segments
  BY <1>7, <1>8 DEF Segments
<1>10. step.kind = "map" =>
         x = <<StepKey(Chain(p), runs[p].at), IF Members(step) THEN step.kids[n].at ELSE <<n>>>>
  <2>1. Members(step) => i = n
    OBVIOUS
  <2>. QED  BY <2>1 DEF Place
<1>11. Append(p, x) \notin DOMAIN runs
  <2> SUFFICES ASSUME Append(p, x) \in DOMAIN runs PROVE FALSE
    OBVIOUS
  <2>1. Append(p, x) \in Entered(p) /\ Last(Append(p, x)) = x
    BY <1>1, <1>9, AppendFacts DEF Entered
  <2>2. step.kind = "map" /\ Numbered(p, x)
    BY <2>1 DEF Inv, Nested
  <2>3. PICK m \in 1..runs[p].begun :
          /\ Members(step) => m \in DOMAIN step.kids
          /\ x = <<StepKey(Chain(p), runs[p].at), IF Members(step) THEN step.kids[m].at ELSE <<m>>>>
    BY <2>2 DEF Numbered
  <2>4. m # n
    BY <1>1, <1>4
  <2>5. (IF Members(step) THEN step.kids[m].at ELSE <<m>>) = (IF Members(step) THEN step.kids[n].at ELSE <<n>>)
    BY <1>10, <2>2, <2>3
  <2>6. CASE Members(step)
    BY <1>1, <1>2, <1>5, <2>2, <2>3, <2>4, <2>5, <2>6 DEF Keyed
  <2>7. CASE ~Members(step)
    <3>1. <<m>> = <<n>>
      BY <2>5, <2>7
    <3>. QED  BY <2>4, <3>1
  <2>. QED  BY <2>6, <2>7
<1>. QED  BY <1>3, <1>4, <1>5, <1>6, <1>9, <1>10, <1>11

(* One more run: what a step enters, at its place and with what it resolved. *)
LEMMA OneMore ==
  ASSUME Inv, NEW p \in DOMAIN runs, InProgress(p), raised = "nothing",
         NEW n, n = runs[p].begun + 1, NEW x \in Segments,
         At(p).kind = "map" =>
           /\ Members(At(p)) => n \in DOMAIN At(p).kids
           /\ x = <<StepKey(Chain(p), runs[p].at),
                    IF Members(At(p)) THEN At(p).kids[n].at ELSE <<n>>>>,
         NEW path, path = Append(p, x), path \notin DOMAIN runs,
         NEW f \in Flows, NEW env, AmbientTyped(env), env.res = runs[p].res,
         UNCHANGED <<nodes, wiring, wires, root>>,
         DOMAIN runs' = {path} \cup DOMAIN runs, runs'[path] = Env(f, env, path),
         \A q \in DOMAIN runs \ {p} : runs'[q] = runs[q],
         runs'[p] = [runs[p] EXCEPT !.begun = n],
         runs'[path] \in Envs, runs'[path].at = 1, runs'[path].flow = f,
         Under(root, runs'[path])
  PROVE  (RunsTyped /\ Inside /\ Nested /\ AllUnder /\ AllRollUp)'
<1>1. NodesTyped /\ WiringTyped /\ runs[p] \in Envs /\ p \in Seq(Segments)
  BY DEF Inv, Built, RunsTyped
<1>2. path \in Seq(Segments) /\ Len(path) = Len(p) + 1 /\ Front(path) = p /\ Last(path) = x
  BY <1>1, AppendFacts
<1>3. /\ runs'[p] \in Envs /\ runs'[p].at = runs[p].at /\ runs'[p].flow = runs[p].flow
      /\ runs'[p].res = runs[p].res /\ runs'[p].regions = runs[p].regions
      /\ runs'[p].halt = runs[p].halt /\ runs'[p].repo = runs[p].repo
      /\ runs'[p].saver = runs[p].saver /\ runs'[p].begun = n /\ n \in Nat \ {0}
  <2>1. ASSUME NEW e \in Envs, NEW d, d = [e EXCEPT !.begun = n], n \in Nat
        PROVE  /\ d \in Envs /\ d.at = e.at /\ d.flow = e.flow /\ d.res = e.res
               /\ d.regions = e.regions /\ d.halt = e.halt /\ d.repo = e.repo
               /\ d.saver = e.saver /\ d.begun = n
    BY <2>1 DEF Envs
  <2>2. n \in Nat \ {0}
    BY <1>1 DEF Envs
  <2>. QED  BY <1>1, <2>1, <2>2
<1>4. Same
  BY DEF Same
<1>5. /\ \A q \in DOMAIN runs \ {p} : runs'[q] = runs[q]
      /\ DOMAIN runs' = {path} \cup DOMAIN runs /\ runs'[path] = Env(f, env, path)
      /\ runs'[path] \in Envs /\ runs'[path].at = 1 /\ runs'[path].flow = f
      /\ Under(root', runs'[path])
  OBVIOUS
<1>6. \A q \in DOMAIN runs :
        /\ runs'[q] \in Envs
        /\ runs'[q].at = runs[q].at /\ runs'[q].flow = runs[q].flow
        /\ runs'[q].res = runs[q].res /\ runs'[q].regions = runs[q].regions
        /\ runs'[q].halt = runs[q].halt /\ runs'[q].repo = runs[q].repo
        /\ runs'[q].saver = runs[q].saver
  BY <1>3, <1>5 DEF Inv, RunsTyped
<1>7. RunsTyped'
  <2>1. \A q \in DOMAIN runs : q \in Seq(Segments) /\ runs'[q].at \in 1..(Len(nodes'[runs'[q].flow]) + 1)
    BY <1>6 DEF Inv, RunsTyped, Chain
  <2>2. nodes'[f] \in Seq(Steps)
    BY <1>1 DEF NodesTyped
  <2>3. 1 \in 1..(Len(nodes'[f]) + 1)
    BY <2>2
  <2>. QED  BY <1>2, <1>5, <1>6, <2>1, <2>3 DEF RunsTyped, Chain
<1>8. Inside'
  <2>1. \A q \in DOMAIN runs : \A m \in 0..Len(q) : SubSeq(q, 1, m) \in DOMAIN runs'
    BY <1>5 DEF Inv, Inside
  <2>2. ASSUME NEW m \in 0..Len(path) PROVE SubSeq(path, 1, m) \in DOMAIN runs'
    <3>0. Len(p) \in Nat
      BY <1>1
    <3>1. CASE m = Len(path)
      BY <1>2, <1>5, <3>0, <3>1, CutFacts
    <3>2. CASE m # Len(path)
      <4>1. m \in 0..Len(p)
        BY <1>2, <3>0, <3>2
      <4>2. SubSeq(path, 1, m) = SubSeq(p, 1, m)
        BY <1>1, <4>1, CutOfAppend
      <4>. QED  BY <2>1, <4>1, <4>2
    <3>. QED  BY <3>1, <3>2
  <2>. QED  BY <1>5, <2>1, <2>2 DEF Inside
<1>9. Nested'
  <2>0. \A q \in DOMAIN runs : Len(q) \in Nat /\ q \in Seq(Segments)
    BY DEF Inv, RunsTyped
  <2>1. Entered(path)' = {}
    <3> SUFFICES ASSUME NEW c \in DOMAIN runs', Len(c) = Len(path) + 1, Front(c) = path PROVE FALSE
      BY DEF Entered
    <3>1. c \in DOMAIN runs
      BY <1>2, <1>5
    <3>2. Len(path) \in 0..Len(c) /\ SubSeq(c, 1, Len(path)) = path
      BY <1>2, <2>0, <3>1 DEF Front
    <3>. QED  BY <3>1, <3>2 DEF Inv, Inside
  <2>2. \A q \in DOMAIN runs : q # p => Entered(q)' = Entered(q)
    BY <1>2, <1>5 DEF Entered
  <2>3. Entered(p)' = Entered(p) \cup {path}
    BY <1>2, <1>5 DEF Entered
  <2>4. ASSUME NEW q \in DOMAIN runs
        PROVE  /\ Chain(q)' = Chain(q) /\ At(q)' = At(q) /\ (InProgress(q)' <=> InProgress(q))
               /\ Members(At(q))' <=> Members(At(q))
    <3>1. Chain(q)' = Chain(q) /\ At(q)' = At(q)
      BY <1>6 DEF Chain, At
    <3>. QED  BY <1>5, <1>6, <3>1 DEF InProgress, Members
  <2>5. ASSUME NEW q \in DOMAIN runs, q # p, NEW c \in Entered(q)
        PROVE  InProgress(q)' /\ ((At(q).kind = "map")' => Numbered(q, Last(c))')
    <3>1. InProgress(q) /\ (At(q).kind = "map" => Numbered(q, Last(c)))
      BY DEF Inv, Nested
    <3>2. runs'[q] = runs[q]
      BY <1>5, <2>5
    <3>3. Numbered(q, Last(c)) => Numbered(q, Last(c))'
      BY <2>4, <3>2 DEF Numbered
    <3>. QED  BY <2>4, <3>1, <3>3
  <2>6. ASSUME At(p).kind = "map", NEW y, Numbered(p, y) PROVE Numbered(p, y)'
    <3>1. runs'[p].begun = runs[p].begun + 1 /\ runs[p].begun \in Nat /\ runs'[p].at = runs[p].at
      BY <1>1, <1>3, <1>5 DEF Envs
    <3>2. PICK m \in 1..runs[p].begun :
            /\ Members(At(p)) => m \in DOMAIN At(p).kids
            /\ y = <<StepKey(Chain(p), runs[p].at), IF Members(At(p)) THEN At(p).kids[m].at ELSE <<m>>>>
      BY <2>6 DEF Numbered
    <3>3. m \in 1..runs'[p].begun
      BY <3>1
    <3>. QED  BY <2>4, <3>1, <3>2, <3>3 DEF Numbered
  <2>7. At(p).kind = "map" => Numbered(p, x)'
    <3>1. runs'[p].begun = n /\ n \in Nat \ {0} /\ runs'[p].at = runs[p].at
      BY <1>3, <1>5
    <3>2. n \in 1..runs'[p].begun
      BY <3>1
    <3>. QED  BY <2>4, <3>1, <3>2 DEF Numbered
  <2>8. ASSUME NEW c \in Entered(p)'
        PROVE  InProgress(p)' /\ ((At(p).kind = "map")' => Numbered(p, Last(c))')
    <3>1. InProgress(p)'
      BY <2>4
    <3>2. CASE c = path
      BY <1>2, <2>4, <2>7, <3>1, <3>2
    <3>3. CASE c # path
      <4>1. c \in Entered(p)
        BY <2>3, <3>3
      <4>2. At(p).kind = "map" => Numbered(p, Last(c))
        BY <4>1 DEF Inv, Nested
      <4>3. At(p).kind = "map" => Numbered(p, Last(c))'
        BY <2>6, <4>2
      <4>. QED  BY <2>4, <3>1, <4>3
    <3>. QED  BY <3>2, <3>3
  <2> SUFFICES ASSUME NEW q \in DOMAIN runs', NEW c \in Entered(q)'
               PROVE  InProgress(q)' /\ ((At(q).kind = "map")' => Numbered(q, Last(c))')
    BY DEF Nested
  <2>9. CASE q = path
    BY <2>1, <2>9
  <2>10. CASE q = p
    BY <2>8, <2>10
  <2>11. CASE q \in DOMAIN runs /\ q # p
    BY <2>2, <2>5, <2>11
  <2>. QED  BY <1>5, <2>9, <2>10, <2>11
<1>10. AllUnder'
  <2>1. \A r, e : Under(r, e)' <=> Under(r, e)
    BY <1>4, SameUnder
  <2>2. ASSUME NEW q \in DOMAIN runs PROVE Under(root, runs'[q])
    <3>1. Under(root, runs[q])
      BY DEF Inv, AllUnder
    <3>. QED  BY <1>6, <3>1 DEF Under
  <2>. QED  BY <1>5, <2>1, <2>2 DEF AllUnder
<1>11. AllRollUp'
  <2>0. \A q \in DOMAIN runs : q \in Seq(Segments)
    BY DEF Inv, RunsTyped
  <2>1. ASSUME NEW q \in DOMAIN runs, NEW c \in DOMAIN runs, IsPrefix(q, c) PROVE RollsUp(q, c)'
    <3>1. RollsUp(q, c)
      BY <2>1 DEF Inv, AllRollUp
    <3> SUFFICES ASSUME NEW k \in wiring[runs[q].flow].ask,
                        ~(q \in Range(runs[c].res[k].via))
                 PROVE  \E r \in DOMAIN runs' \ {q} :
                          IsPrefix(q, r) /\ IsPrefix(r, c) /\ k \in Declared(runs[r].flow)'
      BY <1>6 DEF RollsUp
    <3>2. PICK r \in DOMAIN runs \ {q} : IsPrefix(q, r) /\ IsPrefix(r, c) /\ k \in Declared(runs[r].flow)
      BY <3>1 DEF RollsUp
    <3>3. k \in Declared(runs[r].flow)'
      BY <1>4, <1>6, <3>2, SameCovers
    <3>. QED  BY <1>5, <3>2, <3>3
  <2>2. \A k \in wiring[f].ask : path \in Range(runs'[path].res[k].via)
    <3>1. \A k \in wiring[f].ask : path \in Range(Env(f, env, path).res[k].via)
      BY <1>1, <1>2, ChildIsUsed
    <3>. QED  BY <1>5, <3>1
  <2>3. RollsUp(path, path)'
    BY <1>5, <2>2 DEF RollsUp
  <2>4. ASSUME NEW q \in DOMAIN runs, IsPrefix(q, p) PROVE RollsUp(q, path)'
    <3>1. RollsUp(q, p)
      BY <2>4 DEF Inv, AllRollUp
    <3>2. q # path /\ IsPrefix(q, path)
      BY <1>1, <2>0, <2>4, PrefixOfAppend
    <3> SUFFICES ASSUME NEW k \in wiring[runs[q].flow].ask,
                        ~(q \in Range(runs'[path].res[k].via))
                 PROVE  \E r \in DOMAIN runs' \ {q} :
                          IsPrefix(q, r) /\ IsPrefix(r, path) /\ k \in Declared(runs[r].flow)'
      BY <1>6 DEF RollsUp
    <3>3. k \in Keys
      <4>1. runs[q].flow \in Flows
        BY DEF Inv, RunsTyped, Envs
      <4>. QED  BY <1>1, <4>1 DEF WiringTyped, Wirings
    <3>4. CASE k \in Declared(f)
      <4>1. k \in Declared(runs[path].flow)'
        BY <1>4, <1>5, <3>4, SameCovers
      <4>2. IsPrefix(path, path)
        BY <1>2, PrefixItself
      <4>. QED  BY <1>5, <3>2, <4>1, <4>2
    <3>5. CASE k \notin Declared(f)
      <4>1. ~(q \in Range(env.res[k].via))
        <5>1. q \in Range(env.res[k].via) => q \in Range(Env(f, env, path).res[k].via)
          BY <1>1, <1>2, <3>3, <3>5, UseIsKept
        <5>. QED  BY <1>5, <5>1
      <4>2. PICK r \in DOMAIN runs \ {q} : IsPrefix(q, r) /\ IsPrefix(r, p) /\ k \in Declared(runs[r].flow)
        BY <3>1, <4>1 DEF RollsUp
      <4>3. IsPrefix(r, path)
        BY <1>1, <2>0, <4>2, PrefixOfAppend
      <4>4. k \in Declared(runs[r].flow)'
        BY <1>4, <1>6, <4>2, SameCovers
      <4>. QED  BY <1>5, <4>2, <4>3, <4>4
    <3>. QED  BY <3>4, <3>5
  <2> SUFFICES ASSUME NEW q \in DOMAIN runs', NEW c \in DOMAIN runs', IsPrefix(q, c)
               PROVE  RollsUp(q, c)'
    BY DEF AllRollUp
  <2>5. CASE c = path
    <3>1. q = path \/ (q \in DOMAIN runs /\ IsPrefix(q, p))
      BY <1>1, <1>5, <2>0, <2>5, PrefixOfAppend
    <3>. QED  BY <2>3, <2>4, <2>5, <3>1
  <2>6. CASE c # path
    <3>1. c \in DOMAIN runs /\ Len(c) \in Nat
      BY <1>5, <2>0, <2>6
    <3>2. q # path
      <4> SUFFICES ASSUME q = path PROVE FALSE
        OBVIOUS
      <4>1. Len(path) \in 0..Len(c) /\ path = SubSeq(c, 1, Len(path))
        <5>1. IsPrefix(path, c) /\ c \in Seq(Segments) /\ path \in Seq(Segments)
          BY <1>2, <2>0, <3>1
        <5>2. Len(path) <= Len(c) /\ path = SubSeq(c, 1, Len(path))
          BY <5>1, PrefixIsCut
        <5>. QED  BY <1>2, <3>1, <5>1, <5>2
      <4>. QED  BY <3>1, <4>1 DEF Inv, Inside
    <3>. QED  BY <1>5, <2>1, <3>1, <3>2
  <2>. QED  BY <2>5, <2>6
<1>. QED  BY <1>7, <1>8, <1>9, <1>10, <1>11

(* A step enters a flow, which fails, or is one more run under the same top. *)
LEMMA EnterKeeps ==
  ASSUME Inv, NEW p \in DOMAIN runs, Enter(p)
  PROVE  Inv'
<1> DEFINE step == At(p)
           n == runs[p].begun + 1
           env == IF step.kind = "map" THEN [runs[p] EXCEPT !.regions = Leaves(@)] ELSE runs[p]
           X(i) == <<StepKey(Chain(p), runs[p].at), Place(step, step.kids[i], n)>>
           others == [runs EXCEPT ![p].begun = n]
<1>1. /\ InProgress(p) /\ step.kids # <<>> /\ runs[p].begun < Most(step)
      /\ step.kind # "map" => Entered(p) = {}
      /\ root' = root
      /\ \E i \in (IF Members(step) THEN {n} ELSE DOMAIN step.kids) :
           RunAsSubflow(step.kids[i].flow, env, Append(p, X(i)), others)
  BY DEF Enter
<1>2. PICK i \in (IF Members(step) THEN {n} ELSE DOMAIN step.kids) :
        RunAsSubflow(step.kids[i].flow, env, Append(p, X(i)), others)
  BY <1>1
<1> DEFINE f == step.kids[i].flow
           x == X(i)
           path == Append(p, x)
<1>3. /\ n \in Nat \ {0} /\ i \in DOMAIN step.kids /\ x \in Segments
      /\ path \notin DOMAIN runs /\ f \in Below(runs[p].flow)
      /\ step.kind = "map" =>
           /\ Members(step) => n \in DOMAIN step.kids
           /\ x = <<StepKey(Chain(p), runs[p].at),
                    IF Members(step) THEN step.kids[n].at ELSE <<n>>>>
  BY <1>1, <1>2, PlaceFacts
<1>4. /\ NodesTyped /\ WiringTyped /\ runs[p] \in Envs /\ p \in Seq(Segments)
      /\ raised = "nothing" /\ root # None /\ root \in Flows /\ Accepts(root)
      /\ Under(root, runs[p])
  BY DEF Inv, Built, RunsTyped, Calm, Checked, AllUnder
<1>5. Offers(root, f, runs[p])
  BY <1>3, <1>4, OffersBelow
<1>6. AmbientTyped(runs[p])
  BY <1>4 DEF AmbientTyped, Envs, Uses, InRegion
<1>7. AmbientTyped(env) /\ Offers(root, f, env) /\ env.res = runs[p].res
  <2>1. CASE step.kind = "map"
    <3>1. env = [runs[p] EXCEPT !.regions = Leaves(@)]
      BY <2>1
    <3>2. DOMAIN runs[p] = {"halt", "saver", "at", "flow", "res", "repo", "regions", "begun"}
      BY <1>4 DEF Envs
    <3>3. env.res = runs[p].res
      BY <3>1, <3>2
    <3> DEFINE e == runs[p]
    <3> HIDE DEF env, f, e
    <3>4. AmbientTyped(env) /\ Offers(root, f, env)
      BY <1>5, <1>6, <3>1, <3>2, LeavesOffers DEF e
    <3>. QED  BY <3>3, <3>4
  <2>2. CASE step.kind # "map"
    BY <1>5, <1>6, <2>2
  <2>. QED  BY <2>1, <2>2
<1>8. path \in Seq(Segments) /\ Len(path) = Len(p) + 1 /\ Front(path) = p /\ Last(path) = x
  BY <1>3, <1>4, AppendFacts
<1>9. RunAsSubflow(f, env, path, others)
  BY <1>2
<1>10. /\ DOMAIN others = DOMAIN runs
       /\ \A q \in DOMAIN runs \ {p} : others[q] = runs[q]
       /\ others[p] = [runs[p] EXCEPT !.begun = n]
  OBVIOUS
<1>11. /\ others[p] \in Envs /\ others[p].at = runs[p].at /\ others[p].flow = runs[p].flow
       /\ others[p].res = runs[p].res /\ others[p].regions = runs[p].regions
       /\ others[p].halt = runs[p].halt /\ others[p].repo = runs[p].repo
       /\ others[p].saver = runs[p].saver /\ others[p].begun = n
  <2> DEFINE e == runs[p]
  <2>1. e \in Envs /\ others[p] = [e EXCEPT !.begun = n] /\ n \in Nat
    BY <1>3, <1>4, <1>10
  <2> HIDE DEF e, n, others
  <2>. QED  BY <2>1 DEF Envs, e
<1> HIDE DEF others, env, path, x, n, f
<1>12. root' \in Flows /\ Accepts(root') /\ Offers(root', f, env)
  BY <1>1, <1>4, <1>7
<1>13. /\ UNCHANGED <<nodes, wiring, wires>> /\ f \in Flows
       /\ raised' \in {"nothing", "no steps", "no child"}
       /\ raised' # "nothing" => DOMAIN runs' = {}
       /\ raised' = "nothing" =>
            /\ DOMAIN runs' = {path} \cup DOMAIN others
            /\ runs'[path] = Env(f, env, path)
            /\ \A q \in DOMAIN others \ {path} : runs'[q] = others[q]
            /\ runs'[path] \in Envs /\ runs'[path].at = 1 /\ runs'[path].flow = f
            /\ runs'[path].begun = 0
            /\ Under(root', runs'[path])
  BY <1>4, <1>7, <1>8, <1>9, <1>12, Entering
<1>14. Same /\ Built'
  BY <1>13, SameBuilt DEF Inv, Same
<1>15. Calm' /\ Checked'
  BY <1>1, <1>4, <1>13, <1>14, SameAccepts DEF Calm, Checked
<1>16. CASE raised' # "nothing"
  <2>1. (RunsTyped /\ Inside /\ Nested /\ AllUnder /\ AllRollUp)'
    BY <1>13, <1>16 DEF RunsTyped, Inside, Nested, AllUnder, AllRollUp
  <2>. QED  BY <1>14, <1>15, <2>1 DEF Inv
<1>17. CASE raised' = "nothing"
  <2>1. /\ DOMAIN runs' = {path} \cup DOMAIN runs
        /\ runs'[path] = Env(f, env, path)
        /\ \A q \in DOMAIN runs \ {p} : runs'[q] = runs[q]
        /\ runs'[p] = [runs[p] EXCEPT !.begun = n]
        /\ runs'[path] \in Envs /\ runs'[path].at = 1 /\ runs'[path].flow = f
        /\ Under(root, runs'[path])
    BY <1>1, <1>3, <1>10, <1>13, <1>17
  <2>2. n = runs[p].begun + 1 /\ path = Append(p, x)
    BY DEF n, path
  <2>3. /\ UNCHANGED <<nodes, wiring, wires, root>> /\ InProgress(p)
        /\ At(p).kind = "map" =>
             /\ Members(At(p)) => n \in DOMAIN At(p).kids
             /\ x = <<StepKey(Chain(p), runs[p].at),
                      IF Members(At(p)) THEN At(p).kids[n].at ELSE <<n>>>>
    BY <1>1, <1>3, <1>13
  <2>4. (RunsTyped /\ Inside /\ Nested /\ AllUnder /\ AllRollUp)'
    BY <1>3, <1>4, <1>7, <1>13, <2>1, <2>2, <2>3, OneMore
  <2>. QED  BY <1>14, <1>15, <2>4 DEF Inv
<1>. QED  BY <1>16, <1>17

(* Whatever the step, the invariant is kept. *)
LEMMA Inductive == Inv /\ [Next]_vars => Inv'
<1> SUFFICES ASSUME Inv, [Next]_vars PROVE Inv'
  OBVIOUS
<1>1. ASSUME NEW f \in Flows, Build(f) PROVE Inv'
  BY <1>1, BuildKeeps
<1>2. ASSUME NEW f \in Flows, Run(f) PROVE Inv'
  BY <1>2, RunKeeps
<1>3. ASSUME NEW p \in DOMAIN runs, Enter(p) PROVE Inv'
  BY <1>3, EnterKeeps
<1>4. ASSUME NEW p \in DOMAIN runs, Goes(p) PROVE Inv'
  BY <1>4, GoesKeeps
<1>5. ASSUME NEW p \in DOMAIN runs, Leave(p) PROVE Inv'
  BY <1>5, LeaveKeeps
<1>6. CASE Fail
  BY <1>6, FailKeeps
<1>7. CASE UNCHANGED vars
  <2>1. UNCHANGED <<nodes, wiring, wires, root, runs, raised>> /\ Same
    BY <1>7 DEF vars, Same
  <2>2. Built' /\ Calm' /\ Inside'
    BY <2>1, SameBuilt DEF Inv, Calm, Inside
  <2>3. Checked'
    BY <2>1, SameAccepts DEF Inv, Checked
  <2>4. RunsTyped'
    BY <2>1 DEF Inv, RunsTyped, Chain
  <2>5. Nested'
    BY <2>1 DEF Inv, Nested, Entered, InProgress, At, Chain, Numbered, Members
  <2>6. AllUnder'
    <3>1. \A r, e : Under(r, e)' <=> Under(r, e)
      BY <2>1, SameUnder
    <3>. QED  BY <2>1, <3>1 DEF Inv, AllUnder
  <2>7. AllRollUp'
    BY <2>1 DEF Inv, AllRollUp, RollsUp, Declared
  <2>. QED  BY <2>2, <2>3, <2>4, <2>5, <2>6, <2>7 DEF Inv
<1>. QED  BY <1>1, <1>2, <1>3, <1>4, <1>5, <1>6, <1>7 DEF Next

(* The invariant holds of every reachable state. *)
THEOREM Invariance == Spec => []Inv
<1>. QED  BY InitInv, Inductive, PTL DEF Spec

(* The invariant has all that the types say. *)
LEMMA InvTyped == Inv => TypeOK
<1> SUFFICES ASSUME Inv PROVE TypeOK
  OBVIOUS
<1>1. ASSUME NEW p \in DOMAIN runs, p # <<>> PROVE Front(p) \in DOMAIN runs
  <2>1. Len(p) \in Nat /\ Len(p) # 0
    BY <1>1 DEF Inv, RunsTyped
  <2>2. Len(p) - 1 \in 0..Len(p)
    BY <2>1
  <2>. QED  BY <2>2 DEF Inv, Inside, Front
<1>. QED  BY <1>1 DEF Inv, Built, NodesTyped, WiringTyped, Calm, RunsTyped, TypeOK

(* Every variable has its type, whatever is built and run; and a run is inside
   the one it was entered from until it is over. *)
THEOREM CompositionTyped == Spec => []TypeOK
<1>. QED  BY Invariance, InvTyped, PTL

(* A run that run() let through never fails, at any depth of any composition,
   for a resource or a signal that is not there. *)
THEOREM NothingLate == Spec => []NoLateErrors
<1>1. Inv => NoLateErrors
  BY DEF Inv, Calm, NoLateErrors
<1>. QED  BY <1>1, Invariance, PTL

(* Every run in progress observes the top-level flow's halt, saves to its store
   if it saves at all, is in one region of a signal at most, and uses the children
   of resources that the runs around it asked for. *)
THEOREM AllInherit == Spec => []RunsInherit
<1>1. Inv => RunsInherit
  <2> SUFFICES ASSUME Inv PROVE RunsInherit
    OBVIOUS
  <2>1. ASSUME NEW p \in DOMAIN runs PROVE OneOfEach(runs[p])
    BY DEF Inv, AllUnder, Under, OneOfEach, Apart
  <2>. QED  BY <2>1 DEF Inv, AllRollUp, RunsInherit
<1>. QED  BY <1>1, Invariance, PTL

(* Structure and ids ------------------------------------------------------ *)

(* A set of naturals has a least element: what induction there is. *)
LEMMA LeastOf ==
  ASSUME NEW T \in SUBSET Nat, T # {}
  PROVE  \E m \in T : \A k \in T : ~ (k < m)
<1> DEFINE R == OpToRel(<, Nat)
<1>1. IsWellFoundedOn(R, Nat)
  BY NatLessThanWellFounded
<1>2. \A x, y \in Nat : y < x => <<y, x>> \in R
  BY DEF OpToRel
<1> HIDE DEF R
<1>3. \E x \in T : \A y \in T : ~ (<<y, x>> \in R)
  BY <1>1, WFMin
<1>. QED  BY <1>2, <1>3

(* One level of Structure, of what F has below it. *)
Descents == Seq(Flows) \ {<<>>}
Described(F, inner) ==
  LET chain == nodes[inner[Len(inner)]] IN
  [i \in DOMAIN chain |->
    <<Local(chain[i]),
      [j \in DOMAIN ChildFlows(chain[i]) |->
        LET kid == ChildFlows(chain[i])[j] IN
        <<kid.at, IF kid.flow \in Range(inner) THEN Nest(kid.flow, inner)
                  ELSE [cycle |-> 0, steps |-> F[Append(inner, kid.flow)]]>>]>>]

(* A recursive function is its definition's if there is such a function. *)
LEMMA StructureChosen ==
  ASSUME NEW G, G = [inner \in Descents |-> Described(G, inner)]
  PROVE  Structure = [inner \in Descents |-> Described(Structure, inner)]
<1>1. Structure = CHOOSE F : F = [inner \in Descents |-> Described(F, inner)]
  BY DEF Structure, Described, Descents
<1>. QED  BY <1>1

(* One level of Unrolled. *)
Numbering(F, depth) ==
  [f \in Flows |->
    [i \in DOMAIN nodes[f] |->
      <<StepKey(nodes[f], i),
        [j \in DOMAIN nodes[f][i].kids |->
          <<nodes[f][i].kids[j].at,
            IF depth = 0 THEN <<>> ELSE F[depth - 1][nodes[f][i].kids[j].flow]>>]>>]]

LEMMA UnrolledChosen ==
  ASSUME NEW G, G = [depth \in 0..MaxDepth |-> Numbering(G, depth)]
  PROVE  Unrolled = [depth \in 0..MaxDepth |-> Numbering(Unrolled, depth)]
<1>1. Unrolled = CHOOSE F : F = [depth \in 0..MaxDepth |-> Numbering(F, depth)]
  BY DEF Unrolled, Numbering
<1>. QED  BY <1>1

(* Every step of a flow of the graph leads to flows. *)
LEMMA KidsAreFlows ==
  ASSUME NodesTyped, NEW f \in Flows, NEW i \in DOMAIN nodes[f],
         NEW j \in DOMAIN ChildFlows(nodes[f][i])
  PROVE  ChildFlows(nodes[f][i])[j].flow \in Flows
BY StepTyped DEF ChildFlows, KidSteps

LEMMA EndOfDescent ==
  ASSUME NEW inner \in Descents
  PROVE  /\ Len(inner) \in Nat \ {0} /\ Len(inner) \in DOMAIN inner
         /\ inner[Len(inner)] \in Flows
BY DEF Descents

(* The flows that a descent leaves out become fewer as it goes on. *)
LEMMA FewerLeft ==
  ASSUME NEW inner \in Descents, NEW g \in Flows, g \notin Range(inner)
  PROVE  /\ Append(inner, g) \in Descents
         /\ Cardinality(Flows \ Range(inner)) \in Nat
         /\ Cardinality(Flows \ Range(Append(inner, g))) < Cardinality(Flows \ Range(inner))
<1>1. Append(inner, g) \in Descents /\ inner \in Seq(Flows)
  BY DEF Descents
<1>2. Range(Append(inner, g)) = Range(inner) \cup {g}
  <2> DEFINE w == Append(inner, g)
  <2>1. /\ DOMAIN w = DOMAIN inner \cup {Len(inner) + 1} /\ w[Len(inner) + 1] = g
        /\ \A i \in DOMAIN inner : w[i] = inner[i]
    BY <1>1
  <2> HIDE DEF w
  <2>. QED  BY <2>1 DEF w, Range
<1> DEFINE A == Flows \ Range(inner)
           B == Flows \ Range(Append(inner, g))
<1>3. B \subseteq A /\ B # A
  BY <1>2
<1>4. IsFiniteSet(A)
  BY CompositionAssumption, FS_Subset
<1> HIDE DEF A, B
<1>5. Cardinality(A) \in Nat /\ Cardinality(B) < Cardinality(A)
  BY <1>3, <1>4, FS_Subset, FS_CardinalityType
<1>. QED  BY <1>1, <1>5 DEF A, B

(* What describes a descent looks only at descents that leave out fewer. *)
LEMMA DescribedAlike ==
  ASSUME NodesTyped, NEW inner \in Descents, NEW F, NEW G,
         \A w \in Descents :
           Cardinality(Flows \ Range(w)) < Cardinality(Flows \ Range(inner)) => F[w] = G[w]
  PROVE  Described(F, inner) = Described(G, inner)
<1> DEFINE chain == nodes[inner[Len(inner)]]
           At1(H, kid) == <<kid.at, IF kid.flow \in Range(inner) THEN Nest(kid.flow, inner)
                  ELSE [cycle |-> 0, steps |-> H[Append(inner, kid.flow)]]>>
<1>1. ASSUME NEW i \in DOMAIN chain, NEW j \in DOMAIN ChildFlows(chain[i])
      PROVE  At1(F, ChildFlows(chain[i])[j]) = At1(G, ChildFlows(chain[i])[j])
  <2> DEFINE kid == ChildFlows(chain[i])[j]
  <2>1. kid.flow \in Flows
    BY EndOfDescent, KidsAreFlows
  <2> HIDE DEF kid
  <2>2. kid.flow \notin Range(inner) => F[Append(inner, kid.flow)] = G[Append(inner, kid.flow)]
    BY <2>1, FewerLeft
  <2>. QED  BY <2>2 DEF kid
<1>2. ASSUME NEW i \in DOMAIN chain
      PROVE  [j \in DOMAIN ChildFlows(chain[i]) |-> At1(F, ChildFlows(chain[i])[j])]
             = [j \in DOMAIN ChildFlows(chain[i]) |-> At1(G, ChildFlows(chain[i])[j])]
  <2> HIDE DEF chain, At1
  <2>. QED  BY <1>1
<1>3. \A H : Described(H, inner) =
        [i \in DOMAIN chain |->
          <<Local(chain[i]), [j \in DOMAIN ChildFlows(chain[i]) |-> At1(H, ChildFlows(chain[i])[j])]>>]
  BY DEF Described
<1> HIDE DEF chain, At1
<1>. QED  BY <1>2, <1>3

(* There is one: a descent's is made of those that leave out fewer flows. *)
LEMMA StructureIs ==
  ASSUME NodesTyped
  PROVE  Structure = [inner \in Descents |-> Described(Structure, inner)]
<1> DEFINE Left(w) == Cardinality(Flows \ Range(w))
           Upto(n) == {w \in Descents : Left(w) < n}
           Works(n) == \E F : \A w \in Upto(n) : F[w] = Described(F, w)
           T == {n \in Nat : ~Works(n)}
<1>1. \A w \in Descents : Left(w) \in 0..Cardinality(Flows)
  <2> TAKE w \in Descents
  <2>1. Flows \ Range(w) \subseteq Flows
    OBVIOUS
  <2>. QED  BY <2>1, CompositionAssumption, FS_Subset, FS_CardinalityType
<1>2. T = {}
  <2> SUFFICES ASSUME T # {} PROVE FALSE
    OBVIOUS
  <2>1. PICK m \in T : \A k \in T : ~ (k < m)
    <3>1. T \in SUBSET Nat
      OBVIOUS
    <3> HIDE DEF T
    <3>. QED  BY <3>1, LeastOf
  <2>2. m \in Nat /\ ~Works(m)
    BY <2>1
  <2>3. CASE m = 0
    <3>1. Upto(0) = {}
      BY <1>1
    <3>. QED  BY <2>2, <2>3, <3>1
  <2>4. CASE m # 0
    <3>1. m - 1 \in Nat /\ m - 1 < m
      BY <2>2, <2>4
    <3>2. Works(m - 1)
      BY <2>1, <3>1
    <3>3. PICK F : \A w \in Upto(m - 1) : F[w] = Described(F, w)
      BY <3>2
    <3> DEFINE G == [w \in Upto(m) |-> Described(F, w)]
    <3>4. ASSUME NEW w \in Upto(m) PROVE G[w] = Described(G, w)
      <4>1. ASSUME NEW v \in Descents, Left(v) < Left(w) PROVE F[v] = G[v]
        <5>1. v \in Upto(m - 1) /\ v \in Upto(m)
          <6>1. Left(v) \in Nat /\ Left(w) \in Nat /\ Left(w) < m
            BY <1>1
          <6> HIDE DEF Left
          <6>2. Left(v) < m - 1 /\ Left(v) < m
            BY <2>2, <4>1, <6>1
          <6>. QED  BY <4>1, <6>2
        <5> HIDE DEF Upto
        <5>. QED  BY <3>3, <5>1
      <4>2. Described(F, w) = Described(G, w)
        <5>1. w \in Descents
          OBVIOUS
        <5> HIDE DEF G, Upto
        <5>. QED  BY <4>1, <5>1, DescribedAlike
      <4>3. G[w] = Described(F, w)
        <5> HIDE DEF Upto
        <5>. QED  OBVIOUS
      <4>. QED  BY <4>2, <4>3
    <3> HIDE DEF G, Upto
    <3>5. Works(m)
      BY <3>4
    <3>. QED  BY <2>2, <3>5
  <2>. QED  BY <2>3, <2>4
<1>3. Cardinality(Flows) + 1 \in Nat
  BY CompositionAssumption, FS_CardinalityType
<1>4. PICK F : \A w \in Upto(Cardinality(Flows) + 1) : F[w] = Described(F, w)
  BY <1>2, <1>3
<1>5. \A w \in Descents : F[w] = Described(F, w)
  <2> TAKE w \in Descents
  <2>1. Left(w) < Cardinality(Flows) + 1
    <3>1. Cardinality(Flows) \in Nat /\ Left(w) \in 0..Cardinality(Flows)
      BY <1>1, CompositionAssumption, FS_CardinalityType
    <3> HIDE DEF Left
    <3>. QED  BY <3>1
  <2>2. w \in Upto(Cardinality(Flows) + 1)
    BY <2>1
  <2>. QED  BY <1>4, <2>2
<1> DEFINE G == [w \in Descents |-> F[w]]
<1>6. ASSUME NEW w \in Descents PROVE Described(F, w) = Described(G, w)
  <2>1. \A v \in Descents : F[v] = G[v]
    OBVIOUS
  <2> HIDE DEF G
  <2>. QED  BY <2>1, DescribedAlike
<1>7. G = [w \in Descents |-> Described(G, w)]
  <2>1. \A w \in Descents : G[w] = Described(G, w)
    BY <1>5, <1>6
  <2>2. G = [w \in Descents |-> G[w]]
    OBVIOUS
  <2> HIDE DEF G
  <2>. QED  BY <2>1, <2>2
<1> HIDE DEF G
<1>. QED  BY <1>7, StructureChosen

(* The ids to a depth are made of those to one less. *)
LEMMA UnrolledIs == Unrolled = [depth \in 0..MaxDepth |-> Numbering(Unrolled, depth)]
<1> DEFINE Works(n) == \E F : \A d \in 0..n : F[d] = Numbering(F, d)
           T == {n \in Nat : ~Works(n)}
<1>1. ASSUME NEW d \in Nat, NEW F, NEW G, d # 0 => F[d - 1] = G[d - 1]
      PROVE  Numbering(F, d) = Numbering(G, d)
  <2>1. CASE d = 0
    BY <2>1 DEF Numbering
  <2>2. CASE d # 0
    BY <1>1, <2>2 DEF Numbering
  <2>. QED  BY <2>1, <2>2
<1>2. T = {}
  <2> SUFFICES ASSUME T # {} PROVE FALSE
    OBVIOUS
  <2>1. PICK m \in T : \A k \in T : ~ (k < m)
    <3>1. T \in SUBSET Nat
      OBVIOUS
    <3> HIDE DEF T
    <3>. QED  BY <3>1, LeastOf
  <2>2. m \in Nat /\ ~Works(m)
    BY <2>1
  <2>3. \E F : \A d \in 0..(m - 1) : F[d] = Numbering(F, d)
    <3>1. CASE m = 0
      <4>1. 0..(m - 1) = {}
        BY <3>1
      <4>. QED  BY <4>1
    <3>2. CASE m # 0
      <4>1. m - 1 \in Nat /\ m - 1 < m
        BY <2>2, <3>2
      <4>2. Works(m - 1)
        BY <2>1, <4>1
      <4>. QED  BY <4>2
    <3>. QED  BY <3>1, <3>2
  <2>4. PICK F : \A d \in 0..(m - 1) : F[d] = Numbering(F, d)
    BY <2>3
  <2> DEFINE G == [d \in 0..m |-> Numbering(F, d)]
  <2>5. ASSUME NEW d \in 0..m PROVE G[d] = Numbering(G, d)
    <3>1. d \in Nat /\ (d # 0 => d - 1 \in 0..(m - 1) /\ d - 1 \in 0..m)
      BY <2>2
    <3>2. d # 0 => F[d - 1] = G[d - 1]
      BY <2>4, <3>1
    <3>3. G[d] = Numbering(F, d)
      OBVIOUS
    <3> HIDE DEF G
    <3>. QED  BY <1>1, <3>1, <3>2, <3>3
  <2> HIDE DEF G
  <2>6. Works(m)
    BY <2>5
  <2>. QED  BY <2>2, <2>6
<1>3. MaxDepth \in Nat
  BY CompositionAssumption
<1>4. PICK F : \A d \in 0..MaxDepth : F[d] = Numbering(F, d)
  BY <1>2, <1>3
<1> DEFINE G == [d \in 0..MaxDepth |-> F[d]]
<1>5. ASSUME NEW d \in 0..MaxDepth PROVE G[d] = Numbering(G, d)
  <2>1. d \in Nat /\ (d # 0 => d - 1 \in 0..MaxDepth)
    BY <1>3
  <2>2. G[d] = F[d] /\ (d # 0 => F[d - 1] = G[d - 1])
    BY <2>1
  <2> HIDE DEF G
  <2>. QED  BY <1>1, <1>4, <2>1, <2>2
<1>6. G = [d \in 0..MaxDepth |-> G[d]]
  OBVIOUS
<1> HIDE DEF G
<1>7. G = [d \in 0..MaxDepth |-> Numbering(G, d)]
  BY <1>5, <1>6
<1>. QED  BY <1>7, UnrolledChosen

(* Flows that are last of descents with one structure all the way down have one
   structure themselves: each step's kind, name and what it leads to. *)
Agree(A, B) ==
  /\ A \in Descents /\ B \in Descents /\ Len(A) = Len(B)
  /\ \A n \in 1..Len(A) : Structure[SubSeq(A, 1, n)] = Structure[SubSeq(B, 1, n)]
End(A) == A[Len(A)]

(* Descents of one structure are so to any point of them. *)
LEMMA CutAgrees ==
  ASSUME NEW A, NEW B, Agree(A, B), NEW d \in 1..Len(A)
  PROVE  /\ Agree(SubSeq(A, 1, d), SubSeq(B, 1, d))
         /\ End(SubSeq(A, 1, d)) = A[d] /\ End(SubSeq(B, 1, d)) = B[d]
<1>1. A \in Seq(Flows) /\ B \in Seq(Flows) /\ Len(A) = Len(B) /\ d \in 0..Len(A) /\ d \in Nat \ {0}
  BY DEF Agree, Descents
<1>2. /\ SubSeq(A, 1, d) \in Seq(Flows) /\ Len(SubSeq(A, 1, d)) = d
      /\ SubSeq(B, 1, d) \in Seq(Flows) /\ Len(SubSeq(B, 1, d)) = d
      /\ \A i \in 1..d : SubSeq(A, 1, d)[i] = A[i] /\ SubSeq(B, 1, d)[i] = B[i]
  BY <1>1, CutFacts
<1>3. \A n \in 1..d : /\ SubSeq(SubSeq(A, 1, d), 1, n) = SubSeq(A, 1, n)
                      /\ SubSeq(SubSeq(B, 1, d), 1, n) = SubSeq(B, 1, n)
                      /\ n \in 1..Len(A)
  <2> TAKE n \in 1..d
  <2>1. n \in 0..d /\ n \in 1..Len(A)
    BY <1>1
  <2>. QED  BY <1>1, <2>1, CutOfCut
<1>4. SubSeq(A, 1, d) \in Descents /\ SubSeq(B, 1, d) \in Descents
  <2>1. \A w \in Seq(Flows) : Len(w) # 0 => w \in Descents
    BY DEF Descents
  <2>. QED  BY <1>1, <1>2, <2>1
<1>5. d \in 1..d
  BY <1>1
<1>6. Agree(SubSeq(A, 1, d), SubSeq(B, 1, d))
  <2>1. \A n \in 1..Len(A) : Structure[SubSeq(A, 1, n)] = Structure[SubSeq(B, 1, n)]
    BY DEF Agree
  <2>2. ASSUME NEW n \in 1..d
        PROVE  Structure[SubSeq(SubSeq(A, 1, d), 1, n)] = Structure[SubSeq(SubSeq(B, 1, d), 1, n)]
    <3>1. n \in 1..Len(A)
      BY <1>3
    <3>2. Structure[SubSeq(A, 1, n)] = Structure[SubSeq(B, 1, n)]
      BY <2>1, <3>1
    <3>. QED  BY <1>3, <3>2
  <2> DEFINE v == SubSeq(A, 1, d)
             w == SubSeq(B, 1, d)
  <2>3. /\ Len(v) = d /\ Len(w) = d /\ v \in Descents /\ w \in Descents
        /\ \A n \in 1..d : Structure[SubSeq(v, 1, n)] = Structure[SubSeq(w, 1, n)]
    BY <1>2, <1>4, <2>2
  <2> HIDE DEF v, w
  <2>4. Agree(v, w)
    BY <2>3 DEF Agree
  <2>. QED  BY <2>4 DEF v, w
<1>. QED  BY <1>2, <1>5, <1>6 DEF End

(* And one flow further, if what they go into has one structure. *)
LEMMA LongerAgrees ==
  ASSUME NEW A, NEW B, Agree(A, B), NEW g \in Flows, NEW h \in Flows,
         Structure[Append(A, g)] = Structure[Append(B, h)]
  PROVE  /\ Agree(Append(A, g), Append(B, h))
         /\ End(Append(A, g)) = g /\ End(Append(B, h)) = h
<1>1. A \in Seq(Flows) /\ B \in Seq(Flows) /\ Len(A) = Len(B) /\ Len(A) \in Nat
  BY DEF Agree, Descents
<1>2. /\ Append(A, g) \in Descents /\ Append(B, h) \in Descents
      /\ Append(A, g) \in Seq(Flows) /\ Append(B, h) \in Seq(Flows)
      /\ Len(Append(A, g)) = Len(A) + 1 /\ Len(Append(B, h)) = Len(A) + 1
      /\ Append(A, g)[Len(A) + 1] = g /\ Append(B, h)[Len(A) + 1] = h
  BY <1>1 DEF Descents
<1>3. ASSUME NEW n \in 1..(Len(A) + 1)
      PROVE  Structure[SubSeq(Append(A, g), 1, n)] = Structure[SubSeq(Append(B, h), 1, n)]
  <2>1. CASE n = Len(A) + 1
    <3>1. n \in 0..Len(Append(A, g)) /\ n \in 0..Len(Append(B, h))
      BY <1>1, <1>2, <2>1
    <3>2. SubSeq(Append(A, g), 1, n) = Append(A, g) /\ SubSeq(Append(B, h), 1, n) = Append(B, h)
      BY <1>2, <2>1, <3>1, CutFacts
    <3>. QED  BY <3>2
  <2>2. CASE n # Len(A) + 1
    <3>1. n \in 0..Len(A) /\ n \in 1..Len(A)
      BY <1>1, <2>2
    <3>2. SubSeq(Append(A, g), 1, n) = SubSeq(A, 1, n) /\ SubSeq(Append(B, h), 1, n) = SubSeq(B, 1, n)
      BY <1>1, <3>1, CutOfAppend
    <3>3. Structure[SubSeq(A, 1, n)] = Structure[SubSeq(B, 1, n)]
      BY <3>1 DEF Agree
    <3>. QED  BY <3>2, <3>3
  <2>. QED  BY <2>1, <2>2
<1>. QED  BY <1>2, <1>3 DEF Agree, End

(* A kid of a flow that ends one of two descents, and the kid at its place. *)
Alike(A, B, k, h) ==
  /\ k.at = h.at
  /\ \/ \E d \in 1..Len(A) : A[d] = k.flow /\ B[d] = h.flow
     \/ Structure[Append(A, k.flow)] = Structure[Append(B, h.flow)]

(* At the ends of two descents of one structure: the same steps, leading to flows
   that are above both at one place, or that the descents go into alike. *)
LEMMA OneStructure ==
  ASSUME NodesTyped, NEW A, NEW B, Agree(A, B),
         NEW a, a = nodes[End(A)], NEW b, b = nodes[End(B)]
  PROVE  /\ DOMAIN a = DOMAIN b
         /\ \A i \in DOMAIN a :
              /\ Local(a[i]) = Local(b[i]) /\ DOMAIN a[i].kids = DOMAIN b[i].kids
              /\ \A j \in DOMAIN a[i].kids : Alike(A, B, a[i].kids[j], b[i].kids[j])
<1>1. /\ A \in Descents /\ B \in Descents /\ Len(A) = Len(B)
      /\ A \in Seq(Flows) /\ B \in Seq(Flows) /\ Len(A) \in Nat \ {0}
  BY DEF Agree, Descents
<1>2. Structure[A] = Structure[B]
  <2>1. Len(A) \in 1..Len(A) /\ Len(A) \in 0..Len(A)
    BY <1>1
  <2>2. SubSeq(A, 1, Len(A)) = A /\ SubSeq(B, 1, Len(A)) = B
    BY <1>1, <2>1, CutFacts
  <2>3. Structure[SubSeq(A, 1, Len(A))] = Structure[SubSeq(B, 1, Len(A))]
    BY <2>1 DEF Agree
  <2>. QED  BY <2>2, <2>3
<1> DEFINE Led(w, kid) == IF kid.flow \in Range(w) THEN Nest(kid.flow, w)
                          ELSE [cycle |-> 0, steps |-> Structure[Append(w, kid.flow)]]
           Kids(w, kids) == [j \in DOMAIN kids |-> <<kids[j].at, Led(w, kids[j])>>]
           Of(w, chain) == [i \in DOMAIN chain |-> <<Local(chain[i]), Kids(w, chain[i].kids)>>]
<1>3. \A w \in Descents : Structure[w] = Of(w, nodes[End(w)])
  BY StructureIs DEF Described, ChildFlows, End
<1>4. Of(A, a) = Of(B, b)
  <2> HIDE DEF Of
  <2>. QED  BY <1>1, <1>2, <1>3
<1>5. DOMAIN a = DOMAIN b /\ \A i \in DOMAIN a : Of(A, a)[i] = Of(B, b)[i]
  <2>1. DOMAIN Of(A, a) = DOMAIN a /\ DOMAIN Of(B, b) = DOMAIN b
    OBVIOUS
  <2> HIDE DEF Of
  <2>. QED  BY <1>4, <2>1
<1>6. ASSUME NEW i \in DOMAIN a
      PROVE  /\ Local(a[i]) = Local(b[i]) /\ DOMAIN a[i].kids = DOMAIN b[i].kids
             /\ \A j \in DOMAIN a[i].kids : Alike(A, B, a[i].kids[j], b[i].kids[j])
  <2> DEFINE ka == a[i].kids
             kb == b[i].kids
  <2>1. Of(A, a)[i] = <<Local(a[i]), Kids(A, ka)>> /\ Of(B, b)[i] = <<Local(b[i]), Kids(B, kb)>>
    <3> HIDE DEF Kids
    <3>. QED  BY <1>5
  <2>2. Local(a[i]) = Local(b[i]) /\ Kids(A, ka) = Kids(B, kb)
    <3> HIDE DEF Of, Kids
    <3>. QED  BY <1>5, <2>1
  <2>3. DOMAIN ka = DOMAIN kb /\ \A j \in DOMAIN ka : Kids(A, ka)[j] = Kids(B, kb)[j]
    <3>1. DOMAIN Kids(A, ka) = DOMAIN ka /\ DOMAIN Kids(B, kb) = DOMAIN kb
      OBVIOUS
    <3> HIDE DEF Kids, ka, kb
    <3>. QED  BY <2>2, <3>1
  <2>4. ASSUME NEW j \in DOMAIN ka PROVE Alike(A, B, ka[j], kb[j])
    <3>1. /\ Kids(A, ka)[j] = <<ka[j].at, Led(A, ka[j])>>
          /\ Kids(B, kb)[j] = <<kb[j].at, Led(B, kb[j])>>
      <4> HIDE DEF Led, ka, kb
      <4>. QED  BY <2>3
    <3>2. ka[j].at = kb[j].at /\ Led(A, ka[j]) = Led(B, kb[j])
      <4> HIDE DEF Led, Kids, ka, kb
      <4>. QED  BY <2>3, <3>1
    <3> DEFINE g == ka[j].flow
               h == kb[j].flow
    <3>3. \A w \in Seq(Flows) : \A x : x \in Range(w) =>
            /\ Nest(x, w).cycle \in 1..Len(w) /\ w[Nest(x, w).cycle] = x
      <4> TAKE w \in Seq(Flows)
      <4> TAKE x
      <4> SUFFICES ASSUME x \in Range(w)
                   PROVE  Nest(x, w).cycle \in 1..Len(w) /\ w[Nest(x, w).cycle] = x
        OBVIOUS
      <4>1. \E d \in DOMAIN w : w[d] = x
        BY DEF Range
      <4>2. (CHOOSE d \in DOMAIN w : w[d] = x) \in DOMAIN w /\ w[CHOOSE d \in DOMAIN w : w[d] = x] = x
        BY <4>1
      <4>. QED  BY <4>2 DEF Nest
    <3>4. CASE g \in Range(A)
      <4>1. Led(A, ka[j]).cycle \in 1..Len(A) /\ A[Led(A, ka[j]).cycle] = g
        BY <1>1, <3>3, <3>4
      <4>2. h \in Range(B)
        <5>1. h \notin Range(B) => Led(B, kb[j]).cycle = 0
          OBVIOUS
        <5> HIDE DEF Led, h
        <5>. QED  BY <1>1, <3>2, <4>1, <5>1
      <4>3. Led(B, kb[j]).cycle \in 1..Len(B) /\ B[Led(B, kb[j]).cycle] = h
        BY <1>1, <3>3, <4>2
      <4> HIDE DEF Led
      <4>. QED  BY <3>2, <4>1, <4>3 DEF Alike
    <3>5. CASE g \notin Range(A)
      <4>1. Led(A, ka[j]) = [cycle |-> 0, steps |-> Structure[Append(A, g)]]
        BY <3>5
      <4>2. h \notin Range(B)
        <5>1. h \in Range(B) => Led(B, kb[j]).cycle \in 1..Len(B)
          BY <1>1, <3>3
        <5>2. Led(B, kb[j]).cycle = 0
          <6> HIDE DEF Led
          <6>. QED  BY <3>2, <4>1
        <5> HIDE DEF Led, h
        <5>. QED  BY <1>1, <5>1, <5>2
      <4>3. Led(B, kb[j]) = [cycle |-> 0, steps |-> Structure[Append(B, h)]]
        BY <4>2
      <4>4. Structure[Append(A, g)] = Structure[Append(B, h)]
        <5>1. /\ Led(A, ka[j]).steps = Structure[Append(A, g)]
              /\ Led(B, kb[j]).steps = Structure[Append(B, h)]
          <6> HIDE DEF Led, ka, kb
          <6>. QED  BY <4>1, <4>3
        <5> HIDE DEF Led, g, h
        <5>. QED  BY <3>2, <5>1
      <4>. QED  BY <3>2, <4>4 DEF Alike
    <3>. QED  BY <3>4, <3>5
  <2>. QED  BY <2>2, <2>3, <2>4
<1>. QED  BY <1>5, <1>6

(* The same kinds and names in the same order: the same ids. *)
LEMMA OneKey ==
  ASSUME NEW a \in Seq(Steps), NEW b \in Seq(Steps), DOMAIN a = DOMAIN b,
         \A i \in DOMAIN a : Local(a[i]) = Local(b[i]), NEW i \in DOMAIN a
  PROVE  StepKey(a, i) = StepKey(b, i)
<1>1. \A j \in 1..(i - 1) : j \in DOMAIN a
  OBVIOUS
<1>2. {j \in 1..(i - 1) : Local(a[j]) = Local(a[i])} = {j \in 1..(i - 1) : Local(b[j]) = Local(b[i])}
  BY <1>1
<1>. QED  BY <1>2 DEF StepKey, Occurrence

(* So the ids agree to a depth if they do to one less. *)
LEMMA OneNumbering ==
  ASSUME NodesTyped, NEW d \in 0..MaxDepth,
         d # 0 => \A A, B : Agree(A, B) => Unrolled[d - 1][End(A)] = Unrolled[d - 1][End(B)],
         NEW A, NEW B, Agree(A, B)
  PROVE  Unrolled[d][End(A)] = Unrolled[d][End(B)]
<1> DEFINE a == nodes[End(A)]
           b == nodes[End(B)]
           Led(kid) == IF d = 0 THEN <<>> ELSE Unrolled[d - 1][kid.flow]
           Kids(kids) == [j \in DOMAIN kids |-> <<kids[j].at, Led(kids[j])>>]
<1>1. End(A) \in Flows /\ End(B) \in Flows
  BY EndOfDescent DEF Agree, End
<1>2. \A f \in Flows : Unrolled[d][f] =
        [i \in DOMAIN nodes[f] |-> <<StepKey(nodes[f], i), Kids(nodes[f][i].kids)>>]
  <2> TAKE f \in Flows
  <2>1. Unrolled[d] = Numbering(Unrolled, d)
    BY UnrolledIs
  <2>. QED  BY <2>1 DEF Numbering
<1>3. /\ DOMAIN a = DOMAIN b
      /\ \A i \in DOMAIN a :
           /\ Local(a[i]) = Local(b[i]) /\ DOMAIN a[i].kids = DOMAIN b[i].kids
           /\ \A j \in DOMAIN a[i].kids : Alike(A, B, a[i].kids[j], b[i].kids[j])
  BY OneStructure
<1>4. a \in Seq(Steps) /\ b \in Seq(Steps)
  BY <1>1 DEF NodesTyped
<1>5. ASSUME NEW i \in DOMAIN a, NEW j \in DOMAIN a[i].kids
      PROVE  Led(a[i].kids[j]) = Led(b[i].kids[j])
  <2> DEFINE g == a[i].kids[j].flow
             h == b[i].kids[j].flow
  <2>1. g \in Flows /\ h \in Flows
    BY <1>1, <1>3, StepTyped DEF KidSteps
  <2>2. CASE d = 0
    BY <2>2
  <2>3. CASE d # 0
    <3>1. Unrolled[d - 1][g] = Unrolled[d - 1][h]
      <4>1. CASE \E n \in 1..Len(A) : A[n] = g /\ B[n] = h
        <5>1. PICK n \in 1..Len(A) : A[n] = g /\ B[n] = h
          BY <4>1
        <5> HIDE DEF g, h
        <5>2. /\ Agree(SubSeq(A, 1, n), SubSeq(B, 1, n))
              /\ End(SubSeq(A, 1, n)) = g /\ End(SubSeq(B, 1, n)) = h
          BY <5>1, CutAgrees
        <5>. QED  BY <2>3, <5>2
      <4>2. CASE Structure[Append(A, g)] = Structure[Append(B, h)]
        <5> HIDE DEF g, h
        <5>1. /\ Agree(Append(A, g), Append(B, h))
              /\ End(Append(A, g)) = g /\ End(Append(B, h)) = h
          BY <2>1, <4>2, LongerAgrees
        <5>. QED  BY <2>3, <5>1
      <4>3. Alike(A, B, a[i].kids[j], b[i].kids[j])
        BY <1>3
      <4>. QED  BY <4>1, <4>2, <4>3 DEF Alike
    <3>. QED  BY <3>1
  <2>. QED  BY <2>2, <2>3
<1>6. ASSUME NEW i \in DOMAIN a
      PROVE  StepKey(a, i) = StepKey(b, i) /\ Kids(a[i].kids) = Kids(b[i].kids)
  <2>1. StepKey(a, i) = StepKey(b, i)
    <3> HIDE DEF a, b
    <3>. QED  BY <1>3, <1>4, OneKey
  <2>2. /\ DOMAIN a[i].kids = DOMAIN b[i].kids
        /\ \A j \in DOMAIN a[i].kids :
             a[i].kids[j].at = b[i].kids[j].at /\ Led(a[i].kids[j]) = Led(b[i].kids[j])
    <3> HIDE DEF a, b, Led
    <3>. QED  BY <1>3, <1>5 DEF Alike
  <2>3. Kids(a[i].kids) = Kids(b[i].kids)
    <3> HIDE DEF a, b, Led
    <3>. QED  BY <2>2
  <2>. QED  BY <2>1, <2>3
<1> HIDE DEF Kids, a, b
<1>7. [i \in DOMAIN a |-> <<StepKey(a, i), Kids(a[i].kids)>>]
      = [i \in DOMAIN b |-> <<StepKey(b, i), Kids(b[i].kids)>>]
  BY <1>3, <1>6
<1>. QED  BY <1>1, <1>2, <1>7 DEF a, b

(* The ends of two descents of one structure have the same ids to any depth. *)
LEMMA OneIds ==
  ASSUME NodesTyped, NEW d \in 0..MaxDepth, NEW A, NEW B, Agree(A, B)
  PROVE  Unrolled[d][End(A)] = Unrolled[d][End(B)]
<1> DEFINE Ids(n) == \A v, w : Agree(v, w) => Unrolled[n][End(v)] = Unrolled[n][End(w)]
           T == {n \in 0..MaxDepth : ~Ids(n)}
<1>1. MaxDepth \in Nat
  BY CompositionAssumption
<1>2. T = {}
  <2> SUFFICES ASSUME T # {} PROVE FALSE
    OBVIOUS
  <2>1. PICK m \in T : \A k \in T : ~ (k < m)
    <3>1. T \in SUBSET Nat
      BY <1>1
    <3> HIDE DEF T
    <3>. QED  BY <3>1, LeastOf
  <2>2. m \in 0..MaxDepth /\ ~Ids(m)
    BY <2>1
  <2>3. m # 0 => Ids(m - 1)
    <3> SUFFICES ASSUME m # 0 PROVE Ids(m - 1)
      OBVIOUS
    <3>1. m - 1 \in 0..MaxDepth /\ m - 1 < m
      BY <1>1, <2>2
    <3> HIDE DEF Ids
    <3>. QED  BY <2>1, <3>1
  <2>4. Ids(m)
    BY <2>2, <2>3, OneNumbering
  <2>. QED  BY <2>2, <2>4
<1>. QED  BY <1>2

(* Flows of one structure give every step they reach the same id, however deep,
   also through a flow that is within itself. *)
THEOREM IdsFollow == Spec => []HashTellsIds
<1>1. ASSUME NodesTyped, NEW f \in Flows, NEW g \in Flows, Structure[<<f>>] = Structure[<<g>>]
      PROVE  Unrolled[MaxDepth][f] = Unrolled[MaxDepth][g]
  <2> DEFINE A == <<f>>
             B == <<g>>
  <2>1. /\ A \in Descents /\ B \in Descents /\ Len(A) = 1 /\ Len(B) = 1 /\ A[1] = f /\ B[1] = g
        /\ A \in Seq(Flows) /\ B \in Seq(Flows)
    BY DEF Descents
  <2>2. Structure[A] = Structure[B]
    BY <1>1
  <2> HIDE DEF A, B
  <2>3. SubSeq(A, 1, 1) = A /\ SubSeq(B, 1, 1) = B
    <3>1. 1 \in 0..Len(A) /\ 1 \in 0..Len(B)
      BY <2>1
    <3>. QED  BY <2>1, <3>1, CutFacts
  <2>4. \A n \in 1..Len(A) : n = 1
    BY <2>1
  <2>5. Agree(A, B)
    BY <2>1, <2>2, <2>3, <2>4 DEF Agree
  <2>6. MaxDepth \in 0..MaxDepth /\ End(A) = f /\ End(B) = g
    BY <2>1, CompositionAssumption DEF End
  <2>. QED  BY <1>1, <2>5, <2>6, OneIds
<1>2. Inv => HashTellsIds
  BY <1>1 DEF Inv, Built, HashTellsIds
<1>. QED  BY <1>2, Invariance, PTL
=============================================================================
