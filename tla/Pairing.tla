-------------------------------- MODULE Pairing --------------------------------
(* The preference pairs that training takes from star ratings
   (core/training/pairing).  Nothing here has state: a list of rated items and
   the caller's parameters give a list of pairs.  An item is its id, its score
   and the length of its content; a filter on stars is the set it matches.   *)
EXTENDS Integers, Sequences, FiniteSets, SequencesExt

(* "max_pairs", "min_pairs" or an epsilon that the caller leaves out. *)
Unset == -1

Valid(p) ==
  /\ p.margin >= 1
  /\ p.least = Unset \/ p.least >= 0
  /\ p.most = Unset \/ p.most >= 0
  /\ (p.least # Unset /\ p.most # Unset) => p.least <= p.most

Cut(pairs, most) ==
  IF most # Unset /\ Len(pairs) > most THEN SubSeq(pairs, 1, most) ELSE pairs

(* The members of a list that are in a set, in their order. *)
Only(s, S) == FoldLeft(LAMBDA kept, x : IF x \in S THEN Append(kept, x) ELSE kept, <<>>, s)

(* Pools ------------------------------------------------------------------ *)
Scores(items) == {items[i].score : i \in DOMAIN items}

(* Items by their scores, upwards or downwards, and those of one score by id. *)
Before(x, y, way) == x.score * way < y.score * way \/ (x.score = y.score /\ x.id < y.id)
Placed(sorted, x, way) ==
  InsertAt(sorted, 1 + Cardinality({i \in DOMAIN sorted : Before(sorted[i], x, way)}), x)
Sorted(items, way) ==
  FoldLeft(LAMBDA sorted, x : Placed(sorted, x, way), <<>>, items)

ChosenPool(items, p) ==
  Sorted(Only(items, {x \in Range(items) : /\ Min(Scores(items)) <= x.score - p.margin
                                           /\ x.score \in p.chosenOk}), -1)

RejectedPool(items, p) ==
  Sorted(Only(items, {x \in Range(items) : /\ Max(Scores(items)) >= x.score + p.margin
                                           /\ x.score \in p.rejectedOk}), 1)

(* One pass --------------------------------------------------------------- *)
Distance(x, y) == IF x.len > y.len THEN x.len - y.len ELSE y.len - x.len

Fits(chosen, rejected, used, p, epsilon) ==
  /\ chosen.score - rejected.score >= p.margin
  /\ chosen.id # rejected.id
  /\ ~(p.noReuse /\ chosen.id \in used)
  /\ epsilon = Unset \/ Distance(chosen, rejected) <= epsilon

(* The steps from "start", round the pool, to the places of the items that fit. *)
Offsets(rejected, pool, used, p, start, epsilon) ==
  {o \in 0..(Len(pool) - 1) :
     Fits(pool[((start + o) % Len(pool)) + 1], rejected, used, p, epsilon)}

TakeChosen(pass, rejected, pool, target, p, epsilon) ==
  LET offsets == Offsets(rejected, pool, pass.used, p, pass.at, epsilon)
      place   == (pass.at + Min(offsets)) % Len(pool)
      chosen  == pool[place + 1]
  IN  IF Len(pass.pairs) >= target \/ offsets = {} THEN pass
      ELSE [pairs |-> Append(pass.pairs, [chosen |-> chosen, rejected |-> rejected]),
            used  |-> IF p.noReuse THEN pass.used \cup {chosen.id} ELSE pass.used,
            at    |-> (place + 1) % Len(pool)]

SinglePass(chosenPool, rejectedPool, target, used, p, epsilon) ==
  FoldLeft(LAMBDA pass, r : TakeChosen(pass, r, chosenPool, target, p, epsilon),
           [pairs |-> <<>>, used |-> used, at |-> 0], rejectedPool).pairs

(* Several passes, each with a looser bound on the difference in length ---- *)
UsedRejected(pairs) == {pairs[i].rejected.id : i \in DOMAIN pairs}
UsedChosen(pairs, p) == IF p.noReuse THEN {pairs[i].chosen.id : i \in DOMAIN pairs} ELSE {}

NextPass_ForgetsRejected(pairs, chosenPool, rejectedPool, target, p, epsilon) ==
  IF Len(pairs) >= target THEN pairs
  ELSE pairs \o SinglePass(chosenPool, rejectedPool, target - Len(pairs),
                           UsedChosen(pairs, p), p, epsilon)

NextPass(pairs, chosenPool, rejectedPool, target, p, epsilon) ==
  LET used     == UsedChosen(pairs, p)
      chosen   == Only(chosenPool, {c \in Range(chosenPool) : c.id \notin used \/ ~p.noReuse})
      rejected == Only(rejectedPool,
                       {r \in Range(rejectedPool) : r.id \notin UsedRejected(pairs)})
  IN  IF Len(pairs) >= target \/ chosen = <<>> \/ rejected = <<>> THEN pairs
      ELSE pairs \o SinglePass(chosen, rejected, target - Len(pairs), used, p, epsilon)

MultiPass(chosenPool, rejectedPool, target, p) ==
  FoldLeft(LAMBDA pairs, e : NextPass(pairs, chosenPool, rejectedPool, target, p, e),
           <<>>, p.epsilons)

(* "epsilons" is empty when the caller gives no list. *)
Target(chosenPool, p) == IF p.least # Unset THEN p.least ELSE Len(chosenPool)

GeneratePairs(chosenPool, rejectedPool, p) ==
  LET target == Target(chosenPool, p)
  IN  IF p.epsilons = <<>> THEN SinglePass(chosenPool, rejectedPool, target, {}, p, Unset)
      ELSE MultiPass(chosenPool, rejectedPool, target, p)

PairByMargin(items, p) ==
  LET chosen   == ChosenPool(items, p)
      rejected == RejectedPool(items, p)
  IN  IF items = <<>> \/ chosen = <<>> \/ rejected = <<>> THEN <<>>
      ELSE Cut(GeneratePairs(chosen, rejected, p), p.most)

PairByThreshold(items, high, low, most) ==
  LET chosen   == Only(items, {x \in Range(items) : x.score >= high})
      ids      == {chosen[i].id : i \in DOMAIN chosen}
      rejected == Only(items, {x \in Range(items) : x.score <= low /\ x.id \notin ids})
      n        == Min({Len(chosen), Len(rejected)})
  IN  Cut([i \in 1..n |-> [chosen |-> chosen[i], rejected |-> rejected[i]]], most)

(* What the pairs promise -------------------------------------------------- *)
Bounds(p) == IF p.epsilons = <<>> THEN {Unset} ELSE Range(p.epsilons)

(* Every pair keeps the margin and some pass's bound on length, no rejected
   item is used twice, and with "no_reuse" no chosen item is either. *)
Respects(pairs, p) ==
  /\ \A i \in DOMAIN pairs :
       \E e \in Bounds(p) : Fits(pairs[i].chosen, pairs[i].rejected, {}, p, e)
  /\ \A i, j \in DOMAIN pairs : i # j =>
       /\ pairs[i].rejected.id # pairs[j].rejected.id
       /\ p.noReuse => pairs[i].chosen.id # pairs[j].chosen.id

(* A result short of its target leaves nothing out: no item of the rejected
   pool that is not in a pair could be given a chosen item that is free. *)
Exhausts(pairs, items, p) ==
  LET chosen   == Range(ChosenPool(items, p))
      rejected == {r \in Range(RejectedPool(items, p)) : r.id \notin UsedRejected(pairs)}
  IN  \/ items = <<>> \/ Len(pairs) >= Target(ChosenPool(items, p), p)
      \/ p.most # Unset /\ Len(pairs) = p.most
      \/ \A c \in chosen, r \in rejected, e \in Bounds(p) :
           ~Fits(c, r, UsedChosen(pairs, p), p, e)

(* The longest list the parameters allow. *)
Bounded(pairs, items, p) ==
  Len(pairs) <= (IF items = <<>> THEN 0 ELSE Target(ChosenPool(items, p), p))
================================================================================
