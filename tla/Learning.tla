-------------------------------- MODULE Learning --------------------------------
(* Ratings, and the training data made of them: the caller of pair_by_margin or
   pair_by_threshold (an agent's data provider, outside this repository) brings
   a list of rated items and its parameters, and takes the pairs.           *)
EXTENDS Ratings

CONSTANTS
  Parameters,  \* the parameters a caller may give (bound)
  Trained,     \* the facts it may bring are 1..Trained (bound)
  Scored       \* and their scores (bound)

ASSUME LearningConstants ==
  /\ Trained \in Nat
  /\ \A p \in Parameters : /\ p.least \in Int /\ p.most \in Int /\ p.noReuse \in BOOLEAN
                          /\ p.epsilons \in Seq(Int)

VARIABLE trainer  \* the call that is being made, and the pairs it returned

learnVars == <<vars, trainer>>

Resting == [at |-> "rest", items |-> <<>>, how |-> <<>>, pairs |-> <<>>]

(* A rated item for each fact of the domain of "scores". *)
ItemsOf(scores) ==
  LET s == InOrder(DOMAIN scores, Trained)
  IN  [i \in DOMAIN s |-> Item(s[i], scores[s[i]])]

(* A call is made of the caller's arguments alone, so it need not interleave
   with the passes: it is made while none has started (bound). *)
Quiet == /\ \A p \in Passes : pass[p].at = "idle"
         /\ known = KnownFacts /\ forgotten = {} /\ ~oneRow

Call(at, items, how, pairs) ==
  trainer' = [at |-> at, items |-> items, how |-> how, pairs |-> pairs]

PairMargin(items, how) ==
  Valid(how) /\ Call("margin", items, how, PairByMargin(items, how))

PairThreshold(items, high, low, most) ==
  high > low /\ Call("threshold", items, <<high, low, most>>, PairByThreshold(items, high, low, most))

Train ==
  /\ trainer = Resting /\ Quiet
  /\ \E facts \in SUBSET (1..Trained) : \E scores \in [facts -> Scored] :
       \/ \E how \in Parameters : PairMargin(ItemsOf(scores), how)
       \/ \E high, low \in Scored, most \in {Unset, 1} :
            PairThreshold(ItemsOf(scores), high, low, most)
  /\ UNCHANGED vars

Return == trainer # Resting /\ trainer' = Resting /\ UNCHANGED vars

LearnInit == Init /\ trainer = Resting

LearnNext ==
  \/ trainer = Resting /\ Next /\ UNCHANGED trainer
  \/ Train
  \/ Return

LearnSpec ==
  /\ LearnInit /\ [][LearnNext]_learnVars
  /\ WF_learnVars(Return)
  /\ \A p \in Passes : WF_learnVars(trainer = Resting /\ Works(p) /\ UNCHANGED trainer)

(* Training never learns from a pair that breaks its caller's terms, nor leaves
   out one that it could have made: pairs keep the margin and a bound on the
   difference in length, use an item as often as the caller allows, and fall
   short of the target only when nothing that is free fits. *)
PairsAreSound ==
  trainer.at = "margin" =>
    /\ Respects(trainer.pairs, trainer.how)
    /\ Exhausts(trainer.pairs, trainer.items, trainer.how)
    /\ Bounded(trainer.pairs, trainer.items, trainer.how)
================================================================================
