-------------------------------- MODULE Ratings --------------------------------
(* Facts, the ratings that several raters give them, and the marks of the pairs
   that training took: core/memory/rating, the memory and rating traits and
   cli/tools/rate.py over one database.

   Facts are numbered in the order of their creation.  A pass is one call of a
   rater: a method of RatingTrait or BatchRatingService, or one run of the rate
   tool.  Between two statements of a pass the other passes, the memory trait and
   the code that marks pairs may run: nothing locks a fact.                    *)
EXTENDS Pairing

CONSTANTS
  MaxFacts,    \* facts that are ever remembered (bound)
  KnownFacts,  \* facts there are at the start
  Passes,      \* calls of a rater (bound: each is made at most once)
  PassKinds,   \* PassKinds[p]: the raters that pass p may be, out of AllKinds
  Stars,       \* the scores a rater may give, out of 1..5
  Limits,      \* values of the callers' "limit"; Unset is no limit
  BatchSize,   \* facts in one call of the LLM, and in one fetch of the rate tool
  Providers,   \* enabled providers of the rating trait
  MaxEntries,  \* entries in one answer of the LLM to a batch (bound)
  Given,       \* facts that callers rate by their ids (bound)
  Forgettable, \* facts that may be forgotten (bound)
  MaxMarks,    \* pairs that are marked (bound)
  Length(_)    \* the length of a fact's content

AllKinds == {"unrated", "inline", "batch", "items", "service", "auto", "manual"}

ASSUME RatingConstants ==
  /\ MaxFacts \in Nat /\ KnownFacts \in 0..MaxFacts
  /\ Stars \subseteq 1..5 /\ Stars # {}
  /\ PassKinds \in [Passes -> SUBSET AllKinds]
  /\ BatchSize \in Nat \ {0} /\ Providers \in Nat
  /\ MaxEntries \in Nat /\ MaxMarks \in Nat /\ Limits \subseteq {Unset} \cup Nat

VARIABLES
  known,      \* facts remembered so far: 1..known
  forgotten,  \* those that were forgotten (active = false)
  oneRow,     \* whether the feedback table refuses a fact's second row
  rows,       \* rows[f]: the feedback rows of fact f, oldest first
  pass,       \* what each pass is doing
  yields,     \* yields[p]: the rated items a pass handed to its caller
  pairer      \* the code that marks pairs

vars == <<known, forgotten, oneRow, rows, pass, yields, pairer>>

Facts == 1..MaxFacts
NoFact == 0

NoPass == [kind |-> "none", at |-> "idle", todo |-> <<>>, asked |-> <<>>, results |-> <<>>,
           kept |-> 0, rated |-> 0, left |-> 0]

Reading == [at |-> "read", high |-> NoFact, low |-> NoFact]

Init ==
  /\ known = KnownFacts
  /\ forgotten = {}
  /\ oneRow \in BOOLEAN
  /\ rows = [f \in Facts |-> <<>>]
  /\ pass = [p \in Passes |-> NoPass]
  /\ yields = [p \in Passes |-> <<>>]
  /\ pairer = Reading

(* Memory ------------------------------------------------------------------ *)
(* remember() stores the fact before it embeds it: when the embedding fails the
   caller gets an error, and the fact is there all the same. *)
Remember ==
  /\ known < MaxFacts
  /\ known' = known + 1
  /\ UNCHANGED <<forgotten, oneRow, rows, pass, yields, pairer>>

Forget(f) ==
  /\ f \in ((1..known) \ forgotten) \cap Forgettable
  /\ forgotten' = forgotten \cup {f}
  /\ UNCHANGED <<known, oneRow, rows, pass, yields, pairer>>

(* The feedback table ------------------------------------------------------ *)
Unrated == {f \in (1..known) \ forgotten : rows[f] = <<>>}

(* BatchRatingService does not look at "active". *)
UnratedOf(kind) == IF kind = "service" THEN {f \in 1..known : rows[f] = <<>>} ELSE Unrated

InOrder(facts, last) == Only([f \in 1..last |-> f], facts)
Oldest(facts, limit) == Cut(InOrder(facts, MaxFacts), limit)

Latest(f) == rows[f][Len(rows[f])]
Rated == {f \in Facts : rows[f] # <<>>}

Insert(f, stars, p) ==
  rows' = [rows EXCEPT ![f] = Append(@, [stars |-> stars, by |-> p, mate |-> NoFact])]

(* AtomicFactsBackend inserts; BatchRatingService inserts unless there is a row,
   which needs the table to refuse a second one. *)
MayInsert(f) == ~oneRow \/ rows[f] = <<>>

(* Passes ------------------------------------------------------------------ *)
StartPass(p, kind, todo, left) ==
  /\ kind \in PassKinds[p]
  /\ pass[p].at = "idle"
  /\ pass' = [pass EXCEPT ![p] = [NoPass EXCEPT !.kind = kind, !.at = "next", !.todo = todo,
                                                !.left = left]]
  /\ UNCHANGED <<known, forgotten, oneRow, rows, yields, pairer>>

(* RatingTrait.rate_unrated, rate_batch and rate_batches list once. *)
RateUnrated(p, limit) == StartPass(p, "unrated", Oldest(Unrated, limit), 0)
RateBatch(p, limit) == StartPass(p, "batch", Oldest(Unrated, limit), 0)
RateBatches(p, limit) == StartPass(p, "service", Oldest(UnratedOf("service"), limit), 0)

(* One item for each provider. *)
RateInline(p, f) ==
  /\ f \in (1..known) \ forgotten
  /\ StartPass(p, "inline", [i \in 1..Providers |-> f], 0)

(* The caller's own items make one batch. *)
RateItems(p, facts) ==
  /\ facts \subseteq (1..known) \ forgotten
  /\ StartPass(p, "items", Oldest(facts, Unset), 0)

(* The rate tool counts the unrated facts once, and lists them again before
   every batch. *)
RateAuto(p, limit) ==
  LET count == Cardinality(Unrated)
  IN  StartPass(p, "auto", <<>>, IF limit = Unset THEN count ELSE Min({limit, count}))

RateByHand(p) == StartPass(p, "manual", <<>>, 0)

OneByOne == {"unrated", "inline", "auto", "manual"}
InBatches == {"batch", "items", "service"}

To(p, r) == pass' = [pass EXCEPT ![p] = r]

(* The next fact of a list that is rated one by one. *)
TakeFact(p) ==
  LET me == pass[p]
  IN  /\ me.at = "next" /\ me.kind \in OneByOne /\ me.todo # <<>>
      /\ To(p, [me EXCEPT !.at = "ask", !.asked = <<Head(me.todo)>>, !.todo = Tail(@)])
      /\ UNCHANGED <<known, forgotten, oneRow, rows, yields, pairer>>

Fetch_CountsRated(p) ==
  LET me    == pass[p]
      size  == IF me.kind = "auto" THEN Min({BatchSize, me.left}) ELSE 1
  IN  /\ me.at = "next" /\ me.kind \in {"auto", "manual"} /\ me.todo = <<>>
      /\ me.kind = "auto" => me.left > 0
      /\ Oldest(Unrated, size) # <<>>
      /\ To(p, [me EXCEPT !.todo = Oldest(Unrated, size)])
      /\ UNCHANGED <<known, forgotten, oneRow, rows, yields, pairer>>

(* The rate tool's next list: as many as are left, or one for the user. *)
Fetch(p) ==
  LET me    == pass[p]
      size  == IF me.kind = "auto" THEN Min({BatchSize, me.left}) ELSE 1
      facts == Oldest(Unrated, size)
  IN  /\ me.at = "next" /\ me.kind \in {"auto", "manual"} /\ me.todo = <<>>
      /\ me.kind = "auto" => me.left > 0
      /\ facts # <<>>
      /\ To(p, [me EXCEPT !.todo = facts,
                          !.left = IF me.kind = "auto" THEN @ - Len(facts) ELSE @])
      /\ UNCHANGED <<known, forgotten, oneRow, rows, yields, pairer>>

TakeBatch(p) ==
  LET me   == pass[p]
      size == IF me.kind = "items" THEN Len(me.todo) ELSE Min({BatchSize, Len(me.todo)})
  IN  /\ me.at = "next" /\ me.kind \in InBatches /\ me.todo # <<>>
      /\ To(p, [me EXCEPT !.at = "ask", !.asked = SubSeq(me.todo, 1, size),
                          !.todo = SubSeq(me.todo, size + 1, Len(me.todo))])
      /\ UNCHANGED <<known, forgotten, oneRow, rows, yields, pairer>>

NothingLeft(me) ==
  /\ me.todo = <<>>
  /\ \/ me.kind \notin {"auto", "manual"}
     \/ Unrated = {}
     \/ me.kind = "auto" /\ me.left = 0

Finish(p) ==
  /\ pass[p].at = "next" /\ NothingLeft(pass[p])
  /\ To(p, [pass[p] EXCEPT !.at = "done"])
  /\ UNCHANGED <<known, forgotten, oneRow, rows, yields, pairer>>

(* Answers ----------------------------------------------------------------- *)
Results(p, results) ==
  /\ To(p, [pass[p] EXCEPT !.at = "save", !.results = results])
  /\ UNCHANGED <<known, forgotten, oneRow, rows, yields, pairer>>

(* The LLM's rating of one fact, or the user's; an answer that does not parse
   counts as a neutral one. *)
RateOne(p, stars) ==
  /\ pass[p].at = "ask" /\ pass[p].kind \in OneByOne
  /\ Results(p, <<[fact |-> Head(pass[p].asked), stars |-> stars]>>)

(* A user skips a fact, which is then the next one again, or leaves. *)
Skip(p) ==
  /\ pass[p].at = "ask" /\ pass[p].kind = "manual"
  /\ To(p, [pass[p] EXCEPT !.at = "next", !.asked = <<>>])
  /\ UNCHANGED <<known, forgotten, oneRow, rows, yields, pairer>>

Leave(p) ==
  /\ pass[p].at = "ask" /\ pass[p].kind = "manual"
  /\ To(p, [pass[p] EXCEPT !.at = "done", !.asked = <<>>])
  /\ UNCHANGED <<known, forgotten, oneRow, rows, yields, pairer>>

(* An entry of the answer to a batch: a fact that was asked about or another,
   and a score or something that is none. *)
Entries(asked) == [fact : Range(asked) \cup {NoFact}, stars : Stars \cup {NoFact}]

ValidEntries(asked) == [fact : Range(asked), stars : Stars]

KeepFirst_All(kept, e) == Append(kept, e)

KeepFirst(kept, e) ==
  IF \E i \in DOMAIN kept : kept[i].fact = e.fact THEN kept ELSE Append(kept, e)

ParseBatch(answer, asked) ==
  FoldLeft(KeepFirst, <<>>, Only(answer, ValidEntries(asked)))

RateMany(p, answer) ==
  /\ pass[p].at = "ask" /\ pass[p].kind \in InBatches
  /\ Results(p, ParseBatch(answer, pass[p].asked))

(* The end of a fact or of a batch: of what was asked about, "rated" count as
   rated and the others as failed. *)
Counted(me, rated) ==
  [me EXCEPT !.at = "next", !.asked = <<>>, !.results = <<>>, !.kept = 0,
             !.rated = @ + rated]

(* The call of the LLM raises. *)
RateFails(p) ==
  /\ pass[p].at = "ask" /\ pass[p].kind # "manual"
  /\ To(p, Counted(pass[p], 0))
  /\ UNCHANGED <<known, forgotten, oneRow, rows, yields, pairer>>

(* Saves ------------------------------------------------------------------- *)
Saving(p) == pass[p].at = "save" /\ pass[p].results # <<>>

KeptOne(me) == [me EXCEPT !.results = Tail(@), !.kept = @ + 1]

(* The rating trait and the rate tool save the results in turn. *)
Save(p) ==
  LET r == Head(pass[p].results)
  IN  /\ Saving(p) /\ pass[p].kind # "service" /\ MayInsert(r.fact)
      /\ Insert(r.fact, r.stars, p)
      /\ To(p, KeptOne(pass[p]))
      /\ UNCHANGED <<known, forgotten, oneRow, yields, pairer>>

(* The first save that fails drops the results after it and fails the whole
   batch, whatever it saved before; it ends a run of the tool by hand. *)
SaveFails(p) ==
  /\ Saving(p) /\ pass[p].kind # "service"
  /\ To(p, [Counted(pass[p], 0) EXCEPT !.at = IF pass[p].kind = "manual" THEN "gone" ELSE @])
  /\ UNCHANGED <<known, forgotten, oneRow, rows, yields, pairer>>

(* The batch service goes on after a save that fails.  A row that is there
   already is left alone and counts as saved. *)
Item(f, stars) == [id |-> f, score |-> stars, len |-> Length(f)]

ServiceSaves(p) ==
  LET r == Head(pass[p].results)
  IN  /\ Saving(p) /\ pass[p].kind = "service" /\ oneRow
      /\ IF rows[r.fact] = <<>> THEN Insert(r.fact, r.stars, p) ELSE UNCHANGED rows
      /\ yields' = [yields EXCEPT ![p] = Append(@, Item(r.fact, r.stars))]
      /\ To(p, KeptOne(pass[p]))
      /\ UNCHANGED <<known, forgotten, oneRow, pairer>>

ServiceSaveFails(p) ==
  /\ Saving(p) /\ pass[p].kind = "service"
  /\ To(p, [pass[p] EXCEPT !.results = Tail(@)])
  /\ UNCHANGED <<known, forgotten, oneRow, rows, yields, pairer>>

Saved(p) ==
  /\ pass[p].at = "save" /\ pass[p].results = <<>>
  /\ To(p, Counted(pass[p], pass[p].kept))
  /\ UNCHANGED <<known, forgotten, oneRow, rows, yields, pairer>>

(* Pairs ------------------------------------------------------------------- *)
Unpaired_Any(scores) == {f \in Rated \ forgotten : Latest(f).stars \in scores}

(* Only the latest rating of a fact counts, and whether that one is paired. *)
Unpaired(scores) ==
  {f \in Rated \ forgotten : Latest(f).stars \in scores /\ Latest(f).mate = NoFact}

Marks == Cardinality({m \in Facts \X (1..Cardinality(Passes) * Max({1, Providers})) :
                        /\ m[2] \in DOMAIN rows[m[1]]
                        /\ rows[m[1]][m[2]].mate # NoFact})

PickHigh(scores) ==
  /\ pairer.at = "read" /\ Marks < 2 * MaxMarks /\ Unpaired(scores) # {}
  /\ pairer' = [pairer EXCEPT !.at = "high", !.high = Min(Unpaired(scores))]
  /\ UNCHANGED <<known, forgotten, oneRow, rows, pass, yields>>

PickLow(scores) ==
  LET facts == Unpaired(scores) \ {pairer.high}
  IN  /\ pairer.at = "high" /\ facts # {}
      /\ pairer' = [pairer EXCEPT !.at = "low", !.low = Min(facts)]
      /\ UNCHANGED <<known, forgotten, oneRow, rows, pass, yields>>

MarkFactsPaired ==
  LET mark(f, g) == [rows[f] EXCEPT ![Len(rows[f])].mate = g]
  IN  /\ pairer.at = "low"
      /\ rows' = [rows EXCEPT ![pairer.high] = mark(pairer.high, pairer.low),
                              ![pairer.low] = mark(pairer.low, pairer.high)]
      /\ pairer' = Reading
      /\ UNCHANGED <<known, forgotten, oneRow, pass, yields>>

GiveUp ==
  /\ pairer.at = "high"
  /\ pairer' = Reading
  /\ UNCHANGED <<known, forgotten, oneRow, rows, pass, yields>>

(* Next -------------------------------------------------------------------- *)
Starts(p) ==
  \/ \E l \in Limits : \/ RateUnrated(p, l) \/ RateBatch(p, l)
                        \/ RateBatches(p, l) \/ RateAuto(p, l)
  \/ \E f \in Given : RateInline(p, f)
  \/ \E s \in SUBSET Given : RateItems(p, s)
  \/ RateByHand(p)

Works(p) ==
  \/ TakeFact(p) \/ Fetch(p) \/ TakeBatch(p) \/ Finish(p)
  \/ RateFails(p) \/ \E s \in Stars : RateOne(p, s)
  \/ \E a \in BoundedSeq(Entries(pass[p].asked), MaxEntries) : RateMany(p, a)
  \/ Save(p) \/ SaveFails(p)
  \/ ServiceSaves(p) \/ ServiceSaveFails(p) \/ Saved(p)

Pairs ==
  \/ PickHigh(Stars \cap 4..5) \/ PickLow(Stars \cap 1..2)
  \/ MarkFactsPaired \/ GiveUp

Next ==
  \/ Remember \/ \E f \in Facts : Forget(f)
  \/ \E p \in Passes : Starts(p) \/ Works(p) \/ Skip(p) \/ Leave(p)
  \/ Pairs

(* A pass is a loop of one thread, and its calls return or raise. *)
Spec == Init /\ [][Next]_vars /\ \A p \in Passes : WF_vars(Works(p))

(* Properties -------------------------------------------------------------- *)
RowsBy(p, f) == {i \in DOMAIN rows[f] : rows[f][i].by = p}

SavedBy(p) == Cardinality(UNION {{f} \X RowsBy(p, f) : f \in Facts})

(* A pass never rates a fact twice, though the LLM repeats itself and a fact
   that fails is listed again, save inline, where each provider rates it once;
   it never counts more facts as rated than it saved ratings, or found saved;
   and what it hands out is rated. *)
CountsAreTrue ==
  \A p \in Passes :
    LET me == pass[p]
    IN  /\ \A f \in Facts :
             Cardinality(RowsBy(p, f)) <= IF me.kind = "inline" THEN Providers ELSE 1
        /\ me.kind # "service" => me.rated + me.kept <= SavedBy(p)
        /\ me.kind = "service" => /\ me.rated + me.kept = Len(yields[p])
                                  /\ \A i \in DOMAIN yields[p] : yields[p][i].id \in Rated

(* A rating that training took a pair from keeps its pair: a second pair never
   writes over the mark of the first, though facts are rated again while the
   pair is chosen. *)
PairedOnce ==
  [][\A f \in Facts : \A i \in DOMAIN rows[f] :
       rows[f][i].mate # NoFact => rows'[f][i].mate = rows[f][i].mate]_vars

(* Every automated pass ends, though the LLM fails on the same fact for ever and
   others rate or forget what it listed. *)
PassesEnd ==
  \A p \in Passes :
    (pass[p].at # "idle" /\ pass[p].kind # "manual") ~> (pass[p].at = "done")
================================================================================
