-------------------------------- MODULE Pricing --------------------------------
(***************************************************************************)
(* What an event costs (core/cost/pricing.py, core/cost/llm): the rule of  *)
(* the rate card its name is billed by, and the sum over its tokens.  An   *)
(* event is priced in stages that no other event sees.                     *)
(*                                                                         *)
(* A name is a sequence of characters.  Rates are integers per token and   *)
(* the Anthropic multipliers hundredths, so amounts are hundredths too;    *)
(* the rounding of floats is left out.                                     *)
(***************************************************************************)
EXTENDS Integers, FiniteSets, SequencesExt

CONSTANTS
  Models,      \* names of models, as a response gives them
  Publishers,  \* what a response may put before a name, a slash at the end
  Default,     \* the key "default"
  Cards,       \* rate cards: what they have keys for
  Rules,       \* what a key may be billed by
  Boundaries,  \* _BOUNDARY_CHARS
  WriteMult, ReadMult,  \* the Anthropic multipliers
  MaxTokens,   \* bound: tokens of a kind
  NoRule

ASSUME PricingConstants ==
  /\ \A name \in Models \cup Publishers : name \in Seq(Range(name)) /\ name # <<>>
  /\ \A name \in Models : ~Contains(name, "/")
  /\ \A p \in Publishers : SelectInSeq(p, LAMBDA c : c = "/") = Len(p)
  /\ \A card \in Cards : card \subseteq Models \cup {Default}
  /\ Default \notin Models
  /\ NoRule \notin Nat
  /\ Rules \subseteq [kind : {"llm"}, input : Nat, output : Nat, cached : Nat \cup {NoRule}]
                       \cup [kind : {"fixed"}, unit : Nat]
  /\ WriteMult \in Nat /\ ReadMult \in Nat /\ MaxTokens \in Nat

VARIABLE event  \* of CostTracker.track: the event that is priced

NoEvent == [at |-> "none"]

PricingInit == event = NoEvent

-----------------------------------------------------------------------------
(* Names *)

(* name.split("/", 1)[1] *)
Bare(name) ==
  IF Contains(name, "/") THEN SubSeq(name, SelectInSeq(name, LAMBDA c : c = "/") + 1, Len(name))
  ELSE name

Longest(keys) == CHOOSE k \in keys : \A j \in keys : Len(j) <= Len(k)

(* An exact match, the longest of the keys that fit, the default. *)
Lookup(card, name, fitting) ==
  IF name \in card THEN name
  ELSE IF fitting # {} THEN Longest(fitting)
  ELSE IF Default \in card THEN Default ELSE NoRule

(* A key of the plain card is any prefix; one of the provider's ends a word. *)
GetRule(card, name) == Lookup(card, name, {k \in card \ {Default} : IsPrefix(k, name)})

EndsWord_Anywhere(key, name) == IsPrefix(key, name)
EndsWord(key, name) ==
  IsPrefix(key, name) /\ (Len(key) < Len(name) => name[Len(key) + 1] \in Boundaries)
FindRule(card, name) ==
  Lookup(card, Bare(name), {k \in card \ {Default} : EndsWord(k, Bare(name))})

-----------------------------------------------------------------------------
(* Amounts.  A rule has rates for input and output, and for cached input or
   None; a fixed one has a cost per use. *)

Hundredths(n) == 100 * n
Lower(m, n) == IF m < n THEN m ELSE n

(* LLMOp.cost: cached tokens are part of the input. *)
OpCost_CachedTwice(rule, input, output, cached) ==
  Hundredths(input * rule.input + output * rule.output
             + (IF rule.cached = NoRule THEN 0 ELSE Lower(cached, input) * rule.cached))
OpCost(rule, input, output, cached) ==
  LET billable == IF rule.cached = NoRule THEN 0 ELSE Lower(cached, input) IN
  Hundredths((input - billable) * rule.input
             + (IF rule.cached = NoRule THEN 0 ELSE billable * rule.cached)
             + output * rule.output)

(* _compute_anthropic: cached tokens come beside the input. *)
ReadRate(rule) ==
  IF rule.cached # NoRule THEN Hundredths(rule.cached) ELSE rule.input * ReadMult
AnthropicCost(rule, input, output, read, write) ==
  Hundredths(input * rule.input) + read * ReadRate(rule)
    + write * rule.input * WriteMult + Hundredths(output * rule.output)

(* _compute_gemini *)
GeminiCost(rule, input, output) == Hundredths(input * rule.input + output * rule.output)

(* A response says how many tokens it took.  The count of its input has the
   cached ones in it, but not Anthropic's, whose fields for them are its own;
   no other provider counts what it writes to its cache. *)
Served == [fresh : 0..MaxTokens, read : 0..MaxTokens, write : 0..MaxTokens, out : 0..MaxTokens]
Providers == {"anthropic", "openai", "google"}
InputTokens(provider, served) ==
  IF provider = "anthropic" THEN served.fresh ELSE served.fresh + served.read
ReadTokens(provider, served, inUsage) ==
  IF provider = "google" /\ inUsage THEN 0 ELSE served.read

(* _detect_provider: an untagged response with Anthropic's fields is one. *)
Detected(provider, tagged, inUsage) ==
  IF tagged \/ (provider = "anthropic" /\ inUsage) THEN provider ELSE "openai"

(* The counts are in the response's usage, or the caller gives them. *)
LLMCost(rule, provider, tagged, inUsage, served) ==
  LET input == InputTokens(provider, served)
      read == ReadTokens(provider, served, inUsage)
      as == Detected(provider, tagged, inUsage)
  IN CASE as = "anthropic" -> AnthropicCost(rule, input, served.out, read, served.write)
       [] as = "google" -> GeminiCost(rule, input, served.out)
       [] as = "openai" -> OpCost(rule, input, served.out, read)

-----------------------------------------------------------------------------
(* compute, of PricingConfig and of LLMPricingProvider *)

Track(card, publisher, name) ==
  event' = [at |-> "asked", card |-> card, publisher |-> publisher, name |-> name]

(* provider_cost, or what the response says it cost: no rule is asked. *)
Given == event.at = "asked" /\ event' = [at |-> "given"]

(* PricingConfig: on an unknown name an event costs nothing. *)
ConfigFinds ==
  /\ event.at = "asked"
  /\ event' = [at |-> "found", by |-> "config", card |-> event.card, name |-> event.publisher \o event.name,
               key |-> GetRule(event.card, event.publisher \o event.name)]

(* LLMPricingProvider: it raises, or with OnMissing.ZERO costs nothing. *)
ProviderFinds ==
  /\ event.at = "asked"
  /\ event' = [at |-> "found", by |-> "provider", card |-> event.card, name |-> event.name,
               key |-> FindRule(event.card, event.publisher \o event.name)]

Missing == event.at = "found" /\ event.key = NoRule /\ event' = [at |-> "missing"]

(* FixedOp.cost *)
CountUses(rule, uses) ==
  /\ event.at = "found" /\ event.key # NoRule /\ rule.kind = "fixed"
  /\ event' = [at |-> "counted", cost |-> Hundredths(rule.unit * uses)]

(* With no response the caller's counts go to LLMOp.cost. *)
PriceCounts(rule, served) ==
  /\ event.at = "found" /\ event.key # NoRule /\ rule.kind = "llm"
  /\ served.write = 0
  /\ event' = [at |-> "priced", rule |-> rule, served |-> served, provider |-> "openai",
               cost |-> OpCost(rule, served.fresh + served.read, served.out, served.read)]

PriceResponse(rule, provider, tagged, inUsage, served) ==
  /\ event.at = "found" /\ event.by = "provider" /\ event.key # NoRule /\ rule.kind = "llm"
  /\ provider # "anthropic" => served.write = 0
  /\ tagged \/ inUsage
  /\ event' = [at |-> "priced", rule |-> rule, served |-> served, provider |-> provider,
               cost |-> LLMCost(rule, provider, tagged, inUsage, served)]

Recorded == event.at \in {"given", "missing", "counted", "priced"} /\ event' = NoEvent

PricingNext ==
  \/ event = NoEvent /\ \E card \in Cards, name \in Models, p \in Publishers \cup {<<>>} :
                          Track(card, p, name)
  \/ Given \/ ConfigFinds \/ ProviderFinds \/ Missing
  \/ \E rule \in Rules :
       \/ \E uses \in 0..MaxTokens : CountUses(rule, uses)
       \/ \E served \in Served :
            \/ PriceCounts(rule, served)
            \/ \E provider \in Providers, tagged, inUsage \in BOOLEAN :
                 PriceResponse(rule, provider, tagged, inUsage, served)
  \/ Recorded

PricingSpec == PricingInit /\ [][PricingNext]_event

-----------------------------------------------------------------------------
(* Properties *)

(* A model is billed by the rule of the most words of its name, whoever
   published it, by the default only if no rule is its own, and a part of a
   word is nobody's rule: "a grok-3 key no longer silently matches a call for
   grok-30".  A word has the mark it is set off by. *)
Words(name) ==
  FoldLeft(LAMBDA words, c : IF c \in Boundaries THEN Append(words, <<c>>)
                             ELSE [words EXCEPT ![Len(words)] = Append(@, c)],
           <<<<>>>>, name)

RuleIsOwn ==
  event.at = "found" /\ event.by = "provider" =>
    LET theirs == {k \in event.card \ {Default} : IsPrefix(Words(k), Words(event.name))} IN
    IF theirs = {} THEN event.key = (IF Default \in event.card THEN Default ELSE NoRule)
    ELSE event.key \in theirs /\ \A k \in theirs : Len(Words(k)) <= Len(Words(event.key))

(* Every token that was served is billed once, at the rate of its kind:
   whatever the provider counts as input, whether its response is tagged, and
   whether the counts are the response's or the caller's. *)
RateOfReads(rule, provider) ==
  IF provider = "google" THEN Hundredths(rule.input)
  ELSE IF rule.cached # NoRule THEN Hundredths(rule.cached)
  ELSE IF provider = "anthropic" THEN rule.input * ReadMult ELSE Hundredths(rule.input)

BilledOnce ==
  event.at = "priced" =>
    LET rule == event.rule
        served == event.served
    IN event.cost = served.fresh * Hundredths(rule.input)
                      + served.read * RateOfReads(rule, event.provider)
                      + served.write * (rule.input * WriteMult)
                      + served.out * Hundredths(rule.output)
=============================================================================
