----------------------------- MODULE AgentsProofs -----------------------------
(* The agents' side: what hosts them, and what is learned from their ratings.

   The runtime core, the platform and an agent keep what they promise, for every
   set of names, kit of traits and list of tools, and so does what composes them:
   HostSpec => [](HooksMatchRegistry /\ EachOwned /\ OwnTools /\ HeldIffRunning).

   Rating and training, for every number of facts, passes and providers, every
   caller's parameters and every answer of the LLM: what a pass counts it has
   saved and it rates no fact twice (CountsAreTrue), a pair's mark is never
   written over (PairedOnce), and the pairs of pair_by_margin keep their caller's
   terms (PairsAreSound).  The first rests on RatingInv: what a pass is still to
   rate or to save is apart from what it has seen, and what the batch service
   hands out is in the table.  The last follows each fold of the algorithm step
   by step: sorting, one pass round the chosen pool, and the passes with looser
   bounds. *)
EXTENDS Hosting, Learning, FiniteSetTheorems, SequenceTheorems, WellFoundedInduction, TLAPS

(* Sequences ------------------------------------------------------------- *)
Distinct(s) == \A i, j \in DOMAIN s : s[i] = s[j] => i = j

(* A list is its head and the rest of it. *)
LEMMA HeadAndRest ==
  ASSUME NEW S, NEW s \in Seq(S), s # <<>>
  PROVE  /\ Head(s) \in S /\ Head(s) \in ToSet(s) /\ Tail(s) \in Seq(S)
         /\ ToSet(s) = {Head(s)} \cup ToSet(Tail(s))
<1>1. /\ Head(s) = s[1] /\ Tail(s) \in Seq(S) /\ Len(Tail(s)) = Len(s) - 1
      /\ \A i \in 1..Len(Tail(s)) : Tail(s)[i] = s[i + 1]
  OBVIOUS
<1>2. 1 \in DOMAIN s /\ Len(s) \in Nat /\ s[1] \in S
  OBVIOUS
<1>3. ASSUME NEW i \in DOMAIN s PROVE s[i] \in {Head(s)} \cup ToSet(Tail(s))
  <2>1. CASE i = 1 BY <1>1, <2>1
  <2>2. CASE i # 1
    <3>1. i - 1 \in 1..Len(Tail(s)) BY <1>1, <2>2
    <3>2. Tail(s)[i - 1] = s[i] BY <1>1, <3>1
    <3>3. i - 1 \in DOMAIN Tail(s) BY <1>1, <3>1
    <3> QED BY <3>2, <3>3 DEF ToSet
  <2> QED BY <2>1, <2>2
<1>4. ASSUME NEW i \in DOMAIN Tail(s) PROVE Tail(s)[i] \in ToSet(s)
  <2>1. i + 1 \in DOMAIN s /\ Tail(s)[i] = s[i + 1] BY <1>1
  <2> QED BY <2>1 DEF ToSet
<1> QED BY <1>1, <1>2, <1>3, <1>4 DEF ToSet

LEMMA SetOfSeq ==
  ASSUME NEW S, NEW s \in Seq(S)
  PROVE  ToSet(s) \subseteq S
BY DEF ToSet

(* An appended element. *)
LEMMA OneMore ==
  ASSUME NEW S, NEW s \in Seq(S), NEW x \in S
  PROVE  /\ Append(s, x) \in Seq(S) /\ ToSet(Append(s, x)) = ToSet(s) \cup {x}
         /\ Distinct(s) /\ x \notin ToSet(s) => Distinct(Append(s, x))
<1> DEFINE t == Append(s, x)
<1>1. /\ t \in Seq(S) /\ Len(t) = Len(s) + 1 /\ Len(s) \in Nat
      /\ \A i \in 1..Len(s) : t[i] = s[i]
      /\ t[Len(s) + 1] = x
  OBVIOUS
<1> HIDE DEF t
<1>2. DOMAIN s = 1..Len(s) /\ DOMAIN t = 1..(Len(s) + 1) BY <1>1
<1>3. ToSet(t) = ToSet(s) \cup {x}
  <2>1. ASSUME NEW i \in DOMAIN t PROVE t[i] \in ToSet(s) \cup {x}
    BY <1>1, <1>2 DEF ToSet
  <2>2. ASSUME NEW i \in DOMAIN s PROVE s[i] \in ToSet(t)
    <3>1. i \in DOMAIN t /\ t[i] = s[i] BY <1>1, <1>2
    <3> QED BY <3>1 DEF ToSet
  <2>3. x \in ToSet(t)
    <3>1. Len(s) + 1 \in DOMAIN t BY <1>1, <1>2
    <3> QED BY <1>1, <3>1 DEF ToSet
  <2> QED BY <2>1, <2>2, <2>3 DEF ToSet
<1>4. ASSUME Distinct(s), x \notin ToSet(s) PROVE Distinct(t)
  <2>1. \A i \in DOMAIN s : s[i] # x BY <1>4 DEF ToSet
  <2> QED BY <1>1, <1>2, <1>4, <2>1 DEF Distinct
<1> QED BY <1>1, <1>3, <1>4 DEF t

(* The least of a set of positions, which a search for an element finds. *)
LEMMA MinOf ==
  ASSUME NEW T \in SUBSET Nat, T # {}
  PROVE  Min(T) \in T /\ \A y \in T : Min(T) <= y
<1> DEFINE R == OpToRel(<, Nat)
<1>1. IsWellFoundedOn(R, Nat)
  BY NatLessThanWellFounded
<1>2. \A x, y \in Nat : y < x => <<y, x>> \in R
  BY DEF OpToRel
<1> HIDE DEF R
<1>3. \E x \in T : \A y \in T : ~ (<<y, x>> \in R)
  BY <1>1, WFMin
<1>4. \E x \in T : \A y \in T : x <= y
  <2>1. PICK x \in T : \A y \in T : ~ (<<y, x>> \in R) BY <1>3
  <2>2. \A y \in T : x \in Nat /\ y \in Nat OBVIOUS
  <2>3. \A y \in T : ~(y < x) BY <1>2, <2>1, <2>2
  <2>4. \A y \in T : x <= y BY <2>2, <2>3
  <2> QED BY <2>4
<1> QED BY <1>4 DEF Min

(* RemoveFirst, of an element that is there once. *)
LEMMA OneLess ==
  ASSUME NEW S, NEW s \in Seq(S), NEW x \in ToSet(s), Distinct(s)
  PROVE  /\ RemoveFirst(s, x) \in Seq(S) /\ Distinct(RemoveFirst(s, x))
         /\ ToSet(RemoveFirst(s, x)) = ToSet(s) \ {x}
<1> DEFINE I == {i \in 1..Len(s) : s[i] = x}
           k == Min(I)
           t == RemoveFirst(s, x)
<1>1. DOMAIN s = 1..Len(s) /\ Len(s) \in Nat OBVIOUS
<1>2. I # {} BY <1>1 DEF ToSet
<1>3. I \in SUBSET Nat OBVIOUS
<1>4. k \in I BY <1>2, <1>3, MinOf
<1>5. t = SubSeq(s, 1, k - 1) \o SubSeq(s, k + 1, Len(s))
  <2>1. \E i \in 1..Len(s) : s[i] = x BY <1>2
  <2>2. SelectInSeq(s, LAMBDA v : v = x) = k BY <1>2 DEF SelectInSeq
  <2> QED BY <2>1, <2>2 DEF RemoveFirst, RemoveAt
<1>6. k \in 1..Len(s) /\ s[k] = x BY <1>4
<1> HIDE DEF I, k, t
<1>7. /\ t \in Seq(S) /\ Len(t) = Len(s) - 1
      /\ \A i \in 1..Len(t) : t[i] = IF i < k THEN s[i] ELSE s[i + 1]
  <2> DEFINE a == SubSeq(s, 1, k - 1)
             b == SubSeq(s, k + 1, Len(s))
  <2>1. a \in Seq(S) /\ Len(a) = k - 1 /\ \A i \in 1..(k - 1) : a[i] = s[i]
    BY <1>1, <1>6
  <2>2. b \in Seq(S) /\ Len(b) = Len(s) - k /\ \A i \in 1..(Len(s) - k) : b[i] = s[k + i]
    <3> DEFINE m == k + 1
               n == Len(s)
    <3>1. m \in 1..(n + 1) /\ n \in (m - 1)..n /\ n \in Nat BY <1>1, <1>6
    <3>2. b = SubSeq(s, m, n) OBVIOUS
    <3> HIDE DEF m, n, b
    <3>3. /\ SubSeq(s, m, n) \in Seq(S) /\ Len(SubSeq(s, m, n)) = n - m + 1
          /\ \A i \in 1..(n - m + 1) : SubSeq(s, m, n)[i] = s[m + i - 1]
      BY <3>1, SubSeqProperties DEF n
    <3>4. b \in Seq(S) /\ Len(b) = n - m + 1 /\ \A i \in 1..(n - m + 1) : b[i] = s[m + i - 1]
      BY <3>2, <3>3
    <3>5. n - m + 1 = Len(s) - k BY <1>1, <1>6 DEF m, n
    <3>6. ASSUME NEW i \in 1..(Len(s) - k) PROVE b[i] = s[k + i]
      <4>1. m + i - 1 = k + i BY <1>1, <1>6 DEF m
      <4> QED BY <3>4, <3>5, <4>1
    <3> QED BY <3>4, <3>5, <3>6
  <2>3. t = a \o b BY <1>5
  <2> HIDE DEF a, b
  <2>4. t \in Seq(S) /\ Len(t) = Len(s) - 1
    BY <2>1, <2>2, <2>3, <1>1, <1>6
  <2>5. ASSUME NEW i \in 1..Len(t) PROVE t[i] = IF i < k THEN s[i] ELSE s[i + 1]
    <3>1. CASE i < k BY <2>1, <2>2, <2>3, <1>1, <1>6, <2>4, <3>1
    <3>2. CASE i >= k
      <4>1. t[i] = b[i - (k - 1)] BY <2>1, <2>2, <2>3, <1>1, <1>6, <2>4, <3>2
      <4>2. i - (k - 1) \in 1..(Len(s) - k) BY <1>1, <1>6, <2>4, <3>2
      <4>3. b[i - (k - 1)] = s[k + (i - (k - 1))] BY <2>2, <4>2
      <4> QED BY <4>1, <4>3, <3>2, <1>6, <1>1
    <3> QED BY <3>1, <3>2, <1>6
  <2> QED BY <2>4, <2>5
<1>8. DOMAIN t = 1..Len(t) BY <1>7
<1>9. \A i \in DOMAIN s : s[i] = x => i = k BY <1>6, <1>1 DEF Distinct
<1>10. ASSUME NEW i \in DOMAIN t PROVE t[i] \in ToSet(s) \ {x}
  <2>1. CASE i < k
    <3>1. i \in DOMAIN s /\ t[i] = s[i] BY <1>1, <1>7, <1>8, <2>1
    <3> QED BY <3>1, <1>9, <2>1, <1>6 DEF ToSet
  <2>2. CASE ~(i < k)
    <3>1. i + 1 \in DOMAIN s /\ t[i] = s[i + 1] BY <1>1, <1>7, <1>8, <2>2
    <3>2. i + 1 # k BY <1>6, <1>8, <2>2, <1>7, <1>1
    <3> QED BY <3>1, <3>2, <1>9 DEF ToSet
  <2> QED BY <2>1, <2>2
<1>11. ASSUME NEW i \in DOMAIN s, s[i] # x PROVE s[i] \in ToSet(t)
  <2>0. i # k BY <1>6, <1>11
  <2>1. CASE i < k
    <3>1. i \in DOMAIN t /\ t[i] = s[i] BY <1>1, <1>6, <1>7, <1>8, <2>1
    <3> QED BY <3>1 DEF ToSet
  <2>2. CASE i > k
    <3>1. i - 1 \in DOMAIN t /\ t[i - 1] = s[(i - 1) + 1] BY <1>1, <1>6, <1>7, <1>8, <2>2
    <3>2. (i - 1) + 1 = i BY <1>1
    <3> QED BY <3>1, <3>2 DEF ToSet
  <2> QED BY <2>0, <2>1, <2>2, <1>6, <1>1
<1>12. ToSet(t) = ToSet(s) \ {x} BY <1>10, <1>11 DEF ToSet
<1>13. Distinct(t)
  <2> DEFINE from(i) == IF i < k THEN i ELSE i + 1
  <2>1. \A i \in DOMAIN t : from(i) \in DOMAIN s /\ t[i] = s[from(i)]
    BY <1>1, <1>6, <1>7, <1>8
  <2>2. \A i, j \in DOMAIN t : from(i) = from(j) => i = j
    BY <1>1, <1>6, <1>7, <1>8
  <2> HIDE DEF from
  <2> QED BY <2>1, <2>2 DEF Distinct
<1> QED BY <1>7, <1>12, <1>13 DEF t

(* An element that takes the place of another. *)
LEMMA OneSwapped ==
  ASSUME NEW S, NEW s \in Seq(S), Distinct(s), NEW x \in ToSet(s), NEW y \in S, y \notin ToSet(s)
  PROVE  LET t == [i \in DOMAIN s |-> IF s[i] = x THEN y ELSE s[i]]
         IN  /\ t \in Seq(S) /\ Distinct(t)
             /\ ToSet(t) = (ToSet(s) \ {x}) \cup {y}
<1> DEFINE t == [i \in DOMAIN s |-> IF s[i] = x THEN y ELSE s[i]]
<1>1. DOMAIN s = 1..Len(s) /\ Len(s) \in Nat OBVIOUS
<1>2. t \in Seq(S) BY <1>1
<1>3. \A i \in DOMAIN s : s[i] # y BY DEF ToSet
<1>4. Distinct(t) BY <1>3 DEF Distinct
<1>5. PICK k \in DOMAIN s : s[k] = x BY DEF ToSet
<1>6. t[k] = y BY <1>5
<1>7. ToSet(t) = (ToSet(s) \ {x}) \cup {y}
  <2>1. \A i \in DOMAIN t : t[i] \in (ToSet(s) \ {x}) \cup {y} BY DEF ToSet
  <2>2. y \in ToSet(t) BY <1>5, <1>6 DEF ToSet
  <2>3. \A i \in DOMAIN s : s[i] # x => s[i] \in ToSet(t) BY DEF ToSet
  <2> QED BY <2>1, <2>2, <2>3 DEF ToSet
<1> QED BY <1>2, <1>4, <1>7

(* Agents: the state ------------------------------------------------------ *)
SlotNames == {"router", "chat", "embedder", "server", "saia", "factory"}
Holdings == UNION {[S -> Nat] : S \in SUBSET SlotNames}
Objects == [kind : DOMAIN Slots, holds : Holdings, owns : SUBSET SlotNames, used : BOOLEAN]
Clients == [by : {"agent", "caller"}, open : BOOLEAN]
Ops == {"idle", "start", "stop", "add", "replace", "rollback"}
CallRecords ==
  [op : Ops, todo : Seq(Nat), at : {"rest", "start", "stop", "join"}, new : Nat, old : Nat]

Made == objects \in Seq(Objects) /\ clients \in Seq(Clients)

Todo == ToSet(call.todo)

(* An object that a call is about was registered once, and so was one that is on. *)
Referred ==
  /\ registry \in Seq(DOMAIN objects) /\ Distinct(registry)
  /\ started \in BOOLEAN /\ call \in CallRecords
  /\ call.todo \in Seq(DOMAIN objects)
  /\ on \subseteq DOMAIN objects
  /\ call.op # "idle" => call.new \in DOMAIN objects \cup {None}
                         /\ call.old \in DOMAIN objects \cup {None}
  /\ \A o \in Registered \cup on \cup Todo : objects[o].used

(* What each call has made of the hooks so far. *)
Between ==
  /\ started => Registered \subseteq on
  /\ on \ left \subseteq (IF started THEN Registered ELSE {})

InStart ==
  /\ ~started /\ call.at = "start" /\ Todo \subseteq Registered
  /\ Registered \ Todo \subseteq on /\ on \ left \subseteq Registered

InStop ==
  /\ started /\ call.at \in {"stop", "join"}
  /\ on \ left \subseteq Todo

InAdd ==
  /\ started /\ call.at = "start" /\ call.new \in Registered /\ call.old = None
  /\ Registered \ {call.new} \subseteq on /\ on \ left \subseteq Registered
  /\ IF call.todo = <<>> THEN call.new \in on
     ELSE call.todo = <<call.new>> /\ call.new \notin on

InReplace ==
  /\ started /\ call.new \in Registered /\ call.old \notin Registered
  /\ Registered \ {call.new} \subseteq on
  /\ on \ left \subseteq Registered \cup {call.old}
  /\ call.old # None => objects[call.old].used
  /\ IF call.at = "start"
     THEN /\ IF call.todo = <<>> THEN call.new \in on
             ELSE call.todo = <<call.new>> /\ call.new \notin on
          /\ call.old # None => call.old \in on
     ELSE /\ call.new \in on /\ call.at \in {"stop", "join"}
          /\ IF call.todo = <<>> THEN call.old \notin on
             ELSE call.todo = <<call.old>> /\ call.old # None

InRollback ==
  /\ started /\ call.new \in Registered /\ call.old \notin Registered
  /\ Registered \ {call.new} \subseteq on
  /\ call.old # None => call.old \in on /\ objects[call.old].used
  /\ on \ left \subseteq (Registered \ {call.new}) \cup {call.old}
  /\ call.new \notin on
  /\ call.at \in {"stop", "join"} /\ call.todo \in {<<>>, <<call.new>>}

Hooked ==
  /\ call.op = "idle" => call = Idle /\ Between
  /\ call.op = "start" => InStart
  /\ call.op = "stop" => InStop
  /\ call.op = "add" => InAdd
  /\ call.op = "replace" => InReplace
  /\ call.op = "rollback" => InRollback

(* Objects and clients are made and marked, and none is forgotten. *)
Later ==
  \A o \in DOMAIN objects :
    /\ o \in DOMAIN objects' /\ objects'[o].kind = objects[o].kind
    /\ objects[o].used => objects'[o].used

(* A class, the clients it holds and those it is built with. *)
LEMMA SlotFacts ==
  ASSUME NEW kind \in DOMAIN Slots
  PROVE  /\ Slots[kind] \subseteq SlotNames
         /\ \A slots \in BuiltWith(kind) : slots \subseteq Slots[kind] /\ IsFiniteSet(slots)
         /\ Widest(kind) \in BuiltWith(kind)
<1>1. DOMAIN Slots = {"llm", "memory", "http", "saia", "training", "rating", "plain"}
  BY DEF Slots
<1>2. /\ Slots["llm"] = {"router"} /\ Slots["memory"] = {"chat", "embedder"}
      /\ Slots["http"] = {"server"} /\ Slots["saia"] = {"saia"}
      /\ Slots["training"] = {"factory"} /\ Slots["rating"] = {} /\ Slots["plain"] = {}
  BY DEF Slots
<1>3. /\ IsFiniteSet({}) /\ IsFiniteSet({"chat"}) /\ IsFiniteSet({"chat", "embedder"})
      /\ IsFiniteSet({"router"}) /\ IsFiniteSet({"server"})
  <2>1. IsFiniteSet({}) BY FS_EmptySet
  <2>2. \A x : IsFiniteSet({x}) BY FS_Singleton
  <2>3. IsFiniteSet({"chat"} \cup {"embedder"}) BY <2>2, FS_AddElement
  <2>4. {"chat"} \cup {"embedder"} = {"chat", "embedder"} OBVIOUS
  <2> QED BY <2>1, <2>2, <2>3, <2>4
<1>4. CASE kind = "memory"
  <2>1. BuiltWith(kind) = {{"chat"}, {"chat", "embedder"}} BY <1>4 DEF BuiltWith
  <2>2. Widest(kind) = {"chat", "embedder"} BY <2>1 DEF Widest
  <2> QED BY <1>2, <1>3, <1>4, <2>1, <2>2 DEF SlotNames
<1>5. CASE kind \in {"saia", "training"}
  <2>1. BuiltWith(kind) = {{}} BY <1>5 DEF BuiltWith
  <2>2. Widest(kind) = {} BY <2>1 DEF Widest
  <2> QED BY <1>2, <1>3, <1>5, <2>1, <2>2 DEF SlotNames
<1>6. CASE kind \notin {"memory", "saia", "training"}
  <2>1. BuiltWith(kind) = {Slots[kind]} BY <1>6 DEF BuiltWith
  <2>2. Widest(kind) = Slots[kind] BY <2>1 DEF Widest
  <2> QED BY <1>1, <1>2, <1>3, <1>6, <2>1, <2>2 DEF SlotNames
<1> QED BY <1>4, <1>5, <1>6

(* A set of slots, in some order, numbered from n + 1 on. *)
LEMMA NumberedFacts ==
  ASSUME NEW slots \in SUBSET SlotNames, IsFiniteSet(slots), NEW n \in Nat
  PROVE  /\ Cardinality(slots) \in Nat
         /\ Numbered(slots, n) \in [slots -> (n + 1)..(n + Cardinality(slots))]
         /\ \A c \in (n + 1)..(n + Cardinality(slots)) :
              \E s \in slots : Numbered(slots, n)[s] = c
<1> DEFINE k == Cardinality(slots)
           f == SetToSeq(slots)
<1>1. k \in Nat /\ ExistsBijection(1..k, slots)
  BY FS_CardinalityType
<1> HIDE DEF k
<1>2. PICK g \in Bijection(1..k, slots) : TRUE
  BY <1>1 DEF ExistsBijection
<1>3. g \in [1..k -> slots] /\ IsInjective(g)
  BY <1>2 DEF Bijection, Injection
<1>4. f \in [1..k -> slots] /\ IsInjective(f)
  BY <1>3 DEF SetToSeq, k
<1> HIDE DEF f
<1>5. \A s \in slots : \E i \in 1..k : f[i] = s
  <2>1. f \in Injection(1..k, slots) BY <1>4 DEF Injection
  <2>2. IsFiniteSet(1..k) /\ Cardinality(1..k) = k
    BY <1>1, FS_Interval
  <2>3. f \in Surjection(1..k, slots)
    BY <2>1, <2>2, <1>1, FS_Injection DEF k
  <2> QED BY <2>3 DEF Surjection
<1> DEFINE at(s) == CHOOSE i \in DOMAIN f : f[i] = s
<1>6. \A s \in slots : at(s) \in 1..k /\ f[at(s)] = s
  BY <1>4, <1>5
<1>7. \A i \in 1..k : at(f[i]) = i
  BY <1>4, <1>6 DEF IsInjective
<1>8. Numbered(slots, n) = [s \in slots |-> n + at(s)]
  BY DEF Numbered, f
<1> HIDE DEF at
<1>9. Numbered(slots, n) \in [slots -> (n + 1)..(n + k)]
  BY <1>1, <1>6, <1>8
<1>10. ASSUME NEW c \in (n + 1)..(n + k)
       PROVE  \E s \in slots : Numbered(slots, n)[s] = c
  <2>1. c - n \in 1..k BY <1>1
  <2>2. f[c - n] \in slots /\ at(f[c - n]) = c - n BY <1>4, <1>7, <2>1
  <2>3. Numbered(slots, n)[f[c - n]] = n + (c - n) BY <1>8, <2>2
  <2> QED BY <2>2, <2>3
<1> QED BY <1>1, <1>9, <1>10 DEF k

(* Agents: objects and clients that a step makes or marks ------------------- *)
LEMMA HoldingsOf ==
  ASSUME NEW S \in SUBSET SlotNames, NEW f \in [S -> Nat]
  PROVE  f \in Holdings
BY DEF Holdings

LEMMA DomainOfHoldings ==
  ASSUME NEW f \in Holdings
  PROVE  DOMAIN f \subseteq SlotNames /\ \A s \in DOMAIN f : f[s] \in Nat
BY DEF Holdings

(* A new object. *)
LEMMA NewObject ==
  ASSUME Made, NEW obj \in Objects, objects' = Append(objects, obj)
  PROVE  /\ objects' \in Seq(Objects) /\ Later
         /\ Len(objects') = Len(objects) + 1 /\ Len(objects) \in Nat
         /\ objects'[Len(objects) + 1] = obj
         /\ \A o \in DOMAIN objects : objects'[o] = objects[o]
         /\ DOMAIN objects' = DOMAIN objects \cup {Len(objects) + 1}
         /\ Len(objects) + 1 \notin DOMAIN objects
<1>1. /\ objects' \in Seq(Objects) /\ Len(objects') = Len(objects) + 1 /\ Len(objects) \in Nat
      /\ objects'[Len(objects) + 1] = obj
      /\ \A o \in DOMAIN objects : o \in DOMAIN objects' /\ objects'[o] = objects[o]
  BY DEF Made
<1>2. DOMAIN objects' = DOMAIN objects \cup {Len(objects) + 1} /\ Len(objects) + 1 \notin DOMAIN objects
  BY <1>1 DEF Made
<1> QED BY <1>1, <1>2 DEF Later

(* An object that is marked: as registered, or as owning and holding others. *)
LEMMA MarkedObject ==
  ASSUME Made, NEW o \in DOMAIN objects, NEW obj \in Objects,
         obj.kind = objects[o].kind, objects[o].used => obj.used,
         objects' = [objects EXCEPT ![o] = obj]
  PROVE  /\ objects' \in Seq(Objects) /\ Later /\ DOMAIN objects' = DOMAIN objects
         /\ objects'[o] = obj
         /\ \A p \in DOMAIN objects : p # o => objects'[p] = objects[p]
BY DEF Made, Later

(* A client that is opened. *)
LEMMA OpenOrNot ==
  ASSUME NEW client \in Clients, NEW b \in BOOLEAN
  PROVE  [client EXCEPT !.open = b] \in Clients /\ [client EXCEPT !.open = b].open = b
         /\ [client EXCEPT !.open = b].by = client.by
BY DEF Clients

LEMMA Reopened ==
  ASSUME NEW cs \in Seq(Clients), NEW c
  PROVE  [cs EXCEPT ![c].open = TRUE] \in Seq(Clients)
<1> DEFINE opened == [cs[c] EXCEPT !.open = TRUE]
           t == [cs EXCEPT ![c] = opened]
<1>1. ASSUME c \in DOMAIN cs PROVE opened \in Clients
  <2>1. cs[c] \in Clients /\ TRUE \in BOOLEAN BY <1>1
  <2>2. [cs[c] EXCEPT !.open = TRUE] \in Clients BY <2>1, OpenOrNot
  <2> QED BY <2>2
<1>2. [cs EXCEPT ![c].open = TRUE] = t
  OBVIOUS
<1> HIDE DEF opened
<1>3. /\ DOMAIN t = 1..Len(cs) /\ Len(cs) \in Nat
      /\ \A i \in 1..Len(cs) : t[i] = IF i = c THEN opened ELSE cs[i]
      /\ t = [i \in 1..Len(cs) |-> t[i]]
  OBVIOUS
<1> HIDE DEF t
<1>4. \A i \in 1..Len(cs) : t[i] \in Clients
  BY <1>1, <1>3
<1>5. t \in Seq(Clients)
  BY <1>3, <1>4
<1> QED BY <1>2, <1>5

(* One more client, and clients that are opened or closed. *)
LEMMA BuildsStep ==
  ASSUME Made, NEW o \in DOMAIN objects, NEW slot \in SlotNames, Builds(o, slot)
  PROVE  /\ Made' /\ Later /\ DOMAIN objects' = DOMAIN objects
         /\ objects'[o].owns = {slot} /\ objects'[o].used = objects[o].used
         /\ objects'[o].holds = IF DOMAIN objects[o].holds = {} THEN [s \in {slot} |-> Fresh]
                                ELSE objects[o].holds
         /\ \A p \in DOMAIN objects : p # o => objects'[p] = objects[p]
         /\ clients' = IF DOMAIN objects[o].holds = {} THEN Append(clients, NewClient("agent"))
                       ELSE [clients EXCEPT ![objects[o].holds[slot]].open = TRUE]
<1>1. objects[o] \in Objects /\ Fresh \in Nat
  BY DEF Made, Fresh
<1>2. CASE DOMAIN objects[o].holds = {}
  <2> DEFINE f == [s \in {slot} |-> Fresh]
             obj == [objects[o] EXCEPT !.holds = f, !.owns = {slot}]
  <2>1. f \in Holdings BY <1>1, HoldingsOf
  <2> HIDE DEF f
  <2>2. obj \in Objects /\ obj.kind = objects[o].kind /\ obj.used = objects[o].used
        /\ obj.owns = {slot} /\ obj.holds = f
    BY <1>1, <2>1 DEF Objects
  <2>3. objects' = [objects EXCEPT ![o] = obj]
    BY <1>2, <1>1 DEF Builds, f, Made
  <2> HIDE DEF obj
  <2>4. /\ objects' \in Seq(Objects) /\ Later /\ DOMAIN objects' = DOMAIN objects
        /\ objects'[o] = obj /\ \A p \in DOMAIN objects : p # o => objects'[p] = objects[p]
    BY <2>2, <2>3, MarkedObject
  <2>5. clients' = Append(clients, NewClient("agent")) BY <1>2 DEF Builds
  <2>6. clients' \in Seq(Clients) BY <2>5 DEF Made, NewClient, Clients
  <2> QED BY <1>2, <2>2, <2>4, <2>5, <2>6 DEF Made, f
<1>3. CASE DOMAIN objects[o].holds # {}
  <2> DEFINE obj == [objects[o] EXCEPT !.owns = {slot}]
  <2>2. obj \in Objects /\ obj.kind = objects[o].kind /\ obj.used = objects[o].used
        /\ obj.owns = {slot} /\ obj.holds = objects[o].holds
    BY <1>1 DEF Objects
  <2>3. objects' = [objects EXCEPT ![o] = obj]
    BY <1>3, <1>1 DEF Builds, Made
  <2> HIDE DEF obj
  <2>4. /\ objects' \in Seq(Objects) /\ Later /\ DOMAIN objects' = DOMAIN objects
        /\ objects'[o] = obj /\ \A p \in DOMAIN objects : p # o => objects'[p] = objects[p]
    BY <2>2, <2>3, MarkedObject
  <2>5. clients' = [clients EXCEPT ![objects[o].holds[slot]].open = TRUE] BY <1>3 DEF Builds
  <2>6. clients' \in Seq(Clients) BY <2>5, Reopened DEF Made
  <2> QED BY <1>3, <2>2, <2>4, <2>5, <2>6 DEF Made
<1> QED BY <1>2, <1>3

(* Agents: who owns what ---------------------------------------------------- *)
(* What an object holds are clients that were made, in slots of its class. *)
Holding ==
  \A o \in DOMAIN objects :
    /\ DOMAIN objects[o].holds \subseteq Slots[objects[o].kind]
    /\ objects[o].owns \subseteq DOMAIN objects[o].holds
    /\ \A s \in DOMAIN objects[o].holds : objects[o].holds[s] \in DOMAIN clients

(* Two objects own no client together, *)
Single ==
  \A o, p \in DOMAIN objects : \A s \in objects[o].owns, t \in objects[p].owns :
    objects[o].holds[s] = objects[p].holds[t] => o = p

(* and hold none together, but for the memory traits that are views of one. *)
Alone ==
  \A o, p \in DOMAIN objects : \A s \in DOMAIN objects[o].holds, t \in DOMAIN objects[p].holds :
    objects[o].holds[s] = objects[p].holds[t] => o = p \/ objects[o].kind = "memory"

IsOwned(c) == \E o \in DOMAIN objects : \E s \in objects[o].owns : objects[o].holds[s] = c

Ends ==
  \A c \in DOMAIN clients :
    IF clients[c].by = "caller" THEN clients[c].open /\ ~IsOwned(c)
                                ELSE clients[c].open => IsOwned(c)

OwnInv == Made /\ Holding /\ Single /\ Alone /\ Ends

(* More clients, the others as they were. *)
MoreClients ==
  /\ clients' \in Seq(Clients) /\ DOMAIN clients \subseteq DOMAIN clients'
  /\ \A c \in DOMAIN clients : clients'[c] = clients[c]

(* An object that is added owns new clients only. *)
LEMMA AddsObject ==
  ASSUME OwnInv, MoreClients, NEW obj \in Objects, objects' = Append(objects, obj),
         DOMAIN obj.holds \subseteq Slots[obj.kind], obj.owns \subseteq DOMAIN obj.holds,
         \A s \in obj.owns : obj.holds[s] \notin DOMAIN clients,
         \A s \in DOMAIN obj.holds :
           /\ obj.holds[s] \in DOMAIN clients'
           /\ obj.holds[s] \in DOMAIN clients =>
                /\ obj.kind = "memory"
                /\ \E q \in DOMAIN objects : \E t \in DOMAIN objects[q].holds :
                     objects[q].kind = "memory" /\ objects[q].holds[t] = obj.holds[s],
         \A c \in DOMAIN clients' \ DOMAIN clients :
           IF clients'[c].by = "caller"
           THEN clients'[c].open /\ \A s \in obj.owns : obj.holds[s] # c
           ELSE clients'[c].open => \E s \in obj.owns : obj.holds[s] = c
  PROVE  OwnInv' /\ Later
<1> DEFINE n == Len(objects) + 1
<1>1. /\ objects' \in Seq(Objects) /\ Later /\ objects'[n] = obj
      /\ \A o \in DOMAIN objects : objects'[o] = objects[o]
      /\ DOMAIN objects' = DOMAIN objects \cup {n}
      /\ n \notin DOMAIN objects
  BY NewObject DEF OwnInv
<1> HIDE DEF n
<1>2. Made' BY <1>1 DEF MoreClients, Made
<1>3. Holding'
  <2>1. ASSUME NEW o \in DOMAIN objects
        PROVE  /\ DOMAIN objects'[o].holds \subseteq Slots[objects'[o].kind]
               /\ objects'[o].owns \subseteq DOMAIN objects'[o].holds
               /\ \A s \in DOMAIN objects'[o].holds : objects'[o].holds[s] \in DOMAIN clients'
    BY <1>1 DEF OwnInv, Holding, MoreClients
  <2> QED BY <1>1, <2>1 DEF Holding
<1>4. ASSUME NEW o \in DOMAIN objects, NEW s \in DOMAIN objects[o].holds
      PROVE  /\ objects[o].holds[s] \in DOMAIN clients
             /\ \A t \in DOMAIN obj.holds :
                  objects[o].holds[s] = obj.holds[t] => objects[o].kind = "memory" /\ obj.kind = "memory"
  <2>1. objects[o].holds[s] \in DOMAIN clients BY DEF OwnInv, Holding
  <2>2. ASSUME NEW t \in DOMAIN obj.holds, objects[o].holds[s] = obj.holds[t]
        PROVE  objects[o].kind = "memory" /\ obj.kind = "memory"
    <3>1. PICK q \in DOMAIN objects : \E u \in DOMAIN objects[q].holds :
                     objects[q].kind = "memory" /\ objects[q].holds[u] = obj.holds[t]
      BY <2>1, <2>2
    <3>2. obj.kind = "memory" BY <2>1, <2>2
    <3>3. o = q \/ objects[o].kind = "memory" BY <3>1, <2>2 DEF OwnInv, Alone
    <3> QED BY <3>1, <3>2, <3>3
  <2> QED BY <2>1, <2>2
<1>5. ASSUME NEW o \in DOMAIN objects, NEW s \in objects[o].owns
      PROVE  \A t \in obj.owns : objects[o].holds[s] # obj.holds[t]
  <2>1. s \in DOMAIN objects[o].holds BY DEF OwnInv, Holding
  <2> QED BY <1>4, <2>1
<1>6. Single'
  <2> SUFFICES ASSUME NEW o \in DOMAIN objects', NEW p \in DOMAIN objects',
                      NEW s \in objects'[o].owns, NEW t \in objects'[p].owns,
                      objects'[o].holds[s] = objects'[p].holds[t]
               PROVE  o = p
    BY DEF Single
  <2>1. CASE o \in DOMAIN objects /\ p \in DOMAIN objects
    BY <1>1, <2>1 DEF OwnInv, Single
  <2>2. CASE o \in DOMAIN objects /\ p = n BY <1>1, <1>5, <2>2
  <2>3. CASE o = n /\ p \in DOMAIN objects BY <1>1, <1>5, <2>3
  <2> QED BY <1>1, <2>1, <2>2, <2>3
<1>7. Alone'
  <2> SUFFICES ASSUME NEW o \in DOMAIN objects', NEW p \in DOMAIN objects',
                      NEW s \in DOMAIN objects'[o].holds, NEW t \in DOMAIN objects'[p].holds,
                      objects'[o].holds[s] = objects'[p].holds[t]
               PROVE  o = p \/ objects'[o].kind = "memory"
    BY DEF Alone
  <2>1. CASE o \in DOMAIN objects /\ p \in DOMAIN objects
    BY <1>1, <2>1 DEF OwnInv, Alone
  <2>2. CASE o \in DOMAIN objects /\ p = n BY <1>1, <1>4, <2>2
  <2>3. CASE o = n /\ p \in DOMAIN objects BY <1>1, <1>4, <2>3
  <2> QED BY <1>1, <2>1, <2>2, <2>3
<1>8. ASSUME NEW c \in DOMAIN clients PROVE IsOwned(c)' <=> IsOwned(c)
  <2>1. \A s \in obj.owns : obj.holds[s] # c OBVIOUS
  <2> QED BY <1>1, <2>1 DEF IsOwned
<1>9. ASSUME NEW c \in DOMAIN clients' \ DOMAIN clients
      PROVE  IsOwned(c)' <=> \E s \in obj.owns : obj.holds[s] = c
  <2>1. ASSUME NEW o \in DOMAIN objects, NEW s \in objects[o].owns PROVE objects[o].holds[s] # c
    BY <2>1 DEF OwnInv, Holding
  <2> QED BY <1>1, <2>1 DEF IsOwned
<1>10. Ends'
  <2>1. ASSUME NEW c \in DOMAIN clients
        PROVE  IF clients'[c].by = "caller" THEN clients'[c].open /\ ~IsOwned(c)'
                                ELSE clients'[c].open => IsOwned(c)'
    BY <1>8 DEF MoreClients, OwnInv, Ends
  <2>2. ASSUME NEW c \in DOMAIN clients' \ DOMAIN clients
        PROVE  IF clients'[c].by = "caller" THEN clients'[c].open /\ ~IsOwned(c)'
                                ELSE clients'[c].open => IsOwned(c)'
    <3>1. CASE clients'[c].by = "caller" BY <1>9, <3>1
    <3>2. CASE clients'[c].by # "caller" BY <1>9, <3>2
    <3> QED BY <3>1, <3>2
  <2> QED BY <2>1, <2>2 DEF Ends
<1> QED BY <1>1, <1>2, <1>3, <1>6, <1>7, <1>10 DEF OwnInv

(* Clients that are appended. *)
Copies(client, k) == [i \in 1..k |-> client]
Longer(cs, client, k) == cs \o Copies(client, k)

LEMMA Appended ==
  ASSUME NEW cs \in Seq(Clients), NEW k \in Nat, NEW client \in Clients
  PROVE  /\ cs \o Copies(client, k) \in Seq(Clients)
         /\ DOMAIN (cs \o Copies(client, k)) = 1..(Len(cs) + k)
         /\ \A c \in 1..Len(cs) : (cs \o Copies(client, k))[c] = cs[c]
         /\ \A c \in (Len(cs) + 1)..(Len(cs) + k) : (cs \o Copies(client, k))[c] = client
<1>1. Copies(client, k) \in Seq(Clients) /\ Len(Copies(client, k)) = k
      /\ \A i \in 1..k : Copies(client, k)[i] = client
  BY DEF Copies
<1>2. Len(cs) \in Nat OBVIOUS
<1>3. /\ cs \o Copies(client, k) \in Seq(Clients)
      /\ Len(cs \o Copies(client, k)) = Len(cs) + k
      /\ \A i \in 1..(Len(cs) + k) : (cs \o Copies(client, k))[i] =
           IF i <= Len(cs) THEN cs[i] ELSE Copies(client, k)[i - Len(cs)]
  BY <1>1, ConcatProperties
<1> DEFINE more == cs \o Copies(client, k)
<1>4. more \in Seq(Clients) /\ Len(more) = Len(cs) + k
  BY <1>3
<1>5. \A i \in 1..(Len(cs) + k) :
        more[i] = IF i <= Len(cs) THEN cs[i] ELSE Copies(client, k)[i - Len(cs)]
  BY <1>3
<1> HIDE DEF more
<1>6. DOMAIN more = 1..(Len(cs) + k) BY <1>4
<1>7. \A c \in 1..Len(cs) : more[c] = cs[c] BY <1>2, <1>5
<1>8. ASSUME NEW c \in (Len(cs) + 1)..(Len(cs) + k) PROVE more[c] = client
  <2>1. c \in 1..(Len(cs) + k) /\ ~(c <= Len(cs)) /\ c - Len(cs) \in 1..k BY <1>2
  <2> QED BY <1>1, <1>5, <2>1
<1> QED BY <1>4, <1>6, <1>7, <1>8 DEF more

IsLonger(more, cs, client, k) ==
  /\ more \in Seq(Clients) /\ DOMAIN more = 1..(Len(cs) + k) /\ DOMAIN cs = 1..Len(cs)
  /\ \A c \in DOMAIN cs : c \in DOMAIN more /\ more[c] = cs[c]
  /\ \A c \in DOMAIN more : c \notin DOMAIN cs <=> c \in (Len(cs) + 1)..(Len(cs) + k)
  /\ \A c \in DOMAIN more : c \notin DOMAIN cs => more[c] = client

LEMMA AppendedClients ==
  ASSUME NEW cs \in Seq(Clients), NEW k \in Nat, NEW client \in Clients
  PROVE  IsLonger(Longer(cs, client, k), cs, client, k)
<1> DEFINE more == Longer(cs, client, k)
<1> HIDE DEF more
<1>1. DOMAIN cs = 1..Len(cs) /\ Len(cs) \in Nat OBVIOUS
<1>2. /\ more \in Seq(Clients) /\ DOMAIN more = 1..(Len(cs) + k)
      /\ \A c \in 1..Len(cs) : more[c] = cs[c]
      /\ \A c \in (Len(cs) + 1)..(Len(cs) + k) : more[c] = client
  <2> DEFINE t == cs \o Copies(client, k)
  <2>1. /\ t \in Seq(Clients) /\ DOMAIN t = 1..(Len(cs) + k)
        /\ \A c \in 1..Len(cs) : t[c] = cs[c]
        /\ \A c \in (Len(cs) + 1)..(Len(cs) + k) : t[c] = client
    BY Appended
  <2>2. more = t BY Zenon DEF Longer, more
  <2> HIDE DEF t
  <2> QED BY <2>1, <2>2
<1> DEFINE n == Len(cs)
           S == DOMAIN cs
           T == DOMAIN more
<1>3. n \in Nat /\ S = 1..n /\ T = 1..(n + k) BY <1>1, <1>2
<1> HIDE DEF n, S, T
<1>4. /\ \A c \in T : c \notin S <=> c \in (n + 1)..(n + k)
      /\ \A c \in S : c \in T
  BY <1>3
<1> QED BY <1>1, <1>2, <1>4 DEF n, S, T, more, IsLonger

LEMMA MakeStep ==
  ASSUME OwnInv, NEW kind \in Kinds, Make(kind)
  PROVE  OwnInv' /\ Later
<1>1. PICK slots \in BuiltWith(kind) :
       /\ objects' = Append(objects, [kind |-> kind, holds |-> Numbered(slots, Len(clients)),
                                      owns |-> slots, used |-> FALSE])
       /\ clients' = clients \o [i \in 1..Cardinality(slots) |-> NewClient("agent")]
  BY DEF Make
<1> DEFINE holds == Numbered(slots, Len(clients))
           obj == [kind |-> kind, holds |-> holds, owns |-> slots, used |-> FALSE]
           k == Cardinality(slots)
           n == Len(clients)
<1>2. kind \in DOMAIN Slots BY AgentConstants
<1>3. slots \subseteq Slots[kind] /\ slots \subseteq SlotNames /\ IsFiniteSet(slots)
  BY <1>2, SlotFacts
<1>4. clients \in Seq(Clients) /\ n \in Nat BY DEF OwnInv, Made
<1>4n. n \in Nat BY <1>4
<1>5. /\ k \in Nat /\ holds \in [slots -> (n + 1)..(n + k)]
      /\ \A c \in (n + 1)..(n + k) : \E s \in slots : holds[s] = c
  BY <1>3, <1>4, NumberedFacts
<1> HIDE DEF holds, k
<1>6. NewClient("agent") \in Clients BY DEF NewClient, Clients
<1>7. /\ clients' \in Seq(Clients) /\ DOMAIN clients' = 1..(n + k)
      /\ \A c \in DOMAIN clients : c \in DOMAIN clients' /\ clients'[c] = clients[c]
      /\ \A c \in DOMAIN clients' \ DOMAIN clients : clients'[c] = NewClient("agent")
      /\ \A c \in DOMAIN clients' : c \notin DOMAIN clients <=> c \in (n + 1)..(n + k)
      /\ DOMAIN clients = 1..n
  <2> DEFINE more == clients'
             client == NewClient("agent")
  <2>1. more = Longer(clients, client, k) BY <1>1, Zenon DEF Longer, Copies, k
  <2> HIDE DEF more, client
  <2>2. /\ more \in Seq(Clients) /\ DOMAIN more = 1..(Len(clients) + k)
        /\ \A c \in DOMAIN clients : c \in DOMAIN more /\ more[c] = clients[c]
        /\ \A c \in DOMAIN more : c \notin DOMAIN clients => more[c] = client
        /\ \A c \in DOMAIN more : c \notin DOMAIN clients <=> c \in (Len(clients) + 1)..(Len(clients) + k)
        /\ DOMAIN clients = 1..Len(clients)
    <3>1. client \in Clients BY <1>6 DEF client
    <3>2. IsLonger(more, clients, client, k) BY <1>4, <1>5, <2>1, <3>1, AppendedClients
    <3> QED BY <3>2 DEF IsLonger
  <2> QED BY <2>2 DEF more, client
<1>8. holds \in [slots -> Nat] BY <1>4, <1>5
<1>9. holds \in Holdings BY <1>3, <1>8, HoldingsOf
<1>10. obj \in Objects BY <1>2, <1>3, <1>9 DEF Objects
<1>11. obj.kind = kind /\ obj.holds = holds /\ obj.owns = slots /\ DOMAIN holds = slots
  BY <1>5
<1>12. objects' = Append(objects, obj) BY <1>1 DEF holds
<1> HIDE DEF obj, n
<1>13. MoreClients BY <1>7 DEF MoreClients
<1>14. ASSUME NEW s \in slots PROVE holds[s] \in DOMAIN clients' /\ holds[s] \notin DOMAIN clients
  <2>1. holds[s] \in (n + 1)..(n + k) BY <1>5
  <2>2. holds[s] \in 1..(n + k) BY <1>5, <2>1, <1>4n
  <2> QED BY <1>7, <2>1, <2>2
<1>15. ASSUME NEW c \in DOMAIN clients' \ DOMAIN clients
       PROVE  IF clients'[c].by = "caller"
              THEN clients'[c].open /\ \A s \in obj.owns : obj.holds[s] # c
              ELSE clients'[c].open => \E s \in obj.owns : obj.holds[s] = c
  <2>1. clients'[c].by = "agent" BY <1>7 DEF NewClient
  <2>2. \E s \in slots : holds[s] = c BY <1>5, <1>7
  <2> QED BY <2>1, <2>2, <1>11
<1> QED BY <1>3, <1>10, <1>11, <1>12, <1>13, <1>14, <1>15, AddsObject

LEMMA MakeFailsStep ==
  ASSUME OwnInv, MakeFails
  PROVE  OwnInv' /\ Later
<1>1. PICK slots \in BuiltWith("memory") :
       clients' = clients \o [i \in 1..Cardinality(slots) |-> [NewClient("agent") EXCEPT !.open = FALSE]]
  BY DEF MakeFails
<1>2. "memory" \in DOMAIN Slots BY DEF Slots
<1>3. Cardinality(slots) \in Nat BY <1>2, SlotFacts, FS_CardinalityType
<1> DEFINE client == [NewClient("agent") EXCEPT !.open = FALSE]
<1>4. client \in Clients /\ client.by = "agent" /\ client.open = FALSE BY DEF NewClient, Clients
<1> HIDE DEF client
<1>5. objects' = objects BY DEF MakeFails
<1>6. clients \in Seq(Clients) BY DEF OwnInv, Made
<1>7. /\ clients' \in Seq(Clients)
      /\ \A c \in DOMAIN clients : c \in DOMAIN clients' /\ clients'[c] = clients[c]
      /\ \A c \in DOMAIN clients' \ DOMAIN clients : clients'[c] = client
  <2> DEFINE more == clients'
             k == Cardinality(slots)
  <2>1. more = Longer(clients, client, k) BY <1>1, Zenon DEF Longer, Copies, client
  <2> HIDE DEF more, k
  <2>2. /\ more \in Seq(Clients)
        /\ \A c \in DOMAIN clients : c \in DOMAIN more /\ more[c] = clients[c]
        /\ \A c \in DOMAIN more : c \notin DOMAIN clients => more[c] = client
    <3>1. k \in Nat BY <1>3 DEF k
    <3>2. IsLonger(more, clients, client, k) BY <1>4, <1>6, <2>1, <3>1, AppendedClients
    <3> QED BY <3>2 DEF IsLonger
  <2> QED BY <2>2 DEF more
<1>8. Made' /\ Single' /\ Alone' BY <1>5, <1>7 DEF OwnInv, Made, Single, Alone
<1>9. Holding' BY <1>5, <1>7 DEF OwnInv, Holding
<1>10. Ends'
  <2>1. \A c : IsOwned(c)' <=> IsOwned(c) BY <1>5 DEF IsOwned
  <2>2. ASSUME NEW c \in DOMAIN clients'
        PROVE  IF clients'[c].by = "caller" THEN clients'[c].open /\ ~IsOwned(c)'
                                ELSE clients'[c].open => IsOwned(c)'
    <3>1. CASE c \in DOMAIN clients BY <1>7, <2>1, <3>1 DEF OwnInv, Ends
    <3>2. CASE c \notin DOMAIN clients BY <1>4, <1>7, <3>2
    <3> QED BY <3>1, <3>2
  <2> QED BY <2>2 DEF Ends
<1>11. Later BY <1>5 DEF Later
<1> QED BY <1>8, <1>9, <1>10, <1>11 DEF OwnInv

LEMMA WithStep ==
  ASSUME OwnInv, NEW o \in DOMAIN objects, NEW slot \in Slots[KindOf(o)], With(o, slot)
  PROVE  OwnInv' /\ Later
<1> DEFINE shared == [s \in DOMAIN objects[o].holds \ {slot} |-> objects[o].holds[s]]
           swapped == [s \in DOMAIN shared \cup {slot} |-> IF s = slot THEN Fresh ELSE shared[s]]
           View(holds) == [kind |-> KindOf(o), holds |-> holds, owns |-> {}, used |-> FALSE]
<1>1. \/ objects' = Append(objects, View(swapped)) /\ clients' = Append(clients, NewClient("caller"))
      \/ slot = "embedder" /\ objects' = Append(objects, View(shared)) /\ clients' = clients
  BY DEF With
<1>2. /\ objects[o] \in Objects /\ KindOf(o) \in DOMAIN Slots /\ KindOf(o) = objects[o].kind
      /\ objects[o].holds \in Holdings /\ clients \in Seq(Clients)
  <2>1. objects[o] \in Objects /\ clients \in Seq(Clients) BY DEF OwnInv, Made
  <2> QED BY <2>1 DEF Objects, KindOf
<1>3. /\ DOMAIN objects[o].holds \subseteq Slots[KindOf(o)]
      /\ Slots[KindOf(o)] \subseteq SlotNames /\ slot \in SlotNames
      /\ \A s \in DOMAIN objects[o].holds : objects[o].holds[s] \in Nat /\ objects[o].holds[s] \in DOMAIN clients
  BY <1>2, SlotFacts, DomainOfHoldings DEF OwnInv, Holding
<1>4. /\ DOMAIN shared = DOMAIN objects[o].holds \ {slot}
      /\ \A s \in DOMAIN shared : shared[s] = objects[o].holds[s]
      /\ shared \in [DOMAIN objects[o].holds \ {slot} -> Nat]
  BY <1>3
<1>5. \A s \in DOMAIN shared : KindOf(o) = "memory"
  <2>1. ASSUME NEW s \in DOMAIN shared PROVE KindOf(o) = "memory"
    <3>1. s \in Slots[KindOf(o)] /\ s # slot BY <1>3, <1>4
    <3>2. Slots["llm"] = {"router"} /\ Slots["http"] = {"server"} /\ Slots["saia"] = {"saia"}
          /\ Slots["training"] = {"factory"} /\ Slots["rating"] = {} /\ Slots["plain"] = {}
          /\ DOMAIN Slots = {"llm", "memory", "http", "saia", "training", "rating", "plain"}
      BY DEF Slots
    <3> QED BY <1>2, <3>1, <3>2
  <2> QED BY <2>1
<1>6. Fresh \in Nat /\ Fresh \notin DOMAIN clients BY <1>2 DEF Fresh
<1> HIDE DEF shared
<1>7. /\ DOMAIN swapped = DOMAIN shared \cup {slot}
      /\ swapped[slot] = Fresh /\ \A s \in DOMAIN shared : swapped[s] = shared[s]
      /\ swapped \in [DOMAIN shared \cup {slot} -> Nat]
  BY <1>4, <1>6
<1> HIDE DEF swapped
<1>8. shared \in Holdings /\ swapped \in Holdings
  BY <1>3, <1>4, <1>7, HoldingsOf
<1>9. ASSUME NEW holds \in {shared, swapped}
      PROVE  /\ View(holds) \in Objects
             /\ View(holds).kind = KindOf(o) /\ View(holds).holds = holds /\ View(holds).owns = {}
             /\ DOMAIN holds \subseteq Slots[KindOf(o)]
             /\ \A s \in DOMAIN holds : holds[s] \in DOMAIN clients =>
                  /\ KindOf(o) = "memory"
                  /\ \E t \in DOMAIN objects[o].holds : objects[o].holds[t] = holds[s]
  <2>1. View(holds) \in Objects BY <1>2, <1>8 DEF Objects
  <2>2. DOMAIN holds \subseteq Slots[KindOf(o)] BY <1>3, <1>4, <1>7
  <2>3. ASSUME NEW s \in DOMAIN holds, holds[s] \in DOMAIN clients
        PROVE  KindOf(o) = "memory" /\ \E t \in DOMAIN objects[o].holds : objects[o].holds[t] = holds[s]
    <3>1. s \in DOMAIN shared /\ holds[s] = shared[s] BY <1>6, <1>7, <2>3
    <3> QED BY <1>4, <1>5, <3>1
  <2> QED BY <2>1, <2>2, <2>3
<1> HIDE DEF View
<1>10. CASE objects' = Append(objects, View(swapped)) /\ clients' = Append(clients, NewClient("caller"))
  <2> DEFINE obj == View(swapped)
  <2>1. NewClient("caller") \in Clients BY DEF NewClient, Clients
  <2>2. /\ clients' \in Seq(Clients) /\ DOMAIN clients' = DOMAIN clients \cup {Fresh}
        /\ \A c \in DOMAIN clients : clients'[c] = clients[c]
        /\ clients'[Fresh] = NewClient("caller")
    BY <1>2, <1>10, <2>1 DEF Fresh
  <2>3. MoreClients BY <2>2 DEF MoreClients
  <2>4. \A s \in DOMAIN swapped : swapped[s] \in DOMAIN clients' BY <1>3, <1>4, <1>7, <2>2
  <2>5. /\ obj \in Objects /\ obj.kind = KindOf(o) /\ obj.holds = swapped /\ obj.owns = {}
        /\ DOMAIN obj.holds \subseteq Slots[obj.kind]
    BY <1>9
  <2>6. \A s \in DOMAIN swapped : swapped[s] \in DOMAIN clients =>
             /\ KindOf(o) = "memory"
             /\ \E t \in DOMAIN objects[o].holds : objects[o].holds[t] = swapped[s]
    BY <1>9
  <2>7. objects' = Append(objects, obj) BY <1>10
  <2>8. \A c \in DOMAIN clients' \ DOMAIN clients : clients'[c].by = "caller" /\ clients'[c].open
    BY <2>2 DEF NewClient
  <2> HIDE DEF obj
  <2> QED BY <1>2, <2>3, <2>4, <2>5, <2>6, <2>7, <2>8, AddsObject
<1>11. CASE objects' = Append(objects, View(shared)) /\ clients' = clients
  <2> DEFINE obj == View(shared)
  <2>3. MoreClients BY <1>11, <1>2 DEF MoreClients
  <2>4. \A s \in DOMAIN shared : shared[s] \in DOMAIN clients' BY <1>3, <1>4, <1>11
  <2>5. /\ obj \in Objects /\ obj.kind = KindOf(o) /\ obj.holds = shared /\ obj.owns = {}
        /\ DOMAIN obj.holds \subseteq Slots[obj.kind]
    BY <1>9
  <2>6. \A s \in DOMAIN shared : shared[s] \in DOMAIN clients =>
             /\ KindOf(o) = "memory"
             /\ \E t \in DOMAIN objects[o].holds : objects[o].holds[t] = shared[s]
    BY <1>9
  <2>7. objects' = Append(objects, obj) BY <1>11
  <2> HIDE DEF obj
  <2> QED BY <1>2, <1>11, <2>3, <2>4, <2>5, <2>6, <2>7, AddsObject
<1> QED BY <1>1, <1>10, <1>11

(* A trait builds its one client, or another in place of the one it dropped. *)
LEMMA BuildsOwn ==
  ASSUME OwnInv, NEW o \in DOMAIN objects, NEW slot, Slots[KindOf(o)] = {slot},
         KindOf(o) # "memory", Lacks(o, slot), Builds(o, slot)
  PROVE  OwnInv' /\ Later
<1>1. /\ objects[o] \in Objects /\ KindOf(o) \in DOMAIN Slots /\ KindOf(o) = objects[o].kind
      /\ Made /\ clients \in Seq(Clients)
  <2>1. objects[o] \in Objects /\ clients \in Seq(Clients) BY DEF OwnInv, Made
  <2> QED BY <2>1 DEF Objects, KindOf, OwnInv
<1>2. slot \in SlotNames BY <1>1, SlotFacts
<1>3. /\ Made' /\ Later /\ DOMAIN objects' = DOMAIN objects
      /\ objects'[o].owns = {slot}
      /\ objects'[o].holds = IF DOMAIN objects[o].holds = {} THEN [s \in {slot} |-> Fresh]
                                ELSE objects[o].holds
      /\ \A p \in DOMAIN objects : p # o => objects'[p] = objects[p]
      /\ clients' = IF DOMAIN objects[o].holds = {} THEN Append(clients, NewClient("agent"))
                    ELSE [clients EXCEPT ![objects[o].holds[slot]].open = TRUE]
  BY <1>1, <1>2, BuildsStep
<1>4. \A p \in DOMAIN objects : objects'[p].kind = objects[p].kind BY <1>3 DEF Later
<1>5. DOMAIN objects[o].holds \subseteq {slot} /\ objects[o].owns \subseteq DOMAIN objects[o].holds
  BY <1>1 DEF OwnInv, Holding
<1>6. ASSUME NEW p \in DOMAIN objects, NEW s \in objects[p].owns PROVE s \in DOMAIN objects[p].holds
  BY DEF OwnInv, Holding
<1>7. CASE DOMAIN objects[o].holds = {}
  <2>1. /\ objects'[o].owns = {slot} /\ DOMAIN objects'[o].holds = {slot} /\ objects'[o].holds[slot] = Fresh
    BY <1>3, <1>7
  <2>2. /\ DOMAIN clients' = DOMAIN clients \cup {Fresh} /\ Fresh \notin DOMAIN clients
        /\ \A c \in DOMAIN clients : clients'[c] = clients[c]
        /\ clients'[Fresh].by = "agent"
    <3>1. clients' = Append(clients, NewClient("agent")) /\ NewClient("agent") \in Clients
      BY <1>3, <1>7 DEF NewClient, Clients
    <3>2. NewClient("agent").by = "agent" BY DEF NewClient
    <3> QED BY <1>1, <3>1, <3>2 DEF Fresh
  <2>3. \A p \in DOMAIN objects : \A s \in DOMAIN objects[p].holds :
          objects[p].holds[s] \in DOMAIN clients /\ objects[p].holds[s] # Fresh
    BY <2>2 DEF OwnInv, Holding
  <2>4. Holding'
    <3>1. ASSUME NEW p \in DOMAIN objects, p # o
          PROVE  /\ DOMAIN objects'[p].holds \subseteq Slots[objects'[p].kind]
                 /\ objects'[p].owns \subseteq DOMAIN objects'[p].holds
                 /\ \A s \in DOMAIN objects'[p].holds : objects'[p].holds[s] \in DOMAIN clients'
      BY <1>3, <2>2, <3>1 DEF OwnInv, Holding
    <3>2. /\ DOMAIN objects'[o].holds \subseteq Slots[objects'[o].kind]
          /\ objects'[o].owns \subseteq DOMAIN objects'[o].holds
          /\ \A s \in DOMAIN objects'[o].holds : objects'[o].holds[s] \in DOMAIN clients'
      BY <1>1, <1>4, <2>1, <2>2
    <3> QED BY <1>3, <3>1, <3>2 DEF Holding
  <2>5. Single'
    <3> SUFFICES ASSUME NEW p \in DOMAIN objects, NEW q \in DOMAIN objects,
                        NEW s \in objects'[p].owns, NEW t \in objects'[q].owns,
                        objects'[p].holds[s] = objects'[q].holds[t]
                 PROVE  p = q
      BY <1>3 DEF Single
    <3>1. CASE p # o /\ q # o BY <1>3, <3>1 DEF OwnInv, Single
    <3>2. CASE p = o /\ q # o BY <1>3, <1>6, <2>1, <2>3, <3>2
    <3>3. CASE p # o /\ q = o BY <1>3, <1>6, <2>1, <2>3, <3>3
    <3> QED BY <3>1, <3>2, <3>3
  <2>6. Alone'
    <3> SUFFICES ASSUME NEW p \in DOMAIN objects, NEW q \in DOMAIN objects,
                        NEW s \in DOMAIN objects'[p].holds, NEW t \in DOMAIN objects'[q].holds,
                        objects'[p].holds[s] = objects'[q].holds[t]
                 PROVE  p = q \/ objects'[p].kind = "memory"
      BY <1>3 DEF Alone
    <3>1. CASE p # o /\ q # o BY <1>3, <3>1 DEF OwnInv, Alone
    <3>2. CASE p = o /\ q # o BY <1>3, <2>1, <2>3, <3>2
    <3>3. CASE p # o /\ q = o BY <1>3, <2>1, <2>3, <3>3
    <3> QED BY <3>1, <3>2, <3>3
  <2>7. ASSUME NEW c \in DOMAIN clients PROVE IsOwned(c)' <=> IsOwned(c)
    <3>1. objects[o].owns = {} BY <1>5, <1>7
    <3>2. \A s \in objects'[o].owns : objects'[o].holds[s] # c BY <2>1, <2>2
    <3> QED BY <1>3, <3>1, <3>2 DEF IsOwned
  <2>9. Ends'
    <3>1. ASSUME NEW c \in DOMAIN clients'
          PROVE  IF clients'[c].by = "caller" THEN clients'[c].open /\ ~IsOwned(c)'
                                              ELSE clients'[c].open => IsOwned(c)'
      <4>1. CASE c \in DOMAIN clients BY <2>2, <2>7, <4>1 DEF OwnInv, Ends
      <4>2. CASE c = Fresh
        <5>1. clients'[c].by # "caller" BY <2>2, <4>2
        <5>2. \E p \in DOMAIN objects' : \E s \in objects'[p].owns : objects'[p].holds[s] = c
          BY <1>3, <2>1, <4>2
        <5> QED BY <5>1, <5>2 DEF IsOwned
      <4> QED BY <2>2, <4>1, <4>2
    <3> QED BY <3>1 DEF Ends
  <2> QED BY <1>3, <2>4, <2>5, <2>6, <2>9 DEF OwnInv
<1>8. CASE DOMAIN objects[o].holds # {}
  <2> DEFINE had == objects[o].holds[slot]
  <2>1. /\ DOMAIN objects[o].holds = {slot} /\ objects'[o].holds = objects[o].holds
        /\ objects'[o].owns = {slot}
    BY <1>3, <1>5, <1>8
  <2>2. had \in DOMAIN clients /\ ~clients[had].open
    BY <2>1 DEF OwnInv, Holding, Lacks
  <2>3. /\ DOMAIN clients' = DOMAIN clients
        /\ \A c \in DOMAIN clients : c # had => clients'[c] = clients[c]
        /\ clients'[had].by = clients[had].by /\ clients[had].by # "caller"
    <3>1. clients' = [clients EXCEPT ![had].open = TRUE] BY <1>3, <1>8
    <3>2. clients[had] \in Clients BY <1>1, <2>2
    <3>3. clients[had].by # "caller" BY <2>2 DEF OwnInv, Ends
    <3>4. clients'[had].by = clients[had].by BY <2>2, <3>1, <3>2, <1>1 DEF Clients
    <3>5. DOMAIN clients' = DOMAIN clients
          /\ \A c \in DOMAIN clients : c # had => clients'[c] = clients[c]
      BY <1>1, <3>1
    <3> QED BY <3>3, <3>4, <3>5
  <2> HIDE DEF had
  <2>4. \A p \in DOMAIN objects : objects'[p].holds = objects[p].holds BY <1>3, <2>1
  <2>5. Holding'
    <3>1. ASSUME NEW p \in DOMAIN objects
          PROVE  /\ DOMAIN objects'[p].holds \subseteq Slots[objects'[p].kind]
                 /\ objects'[p].owns \subseteq DOMAIN objects'[p].holds
                 /\ \A s \in DOMAIN objects'[p].holds : objects'[p].holds[s] \in DOMAIN clients'
      BY <1>3, <1>4, <2>1, <2>3, <2>4 DEF OwnInv, Holding
    <3> QED BY <1>3, <3>1 DEF Holding
  <2>6. Alone' BY <1>3, <1>4, <2>4 DEF OwnInv, Alone
  <2>7. ASSUME NEW p \in DOMAIN objects, NEW s \in DOMAIN objects[p].holds, objects[p].holds[s] = had
        PROVE  p = o
    <3>1. slot \in DOMAIN objects[o].holds /\ objects[o].holds[slot] = objects[p].holds[s]
      BY <2>1, <2>7 DEF had
    <3> QED BY <1>1, <3>1 DEF OwnInv, Alone
  <2>8. Single'
    <3> SUFFICES ASSUME NEW p \in DOMAIN objects, NEW q \in DOMAIN objects,
                        NEW s \in objects'[p].owns, NEW t \in objects'[q].owns,
                        objects'[p].holds[s] = objects'[q].holds[t]
                 PROVE  p = q
      BY <1>3 DEF Single
    <3>1. CASE p # o /\ q # o BY <1>3, <3>1 DEF OwnInv, Single
    <3>2. CASE p = o /\ q # o
      <4>1. objects'[p].holds[s] = had BY <2>1, <3>2 DEF had
      <4>2. t \in DOMAIN objects[q].holds /\ objects[q].holds[t] = had BY <1>3, <1>6, <3>2, <4>1
      <4> QED BY <2>7, <3>2, <4>2
    <3>3. CASE p # o /\ q = o
      <4>1. objects'[q].holds[t] = had BY <2>1, <3>3 DEF had
      <4>2. s \in DOMAIN objects[p].holds /\ objects[p].holds[s] = had BY <1>3, <1>6, <3>3, <4>1
      <4> QED BY <2>7, <3>3, <4>2
    <3> QED BY <3>1, <3>2, <3>3
  <2>9. ASSUME NEW c, c # had PROVE IsOwned(c)' <=> IsOwned(c)
    <3>1. \A s \in objects'[o].owns : objects'[o].holds[s] # c BY <2>1, <2>9 DEF had
    <3>2. \A s \in objects[o].owns : objects[o].holds[s] # c BY <1>5, <2>1, <2>9 DEF had
    <3> QED BY <1>3, <3>1, <3>2 DEF IsOwned
  <2>10. Ends'
    <3>1. ASSUME NEW c \in DOMAIN clients'
          PROVE  IF clients'[c].by = "caller" THEN clients'[c].open /\ ~IsOwned(c)'
                                              ELSE clients'[c].open => IsOwned(c)'
      <4>1. CASE c # had BY <2>3, <2>9, <4>1 DEF OwnInv, Ends
      <4>2. CASE c = had
        <5>1. clients'[c].by # "caller" BY <2>3, <4>2
        <5>2. \E p \in DOMAIN objects' : \E s \in objects'[p].owns : objects'[p].holds[s] = c
          BY <1>3, <2>1, <4>2 DEF had
        <5> QED BY <5>1, <5>2 DEF IsOwned
      <4> QED BY <4>1, <4>2
    <3> QED BY <3>1 DEF Ends
  <2> QED BY <1>3, <2>5, <2>6, <2>8, <2>10 DEF OwnInv
<1> QED BY <1>7, <1>8

(* Holdings that stay as they are. *)
LEMMA SameHoldings ==
  ASSUME OwnInv, Made', clients' = clients, DOMAIN objects' = DOMAIN objects,
         \A o \in DOMAIN objects :
           /\ objects'[o].kind = objects[o].kind /\ objects'[o].holds = objects[o].holds
           /\ objects'[o].owns = objects[o].owns
  PROVE  OwnInv'
<1>1. Holding' BY DEF OwnInv, Holding
<1>2. Single' BY DEF OwnInv, Single
<1>3. Alone' BY DEF OwnInv, Alone
<1>4. \A c : IsOwned(c)' <=> IsOwned(c) BY DEF IsOwned
<1>5. Ends' BY <1>4 DEF OwnInv, Ends
<1> QED BY <1>1, <1>2, <1>3, <1>5 DEF OwnInv

LEMMA RegistersOwn ==
  ASSUME OwnInv, NEW o \in DOMAIN objects, objects' = [objects EXCEPT ![o].used = TRUE],
         clients' = clients
  PROVE  OwnInv' /\ Later /\ objects'[o].used
<1> DEFINE obj == [objects[o] EXCEPT !.used = TRUE]
<1>1. objects[o] \in Objects /\ Made /\ clients \in Seq(Clients) BY DEF OwnInv, Made
<1>2. /\ obj \in Objects /\ obj.kind = objects[o].kind /\ obj.holds = objects[o].holds
      /\ obj.owns = objects[o].owns /\ obj.used = TRUE
  BY <1>1 DEF Objects
<1>3. objects' = [objects EXCEPT ![o] = obj] BY <1>1
<1> HIDE DEF obj
<1>4. /\ objects' \in Seq(Objects) /\ Later /\ DOMAIN objects' = DOMAIN objects
      /\ objects'[o] = obj /\ \A p \in DOMAIN objects : p # o => objects'[p] = objects[p]
  BY <1>1, <1>2, <1>3, MarkedObject
<1>5. Made' BY <1>1, <1>4 DEF Made
<1> QED BY <1>2, <1>4, <1>5, SameHoldings

(* Clients that their owner closes. *)
LEMMA ClosesFacts ==
  ASSUME Made, NEW cs, Closes(cs)
  PROVE  /\ clients' \in Seq(Clients) /\ DOMAIN clients' = DOMAIN clients
         /\ \A c \in DOMAIN clients : c \notin cs => clients'[c] = clients[c]
         /\ \A c \in DOMAIN clients \cap cs : clients'[c].by = clients[c].by /\ ~clients'[c].open
<1>1. /\ DOMAIN clients = 1..Len(clients) /\ Len(clients) \in Nat
      /\ \A c \in DOMAIN clients : clients[c] \in Clients
  BY DEF Made
<1> DEFINE closed(c) == [clients[c] EXCEPT !.open = FALSE]
<1>2. ASSUME NEW c \in DOMAIN clients
      PROVE  closed(c) \in Clients /\ closed(c).by = clients[c].by /\ ~closed(c).open
  BY <1>1, OpenOrNot
<1>3. clients' = [c \in DOMAIN clients |-> IF c \in cs THEN closed(c) ELSE clients[c]]
  BY DEF Closes
<1> HIDE DEF closed
<1>4. \A c \in DOMAIN clients : clients'[c] \in Clients BY <1>1, <1>2, <1>3
<1>5. clients' \in Seq(Clients) BY <1>1, <1>3, <1>4
<1> QED BY <1>2, <1>3, <1>5

LEMMA ClosesOwn ==
  ASSUME OwnInv, NEW o \in DOMAIN objects,
         \/ Closes(Owned(o)) /\ objects' = [objects EXCEPT ![o].owns = {}]
         \/ \E closed \in SUBSET Owned(o) : Closes(closed) /\ objects' = objects
  PROVE  OwnInv' /\ Later
<1>1. objects[o] \in Objects /\ Made BY DEF OwnInv, Made
<1>2. ASSUME NEW c \in Owned(o) \cap DOMAIN clients PROVE clients[c].by # "caller"
  <2>1. IsOwned(c) BY DEF IsOwned, Owned
  <2> QED BY <2>1 DEF OwnInv, Ends
<1>3. CASE Closes(Owned(o)) /\ objects' = [objects EXCEPT ![o].owns = {}]
  <2> DEFINE obj == [objects[o] EXCEPT !.owns = {}]
  <2>1. /\ obj \in Objects /\ obj.kind = objects[o].kind /\ obj.holds = objects[o].holds
        /\ obj.owns = {} /\ obj.used = objects[o].used
    BY <1>1 DEF Objects
  <2>2. objects' = [objects EXCEPT ![o] = obj] BY <1>1, <1>3
  <2> HIDE DEF obj
  <2>3. /\ objects' \in Seq(Objects) /\ Later /\ DOMAIN objects' = DOMAIN objects
        /\ objects'[o] = obj /\ \A p \in DOMAIN objects : p # o => objects'[p] = objects[p]
    BY <1>1, <2>1, <2>2, MarkedObject
  <2>4. /\ clients' \in Seq(Clients) /\ DOMAIN clients' = DOMAIN clients
        /\ \A c \in DOMAIN clients : c \notin Owned(o) => clients'[c] = clients[c]
        /\ \A c \in DOMAIN clients \cap Owned(o) : clients'[c].by = clients[c].by /\ ~clients'[c].open
    BY <1>1, <1>3, ClosesFacts
  <2>5. \A p \in DOMAIN objects : /\ objects'[p].holds = objects[p].holds
                                  /\ objects'[p].kind = objects[p].kind
                                  /\ objects'[p].owns \subseteq objects[p].owns
    BY <2>1, <2>3
  <2>6. Made' BY <2>3, <2>4 DEF Made
  <2>7. Holding'
    <3>1. ASSUME NEW p \in DOMAIN objects
          PROVE  /\ DOMAIN objects'[p].holds \subseteq Slots[objects'[p].kind]
                 /\ objects'[p].owns \subseteq DOMAIN objects'[p].holds
                 /\ \A s \in DOMAIN objects'[p].holds : objects'[p].holds[s] \in DOMAIN clients'
      BY <2>4, <2>5 DEF OwnInv, Holding
    <3> QED BY <2>3, <3>1 DEF Holding
  <2>8. Single' BY <2>3, <2>5 DEF OwnInv, Single
  <2>9. Alone' BY <2>3, <2>5 DEF OwnInv, Alone
  <2>10. ASSUME NEW c, IsOwned(c), c \notin Owned(o) PROVE IsOwned(c)'
    <3>1. PICK p \in DOMAIN objects : \E s \in objects[p].owns : objects[p].holds[s] = c
      BY <2>10 DEF IsOwned
    <3>2. p # o BY <2>10, <3>1 DEF Owned
    <3> QED BY <2>3, <3>1, <3>2 DEF IsOwned
  <2>11. ASSUME NEW c, IsOwned(c)' PROVE IsOwned(c)
    BY <2>3, <2>5, <2>11 DEF IsOwned
  <2>12. Ends'
    <3>1. ASSUME NEW c \in DOMAIN clients'
          PROVE  IF clients'[c].by = "caller" THEN clients'[c].open /\ ~IsOwned(c)'
                                              ELSE clients'[c].open => IsOwned(c)'
      <4>1. CASE c \in Owned(o)
        <5>1. clients'[c].by # "caller" /\ ~clients'[c].open BY <1>2, <2>4, <4>1
        <5> QED BY <5>1
      <4>2. CASE c \notin Owned(o)
        <5>1. clients'[c] = clients[c] /\ c \in DOMAIN clients BY <2>4, <4>2
        <5>2. CASE clients[c].by = "caller"
          BY <5>1, <5>2, <2>11 DEF OwnInv, Ends
        <5>3. CASE clients[c].by # "caller"
          BY <5>1, <5>3, <2>10, <4>2 DEF OwnInv, Ends
        <5> QED BY <5>2, <5>3
      <4> QED BY <4>1, <4>2
    <3> QED BY <3>1 DEF Ends
  <2> QED BY <2>3, <2>6, <2>7, <2>8, <2>9, <2>12 DEF OwnInv
<1>4. ASSUME NEW closed \in SUBSET Owned(o), Closes(closed), objects' = objects
      PROVE  OwnInv' /\ Later
  <2>1. /\ clients' \in Seq(Clients) /\ DOMAIN clients' = DOMAIN clients
        /\ \A c \in DOMAIN clients : c \notin closed => clients'[c] = clients[c]
        /\ \A c \in DOMAIN clients \cap closed : clients'[c].by = clients[c].by /\ ~clients'[c].open
    BY <1>1, <1>4, ClosesFacts
  <2>2. Made' /\ Holding' /\ Single' /\ Alone'
    BY <1>4, <2>1 DEF OwnInv, Made, Holding, Single, Alone
  <2>3. \A c : IsOwned(c)' <=> IsOwned(c) BY <1>4 DEF IsOwned
  <2>4. Ends'
    <3>1. ASSUME NEW c \in DOMAIN clients'
          PROVE  IF clients'[c].by = "caller" THEN clients'[c].open /\ ~IsOwned(c)'
                                              ELSE clients'[c].open => IsOwned(c)'
      <4>1. CASE c \in closed
        <5>1. clients'[c].by # "caller" /\ ~clients'[c].open BY <1>2, <2>1, <4>1
        <5> QED BY <5>1
      <4>2. CASE c \notin closed
        BY <2>1, <2>3, <4>2 DEF OwnInv, Ends
      <4> QED BY <4>1, <4>2
    <3> QED BY <3>1 DEF Ends
  <2>5. Later BY <1>4 DEF Later
  <2> QED BY <2>2, <2>4, <2>5 DEF OwnInv
<1> QED BY <1>3, <1>4

(* A step that makes no object and no client, and opens and closes none. *)
LEMMA RestsOwn ==
  ASSUME OwnInv, UNCHANGED <<objects, clients>>
  PROVE  OwnInv' /\ Later
<1>1. Made' /\ Later BY DEF OwnInv, Made, Later
<1> QED BY <1>1, SameHoldings

LEMMA CurrentFacts ==
  ASSUME Referred, call.todo # <<>>
  PROVE  /\ Current \in DOMAIN objects /\ Current \in Todo /\ objects[Current].used
         /\ Tail(call.todo) \in Seq(DOMAIN objects)
         /\ Todo = {Current} \cup ToSet(Tail(call.todo))
<1>1. call.todo \in Seq(DOMAIN objects) BY DEF Referred
<1>2. /\ Head(call.todo) \in DOMAIN objects /\ Head(call.todo) \in ToSet(call.todo)
      /\ Tail(call.todo) \in Seq(DOMAIN objects)
      /\ ToSet(call.todo) = {Head(call.todo)} \cup ToSet(Tail(call.todo))
  BY <1>1, HeadAndRest
<1> QED BY <1>2 DEF Referred, Current, Todo

(* Whatever a step does, each client stays with the object that owns it. *)
LEMMA OwnStep ==
  ASSUME OwnInv, Referred, [AgentNext]_agentVars
  PROVE  OwnInv' /\ Later
<1>1. ASSUME NEW kind \in Kinds, Make(kind) PROVE OwnInv' /\ Later
  BY <1>1, MakeStep
<1>2. CASE MakeFails BY <1>2, MakeFailsStep
<1>3. ASSUME NEW o \in DOMAIN objects, NEW slot \in Slots[KindOf(o)], With(o, slot)
      PROVE  OwnInv' /\ Later
  BY <1>3, WithStep
<1>4. ASSUME NEW o \in DOMAIN objects, Lookup(o) PROVE OwnInv' /\ Later
  <2>1. /\ KindOf(o) = "training" /\ Lacks(o, "factory") /\ Builds(o, "factory")
        /\ Slots["training"] = {"factory"}
    BY <1>4 DEF Lookup, Slots
  <2> QED BY <2>1, BuildsOwn
<1>5. ASSUME NEW o \in DOMAIN objects, AddTrait(o) \/ ReplaceTrait(o) PROVE OwnInv' /\ Later
  <2>1. objects' = [objects EXCEPT ![o].used = TRUE] /\ clients' = clients
    BY <1>5 DEF AddTrait, ReplaceTrait, Registers
  <2> QED BY <2>1, RegistersOwn
<1>6. CASE StartHook
  <2>1. call.todo # <<>> /\ OnStart(Current) BY <1>6 DEF StartHook, Hooking
  <2>2. Current \in DOMAIN objects BY <2>1, CurrentFacts
  <2>3. CASE KindOf(Current) = "saia" /\ Lacks(Current, "saia")
    <3>1. Builds(Current, "saia") /\ Slots["saia"] = {"saia"}
      BY <2>1, <2>3 DEF OnStart, Slots
    <3> QED BY <2>2, <2>3, <3>1, BuildsOwn
  <2>4. CASE ~(KindOf(Current) = "saia" /\ Lacks(Current, "saia"))
    BY <2>1, <2>4, RestsOwn DEF OnStart
  <2> QED BY <2>3, <2>4
<1>7. CASE StopHook
  <2>1. call.todo # <<>> BY <1>7 DEF StopHook, Hooking
  <2>2. Current \in DOMAIN objects BY <2>1, CurrentFacts
  <2>3. \/ Closes(Owned(Current)) /\ objects' = [objects EXCEPT ![Current].owns = {}]
        \/ \E closed \in SUBSET Owned(Current) : Closes(closed) /\ objects' = objects
    BY <1>7 DEF StopHook
  <2> QED BY <2>2, <2>3, ClosesOwn
<1>8. CASE UNCHANGED <<objects, clients>> BY <1>8, RestsOwn
<1>9. CASE Start \/ Stop BY <1>8, <1>9 DEF Start, Stop, Enter
<1>10. CASE StartRaises \/ StopLoop \/ JoinLoop \/ CallEnds
  BY <1>8, <1>10 DEF StartRaises, StopLoop, JoinLoop, CallEnds
<1>11. ASSUME NEW c \in DOMAIN clients, Post(c) PROVE OwnInv' /\ Later
  BY <1>8, <1>11 DEF Post, traitVars
<1>12. ASSUME NEW l \in DOMAIN loops, Serves(l) PROVE OwnInv' /\ Later
  BY <1>8, <1>12 DEF Serves, Take, Answer, Over, traitVars
<1>13. CASE UNCHANGED agentVars BY <1>8, <1>13 DEF agentVars
<1> QED
  BY <1>1, <1>2, <1>3, <1>4, <1>5, <1>6, <1>7, <1>9, <1>10, <1>11, <1>12, <1>13
     DEF AgentNext, CallGoesOn

(* Each client's owners, of which there is at most one. *)
LEMMA OwnersOf == OwnInv => EachOwned
<1> SUFFICES ASSUME OwnInv PROVE EachOwned
  OBVIOUS
<1>1. ASSUME NEW c \in DOMAIN clients
      PROVE  IF clients[c].by = "caller" THEN Owners(c) = {} /\ clients[c].open
             ELSE Cardinality(Owners(c)) <= 1 /\ (clients[c].open => Owners(c) # {})
  <2>1. IsOwned(c) <=> Owners(c) # {} BY DEF IsOwned, Owners, Owned
  <2>2. \A o, p \in Owners(c) : o = p BY DEF Owners, Owned, OwnInv, Single
  <2>3. Cardinality(Owners(c)) <= 1
    <3>1. CASE Owners(c) = {}
      <4>1. Cardinality(Owners(c)) = 0 BY <3>1, FS_EmptySet
      <4> QED BY <4>1
    <3>2. CASE Owners(c) # {}
      <4>1. PICK o \in Owners(c) : TRUE BY <3>2
      <4>2. Owners(c) = {o} BY <2>2, <4>1
      <4>3. Cardinality({o}) = 1 BY FS_Singleton
      <4> QED BY <4>2, <4>3
    <3> QED BY <3>1, <3>2
  <2> QED BY <2>1, <2>3 DEF OwnInv, Ends
<1> QED BY <1>1 DEF EachOwned

(* Agents: hooks and registry ------------------------------------------------ *)
HookVars == <<registry, started, on, left, call>>

(* A call that is told of by what it is. *)
LEMMA CallIs ==
  ASSUME NEW op \in Ops, NEW todo \in Seq(Nat), NEW at \in {"rest", "start", "stop", "join"},
         NEW new \in Nat, NEW old \in Nat,
         call' = [op |-> op, todo |-> todo, at |-> at, new |-> new, old |-> old]
  PROVE  /\ call' \in CallRecords /\ call'.op = op /\ call'.todo = todo /\ call'.at = at
         /\ call'.new = new /\ call'.old = old
BY DEF CallRecords

LEMMA ObjectsAreNumbers ==
  ASSUME Made
  PROVE  /\ DOMAIN objects = 1..Len(objects) /\ Len(objects) \in Nat
         /\ DOMAIN objects \subseteq Nat /\ None \notin DOMAIN objects /\ None \in Nat
BY DEF Made, None

LEMMA LaterDomain == Later => DOMAIN objects \subseteq DOMAIN objects'
BY DEF Later

LEMMA WiderSeq ==
  ASSUME NEW S, NEW T, S \subseteq T, NEW s \in Seq(S)
  PROVE  s \in Seq(T)
<1>1. \A i \in 1..Len(s) : s[i] \in T OBVIOUS
<1> QED BY <1>1

(* Objects may be made and marked beside a call. *)
LEMMA HooksRest ==
  ASSUME Referred, Hooked, Made, Made', Later, UNCHANGED HookVars
  PROVE  Referred' /\ Hooked'
<1> USE DEF HookVars
<1>1. DOMAIN objects \subseteq DOMAIN objects' BY LaterDomain
<1>2. registry' \in Seq(DOMAIN objects') /\ call'.todo \in Seq(DOMAIN objects')
  BY <1>1, WiderSeq DEF Referred
<1>3. ToSet(registry) \subseteq DOMAIN objects /\ ToSet(call.todo) \subseteq DOMAIN objects
  BY SetOfSeq DEF Referred
<1>4. \A o \in Registered \cup on \cup Todo : o \in DOMAIN objects /\ objects[o].used
  BY <1>3 DEF Referred, Registered, Todo
<1>5. Registered' = Registered /\ Todo' = Todo BY DEF Registered, Todo
<1>6. \A o \in (Registered \cup on \cup Todo)' : objects'[o].used
  BY <1>4, <1>5 DEF Later
<1>7. Referred' BY <1>1, <1>2, <1>6 DEF Referred, Distinct
<1>8. call.op # "idle" => (call.old # None => call.old \in DOMAIN objects)
  BY DEF Referred
<1>9. Hooked'
  <2>1. Between' <=> Between BY <1>5 DEF Between
  <2>2. InStart' <=> InStart BY <1>5 DEF InStart
  <2>3. InStop' <=> InStop BY <1>5 DEF InStop
  <2>4. InAdd' <=> InAdd BY <1>5 DEF InAdd
  <2>5. call.op = "replace" /\ InReplace => InReplace'
    BY <1>5, <1>8 DEF InReplace, Later
  <2>6. call.op = "rollback" /\ InRollback => InRollback'
    BY <1>5, <1>8 DEF InRollback, Later
  <2> QED BY <2>1, <2>2, <2>3, <2>4, <2>5, <2>6 DEF Hooked
<1> QED BY <1>7, <1>9

(* A hook that returned: the call goes on with the rest of its list. *)
LEMMA OnwardFacts ==
  ASSUME Referred, Made, call.todo # <<>>, Onward
  PROVE  /\ call' \in CallRecords /\ call'.op = call.op
         /\ call'.new = call.new /\ call'.old = call.old
         /\ call'.todo = Tail(call.todo) /\ call'.todo \in Seq(DOMAIN objects)
         /\ call'.at = IF call.at = "join" THEN "stop" ELSE call.at
<1>1. Tail(call.todo) \in Seq(DOMAIN objects) BY CurrentFacts
<1>2. Tail(call.todo) \in Seq(Nat) BY <1>1, WiderSeq, ObjectsAreNumbers
<1>3. call \in CallRecords BY DEF Referred
<1> DEFINE at == IF call.at = "join" THEN "stop" ELSE call.at
           todo == Tail(call.todo)
<1>4. call' = [call EXCEPT !.todo = todo, !.at = at] BY DEF Onward
<1>5. at \in {"rest", "start", "stop", "join"} BY <1>3 DEF CallRecords
<1>6. todo \in Seq(Nat) BY <1>2
<1> HIDE DEF at, todo
<1>7. call' = [op |-> call.op, todo |-> todo, at |-> at, new |-> call.new, old |-> call.old]
  BY <1>3, <1>4 DEF CallRecords
<1>8. call.op \in Ops /\ call.new \in Nat /\ call.old \in Nat BY <1>3 DEF CallRecords
<1>9. /\ call' \in CallRecords /\ call'.op = call.op /\ call'.todo = todo /\ call'.at = at
      /\ call'.new = call.new /\ call'.old = call.old
  BY <1>5, <1>6, <1>7, <1>8, CallIs
<1> QED BY <1>1, <1>9 DEF at, todo

LEMMA OneToDo ==
  ASSUME NEW x
  PROVE  <<x>> # <<>> /\ Head(<<x>>) = x /\ Tail(<<x>>) = <<>> /\ ToSet(<<x>>) = {x}
         /\ ToSet(<<>>) = {}
<1>1. <<x>> # <<>> /\ Head(<<x>>) = x /\ Tail(<<x>>) = <<>> OBVIOUS
<1>2. ToSet(<<x>>) = {x} BY DEF ToSet
<1>3. ToSet(<<>>) = {} BY DEF ToSet
<1> QED BY <1>1, <1>2, <1>3

(* The parts of what is referred to, after a step that leaves the registry. *)
LEMMA ReferredNext ==
  ASSUME Referred, Made, Made', Later, registry' = registry, started' \in BOOLEAN,
         call' \in CallRecords, call'.todo \in Seq(DOMAIN objects),
         on' \subseteq on \cup Todo, \A o \in Todo' : o \in Registered \cup Todo \/ objects[o].used,
         call'.op # "idle" => call'.new \in DOMAIN objects \cup {None}
                              /\ call'.old \in DOMAIN objects \cup {None}
  PROVE  Referred'
<1>1. DOMAIN objects \subseteq DOMAIN objects' BY LaterDomain
<1>2. registry' \in Seq(DOMAIN objects') /\ call'.todo \in Seq(DOMAIN objects')
  BY <1>1, WiderSeq DEF Referred
<1>3. Registered \subseteq DOMAIN objects /\ Todo \subseteq DOMAIN objects /\ Todo' \subseteq DOMAIN objects
  BY SetOfSeq DEF Referred, Registered, Todo
<1>4. Registered' = Registered BY DEF Registered
<1>5. on' \subseteq DOMAIN objects BY <1>3 DEF Referred
<1>6. \A o \in (Registered \cup on \cup Todo)' : o \in DOMAIN objects /\ objects[o].used
  BY <1>3, <1>4, <1>5 DEF Referred
<1>7. \A o \in (Registered \cup on \cup Todo)' : objects'[o].used
  BY <1>6 DEF Later
<1> QED BY <1>1, <1>2, <1>5, <1>7 DEF Referred, Distinct

(* on_stop of the trait whose turn it is. *)
LEMMA OffStep ==
  ASSUME Referred, Hooked, Made, Made', Later, call.todo # <<>>, call.at \in {"stop", "join"},
         Off(Current), registry' = registry, started' = started
  PROVE  Referred' /\ Hooked'
<1>1. /\ on' = on \ {Current} /\ left' = left \ {Current} /\ Onward
  BY DEF Off
<1>2. /\ call' \in CallRecords /\ call'.op = call.op
      /\ call'.new = call.new /\ call'.old = call.old
      /\ call'.todo = Tail(call.todo) /\ call'.todo \in Seq(DOMAIN objects)
      /\ call'.at = "stop"
  BY <1>1, OnwardFacts
<1>3. /\ Current \in DOMAIN objects /\ Current \in Todo
      /\ Todo = {Current} \cup ToSet(Tail(call.todo))
  BY CurrentFacts
<1>4. Registered' = Registered /\ Todo' = ToSet(Tail(call.todo)) /\ Todo' \subseteq Todo
  BY <1>2, <1>3 DEF Registered, Todo
<1>5. call.op # "idle" /\ call.op # "start" /\ call.op # "add"
  BY DEF Hooked, Idle, InStart, InAdd
<1>6. call.op \in {"stop", "replace", "rollback"} BY <1>5 DEF Referred, CallRecords, Ops
<1>8. Referred'
  BY <1>1, <1>2, <1>3, <1>4, ReferredNext DEF Referred
<1>9. CASE call.op = "stop"
  <2>1. InStop BY <1>9 DEF Hooked
  <2>2. InStop' BY <1>1, <1>2, <1>3, <1>4, <2>1 DEF InStop
  <2> QED BY <1>2, <1>8, <1>9, <2>2 DEF Hooked
<1>10. CASE call.op = "replace"
  <2>1. InReplace BY <1>10 DEF Hooked
  <2>2. call.todo = <<call.old>> /\ call.old # None /\ call.at # "start" /\ call.new \in on
    BY <2>1 DEF InReplace
  <2>3. Current = call.old /\ Tail(call.todo) = <<>> BY <2>2, OneToDo DEF Current
  <2>4. objects'[call.old].used BY <2>1, <2>2, <2>3, <1>3 DEF InReplace, Later
  <2>5. InReplace'
    BY <1>1, <1>2, <1>4, <2>1, <2>2, <2>3, <2>4 DEF InReplace
  <2> QED BY <1>2, <1>8, <1>10, <2>5 DEF Hooked
<1>11. CASE call.op = "rollback"
  <2>1. InRollback BY <1>11 DEF Hooked
  <2>2. call.todo = <<call.new>> BY <2>1 DEF InRollback
  <2>3. Current = call.new /\ Tail(call.todo) = <<>> BY <2>2, OneToDo DEF Current
  <2>4. call.old # None => objects'[call.old].used
    BY <2>1, <1>11 DEF InRollback, Later, Referred
  <2>5. InRollback'
    BY <1>1, <1>2, <1>4, <2>1, <2>2, <2>3, <2>4 DEF InRollback
  <2> QED BY <1>2, <1>8, <1>11, <2>5 DEF Hooked
<1> QED BY <1>6, <1>9, <1>10, <1>11

(* on_start of the trait whose turn it is. *)
LEMMA StartHookStep ==
  ASSUME Referred, Hooked, Made, Made', Later, StartHook
  PROVE  Referred' /\ Hooked'
<1>1. /\ call.todo # <<>> /\ call.at = "start" /\ on' = on \cup {Current} /\ Onward
      /\ UNCHANGED <<registry, started, left>>
  BY DEF StartHook, Hooking, OnStart
<1>2. /\ call' \in CallRecords /\ call'.op = call.op
      /\ call'.new = call.new /\ call'.old = call.old
      /\ call'.todo = Tail(call.todo) /\ call'.todo \in Seq(DOMAIN objects)
      /\ call'.at = "start"
  BY <1>1, OnwardFacts
<1>3. /\ Current \in DOMAIN objects /\ Current \in Todo
      /\ Todo = {Current} \cup ToSet(Tail(call.todo))
  BY <1>1, CurrentFacts
<1>4. Registered' = Registered /\ Todo' = ToSet(Tail(call.todo)) /\ Todo' \subseteq Todo
  BY <1>1, <1>2, <1>3 DEF Registered, Todo
<1>5. call.op \in {"start", "add", "replace"}
  BY <1>1 DEF Referred, CallRecords, Ops, Hooked, Idle, InStop, InRollback
<1>8. Referred'
  BY <1>1, <1>2, <1>3, <1>4, ReferredNext DEF Referred
<1>9. CASE call.op = "start"
  <2>1. InStart BY <1>9 DEF Hooked
  <2>2. InStart' BY <1>1, <1>2, <1>3, <1>4, <2>1 DEF InStart
  <2> QED BY <1>2, <1>8, <1>9, <2>2 DEF Hooked
<1>10. CASE call.op = "add"
  <2>1. InAdd BY <1>10 DEF Hooked
  <2>2. call.todo = <<call.new>> BY <1>1, <2>1 DEF InAdd
  <2>3. Current = call.new /\ Tail(call.todo) = <<>> BY <2>2, OneToDo DEF Current
  <2>4. InAdd' BY <1>1, <1>2, <1>4, <2>1, <2>3 DEF InAdd
  <2> QED BY <1>2, <1>8, <1>10, <2>4 DEF Hooked
<1>11. CASE call.op = "replace"
  <2>1. InReplace BY <1>11 DEF Hooked
  <2>2. call.todo = <<call.new>> BY <1>1, <2>1 DEF InReplace
  <2>3. Current = call.new /\ Tail(call.todo) = <<>> BY <2>2, OneToDo DEF Current
  <2>4. call.old # None => objects'[call.old].used
    BY <2>1, <1>11 DEF InReplace, Later, Referred
  <2>5. InReplace' BY <1>1, <1>2, <1>4, <2>1, <2>3, <2>4 DEF InReplace
  <2> QED BY <1>2, <1>8, <1>11, <2>5 DEF Hooked
<1> QED BY <1>5, <1>9, <1>10, <1>11

(* What a new list of calls is about: its objects are registered ones. *)
LEMMA ObjectList ==
  ASSUME Made, NEW o \in DOMAIN objects
  PROVE  /\ <<o>> \in Seq(DOMAIN objects) /\ <<o>> \in Seq(Nat) /\ ToSet(<<o>>) = {o}
         /\ o \in Nat /\ o # None
<1>1. o \in Nat /\ o # None BY ObjectsAreNumbers
<1>2. <<o>> \in Seq(DOMAIN objects) /\ <<o>> \in Seq(Nat) BY <1>1
<1> QED BY <1>1, <1>2, OneToDo

LEMMA IdleFacts ==
  /\ Idle \in CallRecords /\ Idle.op = "idle" /\ Idle.todo = <<>> /\ Idle.at = "rest"
  /\ ToSet(<<>>) = {} /\ \A S : <<>> \in Seq(S)
<1>1. Idle \in CallRecords BY DEF Idle, CallRecords, Ops, None
<1>2. ToSet(<<>>) = {} BY OneToDo
<1> QED BY <1>1, <1>2 DEF Idle

(* Start and Stop. *)
LEMMA EnterStep ==
  ASSUME Referred, Hooked, Made, Made', Later, Start \/ Stop
  PROVE  Referred' /\ Hooked'
<1>1. PICK op \in {"start", "stop"}, at \in {"start", "stop"} :
        /\ op = "start" => ~started /\ at = "start"
        /\ op = "stop" => started /\ at = "stop"
        /\ call' = [op |-> op, todo |-> registry, at |-> at, new |-> None, old |-> None]
        /\ call = Idle /\ UNCHANGED <<registry, started, on, left>>
  BY DEF Start, Stop, Enter, Calls
<1>2. registry \in Seq(DOMAIN objects) BY DEF Referred
<1>3. registry \in Seq(Nat) BY <1>2, WiderSeq, ObjectsAreNumbers
<1>4. op \in Ops /\ at \in {"rest", "start", "stop", "join"} /\ None \in Nat
  BY DEF Ops, None
<1>5. /\ call' \in CallRecords /\ call'.op = op /\ call'.todo = registry /\ call'.at = at
      /\ call'.new = None /\ call'.old = None
  BY <1>1, <1>3, <1>4, CallIs
<1>6. Registered' = Registered /\ Todo' = Registered BY <1>1, <1>5 DEF Registered, Todo
<1>7. Between BY <1>1, IdleFacts DEF Hooked
<1>8. Referred' BY <1>1, <1>2, <1>5, <1>6, ReferredNext DEF Referred
<1>9. op = "start" => InStart' BY <1>1, <1>5, <1>6, <1>7 DEF InStart, Between
<1>10. op = "stop" => InStop' BY <1>1, <1>5, <1>6, <1>7 DEF InStop, Between
<1> QED BY <1>5, <1>8, <1>9, <1>10 DEF Hooked

(* A trait whose on_start raises. *)
LEMMA RaisesStep ==
  ASSUME Referred, Hooked, Made, Made', Later, StartRaises
  PROVE  Referred' /\ Hooked'
<1>1. /\ call.todo # <<>> /\ call.at = "start" /\ UNCHANGED <<objects, started, on>>
      /\ left' = IF call.op = "start" THEN left \cup on ELSE left
      /\ registry' = IF call.op = "add" THEN Without(call.new) ELSE registry
      /\ IF call.op = "replace"
         THEN call' = [op |-> "rollback", todo |-> <<call.new>>, at |-> "stop",
                       new |-> call.new, old |-> call.old]
         ELSE call' = Idle
  BY DEF StartRaises, Hooking, Calls
<1>2. call.op \in {"start", "add", "replace"}
  BY <1>1 DEF Referred, CallRecords, Ops, Hooked, Idle, InStop, InRollback
<1>3. Registered \subseteq DOMAIN objects BY SetOfSeq DEF Referred, Registered
<1>4. CASE call.op = "start"
  <2>1. InStart BY <1>4 DEF Hooked
  <2>2. call' = Idle /\ registry' = registry /\ left' = left \cup on BY <1>1, <1>4
  <2>3. Registered' = Registered /\ Todo' = {} BY <2>2, IdleFacts DEF Registered, Todo
  <2>4. Referred' BY <1>1, <2>2, <2>3, IdleFacts, ReferredNext DEF Referred
  <2>5. Between' BY <1>1, <2>1, <2>2 DEF InStart, Between
  <2> QED BY <2>2, <2>4, <2>5, IdleFacts DEF Hooked
<1>5. CASE call.op = "add"
  <2>1. InAdd BY <1>5 DEF Hooked
  <2>2. call.todo = <<call.new>> /\ call.new \notin on /\ call.new \in Registered
    BY <1>1, <2>1 DEF InAdd
  <2>3. call' = Idle /\ registry' = RemoveFirst(registry, call.new) /\ left' = left
    BY <1>1, <1>5 DEF Without
  <2>4. /\ registry' \in Seq(DOMAIN objects) /\ Distinct(registry')
        /\ Registered' = Registered \ {call.new}
    BY <2>2, <2>3, OneLess DEF Referred, Registered
  <2>5. Todo' = {} BY <2>3, IdleFacts DEF Todo
  <2>6. Referred' BY <1>1, <2>3, <2>4, <2>5, IdleFacts DEF Referred
  <2>7. Between' BY <1>1, <2>1, <2>2, <2>3, <2>4 DEF InAdd, Between
  <2> QED BY <2>3, <2>6, <2>7, IdleFacts DEF Hooked
<1>6. CASE call.op = "replace"
  <2>1. InReplace BY <1>6 DEF Hooked
  <2>2. call.todo = <<call.new>> /\ call.new \notin on /\ call.new \in Registered
        /\ (call.old # None => call.old \in on /\ objects[call.old].used)
    BY <1>1, <2>1 DEF InReplace
  <2>3. call.new \in DOMAIN objects /\ call.old \in DOMAIN objects \cup {None}
    BY <1>3, <1>6, <2>2 DEF Referred
  <2>4. call.old \in Nat /\ call.new \in Nat /\ <<call.new>> \in Seq(DOMAIN objects)
        /\ <<call.new>> \in Seq(Nat) /\ ToSet(<<call.new>>) = {call.new}
    BY <2>3, ObjectsAreNumbers, ObjectList
  <2>5. call' = [op |-> "rollback", todo |-> <<call.new>>, at |-> "stop",
                 new |-> call.new, old |-> call.old]
        /\ registry' = registry /\ left' = left
    BY <1>1, <1>6
  <2>6. /\ call' \in CallRecords /\ call'.op = "rollback" /\ call'.todo = <<call.new>>
        /\ call'.at = "stop" /\ call'.new = call.new /\ call'.old = call.old
    BY <2>4, <2>5, CallIs DEF Ops
  <2>7. Registered' = Registered /\ Todo' = {call.new} BY <2>4, <2>5, <2>6 DEF Registered, Todo
  <2>8. Referred' BY <1>1, <2>2, <2>3, <2>4, <2>5, <2>6, <2>7, ReferredNext DEF Referred
  <2>9. InRollback' BY <1>1, <2>1, <2>2, <2>5, <2>6, <2>7 DEF InReplace, InRollback
  <2> QED BY <2>6, <2>8, <2>9 DEF Hooked
<1> QED BY <1>2, <1>4, <1>5, <1>6

(* add_trait and replace_trait, up to the hook. *)
LEMMA GetFacts ==
  ASSUME NEW kind
  PROVE  \/ Get(kind) = None
         \/ Get(kind) \in Registered /\ KindOf(Get(kind)) = kind
BY DEF Get

LEMMA RegisterStep ==
  ASSUME Referred, Hooked, OwnInv, Made', Later, NEW o \in DOMAIN objects,
         AddTrait(o) \/ ReplaceTrait(o)
  PROVE  Referred' /\ Hooked'
<1>1. PICK old \in Registered \cup {None} :
        /\ Registers(o, old)
        /\ \/ /\ old = None
              /\ IF started THEN Calls("add", <<o>>, "start", o, None) ELSE UNCHANGED call
           \/ IF started THEN Calls("replace", <<o>>, "start", o, old) ELSE UNCHANGED call
  <2>1. CASE AddTrait(o) BY <2>1 DEF AddTrait
  <2>2. CASE ReplaceTrait(o)
    <3>1. Get(KindOf(o)) \in Registered \cup {None} BY GetFacts
    <3> QED BY <2>2, <3>1 DEF ReplaceTrait
  <2> QED BY <2>1, <2>2
<1>2. /\ call = Idle /\ ~objects[o].used /\ registry' = Replaced(o, old)
      /\ objects' = [objects EXCEPT ![o].used = TRUE]
      /\ UNCHANGED <<clients, started, on, left>>
  BY <1>1 DEF Registers
<1>3. Made /\ objects'[o].used
  BY <1>2, RegistersOwn DEF OwnInv
<1>4. Between BY <1>2, IdleFacts DEF Hooked
<1>5. o \notin Registered /\ o \notin on BY <1>2 DEF Referred
<1>6. Registered \subseteq DOMAIN objects BY SetOfSeq DEF Referred, Registered
<1>7. None \notin DOMAIN objects /\ None \in Nat BY <1>3, ObjectsAreNumbers
<1>8. /\ registry' \in Seq(DOMAIN objects) /\ Distinct(registry')
      /\ Registered' = (Registered \ {old}) \cup {o}
  <2>1. CASE old = None
    <3>1. registry' = Append(registry, o) BY <1>2, <2>1 DEF Replaced
    <3>2. /\ registry' \in Seq(DOMAIN objects) /\ Distinct(registry')
          /\ Registered' = Registered \cup {o}
      BY <1>5, <3>1, OneMore DEF Referred, Registered
    <3> QED BY <1>6, <1>7, <2>1, <3>2
  <2>2. CASE old \in Registered
    <3> DEFINE t == [i \in DOMAIN registry |-> IF registry[i] = old THEN o ELSE registry[i]]
    <3>1. registry' = t BY <1>2, <1>6, <1>7, <2>2 DEF Replaced
    <3>2. /\ t \in Seq(DOMAIN objects) /\ Distinct(t)
          /\ ToSet(t) = (ToSet(registry) \ {old}) \cup {o}
      BY <1>5, <2>2, OneSwapped DEF Referred, Registered
    <3> QED BY <3>1, <3>2 DEF Registered
  <2> QED BY <1>1, <2>1, <2>2
<1>9. DOMAIN objects \subseteq DOMAIN objects' BY LaterDomain
<1>10. registry' \in Seq(DOMAIN objects') BY <1>8, <1>9, WiderSeq
<1>11. \A p \in Registered' \cup on' : p \in DOMAIN objects' /\ objects'[p].used
  <2>1. \A p \in Registered \cup on : p \in DOMAIN objects /\ objects[p].used
    BY <1>6 DEF Referred
  <2> QED BY <1>2, <1>3, <1>8, <1>9, <2>1 DEF Later
<1>12. old # None => old \in DOMAIN objects /\ objects'[old].used /\ (started => old \in on)
  <2>1. old # None => old \in Registered /\ old \in DOMAIN objects /\ objects[old].used
    BY <1>1, <1>6 DEF Referred
  <2> QED BY <1>4, <2>1 DEF Between, Later
<1>13. /\ <<o>> \in Seq(DOMAIN objects) /\ <<o>> \in Seq(Nat) /\ ToSet(<<o>>) = {o}
       /\ o \in Nat /\ o # None /\ <<o>> # <<>>
  BY <1>3, ObjectList, OneToDo
<1>14. CASE ~started
  <2>1. call' = Idle BY <1>1, <1>2, <1>14
  <2>2. Todo' = {} BY <2>1, IdleFacts DEF Todo
  <2>3. on' \subseteq DOMAIN objects' BY <1>11
  <2>4. Referred' BY <1>2, <1>8, <1>10, <1>11, <1>14, <2>1, <2>2, <2>3, IdleFacts DEF Referred
  <2>5. Between' BY <1>2, <1>4, <1>14 DEF Between
  <2> QED BY <2>1, <2>4, <2>5, IdleFacts DEF Hooked
<1>15. CASE started
  <2>1. PICK op \in {"add", "replace"} :
          /\ call' = [op |-> op, todo |-> <<o>>, at |-> "start", new |-> o, old |-> old]
          /\ op = "add" => old = None
    BY <1>1, <1>15 DEF Calls
  <2>2. old \in Nat /\ op \in Ops BY <1>3, <1>7, <1>12, ObjectsAreNumbers DEF Ops
  <2>3. /\ call' \in CallRecords /\ call'.op = op /\ call'.todo = <<o>> /\ call'.at = "start"
        /\ call'.new = o /\ call'.old = old
    BY <1>13, <2>1, <2>2, CallIs
  <2>4. Todo' = {o} BY <1>13, <2>3 DEF Todo
  <2>5. call'.todo \in Seq(DOMAIN objects') BY <1>9, <1>13, <2>3, WiderSeq
  <2>6. o \in DOMAIN objects' /\ objects'[o].used /\ old \in DOMAIN objects' \cup {None}
    BY <1>3, <1>9, <1>12
  <2>7. on' \subseteq DOMAIN objects' BY <1>11
  <2>8. started' \in BOOLEAN /\ started' BY <1>2, <1>15
  <2>9. \A p \in Registered' \cup on' \cup Todo' : objects'[p].used
    BY <1>11, <2>4, <2>6
  <2>10. Referred'
    BY <1>8, <1>10, <2>3, <2>5, <2>6, <2>7, <2>8, <2>9 DEF Referred
  <2>11. /\ Registered' \ {o} = Registered \ {old} /\ old \notin Registered' /\ o \in Registered'
         /\ o \notin on' /\ Registered \subseteq on' /\ on' \ left' \subseteq Registered
         /\ call'.todo # <<>>
    <3>1. o # old BY <1>5, <1>7, <1>1
    <3> QED BY <1>2, <1>4, <1>5, <1>6, <1>7, <1>8, <1>13, <1>15, <2>3, <3>1 DEF Between
  <2>12. op = "add" => InAdd'
    BY <1>7, <1>6, <1>8, <2>1, <2>3, <2>8, <2>11 DEF InAdd
  <2>13. op = "replace" => InReplace'
    BY <1>2, <1>8, <1>12, <1>15, <2>3, <2>8, <2>11 DEF InReplace
  <2> QED BY <2>3, <2>10, <2>12, <2>13 DEF Hooked
<1> QED BY <1>14, <1>15

(* The last hook of a call. *)
LEMMA CallEndsStep ==
  ASSUME Referred, Hooked, Made, Made', Later, CallEnds
  PROVE  Referred' /\ Hooked'
<1>1. /\ call # Idle /\ call.todo = <<>> /\ UNCHANGED <<objects, on, left>>
      /\ IF Ejects THEN call' = [op |-> "replace", todo |-> <<call.old>>, at |-> "stop",
                                 new |-> call.new, old |-> call.old]
                   ELSE call' = Idle
  BY DEF CallEnds, Calls
<1>s. /\ call.op = "start" => started' = TRUE
      /\ call.op = "stop" => started' = FALSE
      /\ call.op \notin {"start", "stop"} => started' = started
  BY DEF CallEnds
<1>r. call.op # "rollback" => registry' = registry
  BY DEF CallEnds
<1>n. call.op = "rollback" => call.new # None
  <2>1. call.op = "rollback" => call.new \in Registered BY DEF Hooked, InRollback
  <2>2. None \notin Registered BY SetOfSeq, ObjectsAreNumbers DEF Referred, Registered
  <2> QED BY <2>1, <2>2
<1>b. call.op = "rollback" =>
        registry' = IF call.old = None THEN Without(call.new)
                    ELSE [i \in DOMAIN registry |->
                            IF registry[i] = call.new THEN call.old ELSE registry[i]]
  BY <1>n DEF CallEnds, Replaced
<1>2. call.op \in {"start", "stop", "add", "replace", "rollback"}
  BY <1>1 DEF Referred, CallRecords, Ops, Hooked
<1>3. Todo = {} BY <1>1, IdleFacts DEF Todo
<1>4. Registered \subseteq DOMAIN objects BY SetOfSeq DEF Referred, Registered
<1>5. None \notin DOMAIN objects /\ None \in Nat BY ObjectsAreNumbers
<1>6. ASSUME call' = Idle, registry' = registry, started' \in BOOLEAN, Between'
      PROVE  Referred' /\ Hooked'
  <2>1. Todo' = {} BY <1>6, IdleFacts DEF Todo
  <2>2. Referred' BY <1>1, <1>6, <2>1, IdleFacts, ReferredNext DEF Referred
  <2> QED BY <1>6, <2>2, IdleFacts DEF Hooked
<1>7. CASE call.op = "start"
  <2>1. InStart BY <1>7 DEF Hooked
  <2>2. call' = Idle /\ registry' = registry /\ started' = TRUE BY <1>1, <1>s, <1>r, <1>7 DEF Ejects
  <2>3. Registered' = Registered BY <2>2 DEF Registered
  <2>4. Between' BY <1>1, <1>3, <2>1, <2>2, <2>3 DEF InStart, Between
  <2> QED BY <1>6, <2>2, <2>4
<1>8. CASE call.op = "stop"
  <2>1. InStop BY <1>8 DEF Hooked
  <2>2. call' = Idle /\ registry' = registry /\ started' = FALSE BY <1>1, <1>s, <1>r, <1>8 DEF Ejects
  <2>3. Between' BY <1>1, <1>3, <2>1, <2>2 DEF InStop, Between
  <2> QED BY <1>6, <2>2, <2>3
<1>9. CASE call.op = "add"
  <2>1. InAdd BY <1>9 DEF Hooked
  <2>2. call' = Idle /\ registry' = registry /\ started' = started BY <1>1, <1>s, <1>r, <1>9 DEF Ejects
  <2>3. Registered' = Registered BY <2>2 DEF Registered
  <2>4. Between' BY <1>1, <2>1, <2>2, <2>3 DEF InAdd, Between
  <2> QED BY <1>6, <2>2, <2>4 DEF Referred
<1>10. CASE call.op = "replace" /\ ~Ejects
  <2>1. InReplace BY <1>10 DEF Hooked
  <2>2. call' = Idle /\ registry' = registry /\ started' = started BY <1>1, <1>s, <1>r, <1>10
  <2>3. Registered' = Registered BY <2>2 DEF Registered
  <2>4. call.new \in on /\ on \ left \subseteq Registered
    <3>1. CASE call.at = "start"
      <4>1. call.old = None BY <1>10, <3>1 DEF Ejects
      <4>2. None \notin on BY <1>5 DEF Referred
      <4> QED BY <1>1, <2>1, <3>1, <4>1, <4>2 DEF InReplace
    <3>2. CASE call.at # "start"
      BY <1>1, <2>1, <3>2 DEF InReplace
    <3> QED BY <3>1, <3>2
  <2>5. Between' BY <1>1, <2>1, <2>2, <2>3, <2>4 DEF InReplace, Between
  <2> QED BY <1>6, <2>2, <2>5 DEF Referred
<1>11. CASE call.op = "replace" /\ Ejects
  <2>1. InReplace /\ call.at = "start" /\ call.old # None BY <1>11 DEF Hooked, Ejects
  <2>2. call.old \in DOMAIN objects /\ call.new \in Nat /\ call.old \in Nat
        /\ call.new \in DOMAIN objects \cup {None}
    BY <1>11, <2>1, ObjectsAreNumbers DEF Referred, CallRecords
  <2>3. /\ <<call.old>> \in Seq(DOMAIN objects) /\ <<call.old>> \in Seq(Nat)
        /\ ToSet(<<call.old>>) = {call.old}
    BY <2>2, ObjectList
  <2>4. call' = [op |-> "replace", todo |-> <<call.old>>, at |-> "stop",
                 new |-> call.new, old |-> call.old]
        /\ registry' = registry /\ started' = started
    BY <1>1, <1>s, <1>r, <1>11
  <2>5. /\ call' \in CallRecords /\ call'.op = "replace" /\ call'.todo = <<call.old>>
        /\ call'.at = "stop" /\ call'.new = call.new /\ call'.old = call.old
    BY <2>2, <2>3, <2>4, CallIs DEF Ops
  <2>6. Registered' = Registered /\ Todo' = {call.old} BY <2>3, <2>4, <2>5 DEF Registered, Todo
  <2>7. objects[call.old].used /\ call.new \in on BY <1>1, <2>1 DEF InReplace
  <2>8. Referred' BY <1>1, <2>2, <2>3, <2>4, <2>5, <2>6, <2>7, ReferredNext DEF Referred
  <2>9. call'.todo # <<>> BY <2>5, OneToDo
  <2>10. InReplace' BY <1>1, <2>1, <2>4, <2>5, <2>6, <2>7, <2>9 DEF InReplace
  <2> QED BY <2>5, <2>8, <2>10 DEF Hooked
<1>12. CASE call.op = "rollback"
  <2>1. InRollback BY <1>12 DEF Hooked
  <2>2. call' = Idle /\ started' = started BY <1>1, <1>s, <1>12 DEF Ejects
  <2>3. Todo' = {} BY <2>2, IdleFacts DEF Todo
  <2>4. call.new \in Registered /\ call.old \notin Registered BY <2>1 DEF InRollback
  <2>5. /\ registry' \in Seq(DOMAIN objects) /\ Distinct(registry')
        /\ Registered' = (Registered \ {call.new}) \cup (IF call.old = None THEN {} ELSE {call.old})
    <3>1. CASE call.old = None
      <4>1. registry' = RemoveFirst(registry, call.new) BY <1>b, <1>12, <3>1 DEF Without
      <4> QED BY <2>4, <3>1, <4>1, OneLess DEF Referred, Registered
    <3>2. CASE call.old # None
      <4> DEFINE t == [i \in DOMAIN registry |-> IF registry[i] = call.new THEN call.old ELSE registry[i]]
      <4>1. registry' = t BY <1>b, <1>12, <3>2
      <4>2. call.old \in DOMAIN objects BY <1>12, <3>2 DEF Referred
      <4>3. /\ t \in Seq(DOMAIN objects) /\ Distinct(t)
            /\ ToSet(t) = (ToSet(registry) \ {call.new}) \cup {call.old}
        BY <2>4, <4>2, OneSwapped DEF Referred, Registered
      <4> HIDE DEF t
      <4> QED BY <3>2, <4>1, <4>3 DEF Registered
    <3> QED BY <3>1, <3>2
  <2>6. call.old # None => call.old \in on /\ objects[call.old].used BY <2>1 DEF InRollback
  <2>7. \A o \in Registered' \cup on' \cup Todo' : objects'[o].used
    BY <1>1, <2>3, <2>5, <2>6 DEF Referred
  <2>8. Referred' BY <1>1, <2>2, <2>5, <2>7, IdleFacts DEF Referred
  <2>9. Between'
    <3>1. None \notin on BY <1>5 DEF Referred
    <3>2. started' /\ Registered' \subseteq on' BY <1>1, <2>1, <2>2, <2>5, <2>6 DEF InRollback
    <3>3. on' \ left' \subseteq Registered' BY <1>1, <2>1, <2>5, <3>1 DEF InRollback
    <3> QED BY <3>2, <3>3 DEF Between
  <2> QED BY <2>2, <2>8, <2>9, IdleFacts DEF Hooked
<1> QED BY <1>2, <1>7, <1>8, <1>9, <1>10, <1>11, <1>12

(* Agents: the factory's agent ------------------------------------------------ *)
(* How many clients the traits of a kit hold. *)
LEMMA ClientsOfFacts ==
  ASSUME NEW kit \in Seq(DOMAIN Slots)
  PROVE  /\ ClientsOf(kit) \in [0..Len(kit) -> Nat] /\ ClientsOf(kit)[0] = 0
         /\ \A i \in 1..Len(kit) :
              ClientsOf(kit)[i] = ClientsOf(kit)[i - 1] + Cardinality(Widest(kit[i]))
<1> DEFINE n == Len(kit)
           w(i) == Cardinality(Widest(kit[i]))
           counts(g, m) == /\ g \in [0..m -> Nat] /\ g[0] = 0
                           /\ \A i \in 1..m : g[i] = g[i - 1] + w(i)
           T == {m \in 0..n : \E g : counts(g, m)}
           B == (0..n) \ T
<1>1. n \in Nat OBVIOUS
<1>2. \A i \in 1..n : w(i) \in Nat
  <2>1. ASSUME NEW i \in 1..n PROVE w(i) \in Nat
    <3>1. kit[i] \in DOMAIN Slots OBVIOUS
    <3>2. IsFiniteSet(Widest(kit[i])) BY <3>1, SlotFacts
    <3> QED BY <3>2, FS_CardinalityType
  <2> QED BY <2>1
<1> HIDE DEF n, w
<1>3. 0 \in T
  <2>1. counts([i \in 0..0 |-> 0], 0) OBVIOUS
  <2> HIDE DEF counts
  <2> QED BY <1>1, <2>1
<1>4. ASSUME NEW m \in T, m < n PROVE m + 1 \in T
  <2>1. PICK g : counts(g, m) OBVIOUS
  <2>2. m \in Nat /\ m + 1 \in 1..n /\ w(m + 1) \in Nat BY <1>1, <1>2, <1>4
  <2> DEFINE h == [i \in 0..(m + 1) |-> IF i = m + 1 THEN g[m] + w(m + 1) ELSE g[i]]
  <2>3. h \in [0..(m + 1) -> Nat] /\ h[0] = 0 BY <2>1, <2>2
  <2>4. ASSUME NEW i \in 1..(m + 1) PROVE h[i] = h[i - 1] + w(i)
    <3>1. CASE i = m + 1
      <4>1. h[i] = g[m] + w(m + 1) BY <3>1, <2>2
      <4>2. h[i - 1] = g[m] BY <3>1, <2>2
      <4> QED BY <3>1, <4>1, <4>2
    <3>2. CASE i # m + 1
      <4>1. i \in 1..m /\ i - 1 \in 0..m BY <3>2, <2>2
      <4>2. h[i] = g[i] /\ h[i - 1] = g[i - 1] BY <4>1, <2>2
      <4> QED BY <2>1, <4>1, <4>2
    <3> QED BY <3>1, <3>2
  <2>5. counts(h, m + 1) BY <2>3, <2>4
  <2> HIDE DEF counts, h
  <2>6. \E x : counts(x, m + 1) BY <2>5
  <2> QED BY <2>2, <2>6, <1>1
<1>5. n \in T
  <2> HIDE DEF T
  <2>1. SUFFICES ASSUME n \notin T PROVE FALSE OBVIOUS
  <2>2. B \in SUBSET Nat /\ B # {} BY <1>1, <2>1
  <2>3. PICK m \in B : \A k \in B : m <= k BY <2>2, MinOf
  <2>4. m \in 1..n /\ m - 1 \in 0..n /\ m - 1 \notin B BY <1>1, <1>3, <2>3
  <2>5. m - 1 \in T BY <2>4
  <2>8. m - 1 < n BY <1>1, <2>4
  <2>6. (m - 1) + 1 \in T BY <2>5, <2>8, <1>4
  <2>7. (m - 1) + 1 = m BY <2>4
  <2> QED BY <2>3, <2>6, <2>7
<1>6. PICK g : counts(g, n) BY <1>5
<1> DEFINE F(f) == [i \in 0..n |-> IF i = 0 THEN 0 ELSE f[i - 1] + w(i)]
           c == CHOOSE f : f = F(f)
<1>7. g = F(g) BY <1>1, <1>6
<1>8. ClientsOf(kit) = c BY DEF ClientsOf, n, w
<1>9. c = F(c)
  <2> HIDE DEF F
  <2> QED BY <1>7
<1> HIDE DEF c, counts
<1>10. /\ DOMAIN c = 0..n /\ c[0] = 0 /\ \A i \in 1..n : c[i] = c[i - 1] + w(i)
       /\ c = [i \in 0..n |-> c[i]]
  <2>1. c = [i \in 0..n |-> IF i = 0 THEN 0 ELSE c[i - 1] + w(i)] BY <1>9
  <2> QED BY <1>1, <2>1
<1> DEFINE Bad == {i \in 0..n : c[i] \notin Nat}
<1>11. Bad = {}
  <2>1. SUFFICES ASSUME Bad # {} PROVE FALSE OBVIOUS
  <2>2. Bad \in SUBSET Nat OBVIOUS
  <2>3. PICK m \in Bad : \A k \in Bad : m <= k BY <2>1, <2>2, MinOf
  <2>4. m \in 1..n /\ m - 1 \in 0..n /\ m - 1 \notin Bad BY <1>1, <1>10, <2>3
  <2>5. c[m - 1] \in Nat /\ w(m) \in Nat /\ c[m] = c[m - 1] + w(m) BY <1>2, <1>10, <2>4
  <2> QED BY <2>3, <2>5
<1>12. c \in [0..n -> Nat] BY <1>10, <1>11
<1> QED BY <1>8, <1>10, <1>12 DEF n, w

(* The traits' clients are numbered one trait after the other. *)
LEMMA Consecutive ==
  ASSUME NEW n \in Nat, NEW c \in [0..n -> Nat], c[0] = 0,
         \A i \in 1..n : c[i - 1] <= c[i]
  PROVE  /\ \A i, j \in 0..n : i <= j => c[i] <= c[j]
         /\ \A x \in 1..c[n] : \E i \in 1..n : x \in (c[i - 1] + 1)..c[i]
<1>1. ASSUME NEW i \in 0..n, NEW j \in 0..n, i <= j PROVE c[i] <= c[j]
  <2> DEFINE Bad == {k \in i..n : ~(c[i] <= c[k])}
  <2>10. j \in i..n BY <1>1
  <2>1. SUFFICES Bad = {} BY <2>10
  <2>2. SUFFICES ASSUME Bad # {} PROVE FALSE OBVIOUS
  <2>3. Bad \in SUBSET Nat OBVIOUS
  <2>4. PICK m \in Bad : \A k \in Bad : m <= k BY <2>2, <2>3, MinOf
  <2>5. m \in i..n /\ ~(c[i] <= c[m]) BY <2>4
  <2>6. m # i BY <2>5
  <2>7. m - 1 \in i..n /\ m \in 1..n /\ m - 1 \notin Bad BY <2>4, <2>5, <2>6
  <2>8. c[i] <= c[m - 1] /\ c[m - 1] <= c[m] BY <2>7
  <2>9. c[i] \in Nat /\ c[m - 1] \in Nat /\ c[m] \in Nat BY <2>7
  <2> QED BY <2>5, <2>8, <2>9
<1>2. ASSUME NEW x \in 1..c[n] PROVE \E i \in 1..n : x \in (c[i - 1] + 1)..c[i]
  <2> DEFINE S == {k \in 0..n : x <= c[k]}
  <2>1. n \in S /\ S \in SUBSET Nat OBVIOUS
  <2>2. PICK m \in S : \A k \in S : m <= k
    <3>1. S # {} BY <2>1
    <3> QED BY <2>1, <3>1, MinOf
  <2>3. m # 0 BY <2>2
  <2>4. m \in 1..n /\ m - 1 \in 0..n /\ m - 1 \notin S BY <2>2, <2>3
  <2>5. c[m - 1] \in Nat /\ c[m] \in Nat /\ c[m - 1] < x /\ x <= c[m] BY <2>2, <2>4
  <2> QED BY <2>4, <2>5
<1> QED BY <1>1, <1>2

LEMMA AgentInitInv == AgentInit => OwnInv /\ Referred /\ Hooked
<1> SUFFICES ASSUME AgentInit PROVE OwnInv /\ Referred /\ Hooked
  OBVIOUS
<1>1. PICK kit \in Kits :
       /\ objects = [i \in DOMAIN kit |->
                      [kind |-> kit[i], owns |-> Widest(kit[i]), used |-> TRUE,
                       holds |-> Numbered(Widest(kit[i]), ClientsOf(kit)[i - 1])]]
       /\ clients = [c \in 1..ClientsOf(kit)[Len(kit)] |-> NewClient("agent")]
       /\ registry = [i \in DOMAIN kit |-> i]
  BY DEF AgentInit
<1>2. kit \in Seq(DOMAIN Slots) BY AgentConstants
<1> DEFINE n == Len(kit)
           c == ClientsOf(kit)
           at(i) == Numbered(Widest(kit[i]), c[i - 1])
<1>3. n \in Nat /\ DOMAIN kit = 1..n BY <1>2
<1>4. /\ c \in [0..n -> Nat] /\ c[0] = 0
      /\ \A i \in 1..n : c[i] = c[i - 1] + Cardinality(Widest(kit[i]))
  BY <1>2, ClientsOfFacts
<1> HIDE DEF n, c
<1>5. ASSUME NEW i \in 1..n
      PROVE  /\ kit[i] \in DOMAIN Slots /\ Widest(kit[i]) \subseteq SlotNames
             /\ Widest(kit[i]) \subseteq Slots[kit[i]]
             /\ c[i - 1] \in Nat /\ c[i] \in Nat /\ c[i - 1] <= c[i]
             /\ at(i) \in [Widest(kit[i]) -> (c[i - 1] + 1)..c[i]]
             /\ \A x \in (c[i - 1] + 1)..c[i] : \E s \in Widest(kit[i]) : at(i)[s] = x
  <2>1. kit[i] \in DOMAIN Slots BY <1>2, <1>3
  <2>2. Widest(kit[i]) \subseteq Slots[kit[i]] /\ Slots[kit[i]] \subseteq SlotNames
        /\ IsFiniteSet(Widest(kit[i]))
    BY <2>1, SlotFacts
  <2>3. c[i - 1] \in Nat /\ c[i] \in Nat /\ c[i] = c[i - 1] + Cardinality(Widest(kit[i])) BY <1>3, <1>4
  <2> DEFINE S == Widest(kit[i])
             m == c[i - 1]
  <2>4. S \in SUBSET SlotNames /\ IsFiniteSet(S) /\ m \in Nat BY <2>2, <2>3
  <2>5. /\ Cardinality(S) \in Nat
        /\ Numbered(S, m) \in [S -> (m + 1)..(m + Cardinality(S))]
        /\ \A x \in (m + 1)..(m + Cardinality(S)) : \E s \in S : Numbered(S, m)[s] = x
    <3> HIDE DEF S, m
    <3> QED BY <2>4, NumberedFacts
  <2> QED BY <2>1, <2>2, <2>3, <2>5
<1> DEFINE obj(i) == [kind |-> kit[i], owns |-> Widest(kit[i]), used |-> TRUE, holds |-> at(i)]
<1>6. objects = [i \in 1..n |-> obj(i)] BY <1>1, <1>3 DEF c
<1>7. ASSUME NEW i \in 1..n
      PROVE  /\ obj(i) \in Objects
             /\ obj(i).kind = kit[i] /\ obj(i).holds = at(i) /\ obj(i).owns = Widest(kit[i])
             /\ obj(i).used /\ DOMAIN at(i) = Widest(kit[i])
  <2>1. at(i) \in [Widest(kit[i]) -> Nat] BY <1>5
  <2>2. DOMAIN at(i) = Widest(kit[i]) BY <2>1
  <2> HIDE DEF at
  <2>3. at(i) \in Holdings BY <1>5, <2>1, HoldingsOf
  <2> QED BY <1>5, <2>2, <2>3 DEF Objects
<1>8. /\ DOMAIN objects = 1..n
      /\ \A i \in 1..n : /\ objects[i].kind = kit[i] /\ objects[i].holds = at(i)
                         /\ objects[i].owns = Widest(kit[i]) /\ objects[i].used
                         /\ DOMAIN objects[i].holds = Widest(kit[i])
  <2> HIDE DEF obj, at
  <2> QED BY <1>6, <1>7
<1>9. objects \in Seq(Objects)
  <2> HIDE DEF obj
  <2> QED BY <1>3, <1>6, <1>7
<1> HIDE DEF obj, at
<1>10. clients = [x \in 1..c[n] |-> NewClient("agent")] /\ c[n] \in Nat
  BY <1>1, <1>3, <1>4 DEF c, n
<1>11. /\ clients \in Seq(Clients) /\ DOMAIN clients = 1..c[n]
       /\ \A x \in 1..c[n] : clients[x].by # "caller"
  <2>1. NewClient("agent") \in Clients /\ NewClient("agent").by # "caller"
    BY DEF NewClient, Clients
  <2> QED BY <1>10, <2>1
<1>12. /\ \A i, j \in 0..n : i <= j => c[i] <= c[j]
       /\ \A x \in 1..c[n] : \E i \in 1..n : x \in (c[i - 1] + 1)..c[i]
  BY <1>3, <1>4, <1>5, Consecutive
<1>13. Made BY <1>9, <1>11 DEF Made
<1>14. Holding
  <2>1. ASSUME NEW i \in 1..n, NEW s \in Widest(kit[i]) PROVE at(i)[s] \in 1..c[n]
    <3>1. at(i)[s] \in (c[i - 1] + 1)..c[i] BY <1>5
    <3>2. c[i] <= c[n] BY <1>3, <1>12
    <3> QED BY <1>5, <1>10, <3>1, <3>2
  <2> QED BY <1>5, <1>8, <1>11, <2>1 DEF Holding
<1>15. ASSUME NEW i \in 1..n, NEW j \in 1..n, NEW s \in Widest(kit[i]), NEW t \in Widest(kit[j]),
              at(i)[s] = at(j)[t]
       PROVE  i = j
  <2>1. at(i)[s] \in (c[i - 1] + 1)..c[i] /\ at(j)[t] \in (c[j - 1] + 1)..c[j] BY <1>5
  <2>2. /\ c[i - 1] \in Nat /\ c[i] \in Nat /\ c[j - 1] \in Nat /\ c[j] \in Nat BY <1>5
  <2>3. i < j => c[i] <= c[j - 1] BY <1>3, <1>12
  <2>4. j < i => c[j] <= c[i - 1] BY <1>3, <1>12
  <2> QED BY <1>15, <2>1, <2>2, <2>3, <2>4
<1>16. Single /\ Alone BY <1>8, <1>15 DEF Single, Alone
<1>17. Ends
  <2>1. ASSUME NEW x \in 1..c[n] PROVE IsOwned(x)
    <3>1. PICK i \in 1..n : x \in (c[i - 1] + 1)..c[i] BY <1>12
    <3>2. PICK s \in Widest(kit[i]) : at(i)[s] = x BY <1>5, <3>1
    <3> QED BY <1>8, <3>2 DEF IsOwned
  <2> QED BY <1>11, <2>1 DEF Ends
<1>18. OwnInv BY <1>13, <1>14, <1>16, <1>17 DEF OwnInv
<1>19. registry = [i \in 1..n |-> i] BY <1>1, <1>3
<1>20. /\ registry \in Seq(DOMAIN objects) /\ Distinct(registry) /\ Registered = 1..n
  <2>1. registry \in Seq(1..n) BY <1>3, <1>19
  <2>2. Distinct(registry) BY <1>19 DEF Distinct
  <2>3. Registered = 1..n BY <1>19 DEF Registered, ToSet
  <2> QED BY <1>8, <2>1, <2>2, <2>3
<1>21. call = Idle /\ started = FALSE /\ on = {} /\ left = {} BY DEF AgentInit
<1>22. Todo = {} BY <1>21, IdleFacts DEF Todo
<1>23. Referred BY <1>8, <1>20, <1>21, <1>22, IdleFacts DEF Referred
<1>24. Between BY <1>21 DEF Between
<1>25. Hooked BY <1>21, <1>24, IdleFacts DEF Hooked
<1> QED BY <1>18, <1>23, <1>25


(* on_stop of an HTTP trait told its thread, and waits for it. *)
LEMMA WaitStep ==
  ASSUME Referred, Hooked, Made, Made', Later, call.todo # <<>>, call.at = "stop",
         call' = [call EXCEPT !.at = "join"], UNCHANGED <<registry, started, on, left>>
  PROVE  Referred' /\ Hooked'
<1>1. call \in CallRecords BY DEF Referred
<1>2. /\ call' \in CallRecords /\ call'.op = call.op /\ call'.todo = call.todo
      /\ call'.new = call.new /\ call'.old = call.old /\ call'.at = "join"
  BY <1>1 DEF CallRecords
<1>3. Registered' = Registered /\ Todo' = Todo BY <1>2 DEF Registered, Todo
<1>4. call.op \in {"stop", "replace", "rollback"}
  BY <1>1 DEF CallRecords, Ops, Hooked, Idle, InStart, InAdd
<1>5. Referred' BY <1>2, <1>3, ReferredNext DEF Referred
<1>6. CASE call.op = "stop"
  <2>1. InStop BY <1>6 DEF Hooked
  <2>2. InStop' BY <1>2, <1>3, <2>1 DEF InStop
  <2> QED BY <1>2, <1>5, <1>6, <2>2 DEF Hooked
<1>7. CASE call.op = "replace"
  <2>1. InReplace BY <1>7 DEF Hooked
  <2>2. call.old # None => objects'[call.old].used BY <2>1, <1>7 DEF InReplace, Later, Referred
  <2>3. InReplace' BY <1>2, <1>3, <2>1, <2>2 DEF InReplace
  <2> QED BY <1>2, <1>5, <1>7, <2>3 DEF Hooked
<1>8. CASE call.op = "rollback"
  <2>1. InRollback BY <1>8 DEF Hooked
  <2>2. call.old # None => objects'[call.old].used BY <2>1, <1>8 DEF InRollback, Later, Referred
  <2>3. InRollback' BY <1>2, <1>3, <2>1, <2>2 DEF InRollback
  <2> QED BY <1>2, <1>5, <1>8, <2>3 DEF Hooked
<1> QED BY <1>4, <1>6, <1>7, <1>8

AgentInv == OwnInv /\ Referred /\ Hooked

(* Whatever a step does, the hooks and the registry stay in step with the call
   in progress. *)
LEMMA HookStep ==
  ASSUME AgentInv, OwnInv', Later, [AgentNext]_agentVars
  PROVE  Referred' /\ Hooked'
<1>1. Referred /\ Hooked /\ OwnInv /\ Made /\ Made' BY DEF AgentInv, OwnInv
<1>2. CASE UNCHANGED HookVars BY <1>1, <1>2, HooksRest
<1>3. ASSUME NEW kind \in Kinds, Make(kind) PROVE Referred' /\ Hooked'
  BY <1>2, <1>3 DEF Make, HookVars
<1>4. CASE MakeFails BY <1>2, <1>4 DEF MakeFails, HookVars
<1>5. ASSUME NEW o \in DOMAIN objects, NEW slot \in Slots[KindOf(o)], With(o, slot)
      PROVE  Referred' /\ Hooked'
  BY <1>2, <1>5 DEF With, HookVars
<1>6. ASSUME NEW o \in DOMAIN objects, Lookup(o) PROVE Referred' /\ Hooked'
  BY <1>2, <1>6 DEF Lookup, HookVars
<1>7. ASSUME NEW o \in DOMAIN objects, AddTrait(o) \/ ReplaceTrait(o) PROVE Referred' /\ Hooked'
  BY <1>1, <1>7, RegisterStep
<1>8. CASE Start \/ Stop BY <1>1, <1>8, EnterStep
<1>9. CASE StartHook BY <1>1, <1>9, StartHookStep
<1>10. CASE StartRaises BY <1>1, <1>10, RaisesStep
<1>11. CASE StopHook
  <2>1. /\ call.todo # <<>> /\ call.at = "stop" /\ Off(Current)
        /\ registry' = registry /\ started' = started
    BY <1>11 DEF StopHook, Hooking
  <2> QED BY <1>1, <2>1, OffStep
<1>12. CASE StopLoop
  <2>1. call.todo # <<>> /\ call.at = "stop" /\ registry' = registry /\ started' = started
    BY <1>12 DEF StopLoop, Hooking
  <2>2. \/ Off(Current)
        \/ call' = [call EXCEPT !.at = "join"] /\ UNCHANGED <<on, left>>
    BY <1>12 DEF StopLoop, StopServer
  <2> QED BY <1>1, <2>1, <2>2, OffStep, WaitStep
<1>13. CASE JoinLoop
  <2>1. /\ call.todo # <<>> /\ call.at = "join" /\ Off(Current)
        /\ registry' = registry /\ started' = started
    BY <1>13 DEF JoinLoop, Hooking, StopServer
  <2> QED BY <1>1, <2>1, OffStep
<1>14. CASE CallEnds BY <1>1, <1>14, CallEndsStep
<1>15. ASSUME NEW c \in DOMAIN clients, Post(c) PROVE Referred' /\ Hooked'
  BY <1>2, <1>15 DEF Post, traitVars, HookVars
<1>16. ASSUME NEW l \in DOMAIN loops, Serves(l) PROVE Referred' /\ Hooked'
  BY <1>2, <1>16 DEF Serves, Take, Answer, Over, traitVars, HookVars
<1>17. CASE UNCHANGED agentVars BY <1>2, <1>17 DEF agentVars, HookVars
<1> QED
  BY <1>3, <1>4, <1>5, <1>6, <1>7, <1>8, <1>9, <1>10, <1>11, <1>12, <1>13, <1>14, <1>15, <1>16, <1>17
     DEF AgentNext, CallGoesOn

LEMMA AgentStep == AgentInv /\ [AgentNext]_agentVars => AgentInv'
<1> SUFFICES ASSUME AgentInv, [AgentNext]_agentVars PROVE AgentInv'
  OBVIOUS
<1>1. OwnInv' /\ Later BY OwnStep DEF AgentInv
<1>2. Referred' /\ Hooked' BY <1>1, HookStep
<1> QED BY <1>1, <1>2 DEF AgentInv

LEMMA AgentInvHolds == AgentInv => HooksMatchRegistry /\ EachOwned
<1> SUFFICES ASSUME AgentInv PROVE HooksMatchRegistry /\ EachOwned
  OBVIOUS
<1>1. EachOwned BY OwnersOf DEF AgentInv
<1>2. call = Idle => Between BY IdleFacts DEF AgentInv, Hooked
<1> QED BY <1>1, <1>2 DEF Between, HooksMatchRegistry

(* Whichever hooks raise in add_trait, replace_trait, start and stop, between two
   of the owner's calls the traits that run are the registered ones of a started
   agent, but for what a raising start() left behind. *)
THEOREM HooksMatch == AgentSpec => []HooksMatchRegistry
<1> QED BY AgentInitInv, AgentStep, AgentInvHolds, PTL DEF AgentSpec, AgentInv

(* Through views, replacements, rollbacks and failed constructions, no client is
   closed by two traits, none of a caller's by any, and no open one by none. *)
THEOREM OneOwner == AgentSpec => []EachOwned
<1> QED BY AgentInitInv, AgentStep, AgentInvHolds, PTL DEF AgentSpec, AgentInv

(* Core: names and what each holds ------------------------------------------- *)

All == {"transport", "channel", "runner"}

(* What the call in progress has given its agent, or left it, so far. *)
InCall ==
  /\ doing.op = "start" =>
       /\ handle[doing.of] = "starting"
       /\ held[doing.of] = IF doing.at = "transport" THEN {} ELSE {"transport", "channel"}
  /\ doing.op = "stop" =>
       /\ handle[doing.of] = "stopping"
       /\ held[doing.of] = IF doing.at = "runner" THEN All ELSE {"transport", "channel"}

CoreInv == CoreTypeOK /\ HeldIffRunning /\ InCall

(* No operation has no name, and an operation is not none. *)
LEMMA OpCases ==
  ASSUME CoreTypeOK
  PROVE  \/ doing = NoOperation /\ doing.op = "none"
         \/ doing.op = "start" /\ doing # NoOperation /\ doing.of \in Names
                               /\ doing.at \in {"transport", "runner"}
         \/ doing.op = "stop" /\ doing # NoOperation /\ doing.of \in Names
                              /\ doing.at \in {"runner", "channel"} /\ doing.raised \in BOOLEAN
BY DEF CoreTypeOK, NoOperation

(* The invariant holds at first, and is kept by every step. *)
LEMMA CoreInitInv == CoreInit => CoreInv
<1> SUFFICES ASSUME CoreInit PROVE CoreInv
  OBVIOUS
<1> USE DEF CoreInit, NoOperation
<1>1. CoreTypeOK
  <2>1. stoppingAll \in Seq(Names) OBVIOUS
  <2>2. handle \in [Names -> {"none", "created", "failed", "stopped"} \cup Active]
    OBVIOUS
  <2>3. held \in [Names -> SUBSET {"transport", "channel", "runner"}]
    OBVIOUS
  <2> QED BY <2>1, <2>2, <2>3 DEF CoreTypeOK
<1>2. HeldIffRunning /\ InCall
  BY DEF HeldIffRunning, InCall
<1> QED BY <1>1, <1>2 DEF CoreInv

LEMMA CoreStepType == CoreTypeOK /\ [CoreNext]_coreVars => CoreTypeOK'
<1> SUFFICES ASSUME CoreTypeOK, [CoreNext]_coreVars PROVE CoreTypeOK'
  OBVIOUS
<1> USE OpCases DEF CoreTypeOK, NoOperation, Active
<1>1. CASE StartBus BY <1>1 DEF StartBus
<1>2. CASE StopBus BY <1>2 DEF StopBus
<1>3. ASSUME NEW n \in Names, Register(n) PROVE CoreTypeOK'
  BY <1>3 DEF Register
<1>4. ASSUME NEW n \in Names, Unregister(n) PROVE CoreTypeOK'
  BY <1>4 DEF Unregister
<1>5. ASSUME NEW n \in Names, StartAgent(n) PROVE CoreTypeOK'
  BY <1>5 DEF StartAgent
<1>6. ASSUME NEW n \in Names, StopAgent(n) PROVE CoreTypeOK'
  BY <1>6 DEF StopAgent, EnterStop
<1>7. CASE OpenChannel BY <1>7 DEF OpenChannel, Starting
<1>8. CASE BusNotStarted BY <1>8 DEF BusNotStarted, Starting, Fails
<1>9. CASE RunnerStarts BY <1>9 DEF RunnerStarts, Starting
<1>10. CASE RunnerFails BY <1>10 DEF RunnerFails, Starting, Fails
<1>11. CASE StopRunner BY <1>11 DEF StopRunner, Stopping
<1>12. CASE CloseChannel BY <1>12 DEF CloseChannel, Stopping
<1>13. CASE Shutdown
  <2>1. Cardinality(Names) \in Nat
    BY FiniteNames, FS_CardinalityType
  <2>2. PICK order \in [1..Cardinality(Names) -> Names] : stoppingAll' = order
    BY <1>13 DEF Shutdown
  <2>3. stoppingAll' \in Seq(Names)
    BY <2>1, <2>2
  <2> QED BY <1>13, <2>3 DEF Shutdown
<1>14. CASE ShutdownGoesOn
  <2>1. stoppingAll' \in Seq(Names) /\ Head(stoppingAll) \in Names
    BY <1>14 DEF ShutdownGoesOn
  <2>2. CASE handle[Head(stoppingAll)] = "running"
    <3>1. handle' \in [Names -> {"none", "created", "failed", "stopped"} \cup Active]
      BY <1>14, <2>2 DEF ShutdownGoesOn, EnterStop
    <3>2. /\ doing' = [op |-> "stop", of |-> Head(stoppingAll), at |-> "runner", raised |-> FALSE]
          /\ UNCHANGED <<held, busUp>>
      BY <1>14, <2>2 DEF ShutdownGoesOn, EnterStop
    <3> QED BY <2>1, <3>1, <3>2
  <2>3. CASE handle[Head(stoppingAll)] # "running"
    BY <1>14, <2>1, <2>3 DEF ShutdownGoesOn
  <2> QED BY <2>2, <2>3
<1>15. CASE UNCHANGED coreVars BY <1>15 DEF coreVars
<1> QED
  BY <1>1, <1>2, <1>3, <1>4, <1>5, <1>6, <1>7, <1>8, <1>9, <1>10, <1>11, <1>12,
     <1>13, <1>14, <1>15 DEF CoreNext

LEMMA CoreStepHeld == CoreInv /\ [CoreNext]_coreVars => (HeldIffRunning /\ InCall)'
<1> SUFFICES ASSUME CoreTypeOK, HeldIffRunning, InCall, [CoreNext]_coreVars
             PROVE  HeldIffRunning' /\ InCall'
  BY DEF CoreInv
<1> USE OpCases DEF HeldIffRunning, InCall, NoOperation, All
<1>t. handle \in [Names -> {"none", "created", "failed", "stopped"} \cup Active]
      /\ held \in [Names -> SUBSET All]
  BY DEF CoreTypeOK
<1>1. CASE StartBus BY <1>1 DEF StartBus, Free
<1>2. CASE StopBus BY <1>2, <1>t DEF StopBus, Free
<1>3. ASSUME NEW n \in Names, Register(n) PROVE HeldIffRunning' /\ InCall'
  BY <1>3, <1>t DEF Register, Free
<1>4. ASSUME NEW n \in Names, Unregister(n) PROVE HeldIffRunning' /\ InCall'
  BY <1>4, <1>t DEF Unregister, Free
<1>5. ASSUME NEW n \in Names, StartAgent(n) PROVE HeldIffRunning' /\ InCall'
  BY <1>5, <1>t DEF StartAgent, Free, Active
<1>6. ASSUME NEW n \in Names, EnterStop(n), doing = NoOperation, held' = held
      PROVE  HeldIffRunning' /\ InCall'
  BY <1>6, <1>t DEF EnterStop
<1>7. CASE OpenChannel BY <1>7, <1>t DEF OpenChannel, Starting
<1>8. CASE BusNotStarted BY <1>8, <1>t DEF BusNotStarted, Starting, Fails
<1>9. CASE RunnerStarts BY <1>9, <1>t DEF RunnerStarts, Starting
<1>10. CASE RunnerFails BY <1>10, <1>t DEF RunnerFails, Starting, Fails
<1>11. CASE StopRunner
  <2>1. /\ doing.op = "stop" /\ doing.at = "runner" /\ doing.of \in Names
        /\ doing'.op = "stop" /\ doing'.at = "channel" /\ doing'.of = doing.of
        /\ doing' # NoOperation
    <3>1. doing.op = "stop" /\ doing.at = "runner" /\ doing.of \in Names
      BY <1>11 DEF StopRunner, Stopping
    <3>2. PICK raises \in BOOLEAN : doing' = [doing EXCEPT !.at = "channel", !.raised = raises]
      BY <1>11 DEF StopRunner
    <3>3. doing \in [op : {"stop"}, of : Names, at : {"runner", "channel"}, raised : BOOLEAN]
      BY <3>1 DEF CoreTypeOK
    <3>4. doing' = [op |-> "stop", of |-> doing.of, at |-> "channel", raised |-> raises]
      BY <3>2, <3>3
    <3> QED BY <3>1, <3>4
  <2>2. held' = [held EXCEPT ![doing.of] = @ \ {"runner"}] /\ handle' = handle
    BY <1>11 DEF StopRunner
  <2>3. held'[doing.of] = {"transport", "channel"}
    BY <2>1, <2>2, <1>t
  <2> QED BY <2>1, <2>2, <2>3, <1>t
<1>12. CASE CloseChannel BY <1>12, <1>t DEF CloseChannel, Stopping
<1>13. CASE Shutdown BY <1>13 DEF Shutdown
<1>14. CASE ShutdownGoesOn
  <2>1. Head(stoppingAll) \in Names
    BY <1>14 DEF ShutdownGoesOn, CoreTypeOK
  <2>2. CASE handle[Head(stoppingAll)] = "running"
    BY <1>14, <2>1, <2>2, <1>6 DEF ShutdownGoesOn
  <2>3. CASE handle[Head(stoppingAll)] # "running"
    BY <1>14, <2>3 DEF ShutdownGoesOn
  <2> QED BY <2>2, <2>3
<1>15. CASE UNCHANGED coreVars BY <1>15 DEF coreVars
<1>16. ASSUME NEW n \in Names, StopAgent(n) PROVE HeldIffRunning' /\ InCall'
  BY <1>6, <1>16 DEF StopAgent, Free
<1> QED
  BY <1>1, <1>2, <1>3, <1>4, <1>5, <1>7, <1>8, <1>9, <1>10, <1>11, <1>12,
     <1>13, <1>14, <1>15, <1>16 DEF CoreNext

(* Whatever a start, a stop or a shutdown raises, a name that no call is busy
   with has a runner, a channel and a transport exactly when it runs.         *)
THEOREM CoreHolds == CoreSpec => []HeldIffRunning
<1>1. CoreInv /\ [CoreNext]_coreVars => CoreInv'
  BY CoreStepType, CoreStepHeld DEF CoreInv
<1>2. CoreInv => HeldIffRunning
  BY DEF CoreInv
<1> QED
  BY CoreInitInv, <1>1, <1>2, PTL DEF CoreSpec

(* Platform: the tools of each agent ------------------------------------------ *)

ToolNames == {ToolName[t] : t \in DOMAIN ToolName}
Tools == [name : ToolNames, memory : Nat, config : Nat]

(* The shapes of the state. *)
Shapes ==
  /\ made \in Seq([traits : SUBSET STRING, kit : Seq(Tools)])
  /\ making \in [at : {"rest", "traits", "tools"}, todo : Seq(STRING), tools : Seq(STRING),
                 traits : SUBSET STRING, kit : Seq(Tools)]
  /\ lent \in Nat /\ cached \in Nat

(* The memory tools of a kit work on the memory of agent a, which has one. *)
Owns(kit, a, traits) ==
  \A i \in DOMAIN kit :
    kit[i].name \in OfMemory => kit[i].memory = a /\ "memory" \in traits

(* A memory trait is lent while the tools of its own agent are made, and at no
   other time. *)
Lent ==
  /\ making.at # "tools" => lent = Nobody /\ making.kit = <<>>
  /\ lent # Nobody => lent = Self /\ Remembers

PlatformInv ==
  Shapes /\ Lent /\ OwnTools /\ Owns(making.kit, Self, making.traits)

(* What holds of the tools that are made is what OwnTools says of each agent. *)
LEMMA OwnsEach ==
  OwnTools <=> \A a \in DOMAIN made : Owns(made[a].kit, a, made[a].traits)
BY DEF OwnTools, Owns

(* Kits with a tool fewer, and with a tool more. *)
LEMMA OwnsAppend ==
  ASSUME NEW kit \in Seq(Tools), NEW tool \in Tools, NEW a, NEW traits, Owns(kit, a, traits),
         tool.name \in OfMemory => tool.memory = a /\ "memory" \in traits
  PROVE  Owns(Append(kit, tool), a, traits)
BY DEF Owns

(* A configured list without its head. *)
LEMMA RestOfList ==
  ASSUME NEW s \in Seq(STRING), s # <<>>
  PROVE  Head(s) \in STRING /\ Tail(s) \in Seq(STRING)
OBVIOUS

LEMMA SelfIsNat == Shapes => Self \in Nat /\ Self # Nobody
BY DEF Shapes, Self, Nobody

LEMMA PlatformInitInv == PlatformInit => PlatformInv
<1> SUFFICES ASSUME PlatformInit PROVE PlatformInv
  OBVIOUS
<1> USE DEF PlatformInit, Unmade, Nobody
<1>1. Shapes BY DEF Shapes
<1>2. Lent BY DEF Lent
<1>3. OwnTools BY DEF OwnTools
<1>4. Owns(making.kit, Self, making.traits) BY DEF Owns
<1> QED BY <1>1, <1>2, <1>3, <1>4 DEF PlatformInv

LEMMA PlatformStep == PlatformInv /\ [PlatformNext]_platformVars => PlatformInv'
<1> SUFFICES ASSUME PlatformInv, [PlatformNext]_platformVars PROVE PlatformInv'
  OBVIOUS
<1> USE DEF PlatformInv
<1>s. Self \in Nat /\ Self # Nobody
  BY SelfIsNat
<1>u. Unmade \in [at : {"rest", "traits", "tools"}, todo : Seq(STRING), tools : Seq(STRING),
                  traits : SUBSET STRING, kit : Seq(Tools)]
  BY DEF Unmade
<1>0. ASSUME making' = Unmade, made' = made, lent' = Nobody, cached' = cached
      PROVE  PlatformInv'
  <2>1. Shapes' BY <1>0, <1>u DEF Shapes, Nobody
  <2>2. Lent' BY <1>0 DEF Lent, Unmade
  <2>3. OwnTools' BY <1>0 DEF OwnTools
  <2>4. Owns(making.kit, Self, making.traits)' BY <1>0 DEF Owns, Unmade
  <2> QED BY <2>1, <2>2, <2>3, <2>4
<1>1. ASSUME NEW traits \in TraitLists, NEW tools \in ToolLists, Create(traits, tools)
      PROVE  PlatformInv'
  <2>1. traits \in Seq(STRING) /\ tools \in Seq(STRING)
    BY PlatformConstants
  <2>2. making' = [at |-> "traits", todo |-> traits, tools |-> tools, traits |-> {}, kit |-> <<>>]
    BY <1>1 DEF Create, Unmade
  <2>3. UNCHANGED <<made, lent, cached>> /\ lent = Nobody
    BY <1>1 DEF Create, Lent, Unmade
  <2>4. Shapes' BY <2>1, <2>2, <2>3 DEF Shapes
  <2>5. Lent' BY <2>2, <2>3 DEF Lent
  <2>6. OwnTools' BY <2>3 DEF OwnTools
  <2>7. Owns(making.kit, Self, making.traits)' BY <2>2 DEF Owns
  <2> QED BY <2>4, <2>5, <2>6, <2>7
<1>2. CASE AttachTrait
  <2>1. /\ making.at = "traits" /\ making.todo # <<>> /\ UNCHANGED <<made, lent, cached>>
        /\ making' = [making EXCEPT !.todo = Tail(@), !.traits = @ \cup {Head(making.todo)}]
    BY <1>2 DEF AttachTrait
  <2>2. lent = Nobody /\ making.kit = <<>>
    BY <2>1 DEF Lent
  <2>3. Shapes'
    <3>1. making.todo \in Seq(STRING) BY DEF Shapes
    <3>2. Head(making.todo) \in STRING /\ Tail(making.todo) \in Seq(STRING)
      BY <2>1, <3>1, RestOfList
    <3>3. making' \in [at : {"rest", "traits", "tools"}, todo : Seq(STRING),
                       tools : Seq(STRING), traits : SUBSET STRING, kit : Seq(Tools)]
      BY <2>1, <3>2 DEF Shapes
    <3> QED BY <2>1, <3>3 DEF Shapes
  <2>4. Lent' BY <2>1, <2>2 DEF Lent, Shapes
  <2>5. OwnTools' BY <2>1 DEF OwnTools
  <2>6. Owns(making.kit, Self, making.traits)' BY <2>1, <2>2 DEF Owns, Shapes
  <2> QED BY <2>3, <2>4, <2>5, <2>6
<1>3. CASE TraitFails
  <2>1. lent' = Nobody
    BY <1>3 DEF TraitFails, Lent
  <2> QED BY <1>0, <1>3, <2>1 DEF TraitFails
<1>4. CASE LendMemory
  <2>1. /\ making.at = "traits" /\ UNCHANGED <<made, cached>>
        /\ making' = [making EXCEPT !.at = "tools"]
        /\ lent' = IF Remembers /\ making.tools # <<>> THEN Self ELSE lent
    BY <1>4 DEF LendMemory
  <2>2. lent = Nobody /\ making.kit = <<>>
    BY <2>1 DEF Lent
  <2>3. Shapes' BY <2>1, <1>s DEF Shapes
  <2>4. Lent' BY <2>1, <2>2, <1>s DEF Lent, Shapes, Self, Remembers
  <2>5. OwnTools' BY <2>1 DEF OwnTools
  <2>6. Owns(making.kit, Self, making.traits)' BY <2>1, <2>2 DEF Owns, Shapes
  <2> QED BY <2>3, <2>4, <2>5, <2>6
<1>5. CASE AddTool
  <2> DEFINE skipped == Type \in OfMemory /\ lent = Nobody
  <2>1. /\ making.at = "tools" /\ making.tools # <<>> /\ Type \in DOMAIN ToolName
        /\ UNCHANGED <<made, lent>>
        /\ cached' = IF Type = "web_fetch_configured" THEN Self ELSE cached
        /\ making' = [making EXCEPT !.tools = Tail(@),
                        !.kit = IF skipped THEN @ ELSE Append(@, Tool(Type))]
    BY <1>5 DEF AddTool, Adding, Known
  <2>2. Tool(Type) \in Tools
    <3>1. ToolName[Type] \in ToolNames
      BY <2>1 DEF ToolNames
    <3>2. /\ lent \in Nat /\ cached \in Nat /\ Nobody \in Nat
      BY DEF Shapes, Nobody
    <3>3. Tool(Type).memory \in Nat
      BY <3>2 DEF Tool
    <3>4. Tool(Type).config \in Nat
      BY <3>2, <1>s DEF Tool
    <3> QED BY <3>1, <3>3, <3>4 DEF Tool, Tools
  <2>3. Tool(Type).name \in OfMemory => Type \in OfMemory
    BY <2>1 DEF Tool, ToolName, OfMemory
  <2>4. making'.kit = IF skipped THEN making.kit ELSE Append(making.kit, Tool(Type))
    BY <2>1 DEF Shapes
  <2>5. making'.traits = making.traits /\ making'.at = "tools" /\ Self' = Self
    BY <2>1 DEF Shapes, Self
  <2>6. making'.kit \in Seq(Tools)
    BY <2>2, <2>4 DEF Shapes
  <2>7. Shapes'
    <3>1. making.tools \in Seq(STRING) BY DEF Shapes
    <3>2. Tail(making.tools) \in Seq(STRING)
      BY <2>1, <3>1, RestOfList
    <3> HIDE DEF skipped
    <3>3. making' = [making EXCEPT !.tools = Tail(making.tools), !.kit = making'.kit]
      BY <2>1 DEF Shapes
    <3>4. making' \in [at : {"rest", "traits", "tools"}, todo : Seq(STRING),
                       tools : Seq(STRING), traits : SUBSET STRING, kit : Seq(Tools)]
      BY <2>6, <3>2, <3>3 DEF Shapes
    <3> QED BY <2>1, <3>4, <1>s DEF Shapes
  <2>8. Lent' BY <2>1, <2>5 DEF Lent, Remembers
  <2>9. OwnTools' BY <2>1 DEF OwnTools
  <2>10. Owns(making'.kit, Self, making.traits)
    <3>1. CASE skipped BY <3>1, <2>4
    <3>2. CASE ~skipped
      <4>1. Tool(Type).name \in OfMemory => Tool(Type).memory = Self /\ "memory" \in making.traits
        BY <3>2, <2>3 DEF Tool, Lent, Remembers
      <4>2. making.kit \in Seq(Tools) BY DEF Shapes
      <4> HIDE DEF skipped
      <4> QED BY <3>2, <4>1, <4>2, <2>2, <2>4, OwnsAppend
    <3> QED BY <3>1, <3>2
  <2> QED BY <2>5, <2>7, <2>8, <2>9, <2>10 DEF Owns
<1>6. CASE ToolFails
  <2>1. lent' = Nobody
    BY <1>6 DEF ToolFails, TakesBack, Lent
  <2> QED BY <1>0, <1>6, <2>1 DEF ToolFails
<1>7. CASE Created
  <2> DEFINE agent == [traits |-> making.traits, kit |-> making.kit]
  <2>1. made' = Append(made, agent) /\ making' = Unmade /\ UNCHANGED cached /\ lent' = Nobody
    BY <1>7 DEF Created, TakesBack, Lent
  <2>2. agent \in [traits : SUBSET STRING, kit : Seq(Tools)]
    BY DEF Shapes
  <2>3. Shapes' BY <2>1, <2>2, <1>u DEF Shapes, Nobody
  <2>4. Lent' BY <2>1 DEF Lent, Unmade
  <2>5. Owns(making.kit, Self, making.traits)' BY <2>1 DEF Owns, Unmade
  <2>6. ASSUME NEW a \in DOMAIN made' PROVE Owns(made'[a].kit, a, made'[a].traits)
    <3>1. CASE a \in DOMAIN made
      <4>1. made'[a] = made[a] BY <2>1, <2>2, <3>1 DEF Shapes
      <4> QED BY <3>1, <4>1, OwnsEach
    <3>2. CASE a \notin DOMAIN made
      <4>1. a = Self /\ made'[a] = agent BY <2>1, <2>2, <2>6, <3>2 DEF Shapes, Self
      <4> QED BY <4>1
    <3> QED BY <3>1, <3>2
  <2>7. OwnTools' BY <2>6 DEF OwnTools, Owns
  <2> QED BY <2>3, <2>4, <2>5, <2>7
<1>8. CASE UNCHANGED platformVars
  <2>1. made' = made /\ making' = making /\ lent' = lent /\ cached' = cached
    BY <1>8 DEF platformVars
  <2> QED BY <2>1 DEF Shapes, Lent, OwnTools, Owns, Self, Remembers
<1> QED
  BY <1>1, <1>2, <1>3, <1>4, <1>5, <1>6, <1>7, <1>8 DEF PlatformNext

(* Whatever agents a platform made or failed to make before, the memory tools of
   each work on its own memory. *)
THEOREM ToolsAreOwn == PlatformSpec => []OwnTools
<1>1. PlatformInv => OwnTools
  BY DEF PlatformInv
<1> QED
  BY PlatformInitInv, PlatformStep, <1>1, PTL DEF PlatformSpec

(* The host ------------------------------------------------------------------- *)
HostInv == AgentInv /\ PlatformInv /\ CoreInv

LEMMA HostStep == HostInv /\ [HostNext]_<<agentVars, platformVars, coreVars>> => HostInv'
<1> SUFFICES ASSUME HostInv, [HostNext]_<<agentVars, platformVars, coreVars>> PROVE HostInv'
  OBVIOUS
<1>1. [AgentNext]_agentVars /\ [PlatformNext]_platformVars /\ [CoreNext]_coreVars
  BY DEF HostNext, AgentRests, PlatformRests, CoreRests
<1>2. AgentInv' BY <1>1, AgentStep DEF HostInv
<1>3. PlatformInv' BY <1>1, PlatformStep DEF HostInv
<1>4. CoreInv' BY <1>1, CoreStepType, CoreStepHeld DEF HostInv, CoreInv
<1> QED BY <1>2, <1>3, <1>4 DEF HostInv

(* A host of the three keeps what each of them keeps by itself. *)
THEOREM HostHolds ==
  HostSpec => [](HooksMatchRegistry /\ EachOwned /\ OwnTools /\ HeldIffRunning)
<1>1. HostInit => HostInv
  BY AgentInitInv, PlatformInitInv, CoreInitInv DEF HostInit, HostInv, AgentInv
<1>2. HostInv => HooksMatchRegistry /\ EachOwned /\ OwnTools /\ HeldIffRunning
  BY AgentInvHolds DEF HostInv, PlatformInv, CoreInv
<1> QED BY <1>1, <1>2, HostStep, PTL DEF HostSpec

-----------------------------------------------------------------------------
(* A set of naturals has a least element: what induction there is. *)
LEMMA LeastOf ==
  ASSUME NEW T \in SUBSET Nat, T # {}
  PROVE  \E m \in T : \A k \in T : ~ (k < m)
<1> DEFINE R == OpToRel(<, Nat)
<1>1. IsWellFoundedOn(R, Nat)
  BY NatLessThanWellFounded
<1>2. \A x, y \in Nat : y < x => <<y, x>> \in R
  BY DEF OpToRel
<1> HIDE DEF R
<1>3. \E x \in T : \A y \in T : ~ (<<y, x>> \in R)
  BY <1>1, WFMin
<1>. QED  BY <1>2, <1>3

(* A fold over a set takes one of its elements after the other: which one is
   next, and what it does to the value of the rest. *)
Folds(g, S, base, next, step) ==
  \A A \in SUBSET S : g[A] = IF A = {} THEN base ELSE step[A][g[A \ {next[A]}]]

Small(S, n) == {A \in SUBSET S : Cardinality(A) <= n}
FoldsUpTo(g, S, n, base, next, step) ==
  \A A \in Small(S, n) : g[A] = IF A = {} THEN base ELSE step[A][g[A \ {next[A]}]]

LEMMA FoldExists ==
  ASSUME NEW S, IsFiniteSet(S), NEW V, NEW base \in V,
         NEW next, \A A \in SUBSET S : A # {} => next[A] \in A,
         NEW step, \A A \in SUBSET S : A # {} => step[A] \in [V -> V]
  PROVE  \E g \in [SUBSET S -> V] : Folds(g, S, base, next, step)
<1> DEFINE Has(n) == \E g \in [Small(S, n) -> V] : FoldsUpTo(g, S, n, base, next, step)
           T == {n \in Nat : ~Has(n)}
<1>1. \A A \in SUBSET S : IsFiniteSet(A) /\ Cardinality(A) \in Nat /\ Cardinality(A) <= Cardinality(S)
  BY FS_Subset, FS_CardinalityType
<1>2. \A A \in SUBSET S : A # {} => Cardinality(A \ {next[A]}) = Cardinality(A) - 1
  BY <1>1, FS_RemoveElement
<1>3. \A A \in SUBSET S : Cardinality(A) = 0 <=> A = {}
  BY <1>1, FS_EmptySet
<1>4. Has(0)
  <2> DEFINE g == [A \in Small(S, 0) |-> base]
  <2>1. \A A \in Small(S, 0) : A = {}
    BY <1>1, <1>3 DEF Small
  <2>2. FoldsUpTo(g, S, 0, base, next, step)
    BY <2>1 DEF FoldsUpTo
  <2>. QED  BY <2>2
<1>5. ASSUME NEW n \in Nat, Has(n) PROVE Has(n + 1)
  <2>1. PICK g \in [Small(S, n) -> V] : FoldsUpTo(g, S, n, base, next, step)
    BY <1>5
  <2> DEFINE h == [A \in Small(S, n + 1) |->
                     IF A = {} THEN base ELSE step[A][g[A \ {next[A]}]]]
  <2>2. \A A \in Small(S, n + 1) : A # {} => A \ {next[A]} \in Small(S, n)
    BY <1>1, <1>2 DEF Small
  <2>3. h \in [Small(S, n + 1) -> V]
    <3> SUFFICES ASSUME NEW A \in Small(S, n + 1), A # {} PROVE step[A][g[A \ {next[A]}]] \in V
      OBVIOUS
    <3>1. g[A \ {next[A]}] \in V /\ A \in SUBSET S
      BY <2>2 DEF Small
    <3>. QED  BY <3>1
  <2>4. \A A \in Small(S, n) : h[A] = g[A]
    <3>1. Small(S, n) \subseteq Small(S, n + 1)
      BY <1>1 DEF Small
    <3>. QED  BY <2>1, <3>1 DEF FoldsUpTo
  <2>5. FoldsUpTo(h, S, n + 1, base, next, step)
    BY <2>2, <2>4 DEF FoldsUpTo
  <2>. QED  BY <2>3, <2>5
<1> HIDE DEF Has
<1>6. T = {}
  <2> SUFFICES ASSUME T # {} PROVE FALSE
    OBVIOUS
  <2>1. PICK m \in T : \A k \in T : ~(k < m)
    BY LeastOf
  <2>2. m # 0 /\ m \in Nat
    BY <1>4
  <2>3. m - 1 \in Nat /\ ~(m - 1 \in T)
    BY <2>1, <2>2
  <2>. QED  BY <2>1, <2>3, <1>5
<1>7. Has(Cardinality(S))
  BY <1>1, <1>6
<1>8. Small(S, Cardinality(S)) = SUBSET S
  BY <1>1 DEF Small
<1>. QED  BY <1>7, <1>8 DEF Has, Folds, FoldsUpTo

(* What holds of the empty set, and of a set if it does of those with an element
   less, holds of all. *)
LEMMA AllSubsets ==
  ASSUME NEW S, IsFiniteSet(S), NEW T \in SUBSET (SUBSET S), {} \in T,
         \A A \in SUBSET S : A # {} /\ (\A x \in A : A \ {x} \in T) => A \in T
  PROVE  T = SUBSET S
<1> DEFINE K == {Cardinality(B) : B \in (SUBSET S) \ T}
<1>1. \A B \in SUBSET S : IsFiniteSet(B) /\ Cardinality(B) \in Nat
  BY FS_Subset, FS_CardinalityType
<1>2. K = {}
  <2> SUFFICES ASSUME K # {} PROVE FALSE
    OBVIOUS
  <2>0. K \in SUBSET Nat
    BY <1>1
  <2>1. PICK m \in K : \A k \in K : ~(k < m)
    BY <2>0, LeastOf
  <2>2. PICK B \in (SUBSET S) \ T : Cardinality(B) = m
    OBVIOUS
  <2>3. B # {}
    <3> SUFFICES ASSUME B = {} PROVE FALSE
      OBVIOUS
    <3>. QED  BY <2>2
  <2>4. PICK x \in B : B \ {x} \notin T
    BY <2>3
  <2>5. Cardinality(B \ {x}) = Cardinality(B) - 1
    BY <1>1, <2>4, FS_RemoveElement
  <2>6. Cardinality(B \ {x}) \in K
    BY <2>4
  <2>7. m \in Nat /\ Cardinality(B \ {x}) = m - 1
    BY <2>0, <2>1, <2>2, <2>5
  <2>8. ~(m - 1 < m)
    BY <2>1, <2>6, <2>7
  <2>. QED  BY <2>7, <2>8
<1>. QED  BY <1>2

LEMMA MaxIn ==
  ASSUME NEW n \in Nat, NEW A \in SUBSET (1..n), A # {}
  PROVE  Max(A) \in A /\ \A y \in A : Max(A) >= y
<1> DEFINE T == {n - x : x \in A}
<1>1. T \in SUBSET Nat /\ T # {}
  <2>1. \A x \in 1..n : n - x \in Nat
    OBVIOUS
  <2>2. \A x \in A : n - x \in Nat
    BY <2>1
  <2>3. PICK x \in A : TRUE
    OBVIOUS
  <2>4. n - x \in T
    OBVIOUS
  <2>. QED  BY <2>2, <2>4
<1>2. PICK m \in T : \A k \in T : ~(k < m)
  BY <1>1, LeastOf
<1>3. PICK x \in A : m = n - x
  OBVIOUS
<1>4. \A y \in A : x >= y
  <2> SUFFICES ASSUME NEW y \in A PROVE x >= y
    OBVIOUS
  <2>1. n - y \in T
    OBVIOUS
  <2>2. ~(n - y < n - x) /\ x \in Nat /\ y \in Nat
    BY <1>2, <1>3, <2>1
  <2>. QED  BY <2>2
<1>. QED  BY <1>4 DEF Max


(* What holds of 0, and of a number up to n if it does of the one before, holds
   of all up to n. *)
LEMMA UpTo ==
  ASSUME NEW n \in Nat, NEW T \in SUBSET (0..n), 0 \in T,
         \A i \in 1..n : i - 1 \in T => i \in T
  PROVE  T = 0..n
<1> DEFINE B == (0..n) \ T
<1> SUFFICES ASSUME B # {} PROVE FALSE
  OBVIOUS
<1>1. B \in SUBSET Nat
  OBVIOUS
<1> HIDE DEF B
<1>2. PICK m \in B : \A k \in B : ~(k < m)
  BY <1>1, LeastOf
<1>3. m \in 0..n /\ m \notin T
  BY <1>2 DEF B
<1>4. m \in 1..n /\ m - 1 \in 0..n
  BY <1>3
<1>5. m - 1 \notin B
  BY <1>2, <1>4
<1>. QED  BY <1>3, <1>4, <1>5 DEF B

LEMMA MinIn ==
  ASSUME NEW A \in SUBSET Nat, A # {}
  PROVE  Min(A) \in A /\ \A y \in A : Min(A) <= y
<1>1. PICK m \in A : \A k \in A : ~(k < m)
  BY LeastOf
<1>2. \A y \in A : m <= y
  BY <1>1
<1>. QED  BY <1>2 DEF Min

(* FoldLeft goes over a list's places, the last of a set of them first. *)
LEMMA Places ==
  ASSUME NEW n \in Nat
  PROVE  /\ IsFiniteSet(1..n) /\ 1..0 = {}
         /\ \A A \in SUBSET (1..n) : A # {} => Max(A) \in A
         /\ \A i \in 1..n : /\ 1..i \in SUBSET (1..n) /\ 1..i # {} /\ Max(1..i) = i
                            /\ (1..i) \ {i} = 1..(i - 1)
<1>1. \A A \in SUBSET (1..n) : A # {} => Max(A) \in A
  BY MaxIn
<1>2. ASSUME NEW i \in 1..n PROVE 1..i \in SUBSET (1..n) /\ 1..i # {} /\ Max(1..i) = i
                                   /\ (1..i) \ {i} = 1..(i - 1)
  <2>1. 1..i \in SUBSET (1..n) /\ i \in 1..i /\ i \in Nat /\ (1..i) \ {i} = 1..(i - 1)
    OBVIOUS
  <2>2. Max(1..i) \in 1..i /\ Max(1..i) >= i
    BY <2>1, MaxIn
  <2>. QED  BY <2>1, <2>2
<1>3. IsFiniteSet(1..n) /\ 1..0 = {}
  BY FS_Interval
<1>. QED  BY <1>1, <1>2, <1>3

FoldsList(g, s, base, step) ==
  \A A \in SUBSET DOMAIN s :
    g[A] = IF A = {} THEN base ELSE step[<<g[A \ {Max(A)}], s[Max(A)]>>]

LEMMA ListFold ==
  ASSUME NEW S, NEW s \in Seq(S), NEW D, NEW base \in D, NEW step \in [D \X S -> D]
  PROVE  \E g \in [SUBSET DOMAIN s -> D] : FoldsList(g, s, base, step)
<1> DEFINE P == DOMAIN s
           next == [A \in SUBSET P |-> Max(A)]
           do == [A \in SUBSET P |-> [d \in D |-> step[<<d, s[Max(A)]>>]]]
<1>1. P = 1..Len(s) /\ Len(s) \in Nat
  OBVIOUS
<1>2. IsFiniteSet(P) /\ \A A \in SUBSET P : A # {} => Max(A) \in A
  BY <1>1, Places
<1>3. ASSUME NEW A \in SUBSET P, A # {} PROVE next[A] \in A /\ do[A] \in [D -> D]
  <2>1. Max(A) \in A /\ s[Max(A)] \in S
    BY <1>2, <1>3
  <2>. QED  BY <2>1
<1>4. PICK g \in [SUBSET P -> D] : Folds(g, P, base, next, do)
  <2> HIDE DEF next, do, P
  <2>. QED  BY <1>2, <1>3, FoldExists
<1>5. ASSUME NEW A \in SUBSET P
      PROVE  g[A] = IF A = {} THEN base ELSE step[<<g[A \ {Max(A)}], s[Max(A)]>>]
  <2>1. g[A \ {Max(A)}] \in D
    OBVIOUS
  <2>. QED  BY <1>4, <2>1 DEF Folds
<1>. QED  BY <1>4, <1>5 DEF FoldsList

(* The members of a list that are in a set. *)
More(kept, x, T) == IF x \in T THEN Append(kept, x) ELSE kept
OnlySteps(w, s, S, T) ==
  /\ w \in [0..Len(s) -> Seq(S)] /\ w[0] = <<>> /\ Only(s, T) = w[Len(s)]
  /\ \A i \in 1..Len(s) : w[i] = More(w[i - 1], s[i], T)
LEMMA OnlyUpTo ==
  ASSUME NEW S, NEW s \in Seq(S), NEW T
  PROVE  \E w : OnlySteps(w, s, S, T)
<1> DEFINE P == DOMAIN s
           D == Seq(S)
           step == [x \in D \X S |-> More(x[1], x[2], T)]
           Eq(g) == g = [A \in SUBSET P |->
                          IF A = {} THEN <<>>
                          ELSE IF s[Max(A)] \in T THEN Append(g[A \ {Max(A)}], s[Max(A)])
                               ELSE g[A \ {Max(A)}]]
           F == CHOOSE g : Eq(g)
<1>1. P = 1..Len(s) /\ Len(s) \in Nat /\ <<>> \in D
  OBVIOUS
<1>2. step \in [D \X S -> D]
  BY DEF More
<1>3. PICK g \in [SUBSET P -> D] :
        \A A \in SUBSET P : g[A] = IF A = {} THEN <<>> ELSE step[<<g[A \ {Max(A)}], s[Max(A)]>>]
  <2> DEFINE none == <<>>
  <2>1. none \in D
    BY <1>1
  <2> HIDE DEF step, D, none
  <2>2. \E g \in [SUBSET DOMAIN s -> D] : FoldsList(g, s, none, step)
    BY <1>2, <2>1, ListFold
  <2>. QED  BY <2>2 DEF none, FoldsList
<1>4. ASSUME NEW A \in SUBSET P, A # {}
      PROVE  g[A] = More(g[A \ {Max(A)}], s[Max(A)], T)
  <2>1. g[A \ {Max(A)}] \in D /\ s[Max(A)] \in S
    <3>1. A \in SUBSET (1..Len(s)) /\ A \ {Max(A)} \in SUBSET P
      BY <1>1
    <3>2. Max(A) \in A
      BY <1>1, <1>4, <3>1, Places
    <3>3. \A B \in SUBSET P : g[B] \in D
      BY <1>3
    <3>. QED  BY <1>1, <3>1, <3>2, <3>3
  <2>. QED  BY <1>3, <1>4, <2>1
<1>5. Eq(g)
  BY <1>3, <1>4 DEF More
<1>6. Eq(F)
  <2> HIDE DEF Eq
  <2>. QED  BY <1>5
<1>7. Only(s, T) = F[P]
  BY DEF Only, FoldLeft, MapThenFoldSet
<1> HIDE DEF F
<1> DEFINE w == [i \in 0..Len(s) |-> F[1..i]]
<1>8. w[0] = <<>>
  BY <1>1, <1>6, Places
<1>9. ASSUME NEW i \in 1..Len(s) PROVE w[i] = More(w[i - 1], s[i], T)
  <2>1. /\ 1..i \in SUBSET P /\ 1..i # {} /\ Max(1..i) = i /\ (1..i) \ {i} = 1..(i - 1)
        /\ i \in 0..Len(s) /\ i - 1 \in 0..Len(s)
    BY <1>1, Places
  <2>2. F[1..i] = More(F[1..(i - 1)], s[i], T)
    BY <1>6, <2>1 DEF More
  <2>. QED  BY <2>1, <2>2
<1>10. w[Len(s)] = Only(s, T)
  BY <1>1, <1>7
<1> HIDE DEF w
<1>11. \A i \in 0..Len(s) : w[i] \in Seq(S)
  <2> DEFINE Q == {i \in 0..Len(s) : w[i] \in Seq(S)}
  <2>4. <<>> \in Seq(S)
    OBVIOUS
  <2>1. 0 \in Q /\ Q \in SUBSET (0..Len(s))
    <3>1. 0 \in 0..Len(s)
      BY <1>1
    <3>2. w[0] \in Seq(S)
      BY <1>8, <2>4
    <3>. QED  BY <3>1, <3>2
  <2>2. ASSUME NEW i \in 1..Len(s), i - 1 \in Q PROVE i \in Q
    <3>1. w[i - 1] \in Seq(S) /\ s[i] \in S /\ i \in 0..Len(s)
      BY <1>1, <2>2
    <3>2. More(w[i - 1], s[i], T) \in Seq(S)
      BY <3>1 DEF More
    <3>. QED  BY <1>9, <3>1, <3>2
  <2>3. Q = 0..Len(s)
    <3> HIDE DEF Q
    <3>. QED  BY <1>1, <2>1, <2>2, UpTo
  <2>. QED  BY <2>3
<1>12. w \in [0..Len(s) -> Seq(S)]
  BY <1>11 DEF w
<1>. QED  BY <1>8, <1>9, <1>10, <1>12 DEF OnlySteps

OneEach(s) == \A i, j \in DOMAIN s : s[i] = s[j] => i = j

LEMMA RangeFacts ==
  ASSUME NEW S, NEW s \in Seq(S)
  PROVE  /\ Len(s) \in Nat /\ DOMAIN s = 1..Len(s) /\ Range(s) \subseteq S
         /\ \A x : x \in Range(s) <=> \E i \in DOMAIN s : s[i] = x
         /\ s = <<>> <=> Len(s) = 0
BY DEF Range

LEMMA NothingFacts ==
  ASSUME NEW S
  PROVE  /\ <<>> \in Seq(S) /\ Range(<<>>) = {} /\ OneEach(<<>>) /\ Len(<<>>) = 0
         /\ DOMAIN <<>> = {}
<1>1. <<>> \in Seq(S) /\ DOMAIN <<>> = {} /\ Len(<<>>) = 0
  OBVIOUS
<1>. QED  BY <1>1 DEF Range, OneEach

LEMMA AppendFacts ==
  ASSUME NEW S, NEW s \in Seq(S), NEW x \in S
  PROVE  /\ Append(s, x) \in Seq(S) /\ Len(Append(s, x)) = Len(s) + 1
         /\ DOMAIN Append(s, x) = (DOMAIN s) \cup {Len(s) + 1}
         /\ Append(s, x)[Len(s) + 1] = x /\ \A i \in DOMAIN s : Append(s, x)[i] = s[i]
         /\ Range(Append(s, x)) = Range(s) \cup {x}
         /\ OneEach(s) /\ x \notin Range(s) => OneEach(Append(s, x))
<1> DEFINE t == Append(s, x)
<1>1. /\ t \in Seq(S) /\ Len(t) = Len(s) + 1 /\ t[Len(s) + 1] = x
      /\ \A i \in DOMAIN s : t[i] = s[i]
  OBVIOUS
<1>2. Len(s) \in Nat /\ DOMAIN s = 1..Len(s) /\ DOMAIN t = 1..Len(t)
  BY <1>1
<1> HIDE DEF t
<1>3. DOMAIN t = (DOMAIN s) \cup {Len(s) + 1}
  BY <1>1, <1>2
<1>4. Range(t) = Range(s) \cup {x}
  BY <1>1, <1>3 DEF Range
<1>5. OneEach(s) /\ x \notin Range(s) => OneEach(t)
  BY <1>1, <1>3 DEF Range, OneEach
<1>. QED  BY <1>1, <1>3, <1>4, <1>5 DEF t

(* What a list has up to a place. *)
UpToPlace(s, i) == {s[k] : k \in 1..i}
LEMMA UpToPlaceFacts ==
  ASSUME NEW S, NEW s \in Seq(S), NEW i \in 1..Len(s)
  PROVE  /\ UpToPlace(s, 0) = {} /\ UpToPlace(s, Len(s)) = Range(s)
         /\ UpToPlace(s, i) = UpToPlace(s, i - 1) \cup {s[i]}
         /\ s[i] \in S /\ i \in 0..Len(s) /\ i - 1 \in 0..Len(s)
         /\ OneEach(s) => s[i] \notin UpToPlace(s, i - 1)
<1>1. Len(s) \in Nat /\ DOMAIN s = 1..Len(s)
  OBVIOUS
<1>2. 1..i = (1..(i - 1)) \cup {i} /\ i \in Nat
  BY <1>1
<1>3. UpToPlace(s, i) = UpToPlace(s, i - 1) \cup {s[i]}
  BY <1>2 DEF UpToPlace
<1>4. OneEach(s) => s[i] \notin UpToPlace(s, i - 1)
  <2> SUFFICES ASSUME OneEach(s), NEW k \in 1..(i - 1), s[k] = s[i] PROVE FALSE
    BY DEF UpToPlace
  <2>1. k \in DOMAIN s /\ i \in DOMAIN s /\ k # i
    BY <1>1
  <2>. QED  BY <2>1 DEF OneEach
<1>5. UpToPlace(s, 0) = {}
  BY DEF UpToPlace
<1>6. UpToPlace(s, Len(s)) = Range(s)
  BY <1>1 DEF UpToPlace, Range
<1>7. s[i] \in S /\ i \in 0..Len(s) /\ i - 1 \in 0..Len(s)
  BY <1>1
<1>. QED  BY <1>3, <1>4, <1>5, <1>6, <1>7

LEMMA RangeUpTo ==
  ASSUME NEW S, NEW s \in Seq(S)
  PROVE  UpToPlace(s, 0) = {} /\ UpToPlace(s, Len(s)) = Range(s)
BY RangeFacts DEF UpToPlace, Range

LEMMA OnlyFacts ==
  ASSUME NEW S, NEW s \in Seq(S), NEW T
  PROVE  /\ Only(s, T) \in Seq(S) /\ Range(Only(s, T)) = Range(s) \cap T
         /\ OneEach(s) => OneEach(Only(s, T))
<1>0. PICK w : OnlySteps(w, s, S, T)
  BY OnlyUpTo
<1>1. /\ w \in [0..Len(s) -> Seq(S)] /\ w[0] = <<>> /\ Only(s, T) = w[Len(s)]
      /\ \A i \in 1..Len(s) : w[i] = More(w[i - 1], s[i], T)
  BY <1>0 DEF OnlySteps
<1> DEFINE Good(i) == /\ Range(w[i]) = UpToPlace(s, i) \cap T
                      /\ OneEach(s) => OneEach(w[i])
           Q == {i \in 0..Len(s) : Good(i)}
<1>2. Len(s) \in Nat
  OBVIOUS
<1>3. Good(0)
  BY <1>1, RangeUpTo, NothingFacts
<1>4. ASSUME NEW i \in 1..Len(s), Good(i - 1) PROVE Good(i)
  <2>1. /\ UpToPlace(s, i) = UpToPlace(s, i - 1) \cup {s[i]} /\ s[i] \in S
        /\ i - 1 \in 0..Len(s) /\ (OneEach(s) => s[i] \notin UpToPlace(s, i - 1))
    BY UpToPlaceFacts
  <2>2. w[i - 1] \in Seq(S)
    BY <1>1, <2>1
  <2>3. CASE s[i] \in T
    <3>1. w[i] = Append(w[i - 1], s[i])
      BY <1>1, <2>3 DEF More
    <3>2. /\ Range(w[i]) = Range(w[i - 1]) \cup {s[i]}
          /\ OneEach(w[i - 1]) /\ s[i] \notin Range(w[i - 1]) => OneEach(w[i])
      BY <2>1, <2>2, <3>1, AppendFacts
    <3>. QED  BY <1>4, <2>1, <2>3, <3>2
  <2>4. CASE s[i] \notin T
    BY <1>1, <1>4, <2>1, <2>4 DEF More
  <2>. QED  BY <2>3, <2>4
<1> HIDE DEF Good
<1>5. Q = 0..Len(s)
  <2>1. 0 \in Q /\ Q \in SUBSET (0..Len(s))
    BY <1>2, <1>3
  <2>2. ASSUME NEW i \in 1..Len(s), i - 1 \in Q PROVE i \in Q
    BY <1>2, <1>4, <2>2
  <2> HIDE DEF Q
  <2>. QED  BY <1>2, <2>1, <2>2, UpTo
<1>6. Good(Len(s))
  BY <1>2, <1>5
<1>. QED  BY <1>1, <1>2, <1>6, RangeUpTo DEF Good

(* A part of a list. *)
LEMMA PartFacts ==
  ASSUME NEW S, NEW s \in Seq(S), NEW m \in Nat \ {0}, NEW n \in Nat, n <= Len(s)
  PROVE  LET t == SubSeq(s, m, n) IN
         /\ t \in Seq(S) /\ Len(t) = (IF m <= n THEN n - m + 1 ELSE 0)
         /\ \A i \in DOMAIN t : i + m - 1 \in m..n /\ i + m - 1 \in DOMAIN s /\ t[i] = s[i + m - 1]
         /\ \A i \in m..n : i - m + 1 \in DOMAIN t /\ t[i - m + 1] = s[i]
         /\ Range(t) = {s[i] : i \in m..n} /\ Range(t) \subseteq Range(s)
         /\ OneEach(s) => OneEach(t)
<1> DEFINE t == SubSeq(s, m, n)
           l == Len(s)
           k == IF m <= n THEN n - m + 1 ELSE 0
<1>1. l \in Nat /\ DOMAIN s = 1..l
  OBVIOUS
<1>2. t \in Seq(S) /\ Len(t) = k /\ \A i \in 1..k : t[i] = s[m + i - 1]
  <2>1. CASE m <= n
    BY <1>1, <2>1, SubSeqProperties
  <2>2. CASE ~(m <= n)
    <3>1. t = <<>>
      BY <1>1, <2>2, SubSeqProperties
    <3>. QED  BY <2>2, <3>1
  <2>. QED  BY <2>1, <2>2
<1>3. DOMAIN t = 1..k
  BY <1>2
<1> HIDE DEF t, l
<1>4. n <= l
  BY DEF l
<1>5. \A i \in 1..k : i + m - 1 \in m..n /\ i + m - 1 \in 1..l /\ i + m - 1 = m + i - 1
  BY <1>1, <1>4
<1>6. \A i \in m..n : i - m + 1 \in 1..k /\ m + (i - m + 1) - 1 = i
  BY <1>1, <1>4
<1> HIDE DEF k
<1>7. \A i \in DOMAIN t : i + m - 1 \in m..n /\ i + m - 1 \in DOMAIN s /\ t[i] = s[i + m - 1]
  BY <1>1, <1>2, <1>3, <1>5
<1>8. \A i \in m..n : i - m + 1 \in DOMAIN t /\ t[i - m + 1] = s[i]
  <2> TAKE i \in m..n
  <2> DEFINE j == i - m + 1
  <2>1. j \in 1..k /\ m + j - 1 = i
    BY <1>6
  <2> HIDE DEF j
  <2>2. j \in DOMAIN t /\ t[j] = s[i]
    BY <1>2, <1>3, <2>1
  <2>. QED  BY <2>2 DEF j
<1>9. Range(t) = {s[i] : i \in m..n}
  <2>1. ASSUME NEW x \in Range(t) PROVE x \in {s[i] : i \in m..n}
    <3>1. PICK i \in DOMAIN t : x = t[i]
      BY DEF Range
    <3>2. i + m - 1 \in m..n /\ x = s[i + m - 1]
      BY <1>7, <3>1
    <3>. QED  BY <3>2
  <2>2. ASSUME NEW i \in m..n PROVE s[i] \in Range(t)
    <3>1. i - m + 1 \in DOMAIN t /\ t[i - m + 1] = s[i]
      BY <1>8
    <3>. QED  BY <3>1 DEF Range
  <2>. QED  BY <2>1, <2>2
<1>10. Range(t) \subseteq Range(s)
  BY <1>7 DEF Range
<1>11. OneEach(s) => OneEach(t)
  <2> SUFFICES ASSUME OneEach(s), NEW i \in DOMAIN t, NEW j \in DOMAIN t, t[i] = t[j] PROVE i = j
    BY DEF OneEach
  <2>1. i + m - 1 = j + m - 1
    BY <1>7 DEF OneEach
  <2>2. i \in Nat /\ j \in Nat
    BY <1>3 DEF k
  <2>. QED  BY <2>1, <2>2
<1>12. Len(t) = IF m <= n THEN n - m + 1 ELSE 0
  BY <1>2 DEF k
<1>. QED  BY <1>2, <1>7, <1>8, <1>9, <1>10, <1>11, <1>12 DEF t

LEMMA CutFacts ==
  ASSUME NEW S, NEW s \in Seq(S), NEW most \in {Unset} \cup Nat
  PROVE  /\ Cut(s, most) \in Seq(S) /\ Range(Cut(s, most)) \subseteq Range(s)
         /\ OneEach(s) => OneEach(Cut(s, most))
         /\ (Cut(s, most) = s \/ (most \in Nat /\ Len(Cut(s, most)) = most /\ most < Len(s)))
         /\ \A i \in DOMAIN Cut(s, most) : i \in DOMAIN s /\ Cut(s, most)[i] = s[i]
<1>1. Len(s) \in Nat /\ DOMAIN s = 1..Len(s) /\ Range(s) \subseteq Range(s)
  OBVIOUS
<1>2. PICK c : c = Cut(s, most)
  OBVIOUS
<1> SUFFICES /\ c \in Seq(S) /\ Range(c) \subseteq Range(s) /\ (OneEach(s) => OneEach(c))
             /\ (c = s \/ (most \in Nat /\ Len(c) = most /\ most < Len(s)))
             /\ \A i \in DOMAIN c : i \in DOMAIN s /\ c[i] = s[i]
  BY <1>2
<1>3. CASE c = s
  <2>1. /\ c \in Seq(S) /\ Range(c) \subseteq Range(s) /\ (OneEach(s) => OneEach(c))
        /\ \A i \in DOMAIN c : i \in DOMAIN s /\ c[i] = s[i]
    BY <1>3, Zenon
  <2>. QED  BY <1>3, <2>1, Zenon
<1>4. CASE c # s
  <2>0. most # Unset /\ Len(s) > most /\ c = SubSeq(s, 1, most)
    BY <1>2, <1>4 DEF Cut
  <2>1. most \in Nat /\ most < Len(s) /\ most <= Len(s)
    BY <1>1, <2>0
  <2> DEFINE t == SubSeq(s, 1, most)
  <2>2. /\ t \in Seq(S) /\ Len(t) = (IF 1 <= most THEN most - 1 + 1 ELSE 0)
        /\ Range(t) \subseteq Range(s) /\ (OneEach(s) => OneEach(t))
        /\ \A i \in DOMAIN t : i + 1 - 1 \in DOMAIN s /\ t[i] = s[i + 1 - 1]
    BY <2>1, PartFacts
  <2>3. DOMAIN t \in SUBSET Nat
    BY <2>2
  <2>5. c = t
    BY <2>0
  <2> HIDE DEF t
  <2>4. Len(t) = most /\ \A i \in DOMAIN t : i \in DOMAIN s /\ t[i] = s[i]
    BY <2>1, <2>2, <2>3
  <2>. QED  BY <2>1, <2>2, <2>4, <2>5
<1>. QED  BY <1>3, <1>4

LEMMA InOrderFacts ==
  ASSUME NEW facts, NEW last \in Nat
  PROVE  /\ InOrder(facts, last) \in Seq(1..last) /\ OneEach(InOrder(facts, last))
         /\ Range(InOrder(facts, last)) = (1..last) \cap facts
<1> DEFINE s == [f \in 1..last |-> f]
<1>1. s \in Seq(1..last) /\ OneEach(s) /\ Range(s) = 1..last
  BY DEF OneEach, Range
<1> HIDE DEF s
<1>2. InOrder(facts, last) = Only(s, facts)
  BY DEF InOrder, s
<1>. QED  BY <1>1, <1>2, OnlyFacts

LEMMA OldestFacts ==
  ASSUME NEW facts, NEW limit \in {Unset} \cup Nat, MaxFacts \in Nat
  PROVE  /\ Oldest(facts, limit) \in Seq(Facts) /\ OneEach(Oldest(facts, limit))
         /\ Range(Oldest(facts, limit)) \subseteq Facts \cap facts
BY InOrderFacts, CutFacts DEF Oldest, Facts

(* The answer to a batch: one entry for a fact, and only of those asked about. *)
EachFact(s) == \A i, j \in DOMAIN s : s[i].fact = s[j].fact => i = j
FactsOf(s) == {s[i].fact : i \in DOMAIN s}

ParseSteps(w, s, D) ==
  /\ w[0] = <<>> /\ FoldLeft(KeepFirst, <<>>, s) = w[Len(s)]
  /\ \A i \in 1..Len(s) : w[i] = KeepFirst(w[i - 1], s[i])

LEMMA KeepFirstFacts ==
  ASSUME NEW S, NEW kept \in Seq(S), NEW e \in S, EachFact(kept)
  PROVE  KeepFirst(kept, e) \in Seq(S) /\ EachFact(KeepFirst(kept, e))
<1>1. CASE \E i \in DOMAIN kept : kept[i].fact = e.fact
  BY <1>1 DEF KeepFirst
<1>2. CASE ~ \E i \in DOMAIN kept : kept[i].fact = e.fact
  <2> DEFINE t == Append(kept, e)
  <2>1. KeepFirst(kept, e) = t
    BY <1>2 DEF KeepFirst
  <2>2. /\ t \in Seq(S) /\ DOMAIN t = (DOMAIN kept) \cup {Len(kept) + 1} /\ t[Len(kept) + 1] = e
        /\ \A i \in DOMAIN kept : t[i] = kept[i]
    BY AppendFacts
  <2> HIDE DEF t
  <2>. QED  BY <1>2, <2>1, <2>2 DEF EachFact
<1>. QED  BY <1>1, <1>2

LEMMA ParseUpTo ==
  ASSUME NEW S, NEW s \in Seq(S)
  PROVE  \E w : ParseSteps(w, s, S)
<1> DEFINE P == DOMAIN s
           D == Seq(S)
           step == [x \in D \X S |-> KeepFirst(x[1], x[2])]
           Eq(g) == g = [A \in SUBSET P |->
                          IF A = {} THEN <<>> ELSE KeepFirst(g[A \ {Max(A)}], s[Max(A)])]
           F == CHOOSE g : Eq(g)
<1>1. P = 1..Len(s) /\ Len(s) \in Nat /\ <<>> \in D
  OBVIOUS
<1>2. step \in [D \X S -> D]
  BY DEF KeepFirst
<1>3. PICK g \in [SUBSET P -> D] :
        \A A \in SUBSET P : g[A] = IF A = {} THEN <<>> ELSE step[<<g[A \ {Max(A)}], s[Max(A)]>>]
  <2> DEFINE none == <<>>
  <2>1. none \in D
    BY <1>1
  <2> HIDE DEF step, D, none
  <2>2. \E g \in [SUBSET DOMAIN s -> D] : FoldsList(g, s, none, step)
    BY <1>2, <2>1, ListFold
  <2>. QED  BY <2>2 DEF none, FoldsList
<1>4. ASSUME NEW A \in SUBSET P, A # {}
      PROVE  g[A] = KeepFirst(g[A \ {Max(A)}], s[Max(A)])
  <2>1. g[A \ {Max(A)}] \in D /\ s[Max(A)] \in S
    <3>1. A \in SUBSET (1..Len(s)) /\ A \ {Max(A)} \in SUBSET P
      BY <1>1
    <3>2. Max(A) \in A
      BY <1>1, <1>4, <3>1, Places
    <3>3. \A B \in SUBSET P : g[B] \in D
      BY <1>3
    <3>. QED  BY <1>1, <3>1, <3>2, <3>3
  <2>. QED  BY <1>3, <1>4, <2>1
<1>5. Eq(g)
  BY <1>3, <1>4
<1>6. Eq(F)
  <2> HIDE DEF Eq
  <2>. QED  BY <1>5
<1>7. FoldLeft(KeepFirst, <<>>, s) = F[P]
  BY DEF FoldLeft, MapThenFoldSet
<1> HIDE DEF F
<1> DEFINE w == [i \in 0..Len(s) |-> F[1..i]]
<1>8. w[0] = <<>>
  BY <1>1, <1>6, Places
<1>9. ASSUME NEW i \in 1..Len(s) PROVE w[i] = KeepFirst(w[i - 1], s[i])
  <2>1. /\ 1..i \in SUBSET P /\ 1..i # {} /\ Max(1..i) = i /\ (1..i) \ {i} = 1..(i - 1)
        /\ i \in 0..Len(s) /\ i - 1 \in 0..Len(s)
    BY <1>1, Places
  <2>2. F[1..i] = KeepFirst(F[1..(i - 1)], s[i])
    BY <1>6, <2>1
  <2>. QED  BY <2>1, <2>2
<1>10. w[Len(s)] = FoldLeft(KeepFirst, <<>>, s)
  BY <1>1, <1>7
<1>. QED  BY <1>8, <1>9, <1>10 DEF ParseSteps

LEMMA ParseFacts ==
  ASSUME NEW E, NEW answer \in Seq(E), NEW asked
  PROVE  /\ ParseBatch(answer, asked) \in Seq(ValidEntries(asked))
         /\ EachFact(ParseBatch(answer, asked))
<1> DEFINE s == Only(answer, ValidEntries(asked))
           S == ValidEntries(asked)
<1>1. s \in Seq(S)
  <2>1. s \in Seq(E) /\ Range(s) \subseteq S
    BY OnlyFacts
  <2>2. \A i \in 1..Len(s) : s[i] \in S
    BY <2>1 DEF Range
  <2>. QED  BY <2>1, <2>2
<1>2. ParseBatch(answer, asked) = FoldLeft(KeepFirst, <<>>, s)
  BY DEF ParseBatch
<1> HIDE DEF s, S
<1>3. PICK w : ParseSteps(w, s, S)
  BY <1>1, ParseUpTo
<1>4. /\ w[0] = <<>> /\ FoldLeft(KeepFirst, <<>>, s) = w[Len(s)]
      /\ \A i \in 1..Len(s) : w[i] = KeepFirst(w[i - 1], s[i])
  BY <1>3 DEF ParseSteps
<1>5. Len(s) \in Nat /\ \A i \in 1..Len(s) : s[i] \in S
  BY <1>1
<1> DEFINE Good(i) == w[i] \in Seq(S) /\ EachFact(w[i])
           Q == {i \in 0..Len(s) : Good(i)}
<1>6. Good(0)
  BY <1>4, NothingFacts DEF EachFact
<1>7. ASSUME NEW i \in 1..Len(s), Good(i - 1) PROVE Good(i)
  BY <1>4, <1>5, <1>7, KeepFirstFacts
<1> HIDE DEF Good
<1>8. Q = 0..Len(s)
  <2>1. 0 \in Q /\ Q \in SUBSET (0..Len(s))
    BY <1>5, <1>6
  <2>2. ASSUME NEW i \in 1..Len(s), i - 1 \in Q PROVE i \in Q
    BY <1>5, <1>7, <2>2
  <2> HIDE DEF Q
  <2>. QED  BY <1>5, <2>1, <2>2, UpTo
<1>9. Good(Len(s))
  BY <1>5, <1>8
<1>. QED  BY <1>2, <1>4, <1>9 DEF Good, S

(* What a pass has, and the types of the state. *)
RowType == [stars : Stars, by : Passes, mate : Facts \cup {NoFact}]
ResultType == [fact : Facts, stars : Stars]
ItemType == [id : Facts, score : Stars, len : {Length(f) : f \in Facts}]
PassType ==
  [kind : AllKinds \cup {"none"}, at : {"idle", "next", "ask", "save", "done", "gone"},
   todo : Seq(Facts), asked : Seq(Facts), results : Seq(ResultType),
   kept : Nat, rated : Nat, left : Int]
PairerType ==
  [at : {"read", "high", "low"}, high : Facts \cup {NoFact}, low : Facts \cup {NoFact}]

(* The facts that a pass has taken from its list and not yet dealt with. *)
Pending(me) ==
  IF me.at = "ask" THEN Range(me.asked) ELSE IF me.at = "save" THEN FactsOf(me.results) ELSE {}

Busy(me) == IF me.at = "ask" THEN 1 ELSE IF me.at = "save" THEN Len(me.results) ELSE 0

(* "own[f]" are the places of a pass's rows among those of fact f. *)
OwnType == [Facts -> {A \in SUBSET Nat : IsFiniteSet(A)}]
OwnedFacts(own) == UNION {{f} \X own[f] : f \in Facts}

FactsOnce(me, own) ==
  /\ OneEach(me.todo) /\ Pending(me) \cap Range(me.todo) = {}
  /\ me.at = "save" => EachFact(me.results)
  /\ \A f \in Pending(me) \cup Range(me.todo) : own[f] = {}
  /\ \A f \in Facts : Cardinality(own[f]) <= 1

OneFact(me, own, f) ==
  /\ Pending(me) \cup Range(me.todo) \subseteq {f}
  /\ \A g \in Facts : g # f => own[g] = {}
  /\ me.at = "save" => Len(me.results) <= 1
  /\ Cardinality(own[f]) + Len(me.todo) + Busy(me) <= Providers

CountsMatch(me, own, given, seen) ==
  /\ me.kind # "service" => me.rated + me.kept <= Cardinality(OwnedFacts(own))
  /\ me.kind = "service" => /\ me.rated + me.kept = Len(given)
                            /\ \A i \in DOMAIN given : given[i].id \in seen

(* A pass "me" with its rows, what it handed out and the facts that are rated. *)
PassHolds(me, own, given, seen) ==
  /\ me.at = "idle" => me = NoPass /\ given = <<>> /\ \A f \in Facts : own[f] = {}
  /\ me.at # "save" => me.kept = 0
  /\ (me.at = "ask" /\ me.kind \in OneByOne) => me.asked # <<>>
  /\ me.kind # "inline" => FactsOnce(me, own)
  /\ me.kind = "inline" => \E f \in Facts : OneFact(me, own, f)
  /\ CountsMatch(me, own, given, seen)

(* More facts may be rated. *)
LEMMA SeenGrows ==
  ASSUME NEW me, NEW own, NEW given, NEW seen, NEW more, seen \subseteq more,
         PassHolds(me, own, given, seen)
  PROVE  PassHolds(me, own, given, more)
BY DEF PassHolds, CountsMatch

LEMMA NoPlaces ==
  /\ IsFiniteSet({}) /\ Cardinality({}) = 0
BY FS_EmptySet

(* An operation that moves nothing but the pass: what is pending stays within
   what was, or comes from the list. *)
LEMMA FactsMove ==
  ASSUME NEW me \in PassType, NEW own \in OwnType, FactsOnce(me, own),
         NEW next \in PassType, OneEach(next.todo),
         Pending(next) \cap Range(next.todo) = {},
         next.at = "save" => EachFact(next.results),
         Pending(next) \cup Range(next.todo) \subseteq Pending(me) \cup Range(me.todo)
  PROVE  FactsOnce(next, own)
BY DEF FactsOnce

(* The first of a list, and the others. *)
LEMMA HeadFacts ==
  ASSUME NEW S, NEW s \in Seq(S), s # <<>>
  PROVE  /\ Head(s) \in S /\ Tail(s) \in Seq(S) /\ <<Head(s)>> \in Seq(S) /\ s[1] = Head(s)
         /\ Range(<<Head(s)>>) = {Head(s)} /\ Len(<<Head(s)>>) = 1 /\ <<Head(s)>> # <<>>
         /\ Len(Tail(s)) = Len(s) - 1 /\ 1 \in DOMAIN s /\ DOMAIN s = 1..Len(s)
         /\ DOMAIN Tail(s) = 1..(Len(s) - 1)
         /\ \A i \in DOMAIN Tail(s) : i + 1 \in DOMAIN s /\ Tail(s)[i] = s[i + 1]
         /\ Range(s) = {Head(s)} \cup Range(Tail(s))
         /\ OneEach(s) => OneEach(Tail(s)) /\ Head(s) \notin Range(Tail(s))
<1> DEFINE t == Tail(s)
           l == Len(s)
<1>1. /\ l \in Nat \ {0} /\ t \in Seq(S) /\ Len(t) = l - 1 /\ s[1] = Head(s)
      /\ \A i \in 1..(l - 1) : t[i] = s[i + 1]
  OBVIOUS
<1>2. DOMAIN s = 1..l /\ DOMAIN t = 1..(l - 1)
  BY <1>1
<1>3. Head(s) \in S /\ <<Head(s)>> \in Seq(S) /\ Len(<<Head(s)>>) = 1 /\ <<Head(s)>> # <<>>
  BY <1>1, <1>2
<1>4. Range(<<Head(s)>>) = {Head(s)}
  BY DEF Range
<1> HIDE DEF t, l
<1>5. \A i \in 1..(l - 1) : i + 1 \in 1..l /\ i + 1 # 1
  BY <1>1
<1>6. \A i \in 1..l : i = 1 \/ (i - 1 \in 1..(l - 1) /\ (i - 1) + 1 = i)
  BY <1>1
<1>7. 1 \in 1..l
  BY <1>1
<1>8. Range(s) = {Head(s)} \cup Range(t)
  <2>1. Range(s) \subseteq {Head(s)} \cup Range(t)
    <3> SUFFICES ASSUME NEW i \in 1..l, i # 1 PROVE s[i] \in Range(t)
      BY <1>1, <1>2 DEF Range
    <3>1. i - 1 \in 1..(l - 1) /\ (i - 1) + 1 = i
      BY <1>6
    <3>2. t[i - 1] = s[i]
      BY <1>1, <3>1
    <3>. QED  BY <1>2, <3>1, <3>2 DEF Range
  <2>2. Range(t) \subseteq Range(s)
    BY <1>1, <1>2, <1>5 DEF Range
  <2>3. Head(s) \in Range(s)
    BY <1>1, <1>2, <1>7 DEF Range
  <2>. QED  BY <2>1, <2>2, <2>3
<1>9. ASSUME OneEach(s) PROVE OneEach(t) /\ Head(s) \notin Range(t)
  <2>1. \A i, j \in 1..(l - 1) : i + 1 = j + 1 => i = j
    BY <1>1
  <2>2. OneEach(t)
    BY <1>1, <1>2, <1>5, <1>9, <2>1 DEF OneEach
  <2>3. Head(s) \notin Range(t)
    BY <1>1, <1>2, <1>5, <1>7, <1>9 DEF OneEach, Range
  <2>. QED  BY <2>2, <2>3
<1>. QED  BY <1>1, <1>2, <1>3, <1>4, <1>5, <1>7, <1>8, <1>9 DEF t, l

LEMMA OwnedFinite ==
  ASSUME MaxFacts \in Nat, NEW own \in OwnType
  PROVE  IsFiniteSet(OwnedFacts(own)) /\ Cardinality(OwnedFacts(own)) \in Nat
<1> DEFINE part == [f \in Facts |-> {f} \X own[f]]
           parts == {part[f] : f \in Facts}
<1>1. IsFiniteSet(Facts)
  BY FS_Interval DEF Facts
<1>2. part \in Surjection(Facts, parts)
  BY DEF Surjection
<1>3. \A f \in Facts : IsFiniteSet(part[f])
  BY FS_Singleton, FS_Product DEF OwnType
<1>4. OwnedFacts(own) = UNION parts
  BY DEF OwnedFacts
<1> HIDE DEF part
<1>5. IsFiniteSet(parts)
  BY <1>1, <1>2, FS_Surjection
<1>6. IsFiniteSet(OwnedFacts(own))
  BY <1>3, <1>4, <1>5, FS_UNION
<1>. QED  BY <1>6, FS_CardinalityType

(* A row that is added to those of one fact. *)
Added(own, f, n) == [own EXCEPT ![f] = @ \cup {n}]

LEMMA AddedFacts ==
  ASSUME MaxFacts \in Nat, NEW own \in OwnType, NEW f \in Facts, NEW n \in Nat, n \notin own[f]
  PROVE  /\ Added(own, f, n) \in OwnType
         /\ Cardinality(Added(own, f, n)[f]) = Cardinality(own[f]) + 1
         /\ \A g \in Facts : g # f => Added(own, f, n)[g] = own[g]
         /\ Cardinality(OwnedFacts(Added(own, f, n))) = Cardinality(OwnedFacts(own)) + 1
<1>1. IsFiniteSet(own[f]) /\ own[f] \in SUBSET Nat
  BY DEF OwnType
<1>2. IsFiniteSet(own[f] \cup {n}) /\ Cardinality(own[f] \cup {n}) = Cardinality(own[f]) + 1
  BY <1>1, FS_AddElement
<1>3. Added(own, f, n) \in OwnType
  BY <1>1, <1>2 DEF Added, OwnType
<1>4. OwnedFacts(Added(own, f, n)) = OwnedFacts(own) \cup {<<f, n>>} /\ <<f, n>> \notin OwnedFacts(own)
  BY DEF OwnedFacts, Added, OwnType
<1>5. Cardinality(OwnedFacts(Added(own, f, n))) = Cardinality(OwnedFacts(own)) + 1
  BY <1>4, OwnedFinite, FS_AddElement
<1>. QED  BY <1>2, <1>3, <1>5 DEF Added, OwnType

LEMMA NothingOwned ==
  ASSUME NEW own, \A f \in Facts : own[f] = {}
  PROVE  /\ Cardinality(OwnedFacts(own)) = 0
         /\ \A f \in Facts : Cardinality(own[f]) = 0
BY FS_EmptySet DEF OwnedFacts

(* A pass starts with a list: of facts that are all different, or of one. *)
Started(kind, todo, due) ==
  [NoPass EXCEPT !.kind = kind, !.at = "next", !.todo = todo, !.left = due]

LEMMA StartedType ==
  ASSUME NEW due \in Int, NEW kind \in AllKinds, NEW todo \in Seq(Facts)
  PROVE  LET me == Started(kind, todo, due)
         IN  /\ me \in PassType /\ me.kind = kind /\ me.at = "next" /\ me.todo = todo
             /\ me.kept = 0 /\ me.rated = 0
<1>1. Started(kind, todo, due) =
        [kind |-> kind, at |-> "next", todo |-> todo, asked |-> <<>>, results |-> <<>>,
         kept |-> 0, rated |-> 0, left |-> due]
  <2> DEFINE none == <<>>
             a == [kind |-> kind, at |-> "idle", todo |-> none, asked |-> none,
                   results |-> none, kept |-> 0, rated |-> 0, left |-> 0]
             b == [kind |-> kind, at |-> "next", todo |-> none, asked |-> none,
                   results |-> none, kept |-> 0, rated |-> 0, left |-> 0]
             c == [kind |-> kind, at |-> "next", todo |-> todo, asked |-> none,
                   results |-> none, kept |-> 0, rated |-> 0, left |-> 0]
  <2>0. NoPass = [kind |-> "none", at |-> "idle", todo |-> none, asked |-> none,
                results |-> none, kept |-> 0, rated |-> 0, left |-> 0]
    BY DEF NoPass
  <2> HIDE DEF none
  <2>1. [NoPass EXCEPT !.kind = kind] = a
    BY <2>0
  <2>2. [a EXCEPT !.at = "next"] = b
    OBVIOUS
  <2>3. [b EXCEPT !.todo = todo] = c
    OBVIOUS
  <2>4. [c EXCEPT !.left = due] =
          [kind |-> kind, at |-> "next", todo |-> todo, asked |-> none,
           results |-> none, kept |-> 0, rated |-> 0, left |-> due]
    OBVIOUS
  <2> HIDE DEF a, b, c
  <2>5. Started(kind, todo, due) = [c EXCEPT !.left = due]
    BY <2>1, <2>2, <2>3 DEF Started
  <2>. QED  BY <2>4, <2>5 DEF none
<1>2. <<>> \in Seq(Facts) /\ <<>> \in Seq(ResultType)
  BY NothingFacts
<1> DEFINE none == <<>>
<1>3. none \in Seq(Facts) /\ none \in Seq(ResultType)
  BY <1>2
<1> HIDE DEF none
<1>4. [kind |-> kind, at |-> "next", todo |-> todo, asked |-> none, results |-> none,
         kept |-> 0, rated |-> 0, left |-> due] \in PassType
  BY <1>3 DEF PassType
<1>5. Started(kind, todo, due) \in PassType
  BY <1>1, <1>4 DEF none
<1>. QED  BY <1>1, <1>5

LEMMA StartHolds ==
  ASSUME NEW own, \A f \in Facts : own[f] = {}, NEW seen, NEW due \in Int,
         NEW kind \in AllKinds, kind # "inline", NEW todo \in Seq(Facts), OneEach(todo)
  PROVE  /\ Started(kind, todo, due) \in PassType
         /\ PassHolds(Started(kind, todo, due), own, <<>>, seen)
<1> DEFINE me == Started(kind, todo, due)
<1>1. /\ me \in PassType /\ me.kind = kind /\ me.at = "next" /\ me.todo = todo
      /\ me.kept = 0 /\ me.rated = 0
  <2>1. kind \in AllKinds /\ due \in Int /\ todo \in Seq(Facts)
    OBVIOUS
  <2>. QED  BY <2>1, StartedType
<1> HIDE DEF me
<1>2. Pending(me) = {}
  BY <1>1 DEF Pending
<1>3. FactsOnce(me, own)
  BY <1>1, <1>2, NothingOwned, RangeFacts DEF FactsOnce
<1>4. CountsMatch(me, own, <<>>, seen)
  BY <1>1, NothingOwned, NothingFacts DEF CountsMatch
<1>5. PassHolds(me, own, <<>>, seen)
  BY <1>1, <1>3, <1>4 DEF PassHolds
<1>. QED  BY <1>1, <1>5 DEF me

LEMMA InlineStartHolds ==
  ASSUME Providers \in Nat, NEW own, \A f \in Facts : own[f] = {}, NEW seen, NEW f \in Facts
  PROVE  LET me == Started("inline", [i \in 1..Providers |-> f], 0)
         IN  me \in PassType /\ PassHolds(me, own, <<>>, seen)
<1> DEFINE todo == [i \in 1..Providers |-> f]
           me == Started("inline", todo, 0)
<1>1. todo \in Seq(Facts) /\ Len(todo) = Providers /\ Range(todo) \subseteq {f}
  BY DEF Range
<1> HIDE DEF todo
<1>2. /\ me \in PassType /\ me.kind = "inline" /\ me.at = "next" /\ me.todo = todo
      /\ me.kept = 0 /\ me.rated = 0
  BY <1>1, StartedType DEF AllKinds
<1> HIDE DEF me
<1>3. Pending(me) = {} /\ Busy(me) = 0
  BY <1>2 DEF Pending, Busy
<1>4. OneFact(me, own, f)
  BY <1>1, <1>2, <1>3, NothingOwned DEF OneFact
<1>5. CountsMatch(me, own, <<>>, seen)
  BY <1>2, NothingOwned, NothingFacts DEF CountsMatch
<1>6. PassHolds(me, own, <<>>, seen)
  BY <1>2, <1>4, <1>5 DEF PassHolds
<1>. QED  BY <1>2, <1>6 DEF me, todo

(* The next fact of a list. *)
LEMMA TakeFactHolds ==
  ASSUME NEW me \in PassType, NEW own \in OwnType, NEW given, NEW seen,
         PassHolds(me, own, given, seen),
         me.at = "next", me.kind \in OneByOne, me.todo # <<>>
  PROVE  LET next == [me EXCEPT !.at = "ask", !.asked = <<Head(me.todo)>>, !.todo = Tail(@)]
         IN  next \in PassType /\ PassHolds(next, own, given, seen)
<1> DEFINE next == [me EXCEPT !.at = "ask", !.asked = <<Head(me.todo)>>, !.todo = Tail(@)]
<1>0. me.todo \in Seq(Facts)
  BY DEF PassType
<1>1. /\ Head(me.todo) \in Facts /\ Tail(me.todo) \in Seq(Facts) /\ <<Head(me.todo)>> \in Seq(Facts)
      /\ Range(<<Head(me.todo)>>) = {Head(me.todo)} /\ <<Head(me.todo)>> # <<>>
      /\ Len(Tail(me.todo)) = Len(me.todo) - 1
      /\ Range(me.todo) = {Head(me.todo)} \cup Range(Tail(me.todo))
      /\ OneEach(me.todo) => OneEach(Tail(me.todo)) /\ Head(me.todo) \notin Range(Tail(me.todo))
  BY <1>0, HeadFacts
<1>2. /\ next \in PassType /\ next.at = "ask" /\ next.asked = <<Head(me.todo)>>
      /\ next.todo = Tail(me.todo) /\ next.kind = me.kind /\ next.kept = me.kept
      /\ next.rated = me.rated
  BY <1>1 DEF PassType
<1> HIDE DEF next
<1>3. /\ Pending(next) = {Head(me.todo)} /\ Pending(me) = {}
      /\ Busy(next) = 1 /\ Busy(me) = 0
  BY <1>1, <1>2 DEF Pending, Busy
<1>4. me.kind # "inline" => FactsOnce(next, own)
  BY <1>1, <1>2, <1>3 DEF FactsOnce, PassHolds
<1>5. ASSUME NEW f \in Facts, OneFact(me, own, f) PROVE OneFact(next, own, f)
  <2>1. Len(Tail(me.todo)) + 1 = Len(me.todo) + 0
    BY <1>0, <1>1
  <2>2. Len(next.todo) + Busy(next) = Len(me.todo) + Busy(me)
    BY <1>2, <1>3, <2>1
  <2>3. Cardinality(own[f]) \in Nat /\ Len(me.todo) \in Nat /\ Len(next.todo) \in Nat
    BY <1>0, <1>1, <1>2, FS_CardinalityType DEF OwnType
  <2>4. Cardinality(own[f]) + Len(next.todo) + Busy(next) =
        Cardinality(own[f]) + Len(me.todo) + Busy(me)
    BY <1>3, <2>2, <2>3
  <2>. QED  BY <1>1, <1>2, <1>3, <1>5, <2>4 DEF OneFact
<1>6. CountsMatch(next, own, given, seen)
  BY <1>2 DEF CountsMatch, PassHolds
<1>7. PassHolds(next, own, given, seen)
  BY <1>1, <1>2, <1>4, <1>5, <1>6 DEF PassHolds
<1>. QED  BY <1>2, <1>7 DEF next

(* The rate tool's next list. *)
LEMMA FetchHolds ==
  ASSUME NEW me \in PassType, NEW own \in OwnType, NEW given, NEW seen,
         PassHolds(me, own, given, seen), me.at = "next", me.kind # "inline",
         NEW todo \in Seq(Facts), OneEach(todo), \A f \in Range(todo) : own[f] = {},
         NEW due \in Int
  PROVE  LET next == [me EXCEPT !.todo = todo, !.left = due]
         IN  next \in PassType /\ PassHolds(next, own, given, seen)
<1> DEFINE next == [me EXCEPT !.todo = todo, !.left = due]
<1>1. /\ next \in PassType /\ next.at = "next" /\ next.todo = todo /\ next.kind = me.kind
      /\ next.kept = me.kept /\ next.rated = me.rated
  BY DEF PassType
<1> HIDE DEF next
<1>2. Pending(next) = {}
  BY <1>1 DEF Pending
<1>3. FactsOnce(next, own)
  BY <1>1, <1>2 DEF FactsOnce, PassHolds
<1>4. CountsMatch(next, own, given, seen)
  BY <1>1 DEF CountsMatch, PassHolds
<1>5. PassHolds(next, own, given, seen)
  BY <1>1, <1>3, <1>4 DEF PassHolds
<1>. QED  BY <1>1, <1>5 DEF next

(* The next batch of a list. *)
LEMMA TakeBatchHolds ==
  ASSUME NEW me \in PassType, NEW own \in OwnType, NEW given, NEW seen,
         PassHolds(me, own, given, seen),
         me.at = "next", me.kind \in InBatches, NEW size \in 0..Len(me.todo)
  PROVE  LET next == [me EXCEPT !.at = "ask", !.asked = SubSeq(me.todo, 1, size),
                                !.todo = SubSeq(me.todo, size + 1, Len(me.todo))]
         IN  next \in PassType /\ PassHolds(next, own, given, seen)
<1> DEFINE first == SubSeq(me.todo, 1, size)
           others == SubSeq(me.todo, size + 1, Len(me.todo))
           next == [me EXCEPT !.at = "ask", !.asked = first, !.todo = others]
<1>0. me.todo \in Seq(Facts) /\ Len(me.todo) \in Nat /\ DOMAIN me.todo = 1..Len(me.todo)
  BY DEF PassType
<1>1. /\ first \in Seq(Facts) /\ others \in Seq(Facts)
      /\ Range(first) = {me.todo[i] : i \in 1..size}
      /\ Range(others) = {me.todo[i] : i \in (size + 1)..Len(me.todo)}
      /\ Range(first) \subseteq Range(me.todo) /\ Range(others) \subseteq Range(me.todo)
      /\ OneEach(me.todo) => OneEach(others)
  <2>1. size \in Nat /\ size <= Len(me.todo) /\ 1 \in Nat \ {0} /\ size + 1 \in Nat \ {0}
        /\ Len(me.todo) <= Len(me.todo)
    BY <1>0
  <2>2. /\ first \in Seq(Facts) /\ Range(first) = {me.todo[i] : i \in 1..size}
        /\ Range(first) \subseteq Range(me.todo)
    <3> DEFINE todo == me.todo
    <3>1. todo \in Seq(Facts) /\ 1 \in Nat \ {0} /\ size \in Nat /\ size <= Len(todo)
      BY <1>0, <2>1
    <3> HIDE DEF todo
    <3>2. LET t == SubSeq(todo, 1, size) IN
          /\ t \in Seq(Facts) /\ Len(t) = (IF 1 <= size THEN size - 1 + 1 ELSE 0)
          /\ \A i \in DOMAIN t :
               i + 1 - 1 \in 1..size /\ i + 1 - 1 \in DOMAIN todo /\ t[i] = todo[i + 1 - 1]
          /\ \A i \in 1..size : i - 1 + 1 \in DOMAIN t /\ t[i - 1 + 1] = todo[i]
          /\ Range(t) = {todo[i] : i \in 1..size} /\ Range(t) \subseteq Range(todo)
          /\ OneEach(todo) => OneEach(t)
      BY <3>1, PartFacts
    <3>. QED  BY <3>2 DEF todo
  <2>3. /\ others \in Seq(Facts)
        /\ Range(others) = {me.todo[i] : i \in (size + 1)..Len(me.todo)}
        /\ Range(others) \subseteq Range(me.todo) /\ (OneEach(me.todo) => OneEach(others))
    <3> DEFINE todo == me.todo
               m == size + 1
               n == Len(todo)
    <3>1. todo \in Seq(Facts) /\ m \in Nat \ {0} /\ n \in Nat /\ n <= Len(todo)
      BY <1>0, <2>1
    <3>2. others = SubSeq(todo, m, n) /\ (size + 1)..Len(me.todo) = m..n
      OBVIOUS
    <3> HIDE DEF todo, m, n, others
    <3>3. LET t == SubSeq(todo, m, n) IN
          /\ t \in Seq(Facts) /\ Len(t) = (IF m <= n THEN n - m + 1 ELSE 0)
          /\ \A i \in DOMAIN t : i + m - 1 \in m..n /\ i + m - 1 \in DOMAIN todo /\ t[i] = todo[i + m - 1]
          /\ \A i \in m..n : i - m + 1 \in DOMAIN t /\ t[i - m + 1] = todo[i]
          /\ Range(t) = {todo[i] : i \in m..n} /\ Range(t) \subseteq Range(todo)
          /\ OneEach(todo) => OneEach(t)
      BY <3>1, PartFacts
    <3>4. /\ others \in Seq(Facts) /\ Range(others) = {todo[i] : i \in m..n}
          /\ Range(others) \subseteq Range(todo) /\ (OneEach(todo) => OneEach(others))
      BY <3>2, <3>3
    <3>. QED  BY <3>2, <3>4 DEF todo
  <2>. QED  BY <2>2, <2>3
<1> HIDE DEF first, others
<1>2. /\ next \in PassType /\ next.at = "ask" /\ next.asked = first /\ next.todo = others
      /\ next.kind = me.kind /\ next.kept = me.kept /\ next.rated = me.rated
  BY <1>1 DEF PassType
<1> HIDE DEF next
<1>3. Pending(next) = Range(first) /\ Pending(me) = {}
  BY <1>2 DEF Pending
<1>4. me.kind # "inline" /\ me.kind \notin OneByOne
  BY DEF InBatches, OneByOne
<1>5. FactsOnce(me, own)
  BY <1>4 DEF PassHolds
<1>6. Range(first) \cap Range(others) = {}
  <2> SUFFICES ASSUME NEW i \in 1..size, NEW j \in (size + 1)..Len(me.todo),
                      me.todo[i] = me.todo[j]
               PROVE  FALSE
    BY <1>1
  <2>1. i \in DOMAIN me.todo /\ j \in DOMAIN me.todo /\ i # j
    BY <1>0
  <2>. QED  BY <1>5, <2>1 DEF FactsOnce, OneEach
<1>7. FactsOnce(next, own)
  BY <1>1, <1>2, <1>3, <1>5, <1>6 DEF FactsOnce
<1>8. CountsMatch(next, own, given, seen)
  BY <1>2 DEF CountsMatch, PassHolds
<1>9. PassHolds(next, own, given, seen)
  BY <1>2, <1>4, <1>7, <1>8 DEF PassHolds
<1>. QED  BY <1>2, <1>9 DEF next, first, others

(* An answer: only facts that were asked about, each once. *)
LEMMA AnswerHolds ==
  ASSUME NEW me \in PassType, NEW own \in OwnType, NEW given, NEW seen,
         PassHolds(me, own, given, seen), me.at = "ask",
         NEW results \in Seq(ResultType), EachFact(results),
         FactsOf(results) \subseteq Range(me.asked),
         me.kind = "inline" => Len(results) = 1
  PROVE  LET next == [me EXCEPT !.at = "save", !.results = results]
         IN  next \in PassType /\ PassHolds(next, own, given, seen)
<1> DEFINE next == [me EXCEPT !.at = "save", !.results = results]
<1>1. /\ next \in PassType /\ next.at = "save" /\ next.results = results
      /\ next.todo = me.todo
      /\ next.kind = me.kind /\ next.kept = me.kept /\ next.rated = me.rated
  BY DEF PassType
<1> HIDE DEF next
<1>2. /\ Pending(next) = FactsOf(results) /\ Pending(me) = Range(me.asked)
      /\ Busy(next) = Len(results) /\ Busy(me) = 1
  BY <1>1 DEF Pending, Busy
<1>3. me.kind # "inline" => FactsOnce(next, own)
  BY <1>1, <1>2 DEF FactsOnce, PassHolds
<1>4. ASSUME me.kind = "inline", NEW f \in Facts, OneFact(me, own, f)
      PROVE  OneFact(next, own, f)
  BY <1>1, <1>2, <1>4 DEF OneFact
<1>5. CountsMatch(next, own, given, seen)
  BY <1>1 DEF CountsMatch, PassHolds
<1>6. PassHolds(next, own, given, seen)
  BY <1>1, <1>3, <1>4, <1>5 DEF PassHolds
<1>. QED  BY <1>1, <1>6 DEF next

(* What is pending is given up or done, and what was kept is counted or lost:
   the end of a fact, of a batch or of the pass. *)
LEMMA EndHolds ==
  ASSUME NEW me \in PassType, NEW own \in OwnType, NEW given, NEW seen, Providers \in Nat,
         PassHolds(me, own, given, seen), MaxFacts \in Nat, me.at # "idle",
         NEW next \in PassType, next.at \in {"next", "done", "gone"},
         next.todo = me.todo, next.kind = me.kind, next.kept = 0,
         next.rated <= me.rated + me.kept,
         me.kind = "service" => next.rated = me.rated + me.kept
  PROVE  PassHolds(next, own, given, seen)
<1>1. Pending(next) = {} /\ Busy(next) = 0
  BY DEF Pending, Busy
<1>2. me.kind # "inline" => FactsOnce(next, own)
  BY <1>1 DEF FactsOnce, PassHolds
<1>3. ASSUME me.kind = "inline", NEW f \in Facts, OneFact(me, own, f)
      PROVE  OneFact(next, own, f)
  <2>1. Busy(me) \in Nat /\ Len(me.todo) \in Nat
    BY DEF Busy, PassType
  <2>2. Cardinality(own[f]) \in Nat
    BY FS_CardinalityType DEF OwnType
  <2>. QED  BY <1>1, <1>3, <2>1, <2>2 DEF OneFact
<1>4. CountsMatch(next, own, given, seen)
  <2>1. Cardinality(OwnedFacts(own)) \in Nat /\ me.rated + me.kept \in Nat /\ next.rated \in Nat
    BY OwnedFinite DEF PassType
  <2>. QED  BY <2>1 DEF CountsMatch, PassHolds
<1>. QED  BY <1>1, <1>2, <1>3, <1>4 DEF PassHolds

(* The first of the results is dealt with. *)
Dealt(me, kept) == [me EXCEPT !.results = Tail(@), !.kept = @ + kept]

LEMMA DealtFacts ==
  ASSUME NEW me \in PassType, me.at = "save", me.results # <<>>, NEW kept \in {0, 1}
  PROVE  LET next == Dealt(me, kept)
             f == Head(me.results).fact
         IN  /\ next \in PassType /\ next.at = "save" /\ next.todo = me.todo
             /\ next.kind = me.kind /\ next.kept = me.kept + kept /\ next.rated = me.rated
             /\ Len(next.results) + 1 = Len(me.results)
             /\ f \in Facts /\ Head(me.results).stars \in Stars
             /\ FactsOf(me.results) = {f} \cup FactsOf(next.results)
             /\ EachFact(me.results) => EachFact(next.results) /\ f \notin FactsOf(next.results)
<1> DEFINE next == Dealt(me, kept)
           s == me.results
           t == next.results
           f == Head(me.results).fact
<1>0. s \in Seq(ResultType)
  BY DEF PassType
<1>1. /\ next \in PassType /\ next.at = "save" /\ next.todo = me.todo
      /\ next.kind = me.kind /\ next.kept = me.kept + kept /\ next.rated = me.rated
      /\ t = Tail(s)
  <2>1. Tail(s) \in Seq(ResultType) /\ me.kept + kept \in Nat
    BY <1>0, HeadFacts DEF PassType
  <2>2. PICK u : u = Tail(s)
    OBVIOUS
  <2>3. next = [me EXCEPT !.results = u, !.kept = me.kept + kept]
    BY <2>2 DEF Dealt, PassType
  <2>4. u \in Seq(ResultType)
    BY <2>1, <2>2
  <2> HIDE DEF next, s
  <2>5. /\ next \in PassType /\ next.at = "save" /\ next.todo = me.todo
        /\ next.kind = me.kind /\ next.kept = me.kept + kept /\ next.rated = me.rated
        /\ t = u
    BY <2>1, <2>3, <2>4 DEF PassType
  <2>. QED  BY <2>2, <2>5
<1> HIDE DEF next
<1>2. /\ Head(s) \in ResultType /\ s[1] = Head(s) /\ 1 \in DOMAIN s /\ DOMAIN s = 1..Len(s)
      /\ Len(t) = Len(s) - 1 /\ DOMAIN t = 1..(Len(s) - 1)
      /\ \A i \in DOMAIN t : i + 1 \in DOMAIN s /\ t[i] = s[i + 1]
  BY <1>0, <1>1, HeadFacts
<1>3. Len(s) \in Nat
  BY <1>0
<1> HIDE DEF s, t
<1>4. \A i \in DOMAIN s : i = 1 \/ (i - 1 \in DOMAIN t /\ t[i - 1] = s[i])
  <2> SUFFICES ASSUME NEW i \in DOMAIN s, i # 1
               PROVE  i - 1 \in DOMAIN t /\ t[i - 1] = s[i]
    OBVIOUS
  <2>1. i - 1 \in DOMAIN t /\ (i - 1) + 1 = i
    BY <1>2, <1>3
  <2>. QED  BY <1>2, <2>1
<1>5. FactsOf(s) = {s[1].fact} \cup FactsOf(t)
  <2>1. \A i \in DOMAIN s : s[i].fact \in {s[1].fact} \cup FactsOf(t)
    BY <1>4 DEF FactsOf
  <2>2. \A i \in DOMAIN t : t[i].fact \in FactsOf(s)
    BY <1>2 DEF FactsOf
  <2>. QED  BY <1>2, <2>1, <2>2 DEF FactsOf
<1>6. ASSUME EachFact(s) PROVE EachFact(t) /\ s[1].fact \notin FactsOf(t)
  <2>1. \A i, j \in DOMAIN t : i + 1 = j + 1 => i = j
    BY <1>2, <1>3
  <2>2. \A i \in DOMAIN t : i + 1 # 1
    BY <1>2, <1>3
  <2>3. EachFact(t)
    BY <1>2, <1>6, <2>1 DEF EachFact
  <2>. QED  BY <1>2, <1>6, <2>2, <2>3 DEF EachFact, FactsOf
<1>7. Len(t) + 1 = Len(s)
  BY <1>2, <1>3
<1>8. f = s[1].fact /\ f \in Facts /\ Head(s).stars \in Stars
  BY <1>2 DEF ResultType, s
<1>. QED  BY <1>1, <1>5, <1>6, <1>7, <1>8 DEF next, s, t

LEMMA DealtOnce ==
  ASSUME MaxFacts \in Nat, NEW me \in PassType, NEW own \in OwnType, FactsOnce(me, own),
         me.at = "save", me.results # <<>>, NEW kept \in {0, 1},
         NEW n \in Nat, n \notin own[Head(me.results).fact]
  PROVE  /\ FactsOnce(Dealt(me, kept), own)
         /\ FactsOnce(Dealt(me, kept), Added(own, Head(me.results).fact, n))
<1> DEFINE next == Dealt(me, kept)
           f == Head(me.results).fact
<1>1. /\ next \in PassType /\ next.at = "save" /\ next.todo = me.todo /\ f \in Facts
      /\ FactsOf(me.results) = {f} \cup FactsOf(next.results)
      /\ EachFact(me.results) => EachFact(next.results) /\ f \notin FactsOf(next.results)
  <2>1. me \in PassType /\ me.at = "save" /\ me.results # <<>> /\ kept \in {0, 1}
    OBVIOUS
  <2>2. /\ Dealt(me, kept) \in PassType /\ Dealt(me, kept).at = "save"
        /\ Dealt(me, kept).todo = me.todo /\ Head(me.results).fact \in Facts
    BY <2>1, DealtFacts
  <2>3. FactsOf(me.results) = {Head(me.results).fact} \cup FactsOf(Dealt(me, kept).results)
    BY <2>1, DealtFacts
  <2>4. EachFact(me.results) => EachFact(Dealt(me, kept).results)
    BY <2>1, DealtFacts
  <2>5. EachFact(me.results) => Head(me.results).fact \notin FactsOf(Dealt(me, kept).results)
    BY <2>1, DealtFacts
  <2>. QED  BY <2>2, <2>3, <2>4, <2>5
<1> HIDE DEF next
<1>2. Pending(next) = FactsOf(next.results) /\ Pending(me) = {f} \cup FactsOf(next.results)
  BY <1>1 DEF Pending
<1>3. EachFact(next.results) /\ f \notin Pending(next) \cup Range(me.todo) /\ own[f] = {}
  BY <1>1, <1>2 DEF FactsOnce
<1>4. FactsOnce(next, own)
  BY <1>1, <1>2, <1>3 DEF FactsOnce
<1>5. /\ Cardinality(Added(own, f, n)[f]) = Cardinality(own[f]) + 1
      /\ \A g \in Facts : g # f => Added(own, f, n)[g] = own[g]
  BY <1>1, AddedFacts
<1>6. Cardinality(own[f]) = 0
  BY <1>3, FS_EmptySet
<1>7. Pending(next) \cup Range(next.todo) \subseteq Facts
  <2>1. Range(me.todo) \subseteq Facts
    BY RangeFacts DEF PassType
  <2>2. FactsOf(next.results) \subseteq Facts
    <3>1. next.results \in Seq(ResultType)
      BY <1>1 DEF PassType
    <3>2. \A i \in DOMAIN next.results : next.results[i] \in ResultType
      BY <3>1
    <3>. QED  BY <3>2 DEF ResultType, FactsOf
  <2>. QED  BY <1>1, <1>2, <2>1, <2>2
<1>8. FactsOnce(next, Added(own, f, n))
  <2>1. \A g \in Pending(next) \cup Range(next.todo) : Added(own, f, n)[g] = {}
    BY <1>1, <1>3, <1>4, <1>5, <1>7 DEF FactsOnce
  <2>2. \A g \in Facts : Cardinality(Added(own, f, n)[g]) <= 1
    BY <1>4, <1>5, <1>6 DEF FactsOnce
  <2>. QED  BY <1>4, <2>1, <2>2 DEF FactsOnce
<1>. QED  BY <1>4, <1>8 DEF next

(* The rating trait and the rate tool: one more row, and one more is kept. *)
LEMMA SaveHolds ==
  ASSUME MaxFacts \in Nat, Providers \in Nat, NEW me \in PassType, NEW own \in OwnType,
         NEW given, NEW seen, PassHolds(me, own, given, seen),
         me.at = "save", me.results # <<>>, me.kind # "service",
         NEW n \in Nat, n \notin own[Head(me.results).fact]
  PROVE  /\ Dealt(me, 1) \in PassType
         /\ PassHolds(Dealt(me, 1), Added(own, Head(me.results).fact, n), given, seen)
<1> DEFINE next == Dealt(me, 1)
           h == Head(me.results).fact
           more == Added(own, h, n)
<1>1. /\ next \in PassType /\ next.at = "save" /\ next.todo = me.todo
      /\ next.kind = me.kind /\ next.kept = me.kept + 1 /\ next.rated = me.rated
      /\ Len(next.results) + 1 = Len(me.results) /\ h \in Facts
      /\ FactsOf(me.results) = {h} \cup FactsOf(next.results)
  BY DealtFacts
<1>2. /\ more \in OwnType /\ Cardinality(more[h]) = Cardinality(own[h]) + 1
      /\ \A g \in Facts : g # h => more[g] = own[g]
      /\ Cardinality(OwnedFacts(more)) = Cardinality(OwnedFacts(own)) + 1
  BY <1>1, AddedFacts
<1>3. me.kind # "inline" => FactsOnce(next, more)
  BY DealtOnce DEF PassHolds
<1> HIDE DEF next, more
<1>4. /\ Pending(next) = FactsOf(next.results) /\ Pending(me) = {h} \cup FactsOf(next.results)
      /\ Busy(next) = Len(next.results) /\ Busy(me) = Len(me.results)
  BY <1>1 DEF Pending, Busy
<1>5. ASSUME NEW f \in Facts, OneFact(me, own, f) PROVE OneFact(next, more, f)
  <2>1. f = h /\ Pending(next) \cup Range(next.todo) \subseteq {f}
    BY <1>1, <1>4, <1>5 DEF OneFact
  <2>2. Cardinality(own[h]) \in Nat /\ Len(me.todo) \in Nat /\ Len(next.results) \in Nat
    BY <1>1, FS_CardinalityType DEF OwnType, PassType
  <2>3. Cardinality(more[h]) + Len(next.todo) + Busy(next) =
        Cardinality(own[h]) + Len(me.todo) + Busy(me)
    <3>1. Cardinality(more[h]) = Cardinality(own[h]) + 1 /\ Busy(next) + 1 = Busy(me)
          /\ Len(next.todo) = Len(me.todo) /\ Busy(next) \in Nat
      BY <1>1, <1>2, <1>4, <2>2
    <3>. QED  BY <2>2, <3>1
  <2>4. Len(me.results) <= 1 => Len(next.results) <= 1
    BY <1>1, <2>2
  <2>. QED  BY <1>1, <1>2, <1>5, <2>1, <2>3, <2>4 DEF OneFact
<1>6. CountsMatch(next, more, given, seen)
  <2>1. me.rated + me.kept <= Cardinality(OwnedFacts(own))
    BY DEF PassHolds, CountsMatch
  <2>2. Cardinality(OwnedFacts(own)) \in Nat /\ me.rated \in Nat /\ me.kept \in Nat
    BY OwnedFinite DEF PassType
  <2>3. next.rated + next.kept <= Cardinality(OwnedFacts(more))
    BY <1>1, <1>2, <2>1, <2>2
  <2>. QED  BY <1>1, <2>3 DEF CountsMatch
<1>7. PassHolds(next, more, given, seen)
  BY <1>1, <1>3, <1>5, <1>6 DEF PassHolds
<1>. QED  BY <1>1, <1>7 DEF next, more

(* The batch service: a fact that is saved, or was there, is handed out. *)
LEMMA ServiceSaveHolds ==
  ASSUME MaxFacts \in Nat, NEW me \in PassType, NEW own \in OwnType,
         NEW given \in Seq(ItemType), NEW seen, PassHolds(me, own, given, seen),
         me.at = "save", me.results # <<>>, me.kind = "service",
         NEW n \in Nat, n \notin own[Head(me.results).fact],
         NEW more \in {own, Added(own, Head(me.results).fact, n)},
         NEW item \in ItemType, item.id \in seen
  PROVE  /\ Dealt(me, 1) \in PassType
         /\ PassHolds(Dealt(me, 1), more, Append(given, item), seen)
<1> DEFINE next == Dealt(me, 1)
<1>1. /\ next \in PassType /\ next.at = "save"
      /\ next.kind = me.kind /\ next.kept = me.kept + 1 /\ next.rated = me.rated
  BY DealtFacts
<1>2. FactsOnce(next, more)
  BY DealtOnce DEF PassHolds
<1> HIDE DEF next
<1> DEFINE out == Append(given, item)
<1>3. /\ Len(out) = Len(given) + 1 /\ DOMAIN out = (DOMAIN given) \cup {Len(given) + 1}
      /\ out[Len(given) + 1] = item /\ \A i \in DOMAIN given : out[i] = given[i]
  BY AppendFacts
<1> HIDE DEF out
<1>4. CountsMatch(next, more, out, seen)
  <2>1. me.rated + me.kept = Len(given) /\ \A i \in DOMAIN given : given[i].id \in seen
    BY DEF PassHolds, CountsMatch
  <2>2. me.rated \in Nat /\ me.kept \in Nat
    BY DEF PassType
  <2>3. next.rated + next.kept = Len(out)
    BY <1>1, <1>3, <2>1, <2>2
  <2>4. \A i \in DOMAIN out : out[i].id \in seen
    BY <1>3, <2>1
  <2>. QED  BY <1>1, <2>3, <2>4 DEF CountsMatch
<1>5. PassHolds(next, more, out, seen)
  BY <1>1, <1>2, <1>4 DEF PassHolds
<1>. QED  BY <1>1, <1>5 DEF next, out

LEMMA ServiceFailHolds ==
  ASSUME MaxFacts \in Nat, NEW me \in PassType, NEW own \in OwnType,
         NEW given, NEW seen, PassHolds(me, own, given, seen),
         me.at = "save", me.results # <<>>, me.kind = "service"
  PROVE  Dealt(me, 0) \in PassType /\ PassHolds(Dealt(me, 0), own, given, seen)
<1> DEFINE next == Dealt(me, 0)
<1>1. /\ next \in PassType /\ next.at = "save"
      /\ next.kind = me.kind /\ next.kept = me.kept + 0 /\ next.rated = me.rated
  BY DealtFacts
<1>2. FactsOnce(next, own)
  <2>1. Head(me.results).fact \in Facts /\ own[Head(me.results).fact] = {}
    <3>1. Head(me.results).fact \in FactsOf(me.results) /\ Head(me.results).fact \in Facts
      <4>1. me \in PassType /\ me.at = "save" /\ me.results # <<>>
        OBVIOUS
      <4>2. FactsOf(me.results) = {Head(me.results).fact} \cup FactsOf(Dealt(me, 0).results)
        BY <4>1, DealtFacts
      <4>3. Head(me.results).fact \in Facts
        BY <4>1, DealtFacts
      <4>. QED  BY <4>2, <4>3
    <3>. QED  BY <3>1 DEF PassHolds, FactsOnce, Pending
  <2>2. 0 \notin own[Head(me.results).fact]
    BY <2>1
  <2>. QED  BY <2>2, DealtOnce DEF PassHolds
<1> HIDE DEF next
<1>3. next.kept = me.kept
  BY <1>1 DEF PassType
<1>4. CountsMatch(next, own, given, seen)
  BY <1>1, <1>3 DEF PassHolds, CountsMatch
<1>5. PassHolds(next, own, given, seen)
  BY <1>1, <1>2, <1>4 DEF PassHolds
<1>. QED  BY <1>1, <1>5 DEF next

(* The state: what each pass owns of the rows, and what is rated. *)
OwnOf(table, p) == [f \in Facts |-> {i \in DOMAIN table[f] : table[f][i].by = p}]
SeenIn(table) == {f \in Facts : table[f] # <<>>}

Typed ==
  /\ known \in 0..MaxFacts
  /\ rows \in [Facts -> Seq(RowType)]
  /\ pass \in [Passes -> PassType]
  /\ yields \in [Passes -> Seq(ItemType)]
  /\ pairer \in PairerType

PassesHold ==
  \A p \in Passes : PassHolds(pass[p], OwnOf(rows, p), yields[p], SeenIn(rows))

(* A fact that was picked for a pair is rated, and its latest rating has none. *)
Unmated(table, f) == f \in Facts /\ table[f] # <<>> /\ table[f][Len(table[f])].mate = NoFact

PairerHolds ==
  /\ pairer.at \in {"high", "low"} => Unmated(rows, pairer.high)
  /\ pairer.at = "low" => Unmated(rows, pairer.low) /\ pairer.high # pairer.low

RatingInv == Typed /\ PassesHold /\ PairerHolds

(* The table before and after a row is inserted. *)
Inserted(table, f, row) == [table EXCEPT ![f] = Append(@, row)]

LEMMA OwnTyped ==
  ASSUME NEW table \in [Facts -> Seq(RowType)], NEW p
  PROVE  /\ OwnOf(table, p) \in OwnType
         /\ \A f \in Facts : (Len(table[f]) + 1) \notin OwnOf(table, p)[f]
<1> SUFFICES ASSUME NEW f \in Facts
             PROVE  LET A == {i \in DOMAIN table[f] : table[f][i].by = p}
                    IN  A \in SUBSET Nat /\ IsFiniteSet(A) /\ (Len(table[f]) + 1) \notin A
  BY DEF OwnOf, OwnType
<1> DEFINE A == {i \in DOMAIN table[f] : table[f][i].by = p}
<1>1. table[f] \in Seq(RowType)
  OBVIOUS
<1>2. Len(table[f]) \in Nat /\ DOMAIN table[f] = 1..Len(table[f])
  BY <1>1
<1>3. IsFiniteSet(1..Len(table[f]))
  BY <1>2, FS_Interval
<1>4. A \in SUBSET (1..Len(table[f]))
  BY <1>2
<1>5. IsFiniteSet(A)
  BY <1>3, <1>4, FS_Subset
<1>. QED  BY <1>2, <1>4, <1>5

LEMMA InsertedFacts ==
  ASSUME NEW table \in [Facts -> Seq(RowType)], NEW f \in Facts, NEW row \in RowType
  PROVE  LET more == Inserted(table, f, row)
         IN  /\ more \in [Facts -> Seq(RowType)]
             /\ OwnOf(more, row.by) = Added(OwnOf(table, row.by), f, Len(table[f]) + 1)
             /\ \A p : p # row.by => OwnOf(more, p) = OwnOf(table, p)
             /\ SeenIn(table) \subseteq SeenIn(more) /\ f \in SeenIn(more)
             /\ row.mate = NoFact => \A g : Unmated(table, g) => Unmated(more, g)
             /\ \A g \in Facts : \A i \in DOMAIN table[g] : more[g][i] = table[g][i]
<1> DEFINE more == Inserted(table, f, row)
           n == Len(table[f]) + 1
<1>1. /\ Append(table[f], row) \in Seq(RowType) /\ Len(Append(table[f], row)) = n
      /\ DOMAIN Append(table[f], row) = (DOMAIN table[f]) \cup {n}
      /\ Append(table[f], row)[n] = row
      /\ \A i \in DOMAIN table[f] : Append(table[f], row)[i] = table[f][i]
  BY AppendFacts
<1>2. n \in Nat /\ n \notin DOMAIN table[f] /\ n # 0
  <2>1. table[f] \in Seq(RowType)
    OBVIOUS
  <2>. QED  BY <2>1
<1>3. more[f] = Append(table[f], row) /\ \A g \in Facts : g # f => more[g] = table[g]
  BY DEF Inserted
<1>4. more \in [Facts -> Seq(RowType)]
  BY <1>1 DEF Inserted
<1> HIDE DEF more, n
<1>5. \A g \in Facts : \A i \in DOMAIN table[g] : more[g][i] = table[g][i]
  BY <1>1, <1>3
<1>6. more[f] # <<>>
  <2>1. more[f] \in Seq(RowType) /\ Len(more[f]) # 0
    BY <1>1, <1>2, <1>3
  <2>. QED  BY <2>1
<1>7. SeenIn(table) \subseteq SeenIn(more) /\ f \in SeenIn(more)
  BY <1>3, <1>6 DEF SeenIn
<1>8. row.mate = NoFact => \A g : Unmated(table, g) => Unmated(more, g)
  BY <1>1, <1>3, <1>6 DEF Unmated
<1>9. ASSUME NEW p PROVE OwnOf(more, p)[f] = {i \in DOMAIN table[f] : table[f][i].by = p}
                                              \cup {i \in {n} : row.by = p}
  BY <1>1, <1>3 DEF OwnOf
<1>10. \A p : \A g \in Facts : g # f => OwnOf(more, p)[g] = OwnOf(table, p)[g]
  BY <1>3 DEF OwnOf
<1>11. OwnOf(more, row.by) = Added(OwnOf(table, row.by), f, n)
  <2>1. OwnOf(more, row.by)[f] = OwnOf(table, row.by)[f] \cup {n}
    BY <1>9 DEF OwnOf
  <2> DEFINE a == OwnOf(more, row.by)
             b == OwnOf(table, row.by)
  <2>2. a = [g \in Facts |-> a[g]] /\ b = [g \in Facts |-> b[g]]
    BY DEF OwnOf
  <2>3. \A g \in Facts : g # f => a[g] = b[g]
    BY <1>10
  <2> HIDE DEF a, b
  <2>4. a[f] = b[f] \cup {n}
    BY <2>1 DEF a, b
  <2>5. a = Added(b, f, n)
    BY <2>2, <2>3, <2>4 DEF Added
  <2>. QED  BY <2>5 DEF a, b
<1>12. ASSUME NEW p, p # row.by PROVE OwnOf(more, p) = OwnOf(table, p)
  <2> DEFINE a == OwnOf(more, p)
             b == OwnOf(table, p)
  <2>1. a[f] = b[f]
    BY <1>9, <1>12 DEF OwnOf
  <2>2. a = [g \in Facts |-> a[g]] /\ b = [g \in Facts |-> b[g]]
    BY DEF OwnOf
  <2>3. \A g \in Facts : g # f => a[g] = b[g]
    BY <1>10
  <2> HIDE DEF a, b
  <2>4. a = b
    BY <2>1, <2>2, <2>3
  <2>. QED  BY <2>4 DEF a, b
<1>. QED  BY <1>4, <1>5, <1>7, <1>8, <1>11, <1>12 DEF more, n

(* A step of one pass that leaves the rows alone. *)
LEMMA PassStep ==
  ASSUME RatingInv, NEW p \in Passes, NEW me \in PassType, NEW given \in Seq(ItemType),
         pass' = [pass EXCEPT ![p] = me], yields' = [yields EXCEPT ![p] = given],
         known' \in 0..MaxFacts, UNCHANGED <<rows, pairer>>,
         PassHolds(me, OwnOf(rows, p), given, SeenIn(rows))
  PROVE  RatingInv'
<1>1. Typed'
  BY DEF RatingInv, Typed
<1>2. ASSUME NEW q \in Passes
      PROVE  PassHolds(pass'[q], OwnOf(rows, q), yields'[q], SeenIn(rows))
  BY DEF RatingInv, Typed, PassesHold
<1>3. PassesHold'
  BY <1>2 DEF PassesHold
<1>4. PairerHolds'
  BY DEF RatingInv, PairerHolds
<1>. QED  BY <1>1, <1>3, <1>4 DEF RatingInv

(* A step of one pass that inserts a row. *)
LEMMA InsertStep ==
  ASSUME RatingInv, NEW p \in Passes, NEW me \in PassType, NEW given \in Seq(ItemType),
         NEW f \in Facts, NEW stars \in Stars,
         pass' = [pass EXCEPT ![p] = me], yields' = [yields EXCEPT ![p] = given],
         Insert(f, stars, p), UNCHANGED <<known, pairer>>,
         PassHolds(me, Added(OwnOf(rows, p), f, Len(rows[f]) + 1), given, SeenIn(rows) \cup {f})
  PROVE  RatingInv'
<1> DEFINE row == [stars |-> stars, by |-> p, mate |-> NoFact]
<1>1. row \in RowType /\ row.by = p /\ row.mate = NoFact /\ rows' = Inserted(rows, f, row)
  BY DEF RowType, Insert, Inserted
<1> HIDE DEF row
<1>2. /\ rows' \in [Facts -> Seq(RowType)]
      /\ OwnOf(rows', p) = Added(OwnOf(rows, p), f, Len(rows[f]) + 1)
      /\ \A q : q # p => OwnOf(rows', q) = OwnOf(rows, q)
      /\ SeenIn(rows) \subseteq SeenIn(rows') /\ f \in SeenIn(rows')
      /\ \A g : Unmated(rows, g) => Unmated(rows', g)
  <2>1. rows \in [Facts -> Seq(RowType)]
    BY DEF RatingInv, Typed
  <2> DEFINE more == Inserted(rows, f, row)
  <2>2. /\ more \in [Facts -> Seq(RowType)]
        /\ OwnOf(more, row.by) = Added(OwnOf(rows, row.by), f, Len(rows[f]) + 1)
        /\ \A q : q # row.by => OwnOf(more, q) = OwnOf(rows, q)
        /\ SeenIn(rows) \subseteq SeenIn(more) /\ f \in SeenIn(more)
    BY <1>1, <2>1, InsertedFacts
  <2>3. \A g : Unmated(rows, g) => Unmated(more, g)
    BY <1>1, <2>1, InsertedFacts
  <2>4. rows' = more
    BY <1>1
  <2> HIDE DEF more
  <2>. QED  BY <1>1, <2>2, <2>3, <2>4
<1>3. Typed'
  BY <1>2 DEF RatingInv, Typed
<1>4. ASSUME NEW q \in Passes
      PROVE  PassHolds(pass'[q], OwnOf(rows', q), yields'[q], SeenIn(rows'))
  <2>1. CASE q = p
    <3>1. pass'[q] = me /\ yields'[q] = given
      BY <2>1 DEF RatingInv, Typed
    <3>2. PassHolds(me, OwnOf(rows', p), given, SeenIn(rows) \cup {f})
      BY <1>2
    <3>. QED  BY <1>2, <2>1, <3>1, <3>2, SeenGrows
  <2>2. CASE q # p
    <3>1. pass'[q] = pass[q] /\ yields'[q] = yields[q]
      BY <2>2 DEF RatingInv, Typed
    <3>2. PassHolds(pass[q], OwnOf(rows, q), yields[q], SeenIn(rows))
      BY DEF RatingInv, PassesHold
    <3>. QED  BY <1>2, <2>2, <3>1, <3>2, SeenGrows
  <2>. QED  BY <2>1, <2>2
<1>5. PassesHold'
  BY <1>4 DEF PassesHold
<1>6. PairerHolds'
  BY <1>2 DEF RatingInv, PairerHolds
<1>. QED  BY <1>3, <1>5, <1>6 DEF RatingInv

LEMMA StartIdle ==
  ASSUME RatingInv, NEW p \in Passes, NEW kind \in AllKinds, NEW todo, NEW due,
         StartPass(p, kind, todo, due)
  PROVE  /\ \A f \in Facts : OwnOf(rows, p)[f] = {}
         /\ yields[p] = <<>> /\ yields[p] \in Seq(ItemType)
         /\ pass' = [pass EXCEPT ![p] = Started(kind, todo, due)]
         /\ yields' = [yields EXCEPT ![p] = yields[p]]
         /\ known' \in 0..MaxFacts /\ UNCHANGED <<rows, pairer>>
<1>1. PassHolds(pass[p], OwnOf(rows, p), yields[p], SeenIn(rows)) /\ pass[p].at = "idle"
  BY DEF RatingInv, PassesHold, StartPass
<1>2. yields[p] = <<>> /\ \A f \in Facts : OwnOf(rows, p)[f] = {}
  BY <1>1 DEF PassHolds
<1>3. yields' = [yields EXCEPT ![p] = yields[p]] /\ yields[p] \in Seq(ItemType)
  BY DEF RatingInv, Typed, StartPass
<1>4. known' \in 0..MaxFacts /\ UNCHANGED <<rows, pairer>>
  BY DEF RatingInv, Typed, StartPass
<1>. QED  BY <1>2, <1>3, <1>4 DEF StartPass, Started

LEMMA StartStep ==
  ASSUME RatingConstants, RatingInv, NEW p \in Passes, NEW kind \in AllKinds, kind # "inline",
         NEW todo \in Seq(Facts), OneEach(todo), NEW due \in Int,
         StartPass(p, kind, todo, due)
  PROVE  RatingInv'
<1>1. /\ \A f \in Facts : OwnOf(rows, p)[f] = {}
      /\ yields[p] = <<>> /\ yields[p] \in Seq(ItemType)
      /\ pass' = [pass EXCEPT ![p] = Started(kind, todo, due)]
      /\ yields' = [yields EXCEPT ![p] = yields[p]]
      /\ known' \in 0..MaxFacts /\ UNCHANGED <<rows, pairer>>
  BY StartIdle
<1>2. /\ Started(kind, todo, due) \in PassType
      /\ PassHolds(Started(kind, todo, due), OwnOf(rows, p), yields[p], SeenIn(rows))
  <2>1. /\ Started(kind, todo, due) \in PassType
        /\ PassHolds(Started(kind, todo, due), OwnOf(rows, p), <<>>, SeenIn(rows))
    BY <1>1, StartHolds
  <2>. QED  BY <1>1, <2>1
<1>. QED  BY <1>1, <1>2, PassStep

LEMMA InlineStep ==
  ASSUME RatingConstants, RatingInv, NEW p \in Passes, NEW f \in Facts,
         StartPass(p, "inline", [i \in 1..Providers |-> f], 0)
  PROVE  RatingInv'
<1> DEFINE todo == [i \in 1..Providers |-> f]
           me == Started("inline", todo, 0)
<1>1. /\ \A g \in Facts : OwnOf(rows, p)[g] = {}
      /\ yields[p] = <<>> /\ yields[p] \in Seq(ItemType)
      /\ pass' = [pass EXCEPT ![p] = me]
      /\ yields' = [yields EXCEPT ![p] = yields[p]]
      /\ known' \in 0..MaxFacts /\ UNCHANGED <<rows, pairer>>
  <2>1. "inline" \in AllKinds
    BY DEF AllKinds
  <2>. QED  BY <2>1, StartIdle
<1>2. me \in PassType /\ PassHolds(me, OwnOf(rows, p), yields[p], SeenIn(rows))
  <2>1. me \in PassType /\ PassHolds(me, OwnOf(rows, p), <<>>, SeenIn(rows))
    BY <1>1, InlineStartHolds DEF RatingConstants
  <2>. QED  BY <1>1, <2>1
<1> HIDE DEF me
<1>. QED  BY <1>1, <1>2, PassStep

LEMMA UnratedFacts ==
  ASSUME RatingConstants, RatingInv, NEW p
  PROVE  /\ Unrated \subseteq Facts /\ UnratedOf("service") \subseteq Facts
         /\ (1..known) \ forgotten \subseteq Facts
         /\ Cardinality(Unrated) \in Nat
         /\ \A f \in Unrated : OwnOf(rows, p)[f] = {}
<1>1. known \in Nat /\ MaxFacts \in Nat /\ 1..known \subseteq Facts
  BY DEF RatingInv, Typed, Facts, RatingConstants
<1>2. Unrated \subseteq Facts /\ Unrated \subseteq 1..known
  BY <1>1 DEF Unrated
<1>3. IsFiniteSet(1..known)
  BY <1>1, FS_Interval
<1>4. IsFiniteSet(Unrated) /\ Cardinality(Unrated) \in Nat
  BY <1>2, <1>3, FS_Subset, FS_CardinalityType
<1>5. \A f \in Unrated : OwnOf(rows, p)[f] = {}
  BY <1>2 DEF Unrated, OwnOf
<1>. QED  BY <1>1, <1>2, <1>4, <1>5 DEF UnratedOf

LEMMA StartsStep ==
  ASSUME RatingConstants, RatingInv, NEW p \in Passes, Starts(p)
  PROVE  RatingInv'
<1>0. MaxFacts \in Nat
  BY DEF RatingConstants
<1>1. ASSUME NEW l \in Limits,
             \/ RateUnrated(p, l) \/ RateBatch(p, l) \/ RateBatches(p, l) \/ RateAuto(p, l)
      PROVE  RatingInv'
  <2>0. l \in {Unset} \cup Nat
    BY DEF RatingConstants
  <2>1. ASSUME NEW facts
        PROVE  Oldest(facts, l) \in Seq(Facts) /\ OneEach(Oldest(facts, l))
    BY <1>0, <2>0, OldestFacts
  <2>2. CASE RateUnrated(p, l)
    BY <2>1, <2>2, StartStep DEF RateUnrated, AllKinds
  <2>3. CASE RateBatch(p, l)
    BY <2>1, <2>3, StartStep DEF RateBatch, AllKinds
  <2>4. CASE RateBatches(p, l)
    BY <2>1, <2>4, StartStep DEF RateBatches, AllKinds
  <2>5. CASE RateAuto(p, l)
    <3> DEFINE count == Cardinality(Unrated)
               due == IF l = Unset THEN count ELSE Min({l, count})
    <3>1. count \in Nat
      BY UnratedFacts
    <3>2. due \in Int
      <4>1. CASE l = Unset
        BY <3>1, <4>1
      <4>2. CASE l # Unset
        <5>1. {l, count} \in SUBSET Nat /\ {l, count} # {}
          BY <2>0, <3>1, <4>2
        <5>2. Min({l, count}) \in {l, count}
          BY <5>1, MinIn
        <5>. QED  BY <4>2, <5>1, <5>2
      <4>. QED  BY <4>1, <4>2
    <3>3. StartPass(p, "auto", <<>>, due)
      BY <2>5 DEF RateAuto
    <3>4. <<>> \in Seq(Facts) /\ OneEach(<<>>) /\ "auto" \in AllKinds
      BY NothingFacts DEF AllKinds
    <3> HIDE DEF due
    <3>. QED  BY <3>2, <3>3, <3>4, StartStep
  <2>. QED  BY <1>1, <2>2, <2>3, <2>4, <2>5
<1>2. ASSUME NEW f \in Given, RateInline(p, f) PROVE RatingInv'
  <2>1. f \in Facts
    BY <1>2, UnratedFacts DEF RateInline
  <2>. QED  BY <1>2, <2>1, InlineStep DEF RateInline
<1>3. ASSUME NEW s \in SUBSET Given, RateItems(p, s) PROVE RatingInv'
  <2>1. Oldest(s, Unset) \in Seq(Facts) /\ OneEach(Oldest(s, Unset))
    BY <1>0, OldestFacts
  <2>. QED  BY <1>3, <2>1, StartStep DEF RateItems, AllKinds
<1>4. CASE RateByHand(p)
  <2>1. <<>> \in Seq(Facts) /\ OneEach(<<>>) /\ "manual" \in AllKinds
    BY NothingFacts DEF AllKinds
  <2>2. StartPass(p, "manual", <<>>, 0)
    BY <1>4 DEF RateByHand
  <2> DEFINE none == <<>>
  <2>3. none \in Seq(Facts) /\ OneEach(none) /\ StartPass(p, "manual", none, 0) /\ "manual" # "inline"
    BY <2>1, <2>2
  <2> HIDE DEF none
  <2>. QED  BY <2>1, <2>3, StartStep
<1>. QED  BY <1>1, <1>2, <1>3, <1>4 DEF Starts

(* A step that changes nothing but what one pass is doing. *)
Moves(p, me) ==
  /\ pass' = [pass EXCEPT ![p] = me]
  /\ UNCHANGED <<known, rows, yields, pairer>>

LEMMA MoveStep ==
  ASSUME RatingInv, NEW p \in Passes, NEW me \in PassType, Moves(p, me),
         PassHolds(me, OwnOf(rows, p), yields[p], SeenIn(rows))
  PROVE  RatingInv'
<1>1. /\ yields[p] \in Seq(ItemType) /\ yields' = [yields EXCEPT ![p] = yields[p]]
      /\ known' \in 0..MaxFacts /\ UNCHANGED <<rows, pairer>>
      /\ pass' = [pass EXCEPT ![p] = me]
  BY DEF RatingInv, Typed, Moves
<1>. QED  BY <1>1, PassStep

LEMMA PassFacts ==
  ASSUME RatingInv, NEW p \in Passes
  PROVE  /\ pass[p] \in PassType /\ OwnOf(rows, p) \in OwnType /\ yields[p] \in Seq(ItemType)
         /\ PassHolds(pass[p], OwnOf(rows, p), yields[p], SeenIn(rows))
BY OwnTyped DEF RatingInv, Typed, PassesHold

LEMMA TakeFactStep ==
  ASSUME RatingInv, NEW p \in Passes, TakeFact(p)
  PROVE  RatingInv'
<1> DEFINE next == [pass[p] EXCEPT !.at = "ask", !.asked = <<Head(pass[p].todo)>>,
                                   !.todo = Tail(@)]
<1>1. /\ pass[p].at = "next" /\ pass[p].kind \in OneByOne /\ pass[p].todo # <<>>
      /\ Moves(p, next)
  BY DEF TakeFact, To, Moves
<1>2. next \in PassType /\ PassHolds(next, OwnOf(rows, p), yields[p], SeenIn(rows))
  BY <1>1, PassFacts, TakeFactHolds
<1> HIDE DEF next
<1>. QED  BY <1>1, <1>2, MoveStep

LEMMA FetchStep ==
  ASSUME RatingConstants, RatingInv, NEW p \in Passes, Fetch(p)
  PROVE  RatingInv'
<1> DEFINE size == IF pass[p].kind = "auto" THEN Min({BatchSize, pass[p].left}) ELSE 1
           facts == Oldest(Unrated, size)
           due == IF pass[p].kind = "auto" THEN pass[p].left - Len(facts) ELSE pass[p].left
           next == [pass[p] EXCEPT !.todo = facts, !.left = due]
<1>1. pass[p] \in PassType /\ MaxFacts \in Nat
  BY PassFacts DEF RatingConstants
<1>2. /\ pass[p].at = "next" /\ pass[p].kind # "inline" /\ Moves(p, next)
      /\ pass[p].kind = "auto" => pass[p].left > 0
  BY DEF Fetch, To, Moves
<1>3. size \in Nat
  <2>1. CASE pass[p].kind = "auto"
    <3>1. BatchSize \in Nat /\ pass[p].left \in Nat
      BY <1>1, <1>2, <2>1 DEF RatingConstants, PassType
    <3>2. Min({BatchSize, pass[p].left}) \in {BatchSize, pass[p].left}
      BY <3>1, MinIn
    <3>. QED  BY <2>1, <3>1, <3>2
  <2>2. CASE pass[p].kind # "auto"
    BY <2>2
  <2>. QED  BY <2>1, <2>2
<1> HIDE DEF size
<1>4. facts \in Seq(Facts) /\ OneEach(facts) /\ Range(facts) \subseteq Unrated
  BY <1>1, <1>3, OldestFacts
<1>5. \A f \in Range(facts) : OwnOf(rows, p)[f] = {}
  BY <1>4, UnratedFacts
<1> HIDE DEF facts
<1>6. due \in Int
  BY <1>1, <1>4 DEF PassType
<1> HIDE DEF due
<1>7. next \in PassType /\ PassHolds(next, OwnOf(rows, p), yields[p], SeenIn(rows))
  BY <1>2, <1>4, <1>5, <1>6, PassFacts, FetchHolds
<1> HIDE DEF next
<1>. QED  BY <1>2, <1>7, MoveStep

LEMMA TakeBatchStep ==
  ASSUME RatingConstants, RatingInv, NEW p \in Passes, TakeBatch(p)
  PROVE  RatingInv'
<1> DEFINE size == IF pass[p].kind = "items" THEN Len(pass[p].todo)
                   ELSE Min({BatchSize, Len(pass[p].todo)})
           next == [pass[p] EXCEPT !.at = "ask", !.asked = SubSeq(pass[p].todo, 1, size),
                                   !.todo = SubSeq(pass[p].todo, size + 1, Len(pass[p].todo))]
<1>1. Len(pass[p].todo) \in Nat /\ BatchSize \in Nat
  BY PassFacts DEF PassType, RatingConstants
<1>2. pass[p].at = "next" /\ pass[p].kind \in InBatches /\ Moves(p, next)
  BY DEF TakeBatch, To, Moves
<1>3. size \in 0..Len(pass[p].todo)
  <2>1. /\ Min({BatchSize, Len(pass[p].todo)}) \in {BatchSize, Len(pass[p].todo)}
        /\ \A y \in {BatchSize, Len(pass[p].todo)} : Min({BatchSize, Len(pass[p].todo)}) <= y
    BY <1>1, MinIn
  <2>. QED  BY <1>1, <2>1
<1> HIDE DEF size
<1>4. next \in PassType /\ PassHolds(next, OwnOf(rows, p), yields[p], SeenIn(rows))
  BY <1>2, <1>3, PassFacts, TakeBatchHolds
<1> HIDE DEF next
<1>. QED  BY <1>2, <1>4, MoveStep

LEMMA AnswerStep ==
  ASSUME RatingInv, NEW p \in Passes, pass[p].at = "ask",
         NEW results \in Seq(ResultType), EachFact(results), Results(p, results),
         FactsOf(results) \subseteq Range(pass[p].asked),
         pass[p].kind = "inline" => Len(results) = 1
  PROVE  RatingInv'
<1> DEFINE next == [pass[p] EXCEPT !.at = "save", !.results = results]
<1>1. Moves(p, next)
  BY DEF Results, To, Moves
<1>2. next \in PassType /\ PassHolds(next, OwnOf(rows, p), yields[p], SeenIn(rows))
  BY PassFacts, AnswerHolds
<1> HIDE DEF next
<1>. QED  BY <1>1, <1>2, MoveStep

LEMMA RateOneStep ==
  ASSUME RatingInv, NEW p \in Passes, NEW stars \in Stars, RateOne(p, stars)
  PROVE  RatingInv'
<1> DEFINE r == [fact |-> Head(pass[p].asked), stars |-> stars]
           results == <<r>>
<1>1. pass[p].at = "ask" /\ pass[p].kind \in OneByOne /\ Results(p, results)
  BY DEF RateOne
<1>2. pass[p].asked # <<>> /\ pass[p].asked \in Seq(Facts)
  BY <1>1, PassFacts DEF PassHolds, PassType
<1>3. Head(pass[p].asked) \in Facts /\ Head(pass[p].asked) \in Range(pass[p].asked)
  <2> DEFINE asked == pass[p].asked
  <2>1. asked # <<>> /\ asked \in Seq(Facts)
    BY <1>2
  <2> HIDE DEF asked
  <2>2. Head(asked) \in Facts /\ Range(asked) = {Head(asked)} \cup Range(Tail(asked))
    BY <2>1, HeadFacts
  <2>. QED  BY <2>2 DEF asked
<1>4. r \in ResultType /\ r.fact = Head(pass[p].asked)
  BY <1>3 DEF ResultType
<1> HIDE DEF r
<1>5. /\ results \in Seq(ResultType) /\ EachFact(results) /\ Len(results) = 1
      /\ FactsOf(results) \subseteq Range(pass[p].asked)
  BY <1>3, <1>4 DEF EachFact, FactsOf
<1> HIDE DEF results
<1>. QED  BY <1>1, <1>5, AnswerStep

LEMMA RateManyStep ==
  ASSUME RatingInv, NEW p \in Passes,
         NEW answer \in BoundedSeq(Entries(pass[p].asked), MaxEntries), RateMany(p, answer),
         RatingConstants
  PROVE  RatingInv'
<1> DEFINE asked == pass[p].asked
           results == ParseBatch(answer, asked)
<1>1. pass[p].at = "ask" /\ pass[p].kind # "inline" /\ Results(p, results)
  BY DEF RateMany, InBatches
<1>2. asked \in Seq(Facts) /\ Range(asked) \subseteq Facts
  <2>1. asked \in Seq(Facts)
    BY PassFacts DEF PassType
  <2>. QED  BY <2>1, RangeFacts
<1> HIDE DEF asked
<1>3. answer \in Seq(Entries(asked))
  <2>1. PICK m \in 0..MaxEntries : answer \in [1..m -> Entries(asked)]
    BY DEF BoundedSeq, SeqOf, asked
  <2>2. m \in Nat
    BY <2>1 DEF RatingConstants
  <2>. QED  BY <2>1, <2>2
<1>4. results \in Seq(ValidEntries(asked)) /\ EachFact(results)
  BY <1>3, ParseFacts
<1> HIDE DEF results
<1>5. \A i \in DOMAIN results : results[i] \in ValidEntries(asked)
  BY <1>4
<1>6. FactsOf(results) \subseteq Range(asked)
  BY <1>5 DEF FactsOf, ValidEntries
<1>7. results \in Seq(ResultType)
  <2>1. ValidEntries(asked) \subseteq ResultType
    BY <1>2 DEF ValidEntries, ResultType
  <2>2. Len(results) \in Nat /\ results \in [1..Len(results) -> ResultType]
    BY <1>4, <2>1
  <2>. QED  BY <2>2
<1>. QED  BY <1>1, <1>4, <1>6, <1>7, AnswerStep DEF asked

(* The end of a fact, of a batch or of a pass. *)
LEMMA EndStep ==
  ASSUME RatingConstants, RatingInv, NEW p \in Passes, pass[p].at # "idle",
         NEW me \in PassType, Moves(p, me), me.at \in {"next", "done", "gone"},
         me.todo = pass[p].todo, me.kind = pass[p].kind, me.kept = 0,
         me.rated <= pass[p].rated + pass[p].kept,
         pass[p].kind = "service" => me.rated = pass[p].rated + pass[p].kept
  PROVE  RatingInv'
<1>1. PassHolds(me, OwnOf(rows, p), yields[p], SeenIn(rows))
  BY PassFacts, EndHolds DEF RatingConstants
<1>. QED  BY <1>1, MoveStep

LEMMA CountedFacts ==
  ASSUME NEW me \in PassType, NEW rated \in Nat
  PROVE  LET next == Counted(me, rated)
         IN  /\ next \in PassType /\ next.at = "next" /\ next.todo = me.todo
             /\ next.kind = me.kind /\ next.kept = 0 /\ next.rated = me.rated + rated
<1> DEFINE none == <<>>
           next == [me EXCEPT !.at = "next", !.asked = none, !.results = none, !.kept = 0,
                              !.rated = me.rated + rated]
<1>1. Counted(me, rated) = next
  BY DEF Counted
<1>2. none \in Seq(Facts) /\ none \in Seq(ResultType) /\ me.rated + rated \in Nat
  BY NothingFacts DEF PassType
<1> HIDE DEF none
<1>3. /\ next \in PassType /\ next.at = "next" /\ next.todo = me.todo
      /\ next.kind = me.kind /\ next.kept = 0 /\ next.rated = me.rated + rated
  <2>1. PICK sum \in Nat : sum = me.rated + rated
    BY <1>2
  <2>2. next = [me EXCEPT !.at = "next", !.asked = none, !.results = none, !.kept = 0,
                          !.rated = sum]
    BY <2>1
  <2> HIDE DEF next
  <2>3. /\ next \in PassType /\ next.at = "next" /\ next.todo = me.todo
        /\ next.kind = me.kind /\ next.kept = 0 /\ next.rated = sum
    BY <1>2, <2>2 DEF PassType
  <2>. QED  BY <2>1, <2>3
<1>. QED  BY <1>1, <1>3

LEMMA AtFacts ==
  ASSUME NEW me \in PassType, NEW at \in {"next", "done", "gone"}
  PROVE  LET next == [me EXCEPT !.at = at]
         IN  /\ next \in PassType /\ next.at = at /\ next.todo = me.todo
             /\ next.kind = me.kind /\ next.kept = me.kept /\ next.rated = me.rated
BY DEF PassType

LEMMA FinishStep ==
  ASSUME RatingConstants, RatingInv, NEW p \in Passes, Finish(p)
  PROVE  RatingInv'
<1> DEFINE next == [pass[p] EXCEPT !.at = "done"]
<1>1. pass[p].at = "next" /\ Moves(p, next)
  BY DEF Finish, To, Moves
<1>2. pass[p].kept = 0 /\ pass[p].rated + 0 = pass[p].rated /\ pass[p].rated \in Nat
  BY <1>1, PassFacts DEF PassHolds, PassType
<1>3. /\ next \in PassType /\ next.at = "done" /\ next.todo = pass[p].todo
      /\ next.kind = pass[p].kind /\ next.kept = pass[p].kept /\ next.rated = pass[p].rated
  <2>1. pass[p] \in PassType /\ pass[p].asked \in Seq(Facts) /\ "done" \in {"next", "done", "gone"}
    BY PassFacts DEF PassType
  <2>. QED  BY <2>1, AtFacts
<1> HIDE DEF next
<1>4. /\ next.rated = pass[p].rated + pass[p].kept
      /\ next.rated <= pass[p].rated + pass[p].kept /\ next.kept = 0
      /\ next.at \in {"next", "done", "gone"} /\ pass[p].at # "idle"
  BY <1>1, <1>2, <1>3
<1>. QED  BY <1>1, <1>3, <1>4, EndStep

LEMMA LeaveStep ==
  ASSUME RatingConstants, RatingInv, NEW p \in Passes, Skip(p) \/ Leave(p)
  PROVE  RatingInv'
<1> DEFINE none == <<>>
<1>1. PICK at \in {"next", "done"} : Moves(p, [pass[p] EXCEPT !.at = at, !.asked = none])
  BY DEF Skip, Leave, To, Moves
<1> DEFINE next == [pass[p] EXCEPT !.at = at, !.asked = none]
<1>2. pass[p].at = "ask" /\ pass[p].kind = "manual"
  BY DEF Skip, Leave
<1>3. pass[p].kept = 0 /\ pass[p].rated + 0 = pass[p].rated /\ pass[p].rated \in Nat
  BY <1>2, PassFacts DEF PassHolds, PassType
<1>4. none \in Seq(Facts)
  BY NothingFacts
<1> HIDE DEF none
<1>5. /\ next \in PassType /\ next.at = at /\ next.todo = pass[p].todo
      /\ next.kind = pass[p].kind /\ next.kept = pass[p].kept /\ next.rated = pass[p].rated
  <2>1. PICK me \in PassType : me = pass[p]
    BY PassFacts
  <2>2. PICK how \in {"next", "done", "gone"} : how = at
    OBVIOUS
  <2>3. next = [me EXCEPT !.at = how, !.asked = none]
    BY <2>1, <2>2
  <2> HIDE DEF next
  <2>4. /\ next \in PassType /\ next.at = how /\ next.todo = me.todo
        /\ next.kind = me.kind /\ next.kept = me.kept /\ next.rated = me.rated
    BY <1>4, <2>3 DEF PassType
  <2>. QED  BY <2>1, <2>2, <2>4
<1>6. Moves(p, next)
  BY <1>1
<1> HIDE DEF next
<1>7. /\ next.rated = pass[p].rated + pass[p].kept
      /\ next.rated <= pass[p].rated + pass[p].kept /\ next.kept = 0
      /\ next.at \in {"next", "done", "gone"} /\ pass[p].at # "idle"
  BY <1>2, <1>3, <1>5
<1>. QED  BY <1>5, <1>6, <1>7, EndStep

LEMMA RateFailsStep ==
  ASSUME RatingConstants, RatingInv, NEW p \in Passes, RateFails(p)
  PROVE  RatingInv'
<1> DEFINE next == Counted(pass[p], 0)
<1>1. pass[p].at = "ask" /\ Moves(p, next)
  BY DEF RateFails, To, Moves
<1>2. pass[p].kept = 0 /\ pass[p].rated \in Nat
  BY <1>1, PassFacts DEF PassHolds, PassType
<1>3. /\ next \in PassType /\ next.at = "next" /\ next.todo = pass[p].todo
      /\ next.kind = pass[p].kind /\ next.kept = 0 /\ next.rated = pass[p].rated + 0
  BY PassFacts, CountedFacts
<1> HIDE DEF next
<1>4. next.rated = pass[p].rated + pass[p].kept /\ next.rated \in Nat
  BY <1>2, <1>3
<1>. QED  BY <1>1, <1>3, <1>4, EndStep

LEMMA SaveFailsStep ==
  ASSUME RatingConstants, RatingInv, NEW p \in Passes, SaveFails(p)
  PROVE  RatingInv'
<1> DEFINE back == Counted(pass[p], 0)
           next == [back EXCEPT !.at = IF pass[p].kind = "manual" THEN "gone" ELSE @]
<1>1. pass[p].at = "save" /\ pass[p].kind # "service" /\ Moves(p, next)
  BY DEF SaveFails, Saving, To, Moves
<1>2. pass[p].kept \in Nat /\ pass[p].rated \in Nat
  BY PassFacts DEF PassType
<1>3. /\ back \in PassType /\ back.at = "next" /\ back.todo = pass[p].todo
      /\ back.kind = pass[p].kind /\ back.kept = 0 /\ back.rated = pass[p].rated + 0
  BY PassFacts, CountedFacts
<1> HIDE DEF back
<1>4. /\ next \in PassType /\ next.at \in {"next", "gone"} /\ next.todo = pass[p].todo
      /\ next.kind = pass[p].kind /\ next.kept = 0 /\ next.rated = pass[p].rated
  <2>1. CASE pass[p].kind = "manual"
    <3>1. next = [back EXCEPT !.at = "gone"] /\ "gone" \in {"next", "done", "gone"}
      BY <2>1
    <3> HIDE DEF next
    <3>3. /\ [back EXCEPT !.at = "gone"] \in PassType /\ [back EXCEPT !.at = "gone"].at = "gone"
          /\ [back EXCEPT !.at = "gone"].todo = back.todo
          /\ [back EXCEPT !.at = "gone"].kind = back.kind
          /\ [back EXCEPT !.at = "gone"].kept = back.kept
          /\ [back EXCEPT !.at = "gone"].rated = back.rated
      BY <1>3, <3>1, AtFacts
    <3>. QED  BY <1>2, <1>3, <3>1, <3>3
  <2>2. CASE pass[p].kind # "manual"
    <3>1. next = [back EXCEPT !.at = back.at]
      BY <2>2
    <3>2. next = [back EXCEPT !.at = "next"] /\ "next" \in {"next", "done", "gone"}
      BY <1>3, <3>1
    <3> HIDE DEF next
    <3>3. /\ [back EXCEPT !.at = "next"] \in PassType /\ [back EXCEPT !.at = "next"].at = "next"
          /\ [back EXCEPT !.at = "next"].todo = back.todo
          /\ [back EXCEPT !.at = "next"].kind = back.kind
          /\ [back EXCEPT !.at = "next"].kept = back.kept
          /\ [back EXCEPT !.at = "next"].rated = back.rated
      BY <1>3, <3>2, AtFacts
    <3>. QED  BY <1>2, <1>3, <3>2, <3>3
  <2>. QED  BY <2>1, <2>2
<1> HIDE DEF next
<1>5. next.rated <= pass[p].rated + pass[p].kept
  BY <1>2, <1>4
<1>. QED  BY <1>1, <1>4, <1>5, EndStep

LEMMA SavedStep ==
  ASSUME RatingConstants, RatingInv, NEW p \in Passes, Saved(p)
  PROVE  RatingInv'
<1> DEFINE next == Counted(pass[p], pass[p].kept)
<1>1. pass[p].at = "save" /\ Moves(p, next)
  BY DEF Saved, To, Moves
<1>2. pass[p].kept \in Nat /\ pass[p].rated \in Nat
  BY PassFacts DEF PassType
<1>3. /\ next \in PassType /\ next.at = "next" /\ next.todo = pass[p].todo
      /\ next.kind = pass[p].kind /\ next.kept = 0
      /\ next.rated = pass[p].rated + pass[p].kept
  BY <1>2, PassFacts, CountedFacts
<1> HIDE DEF next
<1>4. next.rated <= pass[p].rated + pass[p].kept
  BY <1>2, <1>3
<1>. QED  BY <1>1, <1>3, <1>4, EndStep

LEMMA KeptOneIs ==
  ASSUME NEW me \in PassType
  PROVE  KeptOne(me) = Dealt(me, 1) /\ [me EXCEPT !.results = Tail(@)] = Dealt(me, 0)
<1>1. KeptOne(me) = Dealt(me, 1)
  BY DEF KeptOne, Dealt
<1>2. me.kept + 0 = me.kept
  BY DEF PassType
<1>3. [me EXCEPT !.results = Tail(@)] = [me EXCEPT !.results = Tail(@), !.kept = me.kept]
  <2>1. PICK t : t = Tail(me.results)
    OBVIOUS
  <2>2. [me EXCEPT !.results = t] = [me EXCEPT !.results = t, !.kept = me.kept]
    BY DEF PassType
  <2>. QED  BY <2>1, <2>2
<1>. QED  BY <1>1, <1>2, <1>3 DEF Dealt

LEMMA FirstResult ==
  ASSUME RatingInv, NEW p \in Passes, Saving(p)
  PROVE  /\ Head(pass[p].results).fact \in Facts /\ Head(pass[p].results).stars \in Stars
         /\ Len(rows[Head(pass[p].results).fact]) + 1 \in Nat
         /\ (Len(rows[Head(pass[p].results).fact]) + 1)
              \notin OwnOf(rows, p)[Head(pass[p].results).fact]
<1>1. pass[p].results # <<>> /\ pass[p].results \in Seq(ResultType)
  BY PassFacts DEF Saving, PassType
<1> DEFINE s == pass[p].results
<1>2. s # <<>> /\ s \in Seq(ResultType)
  BY <1>1
<1> HIDE DEF s
<1>3. Head(s) \in ResultType
  BY <1>2, HeadFacts
<1>4. Head(s).fact \in Facts /\ Head(s).stars \in Stars
  BY <1>3 DEF ResultType
<1>5. rows \in [Facts -> Seq(RowType)]
  BY DEF RatingInv, Typed
<1>6. Len(rows[Head(s).fact]) + 1 \in Nat
  BY <1>4, <1>5
<1>7. (Len(rows[Head(s).fact]) + 1) \notin OwnOf(rows, p)[Head(s).fact]
  BY <1>4, <1>5, OwnTyped
<1>. QED  BY <1>4, <1>6, <1>7 DEF s

LEMMA SaveStep ==
  ASSUME RatingConstants, RatingInv, NEW p \in Passes, Save(p)
  PROVE  RatingInv'
<1> DEFINE r == Head(pass[p].results)
           n == Len(rows[r.fact]) + 1
           me == Dealt(pass[p], 1)
           own == Added(OwnOf(rows, p), r.fact, n)
<1>1. /\ Saving(p) /\ pass[p].kind # "service" /\ Insert(r.fact, r.stars, p)
      /\ pass' = [pass EXCEPT ![p] = KeptOne(pass[p])] /\ UNCHANGED <<known, yields, pairer>>
  BY DEF Save, To
<1>2. pass[p].at = "save" /\ pass[p].results # <<>>
  BY <1>1 DEF Saving
<1>3. r.fact \in Facts /\ r.stars \in Stars /\ n \in Nat /\ n \notin OwnOf(rows, p)[r.fact]
  BY <1>1, FirstResult
<1>4. /\ pass[p] \in PassType /\ OwnOf(rows, p) \in OwnType /\ yields[p] \in Seq(ItemType)
      /\ PassHolds(pass[p], OwnOf(rows, p), yields[p], SeenIn(rows))
  BY PassFacts
<1>5. pass' = [pass EXCEPT ![p] = me] /\ yields' = [yields EXCEPT ![p] = yields[p]]
  BY <1>1, <1>4, KeptOneIs DEF RatingInv, Typed
<1>6. me \in PassType /\ PassHolds(me, own, yields[p], SeenIn(rows))
  <2> HIDE DEF n
  <2>. QED  BY <1>1, <1>2, <1>3, <1>4, SaveHolds DEF RatingConstants
<1>7. PassHolds(me, own, yields[p], SeenIn(rows) \cup {r.fact})
  <2> HIDE DEF me, own, r
  <2>. QED  BY <1>6, SeenGrows
<1> HIDE DEF me, r
<1>. QED  BY <1>1, <1>3, <1>4, <1>5, <1>6, <1>7, InsertStep

LEMMA ServiceSavesStep ==
  ASSUME RatingConstants, RatingInv, NEW p \in Passes, ServiceSaves(p)
  PROVE  RatingInv'
<1> DEFINE r == Head(pass[p].results)
           n == Len(rows[r.fact]) + 1
           me == Dealt(pass[p], 1)
           own == Added(OwnOf(rows, p), r.fact, n)
           item == Item(r.fact, r.stars)
           given == Append(yields[p], item)
           seen == SeenIn(rows) \cup {r.fact}
<1>1. /\ Saving(p) /\ pass[p].kind = "service"
      /\ IF rows[r.fact] = <<>> THEN Insert(r.fact, r.stars, p) ELSE UNCHANGED rows
      /\ pass' = [pass EXCEPT ![p] = KeptOne(pass[p])]
      /\ yields' = [yields EXCEPT ![p] = given] /\ UNCHANGED <<known, pairer>>
  BY DEF ServiceSaves, To
<1>2. pass[p].at = "save" /\ pass[p].results # <<>>
  BY <1>1 DEF Saving
<1>3. r.fact \in Facts /\ r.stars \in Stars /\ n \in Nat /\ n \notin OwnOf(rows, p)[r.fact]
  BY <1>1, FirstResult
<1>4. /\ pass[p] \in PassType /\ OwnOf(rows, p) \in OwnType /\ yields[p] \in Seq(ItemType)
      /\ PassHolds(pass[p], OwnOf(rows, p), yields[p], SeenIn(rows))
  BY PassFacts
<1>5. pass' = [pass EXCEPT ![p] = me]
  BY <1>1, <1>4, KeptOneIs
<1>6. item \in ItemType /\ item.id = r.fact /\ item.id \in seen
  BY <1>3 DEF Item, ItemType
<1> HIDE DEF item
<1>7. given \in Seq(ItemType)
  BY <1>4, <1>6, AppendFacts
<1>8. ASSUME NEW more \in {OwnOf(rows, p), own}
      PROVE  me \in PassType /\ PassHolds(me, more, given, seen)
  <2>1. PassHolds(pass[p], OwnOf(rows, p), yields[p], seen)
    BY <1>4, SeenGrows
  <2> HIDE DEF n, seen
  <2>. QED  BY <1>1, <1>2, <1>3, <1>4, <1>6, <2>1, ServiceSaveHolds DEF RatingConstants
<1> HIDE DEF me, r, given
<1>9. CASE rows[r.fact] = <<>>
  BY <1>1, <1>3, <1>5, <1>7, <1>8, <1>9, InsertStep
<1>10. CASE rows[r.fact] # <<>>
  <2>1. seen = SeenIn(rows)
    BY <1>3, <1>10 DEF SeenIn
  <2>2. known' \in 0..MaxFacts /\ UNCHANGED <<rows, pairer>>
    BY <1>1, <1>10 DEF RatingInv, Typed
  <2>3. me \in PassType /\ PassHolds(me, OwnOf(rows, p), given, SeenIn(rows))
    BY <1>8, <2>1
  <2>. QED  BY <1>1, <1>5, <1>7, <2>2, <2>3, PassStep
<1>. QED  BY <1>9, <1>10

LEMMA ServiceSaveFailsStep ==
  ASSUME RatingConstants, RatingInv, NEW p \in Passes, ServiceSaveFails(p)
  PROVE  RatingInv'
<1> DEFINE me == Dealt(pass[p], 0)
<1>1. /\ pass[p].at = "save" /\ pass[p].results # <<>> /\ pass[p].kind = "service"
      /\ Moves(p, [pass[p] EXCEPT !.results = Tail(@)])
  BY DEF ServiceSaveFails, Saving, To, Moves
<1>2. /\ pass[p] \in PassType /\ OwnOf(rows, p) \in OwnType
      /\ PassHolds(pass[p], OwnOf(rows, p), yields[p], SeenIn(rows))
  BY PassFacts
<1>3. Moves(p, me)
  BY <1>1, <1>2, KeptOneIs
<1>4. me \in PassType /\ PassHolds(me, OwnOf(rows, p), yields[p], SeenIn(rows))
  BY <1>1, <1>2, ServiceFailHolds DEF RatingConstants
<1> HIDE DEF me
<1>. QED  BY <1>3, <1>4, MoveStep

LEMMA WorksStep ==
  ASSUME RatingConstants, RatingInv, NEW p \in Passes, Works(p) \/ Skip(p) \/ Leave(p)
  PROVE  RatingInv'
BY TakeFactStep, FetchStep, TakeBatchStep, FinishStep, LeaveStep, RateFailsStep, RateOneStep,
   RateManyStep, SaveStep, SaveFailsStep, ServiceSavesStep, ServiceSaveFailsStep, SavedStep
   DEF Works

(* The code that marks pairs. *)
Mark(table, f, g) == [table[f] EXCEPT ![Len(table[f])].mate = g]
Marked(table, f, g) == [table EXCEPT ![f] = Mark(table, f, g), ![g] = Mark(table, g, f)]

LEMMA MarkFacts ==
  ASSUME NEW table \in [Facts -> Seq(RowType)], NEW f, Unmated(table, f), NEW g \in Facts
  PROVE  /\ Mark(table, f, g) \in Seq(RowType) /\ DOMAIN Mark(table, f, g) = DOMAIN table[f]
         /\ Mark(table, f, g) # <<>>
         /\ \A i \in DOMAIN table[f] :
              /\ Mark(table, f, g)[i].by = table[f][i].by
              /\ table[f][i].mate # NoFact => Mark(table, f, g)[i] = table[f][i]
<1> DEFINE s == table[f]
           n == Len(s)
           t == Mark(table, f, g)
<1>1. s \in Seq(RowType) /\ s # <<>> /\ s[n].mate = NoFact /\ f \in Facts
  BY DEF Unmated
<1>2. n \in Nat /\ DOMAIN s = 1..n /\ n # 0 /\ n \in DOMAIN s
  BY <1>1
<1>3. t = [s EXCEPT ![n] = [s[n] EXCEPT !.mate = g]]
  BY DEF Mark
<1> HIDE DEF t, s, n
<1>4. s \in [1..n -> RowType]
  BY <1>1, <1>2 DEF n
<1>5. [s[n] EXCEPT !.mate = g] \in RowType /\ [s[n] EXCEPT !.mate = g].by = s[n].by
  BY <1>2, <1>4 DEF RowType
<1>6. t \in [1..n -> RowType]
  BY <1>3, <1>4, <1>5
<1>7. t \in Seq(RowType) /\ DOMAIN t = 1..n
  BY <1>2, <1>6
<1>8. \A i \in 1..n : t[i].by = s[i].by /\ (s[i].mate # NoFact => t[i] = s[i])
  BY <1>1, <1>2, <1>3, <1>4, <1>5
<1>9. t # <<>>
  <2>1. 1 \in DOMAIN t
    BY <1>2, <1>7
  <2>. QED  BY <2>1
<1>. QED  BY <1>2, <1>7, <1>8, <1>9 DEF t, s

LEMMA MarkedFacts ==
  ASSUME NEW table \in [Facts -> Seq(RowType)], NEW f, Unmated(table, f), NEW g, Unmated(table, g),
         f # g
  PROVE  LET more == Marked(table, f, g)
         IN  /\ more \in [Facts -> Seq(RowType)] /\ SeenIn(more) = SeenIn(table)
             /\ \A p : OwnOf(more, p) = OwnOf(table, p)
             /\ \A h \in Facts : \A i \in DOMAIN table[h] :
                  table[h][i].mate # NoFact => more[h][i] = table[h][i]
<1> DEFINE more == Marked(table, f, g)
<1>1. f \in Facts /\ g \in Facts /\ table[f] # <<>> /\ table[g] # <<>>
  BY DEF Unmated
<1>2. /\ more[f] = Mark(table, f, g) /\ more[g] = Mark(table, g, f)
      /\ \A h \in Facts : h # f /\ h # g => more[h] = table[h]
  BY <1>1 DEF Marked
<1>3. more \in [Facts -> Seq(RowType)]
  BY <1>1, MarkFacts DEF Marked
<1> HIDE DEF more
<1>4. \A h \in Facts :
        /\ DOMAIN more[h] = DOMAIN table[h] /\ (table[h] = <<>> <=> more[h] = <<>>)
        /\ \A i \in DOMAIN table[h] :
             /\ more[h][i].by = table[h][i].by
             /\ table[h][i].mate # NoFact => more[h][i] = table[h][i]
  BY <1>1, <1>2, MarkFacts
<1>5. SeenIn(more) = SeenIn(table)
  BY <1>4 DEF SeenIn
<1>6. \A p : OwnOf(more, p) = OwnOf(table, p)
  BY <1>4 DEF OwnOf
<1>. QED  BY <1>3, <1>4, <1>5, <1>6 DEF more

LEMMA MarkedRows ==
  ASSUME RatingInv, MarkFactsPaired
  PROVE  /\ Unmated(rows, pairer.high) /\ Unmated(rows, pairer.low) /\ pairer.high # pairer.low
         /\ rows' = Marked(rows, pairer.high, pairer.low)
BY DEF MarkFactsPaired, RatingInv, PairerHolds, Marked, Mark

LEMMA UnpairedFree ==
  ASSUME NEW scores, Unpaired(scores) # {}
  PROVE  /\ Unpaired(scores) \in SUBSET Nat
         /\ \A f \in Unpaired(scores) : Unmated(rows, f)
BY DEF Unpaired, Rated, Facts, Latest, Unmated

LEMMA PairsStep ==
  ASSUME RatingConstants, RatingInv, Pairs
  PROVE  RatingInv'
<1>1. ASSUME NEW scores, PickHigh(scores) PROVE RatingInv'
  <2>1. Min(Unpaired(scores)) \in Unpaired(scores)
    BY <1>1, UnpairedFree, MinIn DEF PickHigh
  <2>2. Unmated(rows, Min(Unpaired(scores)))
    BY <2>1, UnpairedFree
  <2>3. /\ pairer' = [pairer EXCEPT !.at = "high", !.high = Min(Unpaired(scores))]
        /\ UNCHANGED <<known, rows, pass, yields>>
    BY <1>1 DEF PickHigh
  <2>4. PairerHolds' /\ pairer' \in PairerType
    BY <2>2, <2>3 DEF RatingInv, Typed, PairerHolds, PairerType, Unmated
  <2>5. Typed'
    BY <2>3, <2>4 DEF RatingInv, Typed
  <2>6. PassesHold'
    BY <2>3 DEF RatingInv, PassesHold
  <2>. QED  BY <2>4, <2>5, <2>6 DEF RatingInv
<1>2. ASSUME NEW scores, PickLow(scores) PROVE RatingInv'
  <2> DEFINE facts == Unpaired(scores) \ {pairer.high}
  <2>1. facts \in SUBSET Nat /\ facts # {} /\ Unpaired(scores) # {}
    BY <1>2, UnpairedFree DEF PickLow
  <2>2. Min(facts) \in facts
    BY <2>1, MinIn
  <2>3. Unmated(rows, Min(facts)) /\ Min(facts) # pairer.high
    BY <2>1, <2>2, UnpairedFree
  <2>4. /\ pairer.at = "high" /\ pairer' = [pairer EXCEPT !.at = "low", !.low = Min(facts)]
        /\ UNCHANGED <<known, rows, pass, yields>>
    BY <1>2 DEF PickLow
  <2> HIDE DEF facts
  <2>5. PairerHolds' /\ pairer' \in PairerType
    BY <2>3, <2>4 DEF RatingInv, Typed, PairerHolds, PairerType, Unmated
  <2>6. Typed'
    BY <2>4, <2>5 DEF RatingInv, Typed
  <2>7. PassesHold'
    BY <2>4 DEF RatingInv, PassesHold
  <2>. QED  BY <2>5, <2>6, <2>7 DEF RatingInv
<1>3. CASE MarkFactsPaired
  <2>1. /\ Unmated(rows, pairer.high) /\ Unmated(rows, pairer.low) /\ pairer.high # pairer.low
        /\ rows' = Marked(rows, pairer.high, pairer.low)
    BY <1>3, MarkedRows
  <2>2. rows \in [Facts -> Seq(RowType)]
    BY DEF RatingInv, Typed
  <2>3. /\ rows' \in [Facts -> Seq(RowType)] /\ SeenIn(rows') = SeenIn(rows)
        /\ \A p : OwnOf(rows', p) = OwnOf(rows, p)
    BY <2>1, <2>2, MarkedFacts
  <2>4. pairer' = Reading /\ UNCHANGED <<known, pass, yields>>
    BY <1>3 DEF MarkFactsPaired
  <2>5. Typed'
    BY <2>3, <2>4 DEF RatingInv, Typed, Reading, PairerType
  <2>6. ASSUME NEW p \in Passes
        PROVE  PassHolds(pass'[p], OwnOf(rows', p), yields'[p], SeenIn(rows'))
    BY <2>3, <2>4 DEF RatingInv, PassesHold
  <2>7. PassesHold'
    BY <2>6 DEF PassesHold
  <2>8. PairerHolds'
    BY <2>4 DEF PairerHolds, Reading
  <2>. QED  BY <2>5, <2>7, <2>8 DEF RatingInv
<1>4. CASE GiveUp
  <2>1. pairer' = Reading /\ UNCHANGED <<known, rows, pass, yields>>
    BY <1>4 DEF GiveUp
  <2>2. Typed' /\ PairerHolds'
    BY <2>1 DEF RatingInv, Typed, PairerHolds, Reading, PairerType
  <2>3. PassesHold'
    BY <2>1 DEF RatingInv, PassesHold
  <2>. QED  BY <2>2, <2>3 DEF RatingInv
<1>. QED  BY <1>1, <1>2, <1>3, <1>4 DEF Pairs

LEMMA MemoryStep ==
  ASSUME RatingConstants, RatingInv,
         Remember \/ (\E f \in Facts : Forget(f)) \/ UNCHANGED vars
  PROVE  RatingInv'
<1>1. UNCHANGED <<rows, pass, yields, pairer>> /\ known' \in 0..MaxFacts
  BY DEF Remember, Forget, vars, RatingInv, Typed, RatingConstants
<1>2. Typed' /\ PairerHolds'
  BY <1>1 DEF RatingInv, Typed, PairerHolds
<1>3. PassesHold'
  BY <1>1 DEF RatingInv, PassesHold
<1>. QED  BY <1>2, <1>3 DEF RatingInv

LEMMA RatingStep ==
  ASSUME RatingConstants, RatingInv, [Next]_vars
  PROVE  RatingInv'
<1>1. ASSUME NEW p \in Passes, Starts(p) \/ Works(p) \/ Skip(p) \/ Leave(p) PROVE RatingInv'
  BY <1>1, StartsStep, WorksStep
<1>. QED  BY <1>1, PairsStep, MemoryStep DEF Next

LEMMA RatingStart ==
  ASSUME RatingConstants, Init
  PROVE  RatingInv
<1>1. /\ KnownFacts \in 0..MaxFacts /\ known = KnownFacts /\ rows = [f \in Facts |-> <<>>]
      /\ pass = [p \in Passes |-> NoPass] /\ yields = [p \in Passes |-> <<>>] /\ pairer = Reading
  BY DEF Init, RatingConstants
<1>2. NoPass \in PassType
  <2> DEFINE none == <<>>
  <2>1. none \in Seq(Facts) /\ none \in Seq(ResultType)
    BY NothingFacts
  <2>2. NoPass = [kind |-> "none", at |-> "idle", todo |-> none, asked |-> none,
                results |-> none, kept |-> 0, rated |-> 0, left |-> 0]
    BY DEF NoPass
  <2> HIDE DEF none
  <2>. QED  BY <2>1, <2>2 DEF PassType
<1>3. Typed
  <2>1. rows \in [Facts -> Seq(RowType)] /\ yields \in [Passes -> Seq(ItemType)]
    BY <1>1, NothingFacts
  <2>2. pairer \in PairerType
    BY <1>1 DEF Reading, PairerType
  <2>3. pass \in [Passes -> PassType]
    <3> HIDE DEF PassType, NoPass
    <3>. QED  BY <1>1, <1>2
  <2>. QED  BY <1>1, <2>1, <2>2, <2>3 DEF Typed
<1>4. ASSUME NEW p \in Passes
      PROVE  PassHolds(pass[p], OwnOf(rows, p), yields[p], SeenIn(rows))
  <2>1. \A f \in Facts : OwnOf(rows, p)[f] = {}
    BY <1>1 DEF OwnOf
  <2>2. /\ NoPass.kind = "none" /\ NoPass.at = "idle" /\ NoPass.todo = <<>> /\ NoPass.kept = 0
        /\ NoPass.rated = 0
    BY DEF NoPass
  <2>3. pass[p] = NoPass /\ yields[p] = <<>>
    BY <1>1
  <2>4. Pending(NoPass) = {}
    BY <2>2 DEF Pending
  <2>5. FactsOnce(NoPass, OwnOf(rows, p))
    BY <2>1, <2>2, <2>4, NothingOwned, NothingFacts DEF FactsOnce
  <2>6. CountsMatch(NoPass, OwnOf(rows, p), <<>>, SeenIn(rows))
    BY <2>1, <2>2, NothingOwned DEF CountsMatch
  <2>7. PassHolds(NoPass, OwnOf(rows, p), <<>>, SeenIn(rows))
    BY <2>1, <2>2, <2>5, <2>6 DEF PassHolds
  <2>. QED  BY <2>3, <2>7
<1>5. PairerHolds
  BY <1>1 DEF PairerHolds, Reading
<1>. QED  BY <1>3, <1>4, <1>5 DEF RatingInv, PassesHold

LEMMA InvCounts ==
  ASSUME RatingConstants, RatingInv
  PROVE  CountsAreTrue
<1> SUFFICES ASSUME NEW p \in Passes
             PROVE  LET me == pass[p]
                    IN  /\ \A f \in Facts : Cardinality(RowsBy(p, f)) <=
                                              IF me.kind = "inline" THEN Providers ELSE 1
                        /\ me.kind # "service" => me.rated + me.kept <= SavedBy(p)
                        /\ me.kind = "service" =>
                             /\ me.rated + me.kept = Len(yields[p])
                             /\ \A i \in DOMAIN yields[p] : yields[p][i].id \in Rated
  BY DEF CountsAreTrue
<1> DEFINE me == pass[p]
           own == OwnOf(rows, p)
<1>1. me \in PassType /\ own \in OwnType /\ PassHolds(me, own, yields[p], SeenIn(rows))
  BY PassFacts
<1>2. \A f \in Facts : RowsBy(p, f) = own[f]
  BY DEF RowsBy, OwnOf
<1>3. SavedBy(p) = Cardinality(OwnedFacts(own))
  <2>1. UNION {{f} \X RowsBy(p, f) : f \in Facts} = OwnedFacts(own)
    BY <1>2 DEF OwnedFacts
  <2>. QED  BY <2>1 DEF SavedBy
<1>4. Rated = SeenIn(rows)
  BY DEF Rated, SeenIn
<1> HIDE DEF own
<1>5. ASSUME NEW f \in Facts
      PROVE  Cardinality(own[f]) <= IF me.kind = "inline" THEN Providers ELSE 1
  <2>1. CASE me.kind # "inline"
    BY <1>1, <2>1 DEF PassHolds, FactsOnce
  <2>2. CASE me.kind = "inline"
    <3>1. PICK g \in Facts : OneFact(me, own, g)
      BY <1>1, <2>2 DEF PassHolds
    <3>2. CASE f # g
      <4>1. own[f] = {}
        BY <3>1, <3>2 DEF OneFact
      <4>2. Cardinality(own[f]) = 0 /\ Providers \in Nat
        BY <4>1, FS_EmptySet DEF RatingConstants
      <4>. QED  BY <2>2, <4>2
    <3>3. CASE f = g
      <4>1. Cardinality(own[f]) \in Nat /\ Len(me.todo) \in Nat /\ Busy(me) \in Nat
        BY <1>1, FS_CardinalityType DEF OwnType, PassType, Busy
      <4>. QED  BY <2>2, <3>1, <3>3, <4>1 DEF OneFact, RatingConstants
    <3>. QED  BY <3>2, <3>3
  <2>. QED  BY <2>1, <2>2
<1>. QED  BY <1>1, <1>2, <1>3, <1>4, <1>5 DEF PassHolds, CountsMatch

(* A mark stays. *)
MarksStay ==
  \A f \in Facts : \A i \in DOMAIN rows[f] :
    rows[f][i].mate # NoFact => rows'[f][i].mate = rows[f][i].mate

LEMMA RowsStep ==
  ASSUME RatingInv, [Next]_vars
  PROVE  \/ UNCHANGED rows \/ MarkFactsPaired
         \/ \E p \in Passes : /\ Saving(p)
                              /\ Insert(Head(pass[p].results).fact, Head(pass[p].results).stars, p)
<1>1. ASSUME NEW p \in Passes, Starts(p) PROVE UNCHANGED rows
  BY <1>1 DEF Starts, RateUnrated, RateBatch, RateBatches, RateAuto, RateInline, RateItems,
              RateByHand, StartPass
<1>2. ASSUME NEW p \in Passes, Works(p) \/ Skip(p) \/ Leave(p), ~ UNCHANGED rows
      PROVE  /\ Saving(p)
             /\ Insert(Head(pass[p].results).fact, Head(pass[p].results).stars, p)
  BY <1>2 DEF Works, TakeFact, Fetch, TakeBatch, Finish, RateFails, RateOne, RateMany, Results,
              Save, SaveFails, ServiceSaves, ServiceSaveFails, Saved, Skip, Leave
<1>3. ASSUME Pairs PROVE UNCHANGED rows \/ MarkFactsPaired
  BY <1>3 DEF Pairs, PickHigh, PickLow, GiveUp
<1>4. ASSUME Remember \/ (\E f \in Facts : Forget(f)) \/ UNCHANGED vars PROVE UNCHANGED rows
  BY <1>4 DEF Remember, Forget, vars
<1>. QED  BY <1>1, <1>2, <1>3, <1>4 DEF Next

LEMMA MarksStep ==
  ASSUME RatingConstants, RatingInv, [Next]_vars
  PROVE  MarksStay
<1>0. rows \in [Facts -> Seq(RowType)]
  BY DEF RatingInv, Typed
<1>1. CASE UNCHANGED rows
  BY <1>1 DEF MarksStay
<1>2. CASE MarkFactsPaired
  <2>1. /\ Unmated(rows, pairer.high) /\ Unmated(rows, pairer.low) /\ pairer.high # pairer.low
        /\ rows' = Marked(rows, pairer.high, pairer.low)
    BY <1>2, MarkedRows
  <2>2. \A h \in Facts : \A i \in DOMAIN rows[h] :
          rows[h][i].mate # NoFact => Marked(rows, pairer.high, pairer.low)[h][i] = rows[h][i]
    BY <1>0, <2>1, MarkedFacts
  <2>. QED  BY <2>1, <2>2 DEF MarksStay
<1>3. ASSUME NEW p \in Passes, Saving(p),
             Insert(Head(pass[p].results).fact, Head(pass[p].results).stars, p)
      PROVE  MarksStay
  <2> DEFINE f == Head(pass[p].results).fact
             row == [stars |-> Head(pass[p].results).stars, by |-> p, mate |-> NoFact]
  <2>1. f \in Facts /\ row \in RowType
    BY <1>3, FirstResult DEF RowType
  <2>2. rows' = Inserted(rows, f, row)
    BY <1>3 DEF Insert, Inserted
  <2> HIDE DEF f, row
  <2>3. \A g \in Facts : \A i \in DOMAIN rows[g] : Inserted(rows, f, row)[g][i] = rows[g][i]
    BY <1>0, <2>1, InsertedFacts
  <2>. QED  BY <2>2, <2>3 DEF MarksStay
<1>. QED  BY <1>1, <1>2, <1>3, RowsStep

(* The training calls stand beside the passes. *)
LEMMA LearnStep ==
  ASSUME [LearnNext]_learnVars
  PROVE  [Next]_vars
BY DEF LearnNext, Train, Return, learnVars

THEOREM Invariance == LearnSpec => []RatingInv
<1> USE RatingConstants
<1>1. LearnInit => RatingInv
  BY RatingStart DEF LearnInit
<1>2. RatingInv /\ [LearnNext]_learnVars => RatingInv'
  BY LearnStep, RatingStep
<1>. QED  BY <1>1, <1>2, PTL DEF LearnSpec

(* No pass rates a fact twice, whatever the LLM repeats, whatever fails, and whoever
   rates or forgets the same facts meanwhile; inline, each provider rates it once.
   What a pass counts as rated it has saved, and what the batch service hands out
   is rated. *)
THEOREM RatingsCounted == LearnSpec => []CountsAreTrue
<1>1. RatingInv => CountsAreTrue
  BY InvCounts, RatingConstants
<1>. QED  BY <1>1, Invariance, PTL

(* The mark of a pair is never written over: the rating that was picked is still
   its fact's latest, or a newer one without a mark has come. *)
THEOREM MarksKept == LearnSpec => PairedOnce
<1>1. RatingInv /\ [LearnNext]_learnVars => [MarksStay]_vars
  BY LearnStep, MarksStep, RatingConstants
<1>2. [MarksStay]_vars <=> [\A f \in Facts : \A i \in DOMAIN rows[f] :
        rows[f][i].mate # NoFact => rows'[f][i].mate = rows[f][i].mate]_vars
  BY DEF MarksStay
<1>. QED  BY <1>1, <1>2, Invariance, PTL DEF LearnSpec, PairedOnce

(* The places of a pool that a turn round it reaches. *)
LEMMA Turns ==
  ASSUME NEW n \in Nat, n # 0, NEW at \in 0..(n - 1)
  PROVE  /\ \A o \in 0..(n - 1) : ((at + o) % n) + 1 \in 1..n
         /\ \A o \in 0..(n - 1) : ((at + o) % n) + 1 \in 1..n /\ (((at + o) % n) + 1) % n \in 0..(n - 1)
         /\ \A j \in 1..n : \E o \in 0..(n - 1) : ((at + o) % n) + 1 = j
<1>1. \A k \in Nat : k % n \in 0..(n - 1)
  OBVIOUS
<1>2. \A k \in 0..(n - 1) : k % n = k /\ (k + n) % n = k
  OBVIOUS
<1>3. ASSUME NEW j \in 1..n PROVE \E o \in 0..(n - 1) : ((at + o) % n) + 1 = j
  <2>1. CASE at <= j - 1
    <3>1. j - 1 - at \in 0..(n - 1) /\ at + (j - 1 - at) = j - 1 /\ j - 1 \in 0..(n - 1)
      BY <2>1
    <3>2. ((at + (j - 1 - at)) % n) + 1 = j
      BY <1>2, <3>1
    <3>. QED  BY <3>1, <3>2
  <2>2. CASE at > j - 1
    <3>1. /\ j - 1 - at + n \in 0..(n - 1) /\ at + (j - 1 - at + n) = (j - 1) + n
          /\ j - 1 \in 0..(n - 1)
      BY <2>2
    <3>2. ((at + (j - 1 - at + n)) % n) + 1 = j
      BY <1>2, <3>1
    <3>. QED  BY <3>1, <3>2
  <2>. QED  BY <2>1, <2>2
<1>4. \A o \in 0..(n - 1) : at + o \in Nat
  OBVIOUS
<1>. QED  BY <1>1, <1>3, <1>4

LEMMA JoinFacts ==
  ASSUME NEW S, NEW s \in Seq(S), NEW t \in Seq(S)
  PROVE  /\ s \o t \in Seq(S) /\ Len(s \o t) = Len(s) + Len(t)
         /\ Range(s \o t) = Range(s) \cup Range(t)
         /\ (OneEach(s) /\ OneEach(t) /\ Range(s) \cap Range(t) = {}) => OneEach(s \o t)
<1> DEFINE u == s \o t
           m == Len(s)
           n == Len(t)
<1>1. /\ m \in Nat /\ n \in Nat /\ DOMAIN s = 1..m /\ DOMAIN t = 1..n
      /\ u \in Seq(S) /\ Len(u) = m + n /\ DOMAIN u = 1..(m + n)
      /\ \A i \in 1..(m + n) : u[i] = IF i <= m THEN s[i] ELSE t[i - m]
  BY ConcatProperties
<1> HIDE DEF u, m, n
<1>2. \A i \in 1..m : i \in DOMAIN u /\ u[i] = s[i]
  BY <1>1
<1>3. \A i \in 1..n : i + m \in DOMAIN u /\ u[i + m] = t[i]
  BY <1>1
<1>4. ASSUME NEW i \in DOMAIN u
      PROVE  \/ i \in 1..m /\ u[i] = s[i]
             \/ i - m \in 1..n /\ u[i] = t[i - m] /\ i = (i - m) + m
  BY <1>1
<1>5. Range(u) = Range(s) \cup Range(t)
  <2>1. Range(u) \subseteq Range(s) \cup Range(t)
    BY <1>1, <1>4 DEF Range
  <2>2. Range(s) \cup Range(t) \subseteq Range(u)
    <3>1. \A i \in DOMAIN s : s[i] \in Range(u)
      BY <1>1, <1>2 DEF Range
    <3>2. \A i \in DOMAIN t : t[i] \in Range(u)
      <4> SUFFICES ASSUME NEW i \in 1..n PROVE t[i] \in Range(u)
        BY <1>1
      <4>1. i + m \in DOMAIN u /\ u[i + m] = t[i]
        BY <1>3
      <4>. QED  BY <4>1 DEF Range
    <3>. QED  BY <3>1, <3>2 DEF Range
  <2>. QED  BY <2>1, <2>2
<1>6. ASSUME OneEach(s), OneEach(t), Range(s) \cap Range(t) = {}, NEW i \in DOMAIN u,
             NEW j \in DOMAIN u, u[i] = u[j]
      PROVE  i = j
  <2>1. CASE i \in 1..m /\ u[i] = s[i] /\ j \in 1..m /\ u[j] = s[j]
    BY <1>1, <1>6, <2>1 DEF OneEach
  <2>2. CASE /\ i - m \in 1..n /\ u[i] = t[i - m] /\ i = (i - m) + m
             /\ j - m \in 1..n /\ u[j] = t[j - m] /\ j = (j - m) + m
    <3>1. i - m = j - m
      BY <1>1, <1>6, <2>2 DEF OneEach
    <3>. QED  BY <2>2, <3>1
  <2>3. \A x \in 1..m, y \in 1..n : s[x] # t[y]
    BY <1>1, <1>6 DEF Range
  <2>. QED  BY <1>4, <1>6, <2>1, <2>2, <2>3
<1>7. (OneEach(s) /\ OneEach(t) /\ Range(s) \cap Range(t) = {}) => OneEach(u)
  BY <1>6 DEF OneEach
<1>. QED  BY <1>1, <1>5, <1>7 DEF u, m, n

LEMMA SingleFacts ==
  ASSUME NEW S, NEW x \in S
  PROVE  <<x>> \in Seq(S) /\ Len(<<x>>) = 1 /\ Range(<<x>>) = {x} /\ OneEach(<<x>>)
BY DEF Range, OneEach

(* Sorting: an item takes its place in a list. *)
LEMMA PlacedFacts ==
  ASSUME NEW S, NEW s \in Seq(S), NEW x \in S, NEW way
  PROVE  /\ Placed(s, x, way) \in Seq(S)
         /\ Range(Placed(s, x, way)) = Range(s) \cup {x}
         /\ OneEach(s) /\ x \notin Range(s) => OneEach(Placed(s, x, way))
<1> DEFINE n == Cardinality({i \in DOMAIN s : Before(s[i], x, way)})
           a == SubSeq(s, 1, n)
           b == SubSeq(s, n + 1, Len(s))
<1>1. Len(s) \in Nat /\ DOMAIN s = 1..Len(s)
  OBVIOUS
<1>2. n \in 0..Len(s)
  <2>1. IsFiniteSet(1..Len(s)) /\ Cardinality(1..Len(s)) = Len(s)
    BY <1>1, FS_Interval
  <2>2. {i \in DOMAIN s : Before(s[i], x, way)} \in SUBSET (1..Len(s))
    BY <1>1
  <2>3. n <= Len(s) /\ n \in Nat
    BY <2>1, <2>2, FS_Subset, FS_CardinalityType
  <2>. QED  BY <1>1, <2>3
<1>3. Placed(s, x, way) = a \o <<x>> \o b
  <2>1. Placed(s, x, way) = SubSeq(s, 1, (1 + n) - 1) \o <<x>> \o SubSeq(s, 1 + n, Len(s))
    BY DEF Placed, InsertAt
  <2> HIDE DEF n
  <2>2. (1 + n) - 1 = n /\ 1 + n = n + 1
    BY <1>2
  <2>. QED  BY <2>1, <2>2
<1> HIDE DEF n
<1>4. /\ a \in Seq(S) /\ Range(a) = {s[i] : i \in 1..n} /\ (OneEach(s) => OneEach(a))
      /\ b \in Seq(S) /\ Range(b) = {s[i] : i \in (n + 1)..Len(s)} /\ (OneEach(s) => OneEach(b))
  <2>1. n \in Nat /\ n <= Len(s) /\ 1 \in Nat \ {0} /\ n + 1 \in Nat \ {0} /\ Len(s) <= Len(s)
    BY <1>1, <1>2
  <2>2. a \in Seq(S) /\ Range(a) = {s[i] : i \in 1..n} /\ (OneEach(s) => OneEach(a))
    BY <2>1, PartFacts
  <2>3. b \in Seq(S) /\ Range(b) = {s[i] : i \in (n + 1)..Len(s)} /\ (OneEach(s) => OneEach(b))
    BY <1>1, <2>1, PartFacts
  <2>. QED  BY <2>2, <2>3
<1> HIDE DEF a, b
<1>5. Range(a) \cup Range(b) = Range(s)
  <2>1. 1..Len(s) = (1..n) \cup ((n + 1)..Len(s))
    BY <1>1, <1>2
  <2>. QED  BY <1>1, <1>4, <2>1 DEF Range
<1>6. OneEach(s) => Range(a) \cap Range(b) = {}
  <2> SUFFICES ASSUME OneEach(s), NEW i \in 1..n, NEW j \in (n + 1)..Len(s), s[i] = s[j]
               PROVE  FALSE
    BY <1>4
  <2>1. i \in DOMAIN s /\ j \in DOMAIN s /\ i # j
    BY <1>1, <1>2
  <2>. QED  BY <2>1 DEF OneEach
<1>7. <<x>> \in Seq(S) /\ Range(<<x>>) = {x} /\ OneEach(<<x>>)
  BY SingleFacts
<1> DEFINE one == <<x>>
           c == a \o one
<1>8. one \in Seq(S) /\ Range(one) = {x} /\ OneEach(one)
  BY <1>7
<1> HIDE DEF one
<1>9. /\ c \in Seq(S) /\ Range(c) = Range(a) \cup {x}
      /\ OneEach(a) /\ Range(a) \cap {x} = {} => OneEach(c)
  BY <1>4, <1>8, JoinFacts
<1> HIDE DEF c
<1>10. /\ c \o b \in Seq(S) /\ Range(c \o b) = Range(c) \cup Range(b)
       /\ OneEach(c) /\ OneEach(b) /\ Range(c) \cap Range(b) = {} => OneEach(c \o b)
  <2>1. b \in Seq(S) /\ c \in Seq(S)
    BY <1>4, <1>9
  <2>. QED  BY <2>1, JoinFacts
<1>11. ASSUME OneEach(s), x \notin Range(s) PROVE OneEach(c \o b)
  BY <1>4, <1>5, <1>6, <1>9, <1>10, <1>11
<1>12. Range(c \o b) = Range(s) \cup {x}
  BY <1>5, <1>9, <1>10
<1>. QED  BY <1>3, <1>10, <1>11, <1>12 DEF c, one

SortSteps(w, s, way) ==
  /\ w[0] = <<>> /\ Sorted(s, way) = w[Len(s)]
  /\ \A i \in 1..Len(s) : w[i] = Placed(w[i - 1], s[i], way)

LEMMA SortUpTo ==
  ASSUME NEW S, NEW s \in Seq(S), NEW way
  PROVE  \E w : SortSteps(w, s, way)
<1> DEFINE P == DOMAIN s
           D == Seq(S)
           step == [x \in D \X S |-> Placed(x[1], x[2], way)]
           Eq(g) == g = [A \in SUBSET P |->
                          IF A = {} THEN <<>> ELSE Placed(g[A \ {Max(A)}], s[Max(A)], way)]
           F == CHOOSE g : Eq(g)
<1>1. P = 1..Len(s) /\ Len(s) \in Nat /\ <<>> \in D
  OBVIOUS
<1>2. step \in [D \X S -> D]
  BY PlacedFacts
<1>3. PICK g \in [SUBSET P -> D] :
        \A A \in SUBSET P : g[A] = IF A = {} THEN <<>> ELSE step[<<g[A \ {Max(A)}], s[Max(A)]>>]
  <2> DEFINE none == <<>>
  <2>1. none \in D
    BY <1>1
  <2> HIDE DEF step, D, none
  <2>2. \E g \in [SUBSET DOMAIN s -> D] : FoldsList(g, s, none, step)
    BY <1>2, <2>1, ListFold
  <2>. QED  BY <2>2 DEF none, FoldsList
<1>4. ASSUME NEW A \in SUBSET P, A # {}
      PROVE  g[A] = Placed(g[A \ {Max(A)}], s[Max(A)], way)
  <2>1. g[A \ {Max(A)}] \in D /\ s[Max(A)] \in S
    <3>1. A \in SUBSET (1..Len(s)) /\ A \ {Max(A)} \in SUBSET P
      BY <1>1
    <3>2. Max(A) \in A
      BY <1>1, <1>4, <3>1, Places
    <3>3. \A B \in SUBSET P : g[B] \in D
      BY <1>3
    <3>. QED  BY <1>1, <3>1, <3>2, <3>3
  <2>. QED  BY <1>3, <1>4, <2>1
<1>5. Eq(g)
  BY <1>3, <1>4
<1>6. Eq(F)
  <2> HIDE DEF Eq
  <2>. QED  BY <1>5
<1>7. Sorted(s, way) = F[P]
  BY DEF Sorted, FoldLeft, MapThenFoldSet
<1> HIDE DEF F
<1> DEFINE w == [i \in 0..Len(s) |-> F[1..i]]
<1>8. w[0] = <<>>
  BY <1>1, <1>6, Places
<1>9. ASSUME NEW i \in 1..Len(s) PROVE w[i] = Placed(w[i - 1], s[i], way)
  <2>1. /\ 1..i \in SUBSET P /\ 1..i # {} /\ Max(1..i) = i /\ (1..i) \ {i} = 1..(i - 1)
        /\ i \in 0..Len(s) /\ i - 1 \in 0..Len(s)
    BY <1>1, Places
  <2>2. F[1..i] = Placed(F[1..(i - 1)], s[i], way)
    BY <1>6, <2>1
  <2>. QED  BY <2>1, <2>2
<1>10. w[Len(s)] = Sorted(s, way)
  BY <1>1, <1>7
<1>. QED  BY <1>8, <1>9, <1>10 DEF SortSteps

LEMMA SortedFacts ==
  ASSUME NEW S, NEW s \in Seq(S), NEW way
  PROVE  /\ Sorted(s, way) \in Seq(S) /\ Range(Sorted(s, way)) = Range(s)
         /\ OneEach(s) => OneEach(Sorted(s, way))
<1>1. PICK w : SortSteps(w, s, way)
  BY SortUpTo
<1>2. /\ w[0] = <<>> /\ Sorted(s, way) = w[Len(s)]
      /\ \A i \in 1..Len(s) : w[i] = Placed(w[i - 1], s[i], way)
  BY <1>1 DEF SortSteps
<1> DEFINE Good(i) == /\ w[i] \in Seq(S) /\ Range(w[i]) = UpToPlace(s, i)
                      /\ OneEach(s) => OneEach(w[i])
           Q == {i \in 0..Len(s) : Good(i)}
<1>3. Len(s) \in Nat
  OBVIOUS
<1>4. Good(0)
  BY <1>2, RangeUpTo, NothingFacts
<1>5. ASSUME NEW i \in 1..Len(s), Good(i - 1) PROVE Good(i)
  <2>1. /\ UpToPlace(s, i) = UpToPlace(s, i - 1) \cup {s[i]} /\ s[i] \in S
        /\ (OneEach(s) => s[i] \notin UpToPlace(s, i - 1))
    BY UpToPlaceFacts
  <2>2. w[i - 1] \in Seq(S) /\ w[i] = Placed(w[i - 1], s[i], way)
    BY <1>2, <1>5
  <2>3. /\ w[i] \in Seq(S) /\ Range(w[i]) = Range(w[i - 1]) \cup {s[i]}
        /\ OneEach(w[i - 1]) /\ s[i] \notin Range(w[i - 1]) => OneEach(w[i])
    BY <2>1, <2>2, PlacedFacts
  <2>. QED  BY <1>5, <2>1, <2>3
<1> HIDE DEF Good
<1>6. Q = 0..Len(s)
  <2>1. 0 \in Q /\ Q \in SUBSET (0..Len(s))
    BY <1>3, <1>4
  <2>2. ASSUME NEW i \in 1..Len(s), i - 1 \in Q PROVE i \in Q
    BY <1>3, <1>5, <2>2
  <2> HIDE DEF Q
  <2>. QED  BY <1>3, <2>1, <2>2, UpTo
<1>7. Good(Len(s))
  BY <1>3, <1>6
<1>. QED  BY <1>2, <1>7, RangeUpTo DEF Good

LEMMA PoolFacts ==
  ASSUME NEW S, NEW items \in Seq(S), OneEach(items), NEW p
  PROVE  /\ ChosenPool(items, p) \in Seq(S) /\ OneEach(ChosenPool(items, p))
         /\ Range(ChosenPool(items, p)) \subseteq Range(items)
         /\ RejectedPool(items, p) \in Seq(S) /\ OneEach(RejectedPool(items, p))
         /\ Range(RejectedPool(items, p)) \subseteq Range(items)
<1>1. ASSUME NEW T, NEW way
      PROVE  /\ Sorted(Only(items, T), way) \in Seq(S) /\ OneEach(Sorted(Only(items, T), way))
             /\ Range(Sorted(Only(items, T), way)) \subseteq Range(items)
  <2>1. /\ Only(items, T) \in Seq(S) /\ Range(Only(items, T)) = Range(items) \cap T
        /\ OneEach(Only(items, T))
    BY OnlyFacts
  <2>. QED  BY <2>1, SortedFacts
<1>. QED  BY <1>1 DEF ChosenPool, RejectedPool

(* What fits with fewer items used. *)
LEMMA FitsFacts ==
  ASSUME NEW c, NEW r, NEW used, NEW more, used \subseteq more, NEW p, NEW e,
         p.noReuse \in BOOLEAN
  PROVE  /\ Fits(c, r, more, p, e) => Fits(c, r, used, p, e)
         /\ Fits(c, r, used, p, e) => Fits(c, r, {}, p, e)
         /\ p.noReuse /\ Fits(c, r, used, p, e) => c.id \notin used
BY DEF Fits

(* A list of pairs: of the pools' items, that keep the terms, and no item twice. *)
PairType(S) == [chosen : S, rejected : S]
Within(pairs, C, R) ==
  \A i \in DOMAIN pairs : pairs[i].chosen \in C /\ pairs[i].rejected \in R
AllFit(pairs, p, E) ==
  \A i \in DOMAIN pairs : \E e \in E : Fits(pairs[i].chosen, pairs[i].rejected, {}, p, e)
Apart(pairs, p) ==
  \A i, j \in DOMAIN pairs : i # j =>
    /\ pairs[i].rejected.id # pairs[j].rejected.id
    /\ p.noReuse => pairs[i].chosen.id # pairs[j].chosen.id

(* No rejected item that is left could be given a chosen item that is free. *)
NoneFits(pairs, C, R, used, p, e) ==
  \A r \in R : r.id \notin UsedRejected(pairs) =>
    \A c \in C : ~ Fits(c, r, used \cup UsedChosen(pairs, p), p, e)

(* "u" has the pairs of "s" and "t". *)
Joined(u, s, t, S, p) ==
  /\ u \in Seq(PairType(S)) /\ Len(u) = Len(s) + Len(t)
  /\ UsedRejected(u) = UsedRejected(s) \cup UsedRejected(t)
  /\ UsedChosen(u, p) = UsedChosen(s, p) \cup UsedChosen(t, p)
  /\ \A C, R : Within(u, C, R) <=> Within(s, C, R) /\ Within(t, C, R)
  /\ \A E : AllFit(u, p, E) <=> AllFit(s, p, E) /\ AllFit(t, p, E)
  /\ (/\ Apart(s, p) /\ Apart(t, p) /\ UsedRejected(s) \cap UsedRejected(t) = {}
      /\ UsedChosen(s, p) \cap UsedChosen(t, p) = {}) => Apart(u, p)

LEMMA PairJoin ==
  ASSUME NEW S, NEW s \in Seq(PairType(S)), NEW t \in Seq(PairType(S)), NEW p,
         p.noReuse \in BOOLEAN
  PROVE  Joined(s \o t, s, t, S, p)
<1> DEFINE u == s \o t
           m == Len(s)
           n == Len(t)
<1>1. /\ m \in Nat /\ n \in Nat /\ DOMAIN s = 1..m /\ DOMAIN t = 1..n
      /\ u \in Seq(PairType(S)) /\ Len(u) = m + n /\ DOMAIN u = 1..(m + n)
      /\ \A i \in 1..(m + n) : u[i] = IF i <= m THEN s[i] ELSE t[i - m]
  BY ConcatProperties
<1> HIDE DEF u, m, n
<1>2. \A i \in DOMAIN s : i \in DOMAIN u /\ u[i] = s[i]
  BY <1>1
<1>3. \A i \in DOMAIN t : i + m \in DOMAIN u /\ u[i + m] = t[i]
  BY <1>1
<1>4. ASSUME NEW i \in DOMAIN u
      PROVE  \/ i \in DOMAIN s /\ u[i] = s[i]
             \/ i - m \in DOMAIN t /\ u[i] = t[i - m] /\ i = (i - m) + m
  BY <1>1
<1>5. /\ \A i \in DOMAIN u : (\E j \in DOMAIN s : u[i] = s[j]) \/ (\E j \in DOMAIN t : u[i] = t[j])
      /\ \A j \in DOMAIN s : \E i \in DOMAIN u : u[i] = s[j]
      /\ \A j \in DOMAIN t : \E i \in DOMAIN u : u[i] = t[j]
  BY <1>2, <1>3, <1>4
<1>6. UsedRejected(u) = UsedRejected(s) \cup UsedRejected(t)
  <2>1. UsedRejected(u) \subseteq UsedRejected(s) \cup UsedRejected(t)
    BY <1>5 DEF UsedRejected
  <2>2. UsedRejected(s) \cup UsedRejected(t) \subseteq UsedRejected(u)
    BY <1>5 DEF UsedRejected
  <2>. QED  BY <2>1, <2>2
<1>7. UsedChosen(u, p) = UsedChosen(s, p) \cup UsedChosen(t, p)
  <2> DEFINE Ids(v) == {v[i].chosen.id : i \in DOMAIN v}
  <2>1. Ids(u) \subseteq Ids(s) \cup Ids(t)
    BY <1>5
  <2>2. Ids(s) \cup Ids(t) \subseteq Ids(u)
    BY <1>5
  <2>3. Ids(u) = Ids(s) \cup Ids(t)
    BY <2>1, <2>2
  <2>4. \A v : UsedChosen(v, p) = IF p.noReuse THEN Ids(v) ELSE {}
    BY DEF UsedChosen
  <2> HIDE DEF Ids
  <2>. QED  BY <2>3, <2>4
<1>8. \A C, R : Within(u, C, R) <=> Within(s, C, R) /\ Within(t, C, R)
  <2>1. ASSUME NEW C, NEW R, Within(u, C, R) PROVE Within(s, C, R) /\ Within(t, C, R)
    BY <1>2, <1>3, <2>1 DEF Within
  <2>2. ASSUME NEW C, NEW R, Within(s, C, R), Within(t, C, R) PROVE Within(u, C, R)
    BY <1>4, <2>2 DEF Within
  <2>. QED  BY <2>1, <2>2
<1>9. \A E : AllFit(u, p, E) <=> AllFit(s, p, E) /\ AllFit(t, p, E)
  <2>1. ASSUME NEW E, AllFit(u, p, E) PROVE AllFit(s, p, E) /\ AllFit(t, p, E)
    BY <1>5, <2>1 DEF AllFit
  <2>2. ASSUME NEW E, AllFit(s, p, E), AllFit(t, p, E) PROVE AllFit(u, p, E)
    BY <1>5, <2>2 DEF AllFit
  <2>. QED  BY <2>1, <2>2
<1>10. ASSUME Apart(s, p), Apart(t, p), UsedRejected(s) \cap UsedRejected(t) = {},
              UsedChosen(s, p) \cap UsedChosen(t, p) = {},
              NEW i \in DOMAIN u, NEW j \in DOMAIN u, i # j
       PROVE  /\ u[i].rejected.id # u[j].rejected.id
              /\ p.noReuse => u[i].chosen.id # u[j].chosen.id
  <2>1. CASE i \in DOMAIN s /\ u[i] = s[i] /\ j \in DOMAIN s /\ u[j] = s[j]
    BY <1>10, <2>1 DEF Apart
  <2>2. CASE /\ i - m \in DOMAIN t /\ u[i] = t[i - m] /\ i = (i - m) + m
             /\ j - m \in DOMAIN t /\ u[j] = t[j - m] /\ j = (j - m) + m
    <3>1. i - m # j - m
      BY <1>10, <2>2
    <3>. QED  BY <1>10, <2>2, <3>1 DEF Apart
  <2>3. \A x \in DOMAIN s, y \in DOMAIN t :
          s[x].rejected.id # t[y].rejected.id /\ (p.noReuse => s[x].chosen.id # t[y].chosen.id)
    BY <1>10 DEF UsedRejected, UsedChosen
  <2>. QED  BY <1>4, <2>1, <2>2, <2>3
<1>11. (/\ Apart(s, p) /\ Apart(t, p) /\ UsedRejected(s) \cap UsedRejected(t) = {}
        /\ UsedChosen(s, p) \cap UsedChosen(t, p) = {}) => Apart(u, p)
  BY <1>10 DEF Apart
<1>. QED  BY <1>1, <1>6, <1>7, <1>8, <1>9, <1>11 DEF u, m, n, Joined

LEMMA PairNone ==
  ASSUME NEW S, NEW p, p.noReuse \in BOOLEAN
  PROVE  /\ <<>> \in Seq(PairType(S)) /\ Len(<<>>) = 0 /\ UsedRejected(<<>>) = {}
         /\ UsedChosen(<<>>, p) = {} /\ Apart(<<>>, p)
         /\ \A C, R : Within(<<>>, C, R)
         /\ \A E : AllFit(<<>>, p, E)
<1>1. DOMAIN <<>> = {} /\ <<>> \in Seq(PairType(S)) /\ Len(<<>>) = 0
  BY NothingFacts
<1>. QED  BY <1>1 DEF UsedRejected, UsedChosen, Apart, Within, AllFit

LEMMA PairAppend ==
  ASSUME NEW S, NEW s \in Seq(PairType(S)), NEW p, p.noReuse \in BOOLEAN,
         NEW c \in S, NEW r \in S
  PROVE  LET u == Append(s, [chosen |-> c, rejected |-> r])
         IN  /\ u \in Seq(PairType(S)) /\ Len(u) = Len(s) + 1
             /\ UsedRejected(u) = UsedRejected(s) \cup {r.id}
             /\ UsedChosen(u, p) = UsedChosen(s, p) \cup (IF p.noReuse THEN {c.id} ELSE {})
             /\ \A C, R : Within(u, C, R) <=> Within(s, C, R) /\ c \in C /\ r \in R
             /\ \A E : (AllFit(s, p, E) /\ \E e \in E : Fits(c, r, {}, p, e)) => AllFit(u, p, E)
             /\ (/\ Apart(s, p) /\ r.id \notin UsedRejected(s)
                 /\ p.noReuse => c.id \notin UsedChosen(s, p)) => Apart(u, p)
<1> DEFINE pr == [chosen |-> c, rejected |-> r]
           t == <<pr>>
           u == Append(s, pr)
<1>1. pr \in PairType(S) /\ pr.chosen = c /\ pr.rejected = r
  BY DEF PairType
<1>2. t \in Seq(PairType(S)) /\ Len(t) = 1 /\ DOMAIN t = {1} /\ t[1] = pr
  BY <1>1
<1>3. u = s \o t
  BY <1>1
<1> HIDE DEF t, pr
<1>4. UsedRejected(t) = {r.id} /\ UsedChosen(t, p) = IF p.noReuse THEN {c.id} ELSE {}
  BY <1>1, <1>2 DEF UsedRejected, UsedChosen
<1>5. \A C, R : Within(t, C, R) <=> c \in C /\ r \in R
  BY <1>1, <1>2 DEF Within
<1>6. \A E : (\E e \in E : Fits(c, r, {}, p, e)) => AllFit(t, p, E)
  BY <1>1, <1>2 DEF AllFit
<1>7. Apart(t, p)
  BY <1>2 DEF Apart
<1> HIDE DEF u
<1> DEFINE v == s \o t
<1>8. Joined(v, s, t, S, p)
  BY <1>2, PairJoin
<1> HIDE DEF v
<1>9. u = v
  BY <1>3 DEF v
<1>10. (/\ Apart(s, p) /\ r.id \notin UsedRejected(s)
        /\ p.noReuse => c.id \notin UsedChosen(s, p)) => Apart(v, p)
  BY <1>4, <1>7, <1>8 DEF Joined
<1>. QED  BY <1>2, <1>4, <1>5, <1>6, <1>8, <1>9, <1>10 DEF u, pr, Joined

(* A pass over the rejected items "R", with "all" the ids there are. *)
PassOver(S, pool, all) ==
  [pairs : Seq(PairType(S)), used : SUBSET all, at : 0..(Len(pool) - 1)]

Takes(next, turn, c, r, p) ==
  /\ next.pairs = Append(turn.pairs, [chosen |-> c, rejected |-> r])
  /\ next.used = IF p.noReuse THEN turn.used \cup {c.id} ELSE turn.used

LEMMA TakeFacts ==
  ASSUME NEW S, NEW pool \in Seq(S), pool # <<>>, NEW all, \A x \in S : x.id \in all,
         NEW turn \in PassOver(S, pool, all), NEW r \in S, NEW target, NEW p, NEW e
  PROVE  LET next == TakeChosen(turn, r, pool, target, p, e)
         IN  /\ next \in PassOver(S, pool, all)
             /\ \/ /\ next = turn
                   /\ \/ Len(turn.pairs) >= target
                      \/ \A c \in Range(pool) : ~ Fits(c, r, turn.used, p, e)
                \/ /\ ~ (Len(turn.pairs) >= target)
                   /\ \E c \in Range(pool) : Fits(c, r, turn.used, p, e)
                                             /\ Takes(next, turn, c, r, p)
<1> DEFINE n == Len(pool)
           offsets == Offsets(r, pool, turn.used, p, turn.at, e)
           place == (turn.at + Min(offsets)) % n
           chosen == pool[place + 1]
           taken == [pairs |-> Append(turn.pairs, [chosen |-> chosen, rejected |-> r]),
                     used |-> IF p.noReuse THEN turn.used \cup {chosen.id} ELSE turn.used,
                     at |-> (place + 1) % n]
           next == TakeChosen(turn, r, pool, target, p, e)
<1>1. n \in Nat /\ n # 0 /\ DOMAIN pool = 1..n
  OBVIOUS
<1>2. turn.pairs \in Seq(PairType(S)) /\ turn.used \in SUBSET all /\ turn.at \in 0..(n - 1)
  BY DEF PassOver
<1>3. next = IF Len(turn.pairs) >= target \/ offsets = {} THEN turn ELSE taken
  BY DEF TakeChosen
<1>4. offsets = {o \in 0..(n - 1) : Fits(pool[((turn.at + o) % n) + 1], r, turn.used, p, e)}
  BY DEF Offsets
<1> HIDE DEF offsets, n, taken, next
<1>5. \A o \in 0..(n - 1) : /\ ((turn.at + o) % n) + 1 \in 1..n
                            /\ (((turn.at + o) % n) + 1) % n \in 0..(n - 1)
  BY <1>1, <1>2, Turns
<1>6. CASE Len(turn.pairs) >= target \/ offsets = {}
  <2>1. next = turn
    BY <1>3, <1>6
  <2>2. CASE offsets = {}
    <3>1. ASSUME NEW j \in 1..n PROVE ~ Fits(pool[j], r, turn.used, p, e)
      <4>1. PICK o \in 0..(n - 1) : ((turn.at + o) % n) + 1 = j
        BY <1>1, <1>2, Turns
      <4>. QED  BY <1>4, <2>2, <4>1
    <3>2. \A c \in Range(pool) : ~ Fits(c, r, turn.used, p, e)
      BY <1>1, <3>1 DEF Range
    <3>. QED  BY <2>1, <3>2 DEF next
  <2>. QED  BY <1>6, <2>1, <2>2 DEF next
<1>7. CASE ~ (Len(turn.pairs) >= target) /\ offsets # {}
  <2>1. Min(offsets) \in offsets /\ Min(offsets) \in 0..(n - 1)
    <3>1. offsets \in SUBSET Nat /\ offsets \in SUBSET (0..(n - 1))
      BY <1>1, <1>4
    <3>. QED  BY <1>7, <3>1, MinIn
  <2>2. /\ place + 1 \in 1..n /\ (place + 1) % n \in 0..(n - 1)
        /\ Fits(chosen, r, turn.used, p, e)
    BY <1>4, <1>5, <2>1
  <2> HIDE DEF place
  <2>3. chosen \in S /\ chosen \in Range(pool) /\ chosen.id \in all
    BY <1>1, <2>2 DEF Range
  <2> HIDE DEF chosen
  <2>4. Append(turn.pairs, [chosen |-> chosen, rejected |-> r]) \in Seq(PairType(S))
    BY <1>2, <2>3 DEF PairType
  <2>5. (IF p.noReuse THEN turn.used \cup {chosen.id} ELSE turn.used) \in SUBSET all
    BY <1>2, <2>3
  <2>6. taken \in PassOver(S, pool, all)
    BY <2>2, <2>4, <2>5 DEF taken, PassOver, n
  <2>7. next = taken /\ Takes(taken, turn, chosen, r, p)
    BY <1>3, <1>7 DEF taken, Takes
  <2>. QED  BY <1>7, <2>2, <2>3, <2>6, <2>7 DEF next
<1>. QED  BY <1>6, <1>7

PassSteps(w, s, pool, target, used, p, e) ==
  /\ w[0] = [pairs |-> <<>>, used |-> used, at |-> 0]
  /\ SinglePass(pool, s, target, used, p, e) = w[Len(s)].pairs
  /\ \A i \in 1..Len(s) : w[i] = TakeChosen(w[i - 1], s[i], pool, target, p, e)

LEMMA PassUpTo ==
  ASSUME NEW S, NEW pool \in Seq(S), pool # <<>>, NEW s \in Seq(S),
         NEW all, \A x \in S : x.id \in all, NEW used \in SUBSET all, NEW target, NEW p, NEW e
  PROVE  \E w : PassSteps(w, s, pool, target, used, p, e)
<1> DEFINE P == DOMAIN s
           D == PassOver(S, pool, all)
           first == [pairs |-> <<>>, used |-> used, at |-> 0]
           do(turn, r) == TakeChosen(turn, r, pool, target, p, e)
           step == [x \in D \X S |-> do(x[1], x[2])]
           Eq(g) == g = [A \in SUBSET P |->
                          IF A = {} THEN first ELSE do(g[A \ {Max(A)}], s[Max(A)])]
           F == CHOOSE g : Eq(g)
<1>1. P = 1..Len(s) /\ Len(s) \in Nat /\ first \in D
  <2>1. Len(pool) \in Nat /\ Len(pool) # 0 /\ 0 \in 0..(Len(pool) - 1)
    OBVIOUS
  <2> DEFINE none == <<>>
  <2>2. none \in Seq(PairType(S))
    BY NothingFacts
  <2>3. first = [pairs |-> none, used |-> used, at |-> 0]
    OBVIOUS
  <2> HIDE DEF none, first
  <2>4. first \in D
    BY <2>1, <2>2, <2>3 DEF PassOver
  <2>. QED  BY <2>4
<1>2. step \in [D \X S -> D]
  <2>1. ASSUME NEW turn \in D, NEW r \in S PROVE do(turn, r) \in D
    BY TakeFacts
  <2> HIDE DEF do, D
  <2>. QED  BY <2>1
<1> HIDE DEF first
<1>3. PICK g \in [SUBSET P -> D] :
        \A A \in SUBSET P : g[A] = IF A = {} THEN first ELSE step[<<g[A \ {Max(A)}], s[Max(A)]>>]
  <2> HIDE DEF step, D
  <2>2. \E g \in [SUBSET DOMAIN s -> D] : FoldsList(g, s, first, step)
    BY <1>1, <1>2, ListFold
  <2>. QED  BY <2>2 DEF FoldsList
<1>4. ASSUME NEW A \in SUBSET P, A # {}
      PROVE  g[A] = do(g[A \ {Max(A)}], s[Max(A)])
  <2>1. g[A \ {Max(A)}] \in D /\ s[Max(A)] \in S
    <3>1. A \in SUBSET (1..Len(s)) /\ A \ {Max(A)} \in SUBSET P
      BY <1>1
    <3>2. Max(A) \in A
      BY <1>1, <1>4, <3>1, Places
    <3>3. \A B \in SUBSET P : g[B] \in D
      BY <1>3
    <3>. QED  BY <1>1, <3>1, <3>2, <3>3
  <2> HIDE DEF do, D
  <2>. QED  BY <1>3, <1>4, <2>1
<1>5. Eq(g)
  <2> HIDE DEF do, D
  <2>. QED  BY <1>3, <1>4
<1>6. Eq(F)
  <2> HIDE DEF Eq
  <2>. QED  BY <1>5
<1>7. SinglePass(pool, s, target, used, p, e) = F[P].pairs
  BY DEF SinglePass, FoldLeft, MapThenFoldSet, first
<1> HIDE DEF F, do
<1> DEFINE w == [i \in 0..Len(s) |-> F[1..i]]
<1>8. w[0] = first
  BY <1>1, <1>6, Places
<1>9. ASSUME NEW i \in 1..Len(s) PROVE w[i] = do(w[i - 1], s[i])
  <2>1. /\ 1..i \in SUBSET P /\ 1..i # {} /\ Max(1..i) = i /\ (1..i) \ {i} = 1..(i - 1)
        /\ i \in 0..Len(s) /\ i - 1 \in 0..Len(s)
    <3>1. P = 1..Len(s) /\ Len(s) \in Nat
      BY <1>1
    <3>2. i \in 0..Len(s) /\ i - 1 \in 0..Len(s)
      BY <3>1
    <3>3. \A k \in 1..Len(s) : /\ 1..k \in SUBSET (1..Len(s)) /\ 1..k # {} /\ Max(1..k) = k
                              /\ (1..k) \ {k} = 1..(k - 1)
      BY <3>1, Places
    <3>4. 1..i \in SUBSET P
      BY <3>1, <3>3
    <3>. QED  BY <3>2, <3>3, <3>4
  <2>2. F[1..i] = do(F[1..(i - 1)], s[i])
    BY <1>6, <2>1
  <2>. QED  BY <2>1, <2>2
<1>10. w[Len(s)].pairs = SinglePass(pool, s, target, used, p, e)
  BY <1>1, <1>7
<1> HIDE DEF w
<1>. QED  BY <1>8, <1>9, <1>10 DEF PassSteps, first, do

(* Items are told apart by their ids. *)
ById(S) == \A x, y \in S : x.id = y.id => x = y

(* What a pass found over the rejected items "R", with "used" not to be used. *)
Found(pairs, C, R, used, target, S, p, e) ==
  /\ pairs \in Seq(PairType(S)) /\ Within(pairs, C, R) /\ AllFit(pairs, p, {e})
  /\ Apart(pairs, p) /\ UsedChosen(pairs, p) \cap used = {}
  /\ Len(pairs) <= target
  /\ Len(pairs) >= target \/ NoneFits(pairs, C, R, used, p, e)

LEMMA FoundNone ==
  ASSUME NEW S, NEW C, NEW used, NEW target \in Nat, NEW p, p.noReuse \in BOOLEAN, NEW e
  PROVE  Found(<<>>, C, {}, used, target, S, p, e)
BY PairNone DEF Found, NoneFits

LEMMA FoundSkip ==
  ASSUME NEW S, NEW pairs, NEW C, NEW R, NEW used, NEW target \in Nat, NEW p,
         p.noReuse \in BOOLEAN, NEW e, Found(pairs, C, R, used, target, S, p, e), NEW r,
         \/ Len(pairs) >= target
         \/ \A c \in C : ~ Fits(c, r, used \cup UsedChosen(pairs, p), p, e)
  PROVE  Found(pairs, C, R \cup {r}, used, target, S, p, e)
BY DEF Found, Within, NoneFits

CanTake(pairs, C, R, c, r, used, target, S, p, e) ==
  /\ C \subseteq S /\ R \subseteq S /\ c \in C /\ r \in S /\ r \notin R
  /\ Found(pairs, C, R, used, target, S, p, e) /\ ~ (Len(pairs) >= target)
  /\ Fits(c, r, used \cup UsedChosen(pairs, p), p, e)

HasTaken(next, pairs, C, R, c, r, used, target, S, p, e) ==
  /\ Found(next, C, R \cup {r}, used, target, S, p, e)
  /\ UsedChosen(next, p) = UsedChosen(pairs, p) \cup IF p.noReuse THEN {c.id} ELSE {}

LEMMA FoundTake ==
  ASSUME NEW S, ById(S), NEW pairs, NEW C, NEW R, NEW used, NEW target \in Nat, NEW p,
         p.noReuse \in BOOLEAN, NEW e, NEW c, NEW r,
         CanTake(pairs, C, R, c, r, used, target, S, p, e)
  PROVE  HasTaken(Append(pairs, [chosen |-> c, rejected |-> r]),
                  pairs, C, R, c, r, used, target, S, p, e)
<1>0. /\ C \in SUBSET S /\ R \in SUBSET S /\ c \in C /\ r \in S /\ r \notin R
      /\ Found(pairs, C, R, used, target, S, p, e) /\ ~ (Len(pairs) >= target)
      /\ Fits(c, r, used \cup UsedChosen(pairs, p), p, e)
  BY DEF CanTake
<1> DEFINE next == Append(pairs, [chosen |-> c, rejected |-> r])
           now == used \cup UsedChosen(pairs, p)
<1>1. pairs \in Seq(PairType(S)) /\ Within(pairs, C, R) /\ AllFit(pairs, p, {e})
      /\ Apart(pairs, p) /\ UsedChosen(pairs, p) \cap used = {} /\ Len(pairs) <= target
      /\ NoneFits(pairs, C, R, used, p, e)
  BY <1>0 DEF Found
<1>2. c \in S /\ r \in S /\ Len(pairs) \in Nat
  BY <1>0, <1>1
<1>3. /\ next \in Seq(PairType(S)) /\ Len(next) = Len(pairs) + 1
      /\ UsedRejected(next) = UsedRejected(pairs) \cup {r.id}
      /\ UsedChosen(next, p) = UsedChosen(pairs, p) \cup (IF p.noReuse THEN {c.id} ELSE {})
  BY <1>1, <1>2, PairAppend
<1>4. Within(next, C, R \cup {r})
  <2>1. Within(pairs, C, R \cup {r})
    BY <1>1 DEF Within
  <2>. QED  BY <1>0, <1>1, <1>2, <2>1, PairAppend
<1>5. AllFit(next, p, {e})
  <2>1. Fits(c, r, {}, p, e)
    BY <1>0 DEF Fits
  <2>2. \E f \in {e} : Fits(c, r, {}, p, f)
    BY <2>1
  <2>. QED  BY <1>1, <1>2, <2>2, PairAppend
<1>6. p.noReuse => c.id \notin now
  <2>1. Fits(c, r, now, p, e)
    BY <1>0
  <2> HIDE DEF now
  <2>. QED  BY <2>1 DEF Fits
<1>7. Apart(next, p)
  <2>1. r.id \notin UsedRejected(pairs)
    <3> SUFFICES ASSUME NEW i \in DOMAIN pairs, pairs[i].rejected.id = r.id PROVE FALSE
      BY DEF UsedRejected
    <3>1. pairs[i].rejected \in R
      BY <1>1 DEF Within
    <3>. QED  BY <1>0, <3>1 DEF ById
  <2>2. p.noReuse => c.id \notin UsedChosen(pairs, p)
    BY <1>6
  <2>. QED  BY <1>1, <1>2, <2>1, <2>2, PairAppend
<1> HIDE DEF next
<1>8. UsedChosen(next, p) \cap used = {}
  BY <1>1, <1>3, <1>6
<1>9. NoneFits(next, C, R \cup {r}, used, p, e)
  <2> SUFFICES ASSUME NEW x \in R, x.id \notin UsedRejected(pairs), NEW y \in C
               PROVE  ~ Fits(y, x, used \cup UsedChosen(next, p), p, e)
    BY <1>3 DEF NoneFits
  <2>1. ~ Fits(y, x, now, p, e)
    BY <1>1 DEF NoneFits
  <2>2. now \subseteq used \cup UsedChosen(next, p)
    BY <1>3
  <2> HIDE DEF now
  <2>. QED  BY <2>1, <2>2, FitsFacts
<1>10. Len(next) <= target
  BY <1>0, <1>1, <1>2, <1>3
<1>. QED  BY <1>3, <1>4, <1>5, <1>7, <1>8, <1>9, <1>10 DEF Found, HasTaken, next

LEMMA SinglePassFinds ==
  ASSUME NEW S, ById(S), NEW pool \in Seq(S), pool # <<>>, NEW s \in Seq(S), OneEach(s),
         NEW used, NEW target \in Nat, NEW p, p.noReuse \in BOOLEAN, NEW e
  PROVE  Found(SinglePass(pool, s, target, used, p, e), Range(pool), Range(s), used, target, S, p, e)
<1> DEFINE all == used \cup {x.id : x \in S}
           C == Range(pool)
<1>0. used \in SUBSET all /\ \A x \in S : x.id \in all
  OBVIOUS
<1> HIDE DEF all
<1>1. PICK w : PassSteps(w, s, pool, target, used, p, e)
  BY <1>0, PassUpTo
<1>2. /\ w[0] = [pairs |-> <<>>, used |-> used, at |-> 0]
      /\ SinglePass(pool, s, target, used, p, e) = w[Len(s)].pairs
      /\ \A i \in 1..Len(s) : w[i] = TakeChosen(w[i - 1], s[i], pool, target, p, e)
  BY <1>1 DEF PassSteps
<1> DEFINE Good(i) == /\ w[i] \in PassOver(S, pool, all)
                      /\ w[i].used = used \cup UsedChosen(w[i].pairs, p)
                      /\ Found(w[i].pairs, C, UpToPlace(s, i), used, target, S, p, e)
           Q == {i \in 0..Len(s) : Good(i)}
<1>3. Len(s) \in Nat /\ C \in SUBSET S
  BY RangeFacts
<1>4. Good(0)
  <2> DEFINE none == <<>>
  <2>1. w[0].pairs = none /\ w[0].used = used /\ w[0] = [pairs |-> none, used |-> used, at |-> 0]
    BY <1>2
  <2>2. /\ none \in Seq(PairType(S)) /\ UsedChosen(none, p) = {}
        /\ Found(none, C, {}, used, target, S, p, e)
    BY PairNone, FoundNone
  <2> HIDE DEF none, C
  <2>3. UpToPlace(s, 0) = {}
    BY RangeUpTo
  <2>4. w[0] \in PassOver(S, pool, all)
    <3>1. Len(pool) \in Nat /\ Len(pool) # 0 /\ 0 \in 0..(Len(pool) - 1)
      OBVIOUS
    <3>. QED  BY <1>0, <2>1, <2>2, <3>1 DEF PassOver
  <2>. QED  BY <2>1, <2>2, <2>3, <2>4
<1>5. ASSUME NEW i \in 1..Len(s), Good(i - 1) PROVE Good(i)
  <2> DEFINE turn == w[i - 1]
             next == w[i]
             r == s[i]
             R == UpToPlace(s, i - 1)
  <2>1. /\ UpToPlace(s, i) = R \cup {r} /\ r \in S /\ r \notin R
    BY UpToPlaceFacts
  <2>2. R \in SUBSET S
    BY <1>3 DEF UpToPlace
  <2>3. /\ turn \in PassOver(S, pool, all) /\ turn.used = used \cup UsedChosen(turn.pairs, p)
        /\ Found(turn.pairs, C, R, used, target, S, p, e)
    BY <1>5
  <2>4. next = TakeChosen(turn, r, pool, target, p, e)
    BY <1>2
  <2> HIDE DEF turn, next, r, R
  <2>5. next \in PassOver(S, pool, all)
    BY <1>0, <2>1, <2>3, <2>4, TakeFacts
  <2>6. \/ /\ next = turn
           /\ \/ Len(turn.pairs) >= target
              \/ \A c \in C : ~ Fits(c, r, turn.used, p, e)
        \/ /\ ~ (Len(turn.pairs) >= target)
           /\ \E c \in C : Fits(c, r, turn.used, p, e) /\ Takes(next, turn, c, r, p)
    <3> DEFINE t == TakeChosen(turn, r, pool, target, p, e)
    <3>1. \/ /\ t = turn
             /\ \/ Len(turn.pairs) >= target
                \/ \A c \in Range(pool) : ~ Fits(c, r, turn.used, p, e)
          \/ /\ ~ (Len(turn.pairs) >= target)
             /\ \E c \in Range(pool) : Fits(c, r, turn.used, p, e) /\ Takes(t, turn, c, r, p)
      BY <1>0, <2>1, <2>3, TakeFacts
    <3> HIDE DEF t
    <3>. QED  BY <2>4, <3>1 DEF t
  <2> HIDE DEF C
  <2>7. CASE /\ next = turn
             /\ \/ Len(turn.pairs) >= target
                \/ \A c \in C : ~ Fits(c, r, turn.used, p, e)
    <3>1. Found(turn.pairs, C, R \cup {r}, used, target, S, p, e)
      <4>1. \/ Len(turn.pairs) >= target
            \/ \A c \in C : ~ Fits(c, r, used \cup UsedChosen(turn.pairs, p), p, e)
        BY <2>3, <2>7
      <4>2. PICK pairs : pairs = turn.pairs
        OBVIOUS
      <4>3. /\ Found(pairs, C, R, used, target, S, p, e)
            /\ \/ Len(pairs) >= target
               \/ \A c \in C : ~ Fits(c, r, used \cup UsedChosen(pairs, p), p, e)
        BY <2>3, <4>1, <4>2
      <4>. QED  BY <4>2, <4>3 DEF Found, Within, NoneFits
    <3>. QED  BY <2>1, <2>3, <2>5, <2>7, <3>1 DEF next
  <2>8. CASE /\ ~ (Len(turn.pairs) >= target)
             /\ \E c \in C : Fits(c, r, turn.used, p, e) /\ Takes(next, turn, c, r, p)
    <3>1. PICK c \in C : Fits(c, r, turn.used, p, e) /\ Takes(next, turn, c, r, p)
      BY <2>8
    <3> DEFINE more == Append(turn.pairs, [chosen |-> c, rejected |-> r])
    <3>2. /\ Found(more, C, R \cup {r}, used, target, S, p, e)
          /\ UsedChosen(more, p) = UsedChosen(turn.pairs, p) \cup IF p.noReuse THEN {c.id} ELSE {}
      <4>1. Fits(c, r, used \cup UsedChosen(turn.pairs, p), p, e)
        BY <2>3, <3>1
      <4>2. PICK pairs : pairs = turn.pairs
        OBVIOUS
      <4>3. /\ Found(pairs, C, R, used, target, S, p, e) /\ ~ (Len(pairs) >= target)
            /\ Fits(c, r, used \cup UsedChosen(pairs, p), p, e) /\ r \in S /\ r \notin R
            /\ C \in SUBSET S
        BY <1>3, <2>1, <2>3, <2>8, <4>1, <4>2
      <4> DEFINE u == Append(pairs, [chosen |-> c, rejected |-> r])
      <4>4. /\ Found(u, C, R \cup {r}, used, target, S, p, e)
            /\ UsedChosen(u, p) = UsedChosen(pairs, p) \cup IF p.noReuse THEN {c.id} ELSE {}
        <5>1. CanTake(pairs, C, R, c, r, used, target, S, p, e)
          BY <2>2, <4>3 DEF CanTake
        <5> HIDE DEF C
        <5>2. HasTaken(u, pairs, C, R, c, r, used, target, S, p, e)
          BY <5>1, FoundTake
        <5>. QED  BY <5>2 DEF HasTaken
      <4>. QED  BY <4>2, <4>4
    <3>3. next.pairs = more /\ next.used = IF p.noReuse THEN turn.used \cup {c.id} ELSE turn.used
      BY <3>1 DEF Takes
    <3> HIDE DEF more
    <3>4. next.used = used \cup UsedChosen(next.pairs, p)
      BY <2>3, <3>2, <3>3
    <3>. QED  BY <2>1, <2>5, <3>2, <3>3, <3>4 DEF next
  <2>. QED  BY <2>6, <2>7, <2>8
<1> HIDE DEF Good
<1>6. Q = 0..Len(s)
  <2>1. 0 \in Q /\ Q \in SUBSET (0..Len(s))
    BY <1>3, <1>4
  <2>2. ASSUME NEW i \in 1..Len(s), i - 1 \in Q PROVE i \in Q
    BY <1>3, <1>5, <2>2
  <2> HIDE DEF Q
  <2>. QED  BY <1>3, <2>1, <2>2, UpTo
<1>7. Good(Len(s))
  BY <1>3, <1>6
<1>. QED  BY <1>2, <1>7, RangeUpTo DEF Good

(* What the passes so far found, each with its bound on length in "E". *)
FoundAll(pairs, C, R, target, S, p, E) ==
  /\ pairs \in Seq(PairType(S)) /\ Within(pairs, C, R) /\ AllFit(pairs, p, E)
  /\ Apart(pairs, p) /\ Len(pairs) <= target
  /\ Len(pairs) >= target \/ \A e \in E : NoneFits(pairs, C, R, {}, p, e)

(* What one pass over lists of those items finds. *)
OnePass(S, p, e) ==
  \A used : \A pool \in Seq(S), s \in Seq(S), target \in Nat :
    pool # <<>> /\ OneEach(s) =>
      Found(SinglePass(pool, s, target, used, p, e), Range(pool), Range(s),
            used, target, S, p, e)

LEMMA OnePassFinds ==
  ASSUME NEW S, ById(S), NEW p, p.noReuse \in BOOLEAN, NEW e
  PROVE  OnePass(S, p, e)
BY SinglePassFinds DEF OnePass

LEMMA NextPassFinds ==
  ASSUME NEW S, ById(S), NEW pool \in Seq(S), NEW s \in Seq(S), OneEach(s),
         NEW target \in Nat, NEW p, p.noReuse \in BOOLEAN, NEW e, NEW E, NEW pairs,
         FoundAll(pairs, Range(pool), Range(s), target, S, p, E)
  PROVE  FoundAll(NextPass(pairs, pool, s, target, p, e),
                  Range(pool), Range(s), target, S, p, E \cup {e})
<1> DEFINE C == Range(pool)
           R == Range(s)
           used == UsedChosen(pairs, p)
           chosen == Only(pool, {c \in C : c.id \notin used \/ ~ p.noReuse})
           rejected == Only(s, {r \in R : r.id \notin UsedRejected(pairs)})
           found == SinglePass(chosen, rejected, target - Len(pairs), used, p, e)
           next == NextPass(pairs, pool, s, target, p, e)
<1>1. /\ pairs \in Seq(PairType(S)) /\ Within(pairs, C, R) /\ AllFit(pairs, p, E)
      /\ Apart(pairs, p) /\ Len(pairs) <= target
      /\ Len(pairs) >= target \/ \A f \in E : NoneFits(pairs, C, R, {}, p, f)
  BY DEF FoundAll
<1>2. Len(pairs) \in Nat
  BY <1>1
<1>3. /\ chosen \in Seq(S) /\ Range(chosen) = {c \in C : c.id \notin used \/ ~ p.noReuse}
      /\ rejected \in Seq(S) /\ OneEach(rejected)
      /\ Range(rejected) = {r \in R : r.id \notin UsedRejected(pairs)}
  <2>1. /\ chosen \in Seq(S)
        /\ Range(chosen) = C \cap {c \in C : c.id \notin used \/ ~ p.noReuse}
    BY OnlyFacts
  <2>2. /\ rejected \in Seq(S) /\ OneEach(rejected)
        /\ Range(rejected) = R \cap {r \in R : r.id \notin UsedRejected(pairs)}
    BY OnlyFacts
  <2>. QED  BY <2>1, <2>2
<1>4. next = IF Len(pairs) >= target \/ chosen = <<>> \/ rejected = <<>> THEN pairs
             ELSE pairs \o found
  BY DEF NextPass
<1> HIDE DEF C, R, chosen, rejected, next, found
<1>5. AllFit(pairs, p, E \cup {e})
  BY <1>1 DEF AllFit
<1>6. CASE Len(pairs) >= target
  BY <1>1, <1>4, <1>5, <1>6 DEF FoundAll, next, C, R
<1>7. CASE (chosen = <<>> \/ rejected = <<>>) /\ ~ (Len(pairs) >= target)
  <2>1. NoneFits(pairs, C, R, {}, p, e)
    <3> SUFFICES ASSUME NEW r \in R, r.id \notin UsedRejected(pairs), NEW c \in C
                 PROVE  ~ Fits(c, r, {} \cup used, p, e)
      BY DEF NoneFits
    <3>1. rejected # <<>>
      BY <1>3, NothingFacts
    <3>2. Range(chosen) = {}
      BY <1>7, <3>1, NothingFacts
    <3>3. c.id \in used /\ p.noReuse
      BY <1>3, <3>2
    <3> HIDE DEF used
    <3>. QED  BY <3>3 DEF Fits
  <2>2. next = pairs
    BY <1>4, <1>7
  <2>. QED  BY <1>1, <1>5, <1>7, <2>1, <2>2 DEF FoundAll, next, C, R
<1>8. CASE ~ (Len(pairs) >= target) /\ chosen # <<>> /\ rejected # <<>>
  <2> DEFINE due == target - Len(pairs)
             joined == pairs \o found
  <2>1. next = joined
    BY <1>4, <1>8
  <2>2. due \in Nat
    BY <1>2, <1>8
  <2>3. Found(found, Range(chosen), Range(rejected), used, due, S, p, e)
    <3>1. Found(SinglePass(chosen, rejected, due, used, p, e), Range(chosen), Range(rejected),
                used, due, S, p, e)
      <4>1. OnePass(S, p, e)
        BY OnePassFinds
      <4> HIDE DEF used, due
      <4>. QED  BY <1>3, <1>8, <2>2, <4>1 DEF OnePass
    <3>. QED  BY <3>1 DEF found
  <2>4. /\ found \in Seq(PairType(S)) /\ Within(found, Range(chosen), Range(rejected))
        /\ AllFit(found, p, {e}) /\ Apart(found, p) /\ UsedChosen(found, p) \cap used = {}
        /\ Len(found) <= due
        /\ Len(found) >= due \/ NoneFits(found, Range(chosen), Range(rejected), used, p, e)
    BY <2>3 DEF Found
  <2>5. Joined(joined, pairs, found, S, p)
    BY <1>1, <2>4, PairJoin
  <2> HIDE DEF joined
  <2>6. UsedRejected(pairs) \cap UsedRejected(found) = {}
    <3> SUFFICES ASSUME NEW i \in DOMAIN found,
                        found[i].rejected.id \in UsedRejected(pairs)
                 PROVE  FALSE
      BY DEF UsedRejected
    <3>1. found[i].rejected \in Range(rejected)
      BY <2>4 DEF Within
    <3>. QED  BY <1>3, <3>1
  <2>7. Apart(joined, p)
    BY <1>1, <2>4, <2>5, <2>6 DEF Joined
  <2>8. Within(joined, C, R)
    <3>1. Within(found, C, R)
      BY <1>3, <2>4 DEF Within
    <3>. QED  BY <1>1, <2>5, <3>1 DEF Joined
  <2>9. AllFit(joined, p, E \cup {e})
    <3>1. AllFit(found, p, E \cup {e})
      BY <2>4 DEF AllFit
    <3>. QED  BY <1>5, <2>5, <3>1 DEF Joined
  <2>10. Len(found) \in Nat /\ Len(joined) = Len(pairs) + Len(found) /\ Len(joined) <= target
    <3>1. Len(found) \in Nat
      BY <2>4
    <3>2. Len(joined) = Len(pairs) + Len(found)
      BY <2>5 DEF Joined
    <3>. QED  BY <1>2, <2>4, <3>1, <3>2
  <2>11. /\ UsedRejected(joined) = UsedRejected(pairs) \cup UsedRejected(found)
         /\ UsedChosen(joined, p) = used \cup UsedChosen(found, p)
    BY <2>5 DEF Joined
  <2>12. ASSUME ~ (Len(joined) >= target), NEW f \in E \cup {e}
         PROVE  NoneFits(joined, C, R, {}, p, f)
    <3>1. ~ (Len(found) >= due)
      BY <1>2, <2>10, <2>12
    <3>2. NoneFits(found, Range(chosen), Range(rejected), used, p, e)
      BY <2>4, <3>1
    <3> SUFFICES ASSUME NEW r \in R, r.id \notin UsedRejected(joined), NEW c \in C
                 PROVE  ~ Fits(c, r, {} \cup UsedChosen(joined, p), p, f)
      BY DEF NoneFits
    <3>3. r.id \notin UsedRejected(pairs) /\ r.id \notin UsedRejected(found)
      BY <2>11
    <3>4. CASE f \in E
      <4>1. ~ Fits(c, r, {} \cup used, p, f)
        BY <1>1, <1>8, <3>3, <3>4 DEF NoneFits
      <4>. QED  BY <2>11, <4>1 DEF Fits
    <3>5. CASE f = e /\ c \in Range(chosen)
      <4>1. r \in Range(rejected)
        BY <1>3, <3>3
      <4>2. ~ Fits(c, r, used \cup UsedChosen(found, p), p, e)
        BY <3>2, <3>3, <3>5, <4>1 DEF NoneFits
      <4>. QED  BY <2>11, <3>5, <4>2 DEF Fits
    <3>6. CASE f = e /\ c \notin Range(chosen)
      <4>1. c.id \in used /\ p.noReuse
        BY <1>3, <3>6
      <4>. QED  BY <2>11, <4>1 DEF Fits
    <3>. QED  BY <3>4, <3>5, <3>6
  <2>13. FoundAll(joined, C, R, target, S, p, E \cup {e})
    <3>1. joined \in Seq(PairType(S))
      BY <2>5 DEF Joined
    <3>. QED  BY <2>7, <2>8, <2>9, <2>10, <2>12, <3>1 DEF FoundAll
  <2>. QED  BY <2>1, <2>13 DEF next, C, R
<1>. QED  BY <1>6, <1>7, <1>8

(* Each pass is over lists of the pools' items, whatever was found before. *)
LEMMA NextPassType ==
  ASSUME NEW S, ById(S), NEW pool \in Seq(S), NEW s \in Seq(S), OneEach(s),
         NEW target \in Nat, NEW p, p.noReuse \in BOOLEAN, NEW e,
         NEW pairs \in Seq(PairType(S))
  PROVE  NextPass(pairs, pool, s, target, p, e) \in Seq(PairType(S))
<1> DEFINE used == UsedChosen(pairs, p)
           chosen == Only(pool, {c \in Range(pool) : c.id \notin used \/ ~ p.noReuse})
           rejected == Only(s, {r \in Range(s) : r.id \notin UsedRejected(pairs)})
           due == target - Len(pairs)
           found == SinglePass(chosen, rejected, due, used, p, e)
<1>1. NextPass(pairs, pool, s, target, p, e) =
        IF Len(pairs) >= target \/ chosen = <<>> \/ rejected = <<>> THEN pairs
        ELSE pairs \o found
  BY DEF NextPass
<1>2. chosen \in Seq(S) /\ rejected \in Seq(S) /\ OneEach(rejected)
  BY OnlyFacts
<1>3. OnePass(S, p, e)
  BY OnePassFinds
<1>4. Len(pairs) \in Nat
  OBVIOUS
<1> HIDE DEF chosen, rejected, used
<1>5. CASE ~ (Len(pairs) >= target \/ chosen = <<>> \/ rejected = <<>>)
  <2>1. due \in Nat
    BY <1>4, <1>5
  <2> HIDE DEF due
  <2>2. found \in Seq(PairType(S))
    BY <1>2, <1>3, <1>5, <2>1 DEF OnePass, Found
  <2> HIDE DEF found
  <2>3. pairs \o found \in Seq(PairType(S))
    BY <2>2, ConcatProperties
  <2>. QED  BY <1>1, <1>5, <2>3
<1>. QED  BY <1>1, <1>5

PassesSteps(w, pool, s, target, p) ==
  /\ w[0] = <<>> /\ MultiPass(pool, s, target, p) = w[Len(p.epsilons)]
  /\ \A i \in 1..Len(p.epsilons) : w[i] = NextPass(w[i - 1], pool, s, target, p, p.epsilons[i])

LEMMA PassesUpTo ==
  ASSUME NEW S, ById(S), NEW pool \in Seq(S), NEW s \in Seq(S), OneEach(s),
         NEW target \in Nat, NEW p, p.noReuse \in BOOLEAN, p.epsilons \in Seq(Int)
  PROVE  \E w : PassesSteps(w, pool, s, target, p)
<1> DEFINE bounds == p.epsilons
           P == DOMAIN bounds
           D == Seq(PairType(S))
           do(pairs, e) == NextPass(pairs, pool, s, target, p, e)
           step == [x \in D \X Int |-> do(x[1], x[2])]
           Eq(g) == g = [A \in SUBSET P |->
                          IF A = {} THEN <<>> ELSE do(g[A \ {Max(A)}], bounds[Max(A)])]
           F == CHOOSE g : Eq(g)
<1>0. bounds \in Seq(Int)
  OBVIOUS
<1>7. MultiPass(pool, s, target, p) = F[P]
  BY DEF MultiPass, FoldLeft, MapThenFoldSet
<1> HIDE DEF bounds
<1>1. P = 1..Len(bounds) /\ Len(bounds) \in Nat
  BY <1>0
<1>2. step \in [D \X Int -> D]
  <2>1. ASSUME NEW pairs \in D, NEW e \in Int PROVE do(pairs, e) \in D
    BY NextPassType
  <2> HIDE DEF do, D
  <2>. QED  BY <2>1
<1>3. PICK g \in [SUBSET P -> D] :
        \A A \in SUBSET P : g[A] = IF A = {} THEN <<>> ELSE step[<<g[A \ {Max(A)}], bounds[Max(A)]>>]
  <2> DEFINE none == <<>>
  <2>1. none \in D
    BY NothingFacts
  <2> HIDE DEF step, D, none
  <2>2. \E g \in [SUBSET DOMAIN bounds -> D] : FoldsList(g, bounds, none, step)
    BY <1>0, <1>2, <2>1, ListFold
  <2>. QED  BY <2>2 DEF none, FoldsList
<1>4. ASSUME NEW A \in SUBSET P, A # {}
      PROVE  g[A] = do(g[A \ {Max(A)}], bounds[Max(A)])
  <2>1. g[A \ {Max(A)}] \in D /\ bounds[Max(A)] \in Int
    <3>1. A \in SUBSET (1..Len(bounds)) /\ A \ {Max(A)} \in SUBSET P
      BY <1>1
    <3>2. Max(A) \in A
      BY <1>1, <1>4, <3>1, Places
    <3>3. \A B \in SUBSET P : g[B] \in D
      BY <1>3
    <3>. QED  BY <1>0, <1>1, <3>1, <3>2, <3>3
  <2> HIDE DEF do, D
  <2>. QED  BY <1>3, <1>4, <2>1
<1>5. Eq(g)
  <2> HIDE DEF do, D
  <2>. QED  BY <1>3, <1>4
<1>6. Eq(F)
  <2> HIDE DEF Eq
  <2>. QED  BY <1>5
<1> HIDE DEF F, do
<1> DEFINE w == [i \in 0..Len(bounds) |-> F[1..i]]
<1>8. w[0] = <<>>
  BY <1>1, <1>6, Places
<1>9. ASSUME NEW i \in 1..Len(bounds) PROVE w[i] = do(w[i - 1], bounds[i])
  <2>1. /\ 1..i \in SUBSET P /\ 1..i # {} /\ Max(1..i) = i /\ (1..i) \ {i} = 1..(i - 1)
        /\ i \in 0..Len(bounds) /\ i - 1 \in 0..Len(bounds)
    BY <1>1, Places
  <2>2. F[1..i] = do(F[1..(i - 1)], bounds[i])
    BY <1>6, <2>1
  <2>. QED  BY <2>1, <2>2
<1>10. w[Len(bounds)] = MultiPass(pool, s, target, p)
  BY <1>1, <1>7
<1> HIDE DEF w
<1>. QED  BY <1>8, <1>9, <1>10 DEF PassesSteps, do, bounds

LEMMA MultiPassFinds ==
  ASSUME NEW S, ById(S), NEW pool \in Seq(S), NEW s \in Seq(S), OneEach(s),
         NEW target \in Nat, NEW p, p.noReuse \in BOOLEAN, p.epsilons \in Seq(Int)
  PROVE  FoundAll(MultiPass(pool, s, target, p), Range(pool), Range(s), target, S, p,
                  Range(p.epsilons))
<1> DEFINE bounds == p.epsilons
<1>1. PICK w : PassesSteps(w, pool, s, target, p)
  <2> HIDE DEF bounds
  <2>1. \E w : PassesSteps(w, pool, s, target, p)
    BY PassesUpTo, SMTT(60)
  <2>. QED  BY <2>1
<1>2. /\ w[0] = <<>> /\ MultiPass(pool, s, target, p) = w[Len(bounds)]
      /\ \A i \in 1..Len(bounds) : w[i] = NextPass(w[i - 1], pool, s, target, p, bounds[i])
  BY <1>1 DEF PassesSteps
<1>3. bounds \in Seq(Int) /\ Len(bounds) \in Nat
  OBVIOUS
<1> HIDE DEF bounds
<1> DEFINE Good(i) == FoundAll(w[i], Range(pool), Range(s), target, S, p, UpToPlace(bounds, i))
           Q == {i \in 0..Len(bounds) : Good(i)}
<1>4. Good(0)
  <2>1. UpToPlace(bounds, 0) = {}
    BY <1>3, RangeUpTo
  <2> DEFINE none == <<>>
             C == Range(pool)
             R == Range(s)
  <2>2. /\ none \in Seq(PairType(S)) /\ Len(none) = 0 /\ Apart(none, p)
        /\ Within(none, C, R) /\ AllFit(none, p, {})
    BY PairNone
  <2>3. w[0] = none
    BY <1>2
  <2> HIDE DEF none, C, R
  <2>4. FoundAll(none, C, R, target, S, p, {})
    BY <2>2 DEF FoundAll
  <2>. QED  BY <2>1, <2>3, <2>4 DEF C, R
<1>5. ASSUME NEW i \in 1..Len(bounds), Good(i - 1) PROVE Good(i)
  <2>1. UpToPlace(bounds, i) = UpToPlace(bounds, i - 1) \cup {bounds[i]}
    BY <1>3, UpToPlaceFacts
  <2>2. w[i] = NextPass(w[i - 1], pool, s, target, p, bounds[i])
    BY <1>2
  <2>3. FoundAll(NextPass(w[i - 1], pool, s, target, p, bounds[i]), Range(pool), Range(s),
                 target, S, p, UpToPlace(bounds, i - 1) \cup {bounds[i]})
    BY <1>5, NextPassFinds
  <2>. QED  BY <2>1, <2>2, <2>3
<1> HIDE DEF Good
<1>6. Q = 0..Len(bounds)
  <2>1. 0 \in Q /\ Q \in SUBSET (0..Len(bounds))
    BY <1>3, <1>4
  <2>2. ASSUME NEW i \in 1..Len(bounds), i - 1 \in Q PROVE i \in Q
    BY <1>3, <1>5, <2>2
  <2> HIDE DEF Q
  <2>. QED  BY <1>3, <2>1, <2>2, UpTo
<1>7. Good(Len(bounds))
  BY <1>3, <1>6
<1>8. UpToPlace(bounds, Len(bounds)) = Range(bounds)
  BY <1>3, RangeUpTo
<1>. QED  BY <1>2, <1>7, <1>8 DEF Good, bounds

(* What a caller may ask for. *)
Terms(p) ==
  /\ Valid(p) /\ p.least \in Int /\ p.most \in Int /\ p.noReuse \in BOOLEAN
  /\ p.epsilons \in Seq(Int)

LEMMA TargetFacts ==
  ASSUME NEW p, Terms(p), NEW S, NEW pool \in Seq(S)
  PROVE  Target(pool, p) \in Nat /\ p.most \in {Unset} \cup Nat
BY DEF Terms, Valid, Target, Unset

LEMMA GenerateFinds ==
  ASSUME NEW S, ById(S), NEW pool \in Seq(S), pool # <<>>, NEW s \in Seq(S), OneEach(s),
         NEW p, Terms(p)
  PROVE  FoundAll(GeneratePairs(pool, s, p), Range(pool), Range(s), Target(pool, p), S, p,
                  Bounds(p))
<1> DEFINE target == Target(pool, p)
           C == Range(pool)
           R == Range(s)
<1>1. target \in Nat /\ p.noReuse \in BOOLEAN /\ p.epsilons \in Seq(Int)
  BY TargetFacts DEF Terms
<1>2. GeneratePairs(pool, s, p) =
        IF p.epsilons = <<>> THEN SinglePass(pool, s, target, {}, p, Unset)
        ELSE MultiPass(pool, s, target, p)
  BY DEF GeneratePairs
<1> HIDE DEF target
<1>3. CASE p.epsilons = <<>>
  <2> DEFINE none == {}
             pairs == SinglePass(pool, s, target, none, p, Unset)
  <2>1. OnePass(S, p, Unset)
    BY <1>1, OnePassFinds
  <2>2. Found(pairs, C, R, none, target, S, p, Unset)
    <3> HIDE DEF none
    <3>. QED  BY <1>1, <2>1 DEF OnePass
  <2>3. Bounds(p) = {Unset} /\ GeneratePairs(pool, s, p) = pairs
    BY <1>2, <1>3 DEF Bounds
  <2> HIDE DEF pairs, C, R
  <2>4. FoundAll(pairs, C, R, target, S, p, {Unset})
    BY <2>2 DEF Found, FoundAll
  <2>. QED  BY <2>3, <2>4 DEF C, R, target
<1>4. CASE p.epsilons # <<>>
  <2>1. FoundAll(MultiPass(pool, s, target, p), C, R, target, S, p, Range(p.epsilons))
    BY <1>1, MultiPassFinds
  <2>2. Bounds(p) = Range(p.epsilons) /\ GeneratePairs(pool, s, p) = MultiPass(pool, s, target, p)
    BY <1>2, <1>4 DEF Bounds
  <2>. QED  BY <2>1, <2>2 DEF target
<1>. QED  BY <1>3, <1>4

Sound(pairs, items, p) ==
  Respects(pairs, p) /\ Exhausts(pairs, items, p) /\ Bounded(pairs, items, p)

(* A call without a pool to take from has nothing to leave out. *)
LEMMA NoPairsSound ==
  ASSUME NEW S, NEW items \in Seq(S), NEW p, Terms(p), OneEach(items),
         \/ items = <<>> \/ ChosenPool(items, p) = <<>> \/ RejectedPool(items, p) = <<>>
  PROVE  Sound(<<>>, items, p)
<1> DEFINE none == <<>>
           C == Range(ChosenPool(items, p))
           R == Range(RejectedPool(items, p))
<1>1. none \in Seq(PairType(S)) /\ Len(none) = 0 /\ DOMAIN none = {}
  BY NothingFacts
<1>2. ChosenPool(items, p) \in Seq(S)
  BY PoolFacts
<1>3. Target(ChosenPool(items, p), p) \in Nat
  BY <1>2, TargetFacts
<1>4. items = <<>> \/ C = {} \/ R = {}
  BY NothingFacts
<1>5. Respects(none, p)
  BY <1>1 DEF Respects
<1>6. Exhausts(none, items, p)
  BY <1>4 DEF Exhausts
<1>7. Bounded(none, items, p)
  BY <1>1, <1>3 DEF Bounded
<1>. QED  BY <1>5, <1>6, <1>7 DEF none, Sound

(* Cut to "max_pairs", a list of pairs keeps its terms. *)
LEMMA CutSound ==
  ASSUME NEW S, NEW items \in Seq(S), items # <<>>, NEW p, Terms(p), NEW pairs,
         ChosenPool(items, p) \in Seq(S),
         FoundAll(pairs, Range(ChosenPool(items, p)), Range(RejectedPool(items, p)),
                  Target(ChosenPool(items, p), p), S, p, Bounds(p))
  PROVE  Sound(Cut(pairs, p.most), items, p)
<1> DEFINE pool == ChosenPool(items, p)
           C == Range(pool)
           R == Range(RejectedPool(items, p))
           target == Target(pool, p)
           cut == Cut(pairs, p.most)
<1>1. target \in Nat /\ p.most \in {Unset} \cup Nat
  BY TargetFacts
<1>2. /\ pairs \in Seq(PairType(S)) /\ AllFit(pairs, p, Bounds(p)) /\ Apart(pairs, p)
      /\ Len(pairs) <= target
      /\ Len(pairs) >= target \/ \A e \in Bounds(p) : NoneFits(pairs, C, R, {}, p, e)
  BY DEF FoundAll
<1> HIDE DEF pool, C, R, target
<1>3. /\ cut \in Seq(PairType(S))
      /\ (cut = pairs \/ (p.most \in Nat /\ Len(cut) = p.most /\ p.most < Len(pairs)))
      /\ \A i \in DOMAIN cut : i \in DOMAIN pairs /\ cut[i] = pairs[i]
  BY <1>1, <1>2, CutFacts
<1> HIDE DEF cut
<1>4. Len(pairs) \in Nat
  BY <1>2
<1>5. Respects(cut, p)
  BY <1>2, <1>3 DEF Respects, AllFit, Apart
<1>6. Len(cut) <= target
  BY <1>1, <1>2, <1>3, <1>4
<1>7. Bounded(cut, items, p)
  BY <1>6 DEF Bounded, target, pool
<1>8. Exhausts(cut, items, p)
  <2>1. CASE p.most \in Nat /\ Len(cut) = p.most
    <3>1. p.most # Unset
      BY <2>1 DEF Unset
    <3>. QED  BY <2>1, <3>1 DEF Exhausts
  <2>2. CASE cut = pairs /\ Len(pairs) >= target
    BY <2>2 DEF Exhausts, target, pool
  <2>3. CASE cut = pairs /\ \A e \in Bounds(p) : NoneFits(pairs, C, R, {}, p, e)
    <3>1. ASSUME NEW c \in C, NEW r \in R, r.id \notin UsedRejected(cut), NEW e \in Bounds(p)
          PROVE  ~ Fits(c, r, UsedChosen(cut, p), p, e)
      <4>1. ~ Fits(c, r, {} \cup UsedChosen(cut, p), p, e)
        BY <2>3, <3>1 DEF NoneFits
      <4>2. {} \cup UsedChosen(cut, p) = UsedChosen(cut, p)
        OBVIOUS
      <4>. QED  BY <4>1, <4>2
    <3>. QED  BY <3>1 DEF Exhausts, C, R, pool
  <2>. QED  BY <1>2, <1>3, <2>1, <2>2, <2>3
<1>. QED  BY <1>5, <1>7, <1>8 DEF cut, Sound

LEMMA MarginSound ==
  ASSUME NEW S, ById(S), NEW items \in Seq(S), OneEach(items), NEW p, Terms(p)
  PROVE  Sound(PairByMargin(items, p), items, p)
<1> DEFINE pool == ChosenPool(items, p)
           s == RejectedPool(items, p)
           paired == GeneratePairs(pool, s, p)
<1>1. PairByMargin(items, p) =
        IF items = <<>> \/ pool = <<>> \/ s = <<>> THEN <<>> ELSE Cut(paired, p.most)
  BY DEF PairByMargin
<1>2. pool \in Seq(S) /\ s \in Seq(S) /\ OneEach(s)
  BY PoolFacts
<1>3. CASE items = <<>> \/ pool = <<>> \/ s = <<>>
  BY <1>1, <1>3, NoPairsSound
<1>4. CASE ~ (items = <<>> \/ pool = <<>> \/ s = <<>>)
  <2>1. FoundAll(paired, Range(pool), Range(s), Target(pool, p), S, p, Bounds(p))
    <3> HIDE DEF pool, s
    <3>. QED  BY <1>2, <1>4, GenerateFinds
  <2> HIDE DEF paired
  <2>2. Sound(Cut(paired, p.most), items, p)
    BY <1>2, <1>4, <2>1, CutSound
  <2>. QED  BY <1>1, <1>4, <2>2
<1>. QED  BY <1>3, <1>4

(* The items a caller brings. *)
LEMMA ItemsFacts ==
  ASSUME NEW facts \in SUBSET (1..Trained), NEW scores \in [facts -> Scored], Trained \in Nat
  PROVE  \E S : ById(S) /\ ItemsOf(scores) \in Seq(S) /\ OneEach(ItemsOf(scores))
<1> DEFINE S == {Item(f, scores[f]) : f \in facts}
           s == InOrder(DOMAIN scores, Trained)
           items == [i \in DOMAIN s |-> Item(s[i], scores[s[i]])]
<1>1. s \in Seq(1..Trained) /\ OneEach(s) /\ Range(s) = facts
  <2>1. DOMAIN scores = facts /\ (1..Trained) \cap facts = facts
    OBVIOUS
  <2>. QED  BY <2>1, InOrderFacts
<1>2. items = ItemsOf(scores)
  BY DEF ItemsOf
<1>3. ById(S)
  BY DEF ById, Item
<1> HIDE DEF s
<1>4. \A i \in DOMAIN s : s[i] \in facts
  BY <1>1 DEF Range
<1>5. items \in Seq(S)
  <2>1. DOMAIN s = 1..Len(s) /\ Len(s) \in Nat
    BY <1>1
  <2>. QED  BY <1>4, <2>1
<1>6. OneEach(items)
  <2>1. \A i \in DOMAIN s : items[i].id = s[i]
    BY DEF Item
  <2>2. DOMAIN items = DOMAIN s
    OBVIOUS
  <2>. QED  BY <1>1, <2>1, <2>2 DEF OneEach
<1>. QED  BY <1>2, <1>3, <1>5, <1>6

LEMMA TrainStep ==
  ASSUME PairsAreSound, [LearnNext]_learnVars
  PROVE  PairsAreSound'
<1> USE LearningConstants
<1>1. ASSUME NEW facts \in SUBSET (1..Trained), NEW scores \in [facts -> Scored],
             NEW how \in Parameters, PairMargin(ItemsOf(scores), how)
      PROVE  PairsAreSound'
  <2>1. PICK items : items = ItemsOf(scores)
    OBVIOUS
  <2>2. PICK S : ById(S) /\ items \in Seq(S) /\ OneEach(items)
    BY <2>1, ItemsFacts
  <2>3. Terms(how)
    BY <1>1 DEF PairMargin, Terms
  <2>4. Sound(PairByMargin(items, how), items, how)
    BY <2>2, <2>3, MarginSound
  <2>5. /\ trainer'.items = items /\ trainer'.how = how
        /\ trainer'.pairs = PairByMargin(items, how)
    BY <1>1, <2>1 DEF PairMargin, Call
  <2>. QED  BY <2>4, <2>5 DEF PairsAreSound, Sound
<1>2. ASSUME NEW items, NEW high, NEW low, NEW most, PairThreshold(items, high, low, most)
      PROVE  PairsAreSound'
  BY <1>2 DEF PairThreshold, Call, PairsAreSound
<1>3. CASE Train
  BY <1>1, <1>2, <1>3 DEF Train
<1>4. CASE Return
  BY <1>4 DEF Return, Resting, PairsAreSound
<1>5. CASE UNCHANGED trainer
  BY <1>5 DEF PairsAreSound
<1>. QED  BY <1>3, <1>4, <1>5 DEF LearnNext, learnVars

(* Whatever the list and whatever the caller's parameters, the pairs of pair_by_margin
   keep the margin and a bound on length, use no rejected item twice (nor, if the
   caller says so, a chosen one), and fall short of the target only when nothing that
   is free fits: the turn round the chosen pool misses no place, and each pass starts
   from all that the ones before it left. *)
THEOREM PairsHold == LearnSpec => []PairsAreSound
<1>1. LearnInit => PairsAreSound
  BY DEF LearnInit, Resting, PairsAreSound
<1>. QED  BY <1>1, TrainStep, PTL DEF LearnSpec
=============================================================================
