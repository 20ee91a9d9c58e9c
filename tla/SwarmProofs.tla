------------------------------ MODULE SwarmProofs ------------------------------
(***************************************************************************)
(* The hub's tables and its registry, for any number of agents, any pool,  *)
(* and any bounds on starts, requests and deaths.  The proof follows the   *)
(* main thread's stack (MainInv) and, for each agent, what is on its way   *)
(* between it and the hub (Link): a registration, its handling by the poll *)
(* thread, its answer, and the message that takes it back.                 *)
(***************************************************************************)
EXTENDS Swarm, SequenceTheorems, WellFoundedInduction, TLAPS

(* Sequences -------------------------------------------------------------- *)
LEMMA LeastOf ==
  ASSUME NEW T \in SUBSET Nat, T # {}
  PROVE  \E x \in T : \A y \in T : x <= y
<1> DEFINE R == OpToRel(<, Nat)
<1>1. IsWellFoundedOn(R, Nat)
  BY NatLessThanWellFounded
<1>2. \A x, y \in Nat : y < x => <<y, x>> \in R
  BY DEF OpToRel
<1> HIDE DEF R
<1>3. \E x \in T : \A y \in T : ~ (<<y, x>> \in R)
  BY <1>1, WFMin
<1>4. PICK x \in T : \A y \in T : ~ (<<y, x>> \in R) BY <1>3
<1>5. \A y \in T : x \in Nat /\ y \in Nat OBVIOUS
<1>6. \A y \in T : ~(y < x) BY <1>2, <1>4, <1>5
<1> QED BY <1>5, <1>6

(* A stack without its top. *)
LEMMA FrontFacts ==
  ASSUME NEW S, NEW s \in Seq(S), s # <<>>
  PROVE  /\ Len(s) \in DOMAIN s /\ Last(s) = s[Len(s)] /\ Last(s) \in S
         /\ Front(s) \in Seq(S) /\ DOMAIN Front(s) = 1..(Len(s) - 1)
         /\ \A i \in DOMAIN Front(s) : Front(s)[i] = s[i]
<1>1. Len(s) \in Nat /\ Len(s) # 0 /\ DOMAIN s = 1..Len(s) OBVIOUS
<1>2. /\ SubSeq(s, 1, Len(s) - 1) \in Seq(S) /\ Len(SubSeq(s, 1, Len(s) - 1)) = Len(s) - 1
      /\ \A i \in 1..(Len(s) - 1) : SubSeq(s, 1, Len(s) - 1)[i] = s[i]
  BY <1>1, SubSeqProperties
<1>3. DOMAIN SubSeq(s, 1, Len(s) - 1) = 1..(Len(s) - 1)
  BY <1>2
<1> QED BY <1>1, <1>2, <1>3 DEF Front, Last

(* A queue without its first message. *)
LEMMA TailFacts ==
  ASSUME NEW S, NEW s \in Seq(S), s # <<>>
  PROVE  /\ 1 \in DOMAIN s /\ Head(s) = s[1] /\ Head(s) \in S /\ Tail(s) \in Seq(S)
         /\ \A i \in DOMAIN Tail(s) : i \in Nat /\ i + 1 \in DOMAIN s /\ Tail(s)[i] = s[i + 1]
         /\ Tail(s) # <<>> => Last(Tail(s)) = Last(s)
         /\ Tail(s) = <<>> => Last(s) = Head(s)
<1>1. /\ 1 \in DOMAIN s /\ Head(s) = s[1] /\ Head(s) \in S /\ Tail(s) \in Seq(S)
      /\ Len(Tail(s)) = Len(s) - 1 /\ Len(s) \in Nat
      /\ \A i \in 1..Len(Tail(s)) : Tail(s)[i] = s[i + 1]
  OBVIOUS
<1>2. \A i \in DOMAIN Tail(s) : i \in Nat /\ i + 1 \in DOMAIN s /\ Tail(s)[i] = s[i + 1] BY <1>1
<1>3. ASSUME Tail(s) # <<>> PROVE Last(Tail(s)) = Last(s)
  <2>1. Len(s) - 1 \in 1..Len(Tail(s)) BY <1>1, <1>3
  <2>2. Tail(s)[Len(s) - 1] = s[Len(s) - 1 + 1] BY <1>1, <2>1
  <2>3. Len(s) - 1 + 1 = Len(s) BY <1>1
  <2> QED BY <1>1, <2>2, <2>3 DEF Last
<1>4. ASSUME Tail(s) = <<>> PROVE Last(s) = Head(s)
  <2>2. ASSUME NEW t, t = <<>> PROVE Len(t) = 0 BY <2>2
  <2>3. Len(Tail(s)) = 0 BY <1>4, <2>2
  <2> DEFINE l == Len(Tail(s))
             n == Len(s)
  <2>4. l = 0 /\ l = n - 1 /\ n \in Nat BY <1>1, <2>3
  <2> HIDE DEF l, n
  <2>5. n = 1 BY <2>4
  <2>1. Len(s) = 1 BY <2>5 DEF n
  <2> QED BY <1>1, <2>1 DEF Last
<1> QED BY <1>1, <1>2, <1>3, <1>4

LEMMA AppendFacts ==
  ASSUME NEW S, NEW s \in Seq(S), NEW x \in S
  PROVE  /\ Append(s, x) \in Seq(S) /\ Append(s, x) # <<>> /\ Last(Append(s, x)) = x
         /\ DOMAIN Append(s, x) = (DOMAIN s) \cup {Len(s) + 1}
         /\ Len(s) \in Nat /\ DOMAIN s = 1..Len(s) /\ Append(s, x)[Len(s) + 1] = x
         /\ \A i \in DOMAIN s : Append(s, x)[i] = s[i] /\ i < Len(s) + 1
BY DEF Last

(* A queue without one of its messages. *)
LEMMA RemoveFacts ==
  ASSUME NEW S, NEW s \in Seq(S), NEW i \in DOMAIN s
  PROVE  /\ RemoveAt(s, i) \in Seq(S)
         /\ \A j \in DOMAIN RemoveAt(s, i) : \E k \in DOMAIN s : RemoveAt(s, i)[j] = s[k]
<1> DEFINE p == SubSeq(s, 1, i - 1)
           q == SubSeq(s, i + 1, Len(s))
<1>1. Len(s) \in Nat /\ i \in 1..Len(s) /\ DOMAIN s = 1..Len(s) OBVIOUS
<1>2. /\ p \in Seq(S) /\ Len(p) = i - 1 /\ \A j \in 1..(i - 1) : p[j] = s[j]
  BY <1>1, SubSeqProperties
<1>3. /\ q \in Seq(S) /\ Len(q) = Len(s) - i
      /\ \A j \in 1..(Len(s) - i) : q[j] = s[i + j]
  BY <1>1, SubSeqProperties
<1>4. RemoveAt(s, i) = p \o q BY DEF RemoveAt
<1> HIDE DEF p, q
<1>5. p \o q \in Seq(S) /\ Len(p \o q) = Len(p) + Len(q)
      /\ \A j \in 1..(Len(p) + Len(q)) : (p \o q)[j] = IF j <= Len(p) THEN p[j] ELSE q[j - Len(p)]
  BY <1>2, <1>3, ConcatProperties
<1>6. ASSUME NEW j \in 1..(Len(s) - 1) PROVE \E k \in DOMAIN s : (p \o q)[j] = s[k]
  <2>1. CASE j <= i - 1
    <3>1. (p \o q)[j] = p[j] /\ j \in 1..(i - 1) BY <1>1, <1>2, <1>3, <1>5, <2>1
    <3> QED BY <1>1, <1>2, <3>1
  <2>2. CASE ~(j <= i - 1)
    <3>1. (p \o q)[j] = q[j - (i - 1)] /\ j - (i - 1) \in 1..(Len(s) - i)
      BY <1>1, <1>2, <1>3, <1>5, <2>2
    <3>2. q[j - (i - 1)] = s[i + (j - (i - 1))] /\ i + (j - (i - 1)) \in DOMAIN s
      BY <1>1, <1>3, <3>1
    <3> QED BY <3>1, <3>2
  <2> QED BY <2>1, <2>2
<1>8. Len(p \o q) = Len(s) - 1 BY <1>1, <1>2, <1>3, <1>5
<1>9. ASSUME NEW t \in Seq(S) PROVE DOMAIN t = 1..Len(t) OBVIOUS
<1>7. DOMAIN (p \o q) = 1..(Len(s) - 1) BY <1>5, <1>8, <1>9
<1> QED BY <1>4, <1>5, <1>6, <1>7

(* Some messages of a queue. *)
LEMMA AmongFacts ==
  ASSUME NEW S, NEW q \in Seq(S), NEW R
  PROVE  Among(q, R) \in Seq(S \cap R)
<1> DEFINE n == Len(q)
           Good(s) == s \in Seq(S \cap R)
           next(s, i) == IF q[i] \in R THEN Append(s, q[i]) ELSE s
           F(f) == [i \in 0..n |-> IF i = 0 THEN <<>> ELSE next(f[i - 1], i)]
           T == {m \in 0..n : \E g : g = [i \in 0..m |-> IF i = 0 THEN <<>> ELSE next(g[i - 1], i)]}
           c == CHOOSE f : f = F(f)
<1>1. n \in Nat /\ \A i \in 1..n : q[i] \in S OBVIOUS
<1> HIDE DEF n
<1>2. \A s, i : Good(s) /\ i \in 1..n => Good(next(s, i))
  <2> SUFFICES ASSUME NEW s, NEW i \in 1..n, Good(s), q[i] \in R PROVE Good(Append(s, q[i]))
    OBVIOUS
  <2>1. q[i] \in S \cap R BY <1>1
  <2> QED BY <2>1, AppendFacts
<1> HIDE DEF next
<1>3. 0 \in T
  <2> DEFINE g == [i \in 0..0 |-> <<>>]
  <2>1. g = [i \in 0..0 |-> IF i = 0 THEN <<>> ELSE next(g[i - 1], i)]
    OBVIOUS
  <2> HIDE DEF g
  <2>2. \E f : f = [i \in 0..0 |-> IF i = 0 THEN <<>> ELSE next(f[i - 1], i)] BY <2>1
  <2> QED BY <1>1, <2>2
<1>4. ASSUME NEW m \in T, m < n PROVE m + 1 \in T
  <2>1. PICK g : g = [i \in 0..m |-> IF i = 0 THEN <<>> ELSE next(g[i - 1], i)] OBVIOUS
  <2>2. m \in Nat /\ m + 1 \in 0..n BY <1>1, <1>4
  <2> DEFINE h == [i \in 0..(m + 1) |-> IF i = m + 1 THEN next(g[m], m + 1) ELSE g[i]]
             k == [i \in 0..(m + 1) |-> IF i = 0 THEN <<>> ELSE next(h[i - 1], i)]
  <2>3. ASSUME NEW i \in 0..(m + 1) PROVE h[i] = k[i]
    <3>1. CASE i = m + 1 BY <2>2, <3>1
    <3>2. CASE i # m + 1
      <4>1. i \in 0..m /\ h[i] = g[i] BY <2>2, <3>2
      <4>2. g[i] = IF i = 0 THEN <<>> ELSE next(g[i - 1], i) BY <2>1, <4>1
      <4>3. i # 0 => h[i - 1] = g[i - 1] BY <2>2, <4>1
      <4> QED BY <4>1, <4>2, <4>3
    <3> QED BY <3>1, <3>2
  <2>4. h = k BY <2>3
  <2>5. \E x : x = [i \in 0..(m + 1) |-> IF i = 0 THEN <<>> ELSE next(x[i - 1], i)] BY <2>4
  <2> QED BY <2>2, <2>5
<1>5. n \in T
  <2> HIDE DEF T
  <2> DEFINE B == (0..n) \ T
  <2>1. SUFFICES ASSUME n \notin T PROVE FALSE OBVIOUS
  <2>2. B \in SUBSET Nat /\ B # {} BY <1>1, <2>1
  <2>3. PICK m \in B : \A k \in B : m <= k
    <3> HIDE DEF B
    <3> QED BY <2>2, LeastOf
  <2>4. m \in 1..n /\ m - 1 \in 0..n /\ m - 1 \notin B BY <1>1, <1>3, <2>3
  <2>5. m - 1 \in T BY <2>4
  <2>6. m - 1 < n BY <1>1, <2>4
  <2>7. (m - 1) + 1 \in T BY <2>5, <2>6, <1>4
  <2>8. (m - 1) + 1 = m BY <2>4
  <2> QED BY <2>3, <2>7, <2>8
<1>6. PICK g : g = F(g) BY <1>5
<1>7. c = F(c)
  <2> HIDE DEF F
  <2> QED BY <1>6
<1>8. Among(q, R) = c[n] BY DEF Among, n, next
<1> HIDE DEF c, Good
<1>9. /\ c[0] = <<>> /\ \A i \in 1..n : c[i] = next(c[i - 1], i)
  BY <1>1, <1>7
<1>10. Good(<<>>) BY DEF Good
<1> DEFINE Bad == {i \in 0..n : ~Good(c[i])}
<1>11. Bad = {}
  <2>1. SUFFICES ASSUME Bad # {} PROVE FALSE OBVIOUS
  <2>2. Bad \in SUBSET Nat OBVIOUS
  <2>3. PICK m \in Bad : \A k \in Bad : m <= k BY <2>1, <2>2, LeastOf
  <2>4. m \in 1..n /\ m - 1 \in 0..n /\ m - 1 \notin Bad BY <1>1, <1>9, <1>10, <2>3
  <2>5. Good(c[m - 1]) /\ c[m] = next(c[m - 1], m) BY <1>9, <2>4
  <2> QED BY <1>2, <2>3, <2>4, <2>5
<1>12. Good(c[n]) BY <1>1, <1>11
<1> QED BY <1>8, <1>12 DEF Good

LEMMA RequestsFacts ==
  ASSUME NEW S, NEW q \in Seq(S)
  PROVE  /\ Requests(q) \in Seq(S)
         /\ \A j \in DOMAIN Requests(q) : Requests(q)[j].type = "ask"
<1>1. Requests(q) \in Seq(S \cap {m \in Range(q) : m.type = "ask"})
  BY AmongFacts DEF Requests
<1> QED BY <1>1

LEMMA WithoutFacts ==
  ASSUME NEW S, NEW q \in Seq(S), NEW id
  PROVE  Without(q, id) \in Seq(S)
<1>1. Without(q, id) \in Seq(S \cap {m \in Range(q) : m.id # id})
  BY AmongFacts DEF Without
<1> QED BY <1>1

(* The main thread --------------------------------------------------------- *)
Ops == {"start", "ask", "stop", "shutdown"}
Steps == {"run", "wait", "join", "unregister", "announce", "agents"}
Frames == [op : Ops, step : Steps, name : Agents \cup {NoAgent}, id : Nat, left : SUBSET Agents]

(* Frames at which an agent's channel and runner may disagree. *)
Finishing(a) ==
  \E i \in DOMAIN main : main[i].step \in {"run", "join"} /\ main[i].name = a

(* What holds of the tables however deep the main thread's calls are nested. *)
MainInv ==
  /\ main \in Seq(Frames) /\ channels \subseteq Agents /\ todo \subseteq Agents
  /\ runners \subseteq channels /\ todo \cap runners = {}
  /\ \A a \in channels \ runners : Finishing(a)
  /\ \A i \in DOMAIN main :
       /\ main[i].op = "stop" => main[i].name \notin runners
       /\ main[i].op = "start" => /\ Len(main) = 1 /\ main[i].name \in channels \ runners
                                  /\ main[i].name \notin todo

MainVars == <<main, runners, channels, todo>>

LEMMA FrameFacts ==
  ASSUME NEW op \in Ops, NEW step \in Steps, NEW name \in Agents \cup {NoAgent}, NEW id \in Nat,
         NEW left \in SUBSET Agents
  PROVE  /\ Frame(op, step, name, id, left) \in Frames
         /\ Frame(op, step, name, id, left).op = op /\ Frame(op, step, name, id, left).step = step
         /\ Frame(op, step, name, id, left).name = name
BY DEF Frame, Frames

(* The frame at work. *)
LEMMA TopFacts ==
  ASSUME main \in Seq(Frames), main # <<>>
  PROVE  /\ Len(main) \in DOMAIN main /\ Top = main[Len(main)] /\ Top \in Frames
         /\ Len(main) \in Nat /\ DOMAIN main = 1..Len(main)
<1>1. Len(main) \in DOMAIN main /\ Top = main[Len(main)] /\ Top \in Frames
  BY FrontFacts DEF Top
<1> QED BY <1>1

LEMMA PopFacts ==
  ASSUME main \in Seq(Frames), main # <<>>, Pop
  PROVE  /\ main' \in Seq(Frames) /\ DOMAIN main' = 1..(Len(main) - 1)
         /\ \A i \in DOMAIN main' : i \in DOMAIN main /\ main'[i] = main[i]
         /\ \A i \in DOMAIN main : i # Len(main) => i \in DOMAIN main'
         /\ Len(main') <= Len(main)
<1>1. /\ main' \in Seq(Frames) /\ DOMAIN main' = 1..(Len(main) - 1)
      /\ \A i \in DOMAIN main' : main'[i] = main[i]
  BY FrontFacts DEF Pop
<1>2. Len(main) \in Nat /\ DOMAIN main = 1..Len(main) BY TopFacts
<1>3. ASSUME NEW t \in Seq(Frames) PROVE Len(t) \in Nat /\ DOMAIN t = 1..Len(t) OBVIOUS
<1>4. Len(main') \in Nat /\ DOMAIN main' = 1..Len(main') BY <1>1, <1>3
<1> DEFINE m == Len(main')
           n == Len(main)
<1> HIDE DEF m, n
<1>5. m \in Nat /\ n \in Nat /\ 1..m = 1..(n - 1) BY <1>1, <1>2, <1>4 DEF m, n
<1>6. m <= n BY <1>5
<1> QED BY <1>1, <1>2, <1>6 DEF m, n

LEMMA PushFacts ==
  ASSUME main \in Seq(Frames), NEW f \in Frames, main' = Append(main, f)
  PROVE  /\ main' \in Seq(Frames) /\ DOMAIN main' = (DOMAIN main) \cup {Len(main) + 1}
         /\ \A i \in DOMAIN main : main'[i] = main[i]
         /\ main'[Len(main) + 1] = f /\ Len(main') = Len(main) + 1 /\ Len(main) \in Nat
<1>1. \A i \in DOMAIN main : Append(main, f)[i] = main[i] BY AppendFacts
<1> QED BY <1>1, AppendFacts

(* The frame at work goes on with another step, or with fewer agents left. *)
LEMMA SetTopFacts ==
  ASSUME main \in Seq(Frames), main # <<>>, NEW f \in Frames, NEW s,
         s = [main EXCEPT ![Len(main)] = f]
  PROVE  /\ s \in Seq(Frames) /\ DOMAIN s = DOMAIN main /\ Len(s) = Len(main)
         /\ s[Len(main)] = f /\ \A i \in DOMAIN main : i # Len(main) => s[i] = main[i]
<1>1. Len(main) \in DOMAIN main /\ Len(main) \in Nat /\ DOMAIN main = 1..Len(main)
  BY TopFacts
<1>2. main \in [1..Len(main) -> Frames] BY <1>1
<1>3. s \in [1..Len(main) -> Frames] BY <1>1, <1>2
<1>5. ASSUME NEW n \in Nat, NEW t \in [1..n -> Frames] PROVE t \in Seq(Frames) /\ Len(t) = n
  OBVIOUS
<1>4. s \in Seq(Frames) /\ Len(s) = Len(main) BY <1>1, <1>3, <1>5
<1> QED BY <1>1, <1>2, <1>4

LEMMA GoToFacts ==
  ASSUME main \in Seq(Frames), main # <<>>, NEW step \in Steps, GoTo(step)
  PROVE  /\ main' \in Seq(Frames) /\ DOMAIN main' = DOMAIN main /\ Len(main') = Len(main)
         /\ \A i \in DOMAIN main : i # Len(main) => main'[i] = main[i]
         /\ \A i \in DOMAIN main : main'[i].op = main[i].op /\ main'[i].name = main[i].name
<1> DEFINE f == [main[Len(main)] EXCEPT !.step = step]
<1>1. main[Len(main)] \in Frames BY TopFacts
<1>2. f \in Frames /\ f.op = main[Len(main)].op /\ f.name = main[Len(main)].name
  BY <1>1 DEF Frames
<1>3. main' = [main EXCEPT ![Len(main)] = f] BY DEF GoTo
<1> HIDE DEF f
<1> QED BY <1>2, <1>3, SetTopFacts

LEMMA AtFacts ==
  ASSUME main \in Seq(Frames), NEW op, NEW step, At(op, step)
  PROVE  /\ main # <<>> /\ Len(main) \in DOMAIN main /\ Top = main[Len(main)] /\ Top \in Frames
         /\ main[Len(main)].op = op /\ main[Len(main)].step = step
BY TopFacts DEF At

LEMMA MainInit == Init => MainInv
<1> SUFFICES ASSUME Init PROVE MainInv
  OBVIOUS
<1>1. main = <<>> /\ channels = {} /\ runners = {} /\ todo = Injected BY DEF Init
<1> QED BY <1>1 DEF MainInv, Agents

(* The main thread's steps, by what they do with the top of the stack. *)
LEMMA StartAgentMain ==
  ASSUME MainInv, NEW a \in Agents, StartAgent(a)
  PROVE  MainInv'
<1> DEFINE f == Frame("start", "run", a, 0, {})
<1>1. /\ main = <<>> /\ a \in todo /\ todo' = todo \ {a} /\ channels' = channels \cup {a}
      /\ main' = Append(main, f) /\ runners' = runners
  BY DEF StartAgent, Push
<1>2. f \in Frames /\ f.op = "start" /\ f.step = "run" /\ f.name = a
  BY DEF Frame, Frames, Ops, Steps
<1> HIDE DEF f
<1>3. main \in Seq(Frames) BY DEF MainInv
<1>4. Len(main) = 0 /\ DOMAIN main = {} BY <1>1
<1>5. /\ main' \in Seq(Frames) /\ DOMAIN main' = (DOMAIN main) \cup {Len(main) + 1}
      /\ main'[Len(main) + 1] = f /\ Len(main') = Len(main) + 1 /\ Len(main) \in Nat
  BY <1>1, <1>2, <1>3, PushFacts
<1>6. DOMAIN main' = {1} /\ main'[1] = f /\ Len(main') = 1 BY <1>4, <1>5
<1>7. a \notin runners BY <1>1 DEF MainInv
<1>8. ASSUME NEW b \in channels' \ runners' PROVE Finishing(b)'
  <2>1. b \in channels \ runners \/ b = a BY <1>1, <1>8
  <2>2. b = a BY <1>4, <2>1 DEF MainInv, Finishing
  <2> QED BY <1>2, <1>6, <2>2 DEF Finishing
<1> QED BY <1>1, <1>2, <1>5, <1>6, <1>7, <1>8 DEF MainInv

LEMMA RunnerStartsMain ==
  ASSUME MainInv, RunnerStarts
  PROVE  MainInv'
<1> DEFINE a == Top.name
<1>1. /\ At("start", "run") /\ runners' = runners \cup {a} /\ Pop
      /\ UNCHANGED <<channels, todo>>
  BY DEF RunnerStarts
<1>2. main \in Seq(Frames) BY DEF MainInv
<1>3. /\ main # <<>> /\ Len(main) \in DOMAIN main /\ Top = main[Len(main)]
      /\ main[Len(main)].op = "start"
  BY <1>1, <1>2, AtFacts
<1>4. Len(main) = 1 /\ a \in channels \ runners /\ a \notin todo BY <1>3 DEF MainInv
<1>5. main' \in Seq(Frames) /\ DOMAIN main' = 1..(Len(main) - 1) BY <1>1, <1>2, <1>3, PopFacts
<1>6. DOMAIN main' = {} BY <1>4, <1>5
<1> HIDE DEF a
<1>7. DOMAIN main = {1} /\ main[1].name = a
  <2>1. DOMAIN main = 1..Len(main) BY <1>2, <1>3, TopFacts
  <2> QED BY <1>3, <1>4, <2>1 DEF a
<1>8. \A b \in channels \ runners : b = a BY <1>7 DEF MainInv, Finishing
<1>9. channels' \ runners' = {} BY <1>1, <1>8 DEF a
<1> QED BY <1>1, <1>4, <1>5, <1>6, <1>9 DEF MainInv, a

LEMMA RunnerRefusesMain ==
  ASSUME MainInv, RunnerRefuses
  PROVE  MainInv'
<1> DEFINE a == Top.name
<1>1. /\ At("start", "run") /\ channels' = channels \ {a} /\ Pop
      /\ UNCHANGED <<runners, todo>>
  BY DEF RunnerRefuses, DropChannel
<1>2. main \in Seq(Frames) BY DEF MainInv
<1>3. /\ main # <<>> /\ Len(main) \in DOMAIN main /\ Top = main[Len(main)]
      /\ main[Len(main)].op = "start"
  BY <1>1, <1>2, AtFacts
<1>4. Len(main) = 1 /\ a \in channels \ runners /\ a \notin todo BY <1>3 DEF MainInv
<1>5. main' \in Seq(Frames) /\ DOMAIN main' = 1..(Len(main) - 1) BY <1>1, <1>2, <1>3, PopFacts
<1>6. DOMAIN main' = {} BY <1>4, <1>5
<1>7. DOMAIN main = {1} /\ main[1].name = a
  <2>1. DOMAIN main = 1..Len(main) BY <1>2, <1>3, TopFacts
  <2> QED BY <1>3, <1>4, <2>1
<1> HIDE DEF a
<1>8. \A b \in channels \ runners : b = a BY <1>7 DEF MainInv, Finishing
<1>9. channels' \ runners' = {} BY <1>1, <1>8
<1> QED BY <1>1, <1>4, <1>5, <1>6, <1>9 DEF MainInv

(* A call that ends, having left no table as it should not be. *)
LEMMA PopMain ==
  ASSUME MainInv, main # <<>>, Pop, main[Len(main)].step \notin {"run", "join"},
         UNCHANGED <<runners, channels, todo>>
  PROVE  MainInv'
<1>1. main \in Seq(Frames) BY DEF MainInv
<1>2. /\ main' \in Seq(Frames) /\ DOMAIN main' = 1..(Len(main) - 1)
      /\ \A i \in DOMAIN main' : i \in DOMAIN main /\ main'[i] = main[i]
      /\ \A i \in DOMAIN main : i # Len(main) => i \in DOMAIN main'
  BY <1>1, PopFacts
<1>3. ASSUME NEW a \in channels \ runners PROVE Finishing(a)'
  <2>1. PICK i \in DOMAIN main : main[i].step \in {"run", "join"} /\ main[i].name = a
    BY DEF MainInv, Finishing
  <2>2. i \in DOMAIN main' /\ main'[i] = main[i] BY <1>2, <2>1
  <2> QED BY <2>1, <2>2 DEF Finishing
<1>4. ASSUME NEW i \in DOMAIN main'
      PROVE  /\ main'[i].op = "stop" => main'[i].name \notin runners
             /\ main'[i].op # "start"
  <2>1. i \in DOMAIN main /\ main'[i] = main[i] BY <1>2
  <2>2. main[i].op = "start" => Len(main) = 1 BY <2>1 DEF MainInv
  <2>3. Len(main) # 1 BY <1>2
  <2> QED BY <2>1, <2>2, <2>3 DEF MainInv
<1> QED BY <1>2, <1>3, <1>4 DEF MainInv

(* A call that begins: an ask, a stop or the shutdown. *)
LEMMA PushMain ==
  ASSUME MainInv, NEW f \in Frames, main' = Append(main, f), f.op \notin {"start"},
         \A i \in DOMAIN main : main[i].op # "start",
         runners' \subseteq runners, UNCHANGED <<channels, todo>>,
         f.op = "stop" => f.name \notin runners',
         \A a \in runners \ runners' : f.step = "join" /\ f.name = a
  PROVE  MainInv'
<1>1. main \in Seq(Frames) BY DEF MainInv
<1>2. /\ main' \in Seq(Frames) /\ DOMAIN main' = (DOMAIN main) \cup {Len(main) + 1}
      /\ \A i \in DOMAIN main : main'[i] = main[i]
      /\ main'[Len(main) + 1] = f
  BY <1>1, PushFacts
<1>3. ASSUME NEW a \in channels' \ runners' PROVE Finishing(a)'
  <2>1. CASE a \in runners BY <1>2, <1>3, <2>1 DEF Finishing
  <2>2. CASE a \notin runners
    <3>1. PICK i \in DOMAIN main : main[i].step \in {"run", "join"} /\ main[i].name = a
      BY <1>3, <2>2 DEF MainInv, Finishing
    <3> QED BY <1>2, <3>1 DEF Finishing
  <2> QED BY <2>1, <2>2
<1>4. ASSUME NEW i \in DOMAIN main'
      PROVE  main'[i].op # "start" /\ (main'[i].op = "stop" => main'[i].name \notin runners')
  BY <1>2 DEF MainInv
<1> QED BY <1>2, <1>3, <1>4 DEF MainInv

(* stop_agent: the channel goes, the registry entry, the notice. *)
LEMMA StopJoinsMain ==
  ASSUME MainInv, StopJoins
  PROVE  MainInv'
<1> DEFINE a == Top.name
           n == Len(main)
<1>1. /\ At("stop", "join") /\ channels' = channels \ {a} /\ GoTo("unregister")
      /\ UNCHANGED <<runners, todo>>
  BY DEF StopJoins, DropChannel
<1>2. main \in Seq(Frames) BY DEF MainInv
<1>3. /\ main # <<>> /\ n \in DOMAIN main /\ Top = main[n] /\ main[n].op = "stop"
  BY <1>1, <1>2, AtFacts
<1>4. a \notin runners BY <1>3 DEF MainInv
<1>5. /\ main' \in Seq(Frames) /\ DOMAIN main' = DOMAIN main /\ Len(main') = Len(main)
      /\ \A i \in DOMAIN main : i # n => main'[i] = main[i]
      /\ \A i \in DOMAIN main : main'[i].op = main[i].op /\ main'[i].name = main[i].name
  BY <1>1, <1>2, <1>3, GoToFacts DEF Steps
<1>6. main[n].name = a BY <1>3
<1> HIDE DEF a, n
<1>7. ASSUME NEW b \in channels' \ runners' PROVE Finishing(b)'
  <2>1. b \in channels \ runners /\ b # a BY <1>1, <1>7 DEF a
  <2>2. PICK i \in DOMAIN main : main[i].step \in {"run", "join"} /\ main[i].name = b
    BY <2>1 DEF MainInv, Finishing
  <2>3. i # n BY <1>6, <2>1, <2>2
  <2> QED BY <1>5, <2>2, <2>3 DEF Finishing
<1>8. ASSUME NEW i \in DOMAIN main'
      PROVE  /\ main'[i].op = "stop" => main'[i].name \notin runners'
             /\ main'[i].op # "start"
  <2>1. main[i].op = "start" => Len(main) = 1 BY <1>5, <1>8 DEF MainInv
  <2>2. DOMAIN main = 1..Len(main) BY <1>2, <1>3, TopFacts
  <2>3. main[i].op = "start" => i = n BY <1>3, <1>5, <1>8, <2>1, <2>2 DEF n
  <2> QED BY <1>1, <1>3, <1>5, <1>8, <2>3 DEF MainInv
<1> QED BY <1>1, <1>4, <1>5, <1>7, <1>8 DEF MainInv, a

LEMMA StopUnregistersMain ==
  ASSUME MainInv, StopUnregisters
  PROVE  MainInv'
<1> DEFINE n == Len(main)
<1>1. At("stop", "unregister") /\ UNCHANGED <<runners, channels, todo>> /\ (GoTo("announce") \/ Pop)
  BY DEF StopUnregisters
<1>2. main \in Seq(Frames) BY DEF MainInv
<1>3. /\ main # <<>> /\ n \in DOMAIN main /\ main[n].op = "stop" /\ main[n].step = "unregister"
  BY <1>1, <1>2, AtFacts
<1>4. CASE Pop BY <1>1, <1>3, <1>4, PopMain
<1>5. CASE GoTo("announce")
  <2>1. /\ main' \in Seq(Frames) /\ DOMAIN main' = DOMAIN main /\ Len(main') = Len(main)
        /\ \A i \in DOMAIN main : i # n => main'[i] = main[i]
        /\ \A i \in DOMAIN main : main'[i].op = main[i].op /\ main'[i].name = main[i].name
    BY <1>2, <1>3, <1>5, GoToFacts DEF Steps
  <2> HIDE DEF n
  <2>2. ASSUME NEW b \in channels \ runners PROVE Finishing(b)'
    <3>1. PICK i \in DOMAIN main : main[i].step \in {"run", "join"} /\ main[i].name = b
      BY DEF MainInv, Finishing
    <3>2. i # n BY <1>3, <3>1
    <3> QED BY <2>1, <3>1, <3>2 DEF Finishing
  <2> QED BY <1>1, <2>1, <2>2 DEF MainInv
<1> QED BY <1>1, <1>4, <1>5

LEMMA StopMain ==
  ASSUME MainInv, NEW a \in Agents, Stop(a)
  PROVE  MainInv'
<1> DEFINE f == Frame("stop", "join", a, 0, {})
<1>1. /\ main = <<>> /\ runners' = runners \ {a} /\ main' = Append(main, f)
      /\ UNCHANGED <<channels, todo>>
  BY DEF Stop, StopRunner, Push, Serving
<1>2. f \in Frames /\ f.op = "stop" /\ f.step = "join" /\ f.name = a BY DEF Frame, Frames, Ops, Steps
<1> HIDE DEF f
<1>3. \A i \in DOMAIN main : main[i].op # "start" BY <1>1
<1> QED BY <1>1, <1>2, <1>3, PushMain

LEMMA AskMain ==
  ASSUME MainInv, ids \in Nat, NEW a \in Agents, Ask(a)
  PROVE  MainInv'
<1> DEFINE f == Frame("ask", "wait", a, ids + 1, {})
<1>1. /\ main = <<>> /\ main' = Append(main, f) /\ UNCHANGED <<runners, channels, todo>>
  BY DEF Ask, hub, Push, Serving
<1>2. f \in Frames /\ f.op = "ask" BY DEF Frame, Frames, Ops, Steps
<1> HIDE DEF f
<1>3. \A i \in DOMAIN main : main[i].op # "start" BY <1>1
<1> QED BY <1>1, <1>2, <1>3, PushMain

(* The shutdown, on top of an ask or a stop. *)
NotStarting == \A i \in DOMAIN main : main[i].op # "start"

LEMMA TopNotStarting ==
  ASSUME MainInv, main # <<>> => main[Len(main)].op # "start"
  PROVE  NotStarting
<1>1. ASSUME NEW i \in DOMAIN main, main[i].op = "start" PROVE FALSE
  <2>1. main \in Seq(Frames) /\ Len(main) = 1 BY <1>1 DEF MainInv
  <2>2. main # <<>> BY <1>1
  <2>3. DOMAIN main = 1..Len(main) BY <2>1
  <2>4. i = Len(main) BY <1>1, <2>1, <2>3
  <2> QED BY <1>1, <2>2, <2>4
<1> QED BY <1>1 DEF NotStarting

LEMMA SignalMain ==
  ASSUME MainInv, Signal
  PROVE  MainInv'
<1> DEFINE f == Frame("shutdown", "agents", NoAgent, 0, runners)
<1>1. /\ main # <<>> => Top.op # "start"
      /\ main' = Append(main, f) /\ UNCHANGED <<runners, channels, todo>>
  BY DEF Signal, Push, hub
<1>2. main \in Seq(Frames) /\ runners \subseteq Agents BY DEF MainInv
<1>3. f \in Frames /\ f.op = "shutdown" BY <1>2 DEF Frame, Frames, Ops, Steps
<1> HIDE DEF f
<1>4. main # <<>> => main[Len(main)].op # "start" BY <1>1, <1>2, TopFacts
<1> QED BY <1>1, <1>3, <1>4, TopNotStarting, PushMain DEF NotStarting

LEMMA ShutdownStopsMain ==
  ASSUME MainInv, ShutdownStops
  PROVE  MainInv'
<1>1. PICK a \in Top.left :
        /\ runners' = runners \ {a}
        /\ main' = Append([main EXCEPT ![Len(main)].left = @ \ {a}], Frame("stop", "join", a, 0, {}))
  BY DEF ShutdownStops, StopRunner
<1>2. At("shutdown", "agents") /\ UNCHANGED <<channels, todo>> BY DEF ShutdownStops
<1>3. main \in Seq(Frames) BY DEF MainInv
<1> DEFINE n == Len(main)
           g == [main[n] EXCEPT !.left = @ \ {a}]
           s == [main EXCEPT ![n] = g]
           f == Frame("stop", "join", a, 0, {})
<1>4. /\ main # <<>> /\ n \in DOMAIN main /\ Top = main[n] /\ Top \in Frames
      /\ main[n].op = "shutdown" /\ main[n].step = "agents"
  BY <1>2, <1>3, AtFacts
<1>5. a \in Agents BY <1>1, <1>4 DEF Frames
<1>6. f \in Frames /\ f.op = "stop" /\ f.step = "join" /\ f.name = a BY <1>5 DEF Frame, Frames, Ops, Steps
<1>7. g \in Frames /\ g.op = "shutdown" /\ g.step = "agents" BY <1>4 DEF Frames
<1>8. main' = Append(s, f) BY <1>1
<1> HIDE DEF f, g
<1>9. /\ s \in Seq(Frames) /\ DOMAIN s = DOMAIN main /\ Len(s) = n
      /\ s[n] = g /\ \A i \in DOMAIN main : i # n => s[i] = main[i]
  BY <1>3, <1>4, <1>7, SetTopFacts
<1> HIDE DEF s
<1>10. /\ main' \in Seq(Frames) /\ DOMAIN main' = (DOMAIN main) \cup {n + 1}
       /\ main'[n + 1] = f /\ \A i \in DOMAIN main : main'[i] = s[i]
  <2>1. /\ Append(s, f) \in Seq(Frames) /\ DOMAIN Append(s, f) = (DOMAIN s) \cup {Len(s) + 1}
        /\ Append(s, f)[Len(s) + 1] = f /\ \A i \in DOMAIN s : Append(s, f)[i] = s[i]
    BY <1>6, <1>9, AppendFacts
  <2> QED BY <1>8, <1>9, <2>1
<1>11. NotStarting BY <1>4, TopNotStarting
<1> HIDE DEF n
<1>12. ASSUME NEW b \in channels' \ runners' PROVE Finishing(b)'
  <2>1. CASE b = a BY <1>6, <1>10, <2>1 DEF Finishing
  <2>2. CASE b # a
    <3>1. b \in channels \ runners BY <1>1, <1>2, <1>12, <2>2
    <3>2. PICK i \in DOMAIN main : main[i].step \in {"run", "join"} /\ main[i].name = b
      BY <3>1 DEF MainInv, Finishing
    <3>3. i # n BY <1>4, <3>2
    <3> QED BY <1>9, <1>10, <3>2, <3>3 DEF Finishing
  <2> QED BY <2>1, <2>2
<1>13. ASSUME NEW i \in DOMAIN main'
       PROVE  main'[i].op # "start" /\ (main'[i].op = "stop" => main'[i].name \notin runners')
  <2>1. CASE i = n + 1 BY <1>1, <1>6, <1>10, <2>1
  <2>2. CASE i = n BY <1>4, <1>7, <1>9, <1>10, <2>2
  <2>3. CASE i # n /\ i # n + 1
    <3>1. i \in DOMAIN main /\ main'[i] = main[i] BY <1>9, <1>10, <1>13, <2>3
    <3> QED BY <1>1, <1>11, <3>1 DEF MainInv, NotStarting
  <2> QED BY <2>1, <2>2, <2>3
<1> QED BY <1>1, <1>2, <1>10, <1>12, <1>13 DEF MainInv

LEMMA MainStepKeeps ==
  ASSUME MainInv, ids \in Nat, [Next]_vars
  PROVE  MainInv'
<1>1. CASE UNCHANGED MainVars BY <1>1 DEF MainVars, MainInv, Finishing
<1>2. CASE MainStep
  <2>1. ASSUME NEW a \in Agents, StartAgent(a) PROVE MainInv' BY <2>1, StartAgentMain
  <2>2. CASE RunnerStarts BY <2>2, RunnerStartsMain
  <2>3. CASE AskAnswered
    <3>1. At("ask", "wait") /\ Pop /\ UNCHANGED <<runners, channels, todo>> BY <2>3 DEF AskAnswered
    <3>2. main # <<>> /\ main[Len(main)].step = "wait" BY <3>1, AtFacts DEF MainInv
    <3> QED BY <3>1, <3>2, PopMain
  <2>4. CASE StopJoins BY <2>4, StopJoinsMain
  <2>5. CASE StopUnregisters BY <2>5, StopUnregistersMain
  <2>6. CASE StopAnnounces
    <3>1. At("stop", "announce") /\ Pop /\ UNCHANGED <<runners, channels, todo>>
      BY <2>6 DEF StopAnnounces, hub
    <3>2. main # <<>> /\ main[Len(main)].step = "announce" BY <3>1, AtFacts DEF MainInv
    <3> QED BY <3>1, <3>2, PopMain
  <2>7. CASE ShutdownStops BY <2>7, ShutdownStopsMain
  <2>8. CASE ShutdownClosesBus
    <3>1. At("shutdown", "agents") /\ Pop /\ UNCHANGED <<runners, channels, todo>>
      BY <2>8 DEF ShutdownClosesBus
    <3>2. main # <<>> /\ main[Len(main)].step = "agents" BY <3>1, AtFacts DEF MainInv
    <3> QED BY <3>1, <3>2, PopMain
  <2> QED BY <1>2, <2>1, <2>2, <2>3, <2>4, <2>5, <2>6, <2>7, <2>8 DEF MainStep
<1>3. CASE PollGoesOn
  BY <1>1, <1>3 DEF PollGoesOn, PollRegisters, PollTells, MainVars, mainVars, hub
<1>4. CASE PoolStep
  BY <1>1, <1>4 DEF PoolStep, RelayStarts, RelayAnswered, RelayClosed, RelayEndsWithout, MainVars, mainVars
<1>5. ASSUME NEW a \in Agents, PollStep(a) PROVE MainInv'
  BY <1>1, <1>5 DEF PollStep, PollLooksUp, PollUnregisters, PollRelays, PollDelivers, PollIgnores,
                    MainVars, mainVars, hub
<1>6. ASSUME NEW a \in Agents, AgentStep(a) PROVE MainInv'
  BY <1>1, <1>6 DEF AgentStep, RunBegins, IsRegistered, LeavesLoop, Disconnects, IsUnregistered,
                    Disconnected, TakesRequest, SendsAnswer, RelayReturns, MainVars, mainVars, hub
<1>7. CASE Environment
  <2>1. CASE RunnerRefuses BY <2>1, RunnerRefusesMain
  <2>2. CASE AskFails
    <3>1. At("ask", "wait") /\ Pop /\ UNCHANGED <<runners, channels, todo>> BY <2>2 DEF AskFails
    <3>2. main # <<>> /\ main[Len(main)].step = "wait" BY <3>1, AtFacts DEF MainInv
    <3> QED BY <3>1, <3>2, PopMain
  <2>3. CASE RelayTimesOut
    BY <1>1, <2>3 DEF RelayTimesOut, RelayEndsWithout, MainVars, mainVars
  <2>4. CASE Signal BY <2>4, SignalMain
  <2>5. ASSUME NEW a \in Agents, Ask(a) PROVE MainInv' BY <2>5, AskMain
  <2>6. ASSUME NEW a \in Agents, Stop(a) PROVE MainInv' BY <2>6, StopMain
  <2>7. ASSUME NEW a \in Agents, Dies(a) \/ Restarts(a) \/ OwnerStops(a) \/ TimesOut(a) PROVE MainInv'
    BY <1>1, <2>7 DEF Dies, Restarts, OwnerStops, TimesOut, RegistrationTimesOut, Disconnects,
                      UnregisterTimesOut, Disconnected, RelayGivesUp, MainVars, mainVars, hub
  <2>8. ASSUME NEW a \in Agents, NEW b, Relays(a, b) PROVE MainInv'
    BY <1>1, <2>8 DEF Relays, MainVars, mainVars, hub
  <2> QED BY <1>7, <2>1, <2>2, <2>3, <2>4, <2>5, <2>6, <2>7, <2>8 DEF Environment
<1>8. CASE UNCHANGED vars BY <1>1, <1>8 DEF vars, MainVars, mainVars, hub
<1> QED BY <1>2, <1>3, <1>4, <1>5, <1>6, <1>7, <1>8 DEF Next

(* Messages ----------------------------------------------------------------- *)
Msgs == [type : Types, id : Nat, to : Agents \cup {NoAgent}]
Tasks == [id : Nat, from : Agents, to : Agents \cup {NoAgent}, at : {"queued", "waiting"}]
Polls ==
  [at : {"idle", "merge", "tell"}, agent : Agents \cup {NoAgent}, life : Nat, isNew : BOOLEAN,
   tell : {"", "joined", "left"}, reply : {"", "registered", "unregistered"}]
Places ==
  {"off", "ended", "failed", "killed", "setup", "registering", "loop", "handling", "relaying",
   "leaving", "failing"}

Typed ==
  /\ bus \in BOOLEAN /\ entries \in [Agents -> {"none", "injected", "external"}]
  /\ tasks \in Seq(Tasks) /\ poll \in Polls /\ ids \in Nat
  /\ toHub \in [Agents -> Seq(Msgs)] /\ toAgent \in [Agents -> Seq(Msgs)]
  /\ pc \in [Agents -> Places] /\ life \in [Agents -> Nat]
  /\ cur \in [Agents -> [ask : Nat, relay : Nat]]

(* No answer to a registration comes in. *)
Kept(b) ==
  \A j \in DOMAIN toAgent'[b] :
    toAgent'[b][j].type = "registered" => \E i \in DOMAIN toAgent[b] : toAgent[b][i] = toAgent'[b][j]

LEMMA MsgFacts ==
  ASSUME NEW type \in Types, NEW id \in Nat, NEW to \in Agents \cup {NoAgent}
  PROVE  /\ Msg(type, id, to) \in Msgs /\ Msg(type, id, to).type = type /\ Msg(type, id, to).id = id
BY DEF Msg, Msgs

(* A queue that grows, or that another takes the place of. *)
LEMMA QueueFacts ==
  ASSUME NEW f \in [Agents -> Seq(Msgs)], NEW a, NEW q \in Seq(Msgs), NEW g,
         g = [f EXCEPT ![a] = q]
  PROVE  /\ g \in [Agents -> Seq(Msgs)] /\ a \in Agents => g[a] = q
         /\ \A b \in Agents : b # a => g[b] = f[b]
OBVIOUS

LEMMA PostFacts ==
  ASSUME toAgent \in [Agents -> Seq(Msgs)], NEW a, NEW m \in Msgs, Post(a, m)
  PROVE  /\ toAgent' \in [Agents -> Seq(Msgs)]
         /\ \A b \in Agents : b # a => toAgent'[b] = toAgent[b]
         /\ \A b \in Agents : \A j \in DOMAIN toAgent'[b] :
              \/ toAgent'[b][j] = m
              \/ \E i \in DOMAIN toAgent[b] : toAgent[b][i] = toAgent'[b][j]
<1>1. CASE toAgent' = toAgent BY <1>1
<1>2. CASE toAgent' # toAgent
  <2> DEFINE q == Append(toAgent[a], m)
  <2>1. toAgent' = [toAgent EXCEPT ![a] = q] BY <1>2 DEF Post
  <2>2. a \in Agents BY <1>2, <2>1
  <2>3. toAgent[a] \in Seq(Msgs) BY <2>2
  <2>4. /\ q \in Seq(Msgs) /\ DOMAIN q = (DOMAIN toAgent[a]) \cup {Len(toAgent[a]) + 1}
        /\ q[Len(toAgent[a]) + 1] = m /\ \A i \in DOMAIN toAgent[a] : q[i] = toAgent[a][i]
    BY <2>3, AppendFacts
  <2> HIDE DEF q
  <2>5. /\ toAgent' \in [Agents -> Seq(Msgs)] /\ toAgent'[a] = q
        /\ \A b \in Agents : b # a => toAgent'[b] = toAgent[b]
    BY <2>1, <2>2, <2>4
  <2>6. ASSUME NEW b \in Agents, NEW j \in DOMAIN toAgent'[b]
        PROVE  \/ toAgent'[b][j] = m
               \/ \E i \in DOMAIN toAgent[b] : toAgent[b][i] = toAgent'[b][j]
    <3>1. CASE b = a BY <2>4, <2>5, <2>6, <3>1
    <3>2. CASE b # a BY <2>5, <2>6, <3>2
    <3> QED BY <3>1, <3>2
  <2> QED BY <2>5, <2>6
<1> QED BY <1>1, <1>2

LEMMA PostKeeps ==
  ASSUME toAgent \in [Agents -> Seq(Msgs)], NEW a, NEW m \in Msgs, m.type # "registered", Post(a, m)
  PROVE  toAgent' \in [Agents -> Seq(Msgs)] /\ \A b \in Agents : Kept(b)
BY PostFacts DEF Kept

LEMMA SendsFacts ==
  ASSUME toHub \in [Agents -> Seq(Msgs)], NEW a \in Agents, NEW m \in Msgs, Sends(a, m)
  PROVE  /\ toHub' \in [Agents -> Seq(Msgs)] /\ toHub'[a] = Append(toHub[a], m)
         /\ \A b \in Agents : b # a => toHub'[b] = toHub[b]
<1> DEFINE q == Append(toHub[a], m)
<1>1. toHub' = [toHub EXCEPT ![a] = q] BY DEF Sends
<1>2. toHub[a] \in Seq(Msgs) OBVIOUS
<1>3. q \in Seq(Msgs) BY <1>2, AppendFacts
<1> HIDE DEF q
<1>4. toHub' \in [Agents -> Seq(Msgs)] /\ toHub'[a] = q /\ \A b \in Agents : b # a => toHub'[b] = toHub[b]
  BY <1>1, <1>3
<1> QED BY <1>4 DEF q

LEMMA ReadsFacts ==
  ASSUME toHub \in [Agents -> Seq(Msgs)], NEW a \in Agents, Reads(a)
  PROVE  /\ bus /\ poll.at = "idle" /\ toHub[a] # <<>> /\ toHub[a] \in Seq(Msgs)
         /\ toHub' \in [Agents -> Seq(Msgs)] /\ toHub'[a] = Tail(toHub[a])
         /\ \A b \in Agents : b # a => toHub'[b] = toHub[b]
         /\ Head(toHub[a]) \in Msgs
<1> DEFINE q == Tail(toHub[a])
<1>1. bus /\ poll.at = "idle" /\ toHub[a] # <<>> /\ toHub' = [toHub EXCEPT ![a] = q]
  BY DEF Reads, PollFree
<1>2. toHub[a] \in Seq(Msgs) OBVIOUS
<1>3. q \in Seq(Msgs) /\ Head(toHub[a]) \in Msgs BY <1>1, <1>2, TailFacts
<1> HIDE DEF q
<1>4. toHub' \in [Agents -> Seq(Msgs)] /\ toHub'[a] = q /\ \A b \in Agents : b # a => toHub'[b] = toHub[b]
  BY <1>1, <1>3
<1> QED BY <1>1, <1>2, <1>3, <1>4 DEF q

LEMMA TakesReplyFacts ==
  ASSUME toAgent \in [Agents -> Seq(Msgs)], NEW a \in Agents, NEW type, NEW id, TakesReply(a, type, id)
  PROVE  /\ toAgent' \in [Agents -> Seq(Msgs)] /\ \A b \in Agents : Kept(b)
         /\ \E i \in DOMAIN toAgent[a] : toAgent[a][i].type = type /\ toAgent[a][i].id = id
<1>1. PICK i \in DOMAIN toAgent[a] :
        /\ toAgent[a][i].type = type /\ toAgent[a][i].id = id
        /\ toAgent' = [toAgent EXCEPT ![a] = RemoveAt(toAgent[a], i)]
  BY DEF TakesReply, Answers
<1> DEFINE q == RemoveAt(toAgent[a], i)
<1>2. toAgent[a] \in Seq(Msgs) OBVIOUS
<1>3. q \in Seq(Msgs) /\ \A j \in DOMAIN q : \E k \in DOMAIN toAgent[a] : q[j] = toAgent[a][k]
  BY <1>2, RemoveFacts
<1>4. toAgent' = [toAgent EXCEPT ![a] = q] BY <1>1
<1> HIDE DEF q
<1>5. /\ toAgent' \in [Agents -> Seq(Msgs)] /\ toAgent'[a] = q
      /\ \A b \in Agents : b # a => toAgent'[b] = toAgent[b]
  BY <1>3, <1>4
<1>6. ASSUME NEW b \in Agents PROVE Kept(b)
  <2>1. CASE b = a BY <1>3, <1>5, <2>1 DEF Kept
  <2>2. CASE b # a BY <1>5, <2>2 DEF Kept
  <2> QED BY <2>1, <2>2
<1> QED BY <1>1, <1>5, <1>6

(* An inbox that was emptied, or lost its first message or what is no request. *)
LEMMA EmptiedFacts ==
  ASSUME toAgent \in [Agents -> Seq(Msgs)], NEW a \in Agents,
         \/ toAgent' = [toAgent EXCEPT ![a] = <<>>]
         \/ toAgent' = [toAgent EXCEPT ![a] = Requests(@)]
         \/ toAgent' = [toAgent EXCEPT ![a] = Tail(@)] /\ toAgent[a] # <<>>
  PROVE  toAgent' \in [Agents -> Seq(Msgs)] /\ \A b \in Agents : Kept(b)
<1>1. toAgent[a] \in Seq(Msgs) OBVIOUS
<1>2. PICK q \in Seq(Msgs) :
        /\ toAgent' = [toAgent EXCEPT ![a] = q]
        /\ \A j \in DOMAIN q : q[j].type = "registered" =>
             \E i \in DOMAIN toAgent[a] : toAgent[a][i] = q[j]
  <2>1. CASE toAgent' = [toAgent EXCEPT ![a] = <<>>]
    <3>1. <<>> \in Seq(Msgs) /\ DOMAIN <<>> = {} OBVIOUS
    <3> QED BY <2>1, <3>1
  <2>2. CASE toAgent' = [toAgent EXCEPT ![a] = Requests(@)]
    <3>1. /\ Requests(toAgent[a]) \in Seq(Msgs)
          /\ \A j \in DOMAIN Requests(toAgent[a]) : Requests(toAgent[a])[j].type = "ask"
      BY <1>1, RequestsFacts
    <3>2. \A j \in DOMAIN Requests(toAgent[a]) : Requests(toAgent[a])[j].type # "registered" BY <3>1
    <3>3. toAgent' = [toAgent EXCEPT ![a] = Requests(toAgent[a])] BY <2>2
    <3> QED BY <3>1, <3>2, <3>3
  <2>3. CASE toAgent' = [toAgent EXCEPT ![a] = Tail(@)] /\ toAgent[a] # <<>>
    <3>1. /\ Tail(toAgent[a]) \in Seq(Msgs)
          /\ \A i \in DOMAIN Tail(toAgent[a]) :
               i + 1 \in DOMAIN toAgent[a] /\ Tail(toAgent[a])[i] = toAgent[a][i + 1]
      BY <1>1, <2>3, TailFacts
    <3>2. toAgent' = [toAgent EXCEPT ![a] = Tail(toAgent[a])] BY <2>3
    <3> QED BY <3>1, <3>2
  <2> QED BY <2>1, <2>2, <2>3
<1>3. /\ toAgent' \in [Agents -> Seq(Msgs)] /\ toAgent'[a] = q
      /\ \A b \in Agents : b # a => toAgent'[b] = toAgent[b]
  BY <1>2
<1>4. ASSUME NEW b \in Agents PROVE Kept(b)
  <2>1. CASE b = a BY <1>2, <1>3, <2>1 DEF Kept
  <2>2. CASE b # a BY <1>3, <2>2 DEF Kept
  <2> QED BY <2>1, <2>2
<1> QED BY <1>3, <1>4

LEMMA NothingNew ==
  ASSUME toAgent' = toAgent
  PROVE  \A b \in Agents : Kept(b)
BY DEF Kept

(* What a step leaves in the queues: every message, and no answer to a registration
   that is new, but for the one that the poll thread tells. *)
Tidy == toAgent' \in [Agents -> Seq(Msgs)] /\ \A b \in Agents : Kept(b)

LEMMA UnchangedTidy ==
  ASSUME Typed, toAgent' = toAgent
  PROVE  Tidy
BY NothingNew DEF Typed, Tidy

LEMMA RelayedTidy ==
  ASSUME Typed, NEW t \in Tasks, Relayed(t)
  PROVE  Tidy
<1> DEFINE m == Msg("relayed", t.id, NoAgent)
<1>1. m \in Msgs /\ m.type # "registered" BY DEF Msg, Msgs, Types, Tasks
<1>2. Post(t.from, m) BY DEF Relayed
<1> HIDE DEF m
<1> QED BY <1>1, <1>2, PostKeeps DEF Typed, Tidy

LEMMA AskTidy ==
  ASSUME Typed, NEW a, NEW id \in Nat, Post(a, Msg("ask", id, NoAgent))
  PROVE  Tidy
<1> DEFINE m == Msg("ask", id, NoAgent)
<1>1. m \in Msgs /\ m.type # "registered" BY DEF Msg, Msgs, Types
<1> HIDE DEF m
<1>2. Post(a, m) BY DEF m
<1> QED BY <1>1, <1>2, PostKeeps DEF Typed, Tidy

LEMMA TaskRemoved ==
  ASSUME Typed, NEW i \in DOMAIN tasks
  PROVE  RemoveAt(tasks, i) \in Seq(Tasks) /\ tasks[i] \in Tasks
<1>1. tasks \in Seq(Tasks) BY DEF Typed
<1>2. RemoveAt(tasks, i) \in Seq(Tasks) BY <1>1, RemoveFacts
<1> QED BY <1>1, <1>2

LEMMA PoolTyped ==
  ASSUME Typed, RelayStarts \/ RelayAnswered \/ \E i \in DOMAIN tasks : RelayEndsWithout(i)
  PROVE  Tidy /\ tasks' \in Seq(Tasks) /\ UNCHANGED <<poll, mainVars, ids, toHub, agent, runners, entries, bus>>
<1>1. CASE RelayStarts
  <2> DEFINE i == CHOOSE j \in Queued : \A k \in Queued : j <= k
             t == tasks[i]
             s == [tasks EXCEPT ![i].at = "waiting"]
             r == [t EXCEPT !.at = "waiting"]
  <2>1. tasks \in Seq(Tasks) BY DEF Typed
  <2>12. DOMAIN tasks \in SUBSET Nat BY <2>1
  <2>13. Queued \in SUBSET Nat BY <2>12 DEF Queued
  <2>14. Queued # {} BY <1>1 DEF RelayStarts
  <2>2. Queued # {} /\ Queued \in SUBSET Nat BY <2>13, <2>14
  <2>3. \E x \in Queued : \A y \in Queued : x <= y BY <2>2, LeastOf
  <2>4. i \in Queued BY <2>3
  <2>5. i \in DOMAIN tasks BY <2>4 DEF Queued
  <2>6. /\ UNCHANGED <<poll, mainVars, ids, toHub, agent, runners, entries, bus>>
        /\ \/ tasks' = s /\ Post(t.to, Msg("ask", t.id, NoAgent))
           \/ tasks' = RemoveAt(tasks, i) /\ Relayed(t)
    BY <1>1 DEF RelayStarts
  <2> HIDE DEF i
  <2>7. t \in Tasks /\ RemoveAt(tasks, i) \in Seq(Tasks) BY <2>5, TaskRemoved
  <2>8. r \in Tasks /\ t.id \in Nat BY <2>7 DEF Tasks
  <2>9. s = [tasks EXCEPT ![i] = r] OBVIOUS
  <2> HIDE DEF r, s
  <2>10. s \in Seq(Tasks) BY <2>1, <2>5, <2>8, <2>9
  <2> HIDE DEF t
  <2>11. Tidy BY <2>6, <2>7, <2>8, AskTidy, RelayedTidy
  <2> QED BY <2>6, <2>7, <2>10, <2>11
<1>2. CASE RelayAnswered
  <2>1. PICK i \in Waiting : tasks' = RemoveAt(tasks, i) /\ Relayed(tasks[i])
    BY <1>2 DEF RelayAnswered
  <2>2. i \in DOMAIN tasks BY DEF Waiting
  <2>3. tasks' \in Seq(Tasks) /\ Tidy BY <2>1, <2>2, TaskRemoved, RelayedTidy
  <2> QED BY <1>2, <2>3 DEF RelayAnswered
<1>3. ASSUME NEW i \in DOMAIN tasks, RelayEndsWithout(i)
      PROVE  Tidy /\ tasks' \in Seq(Tasks) /\ UNCHANGED <<poll, mainVars, ids, toHub, agent, runners, entries, bus>>
  <2>1. tasks' = RemoveAt(tasks, i) /\ Relayed(tasks[i]) BY <1>3 DEF RelayEndsWithout
  <2>2. tasks' \in Seq(Tasks) /\ Tidy BY <2>1, TaskRemoved, RelayedTidy
  <2> QED BY <1>3, <2>2 DEF RelayEndsWithout
<1> QED BY <1>1, <1>2, <1>3

(* The poll thread's reads. *)
LEMMA PollTyped ==
  ASSUME Typed, NEW a \in Agents, PollStep(a)
  PROVE  Typed' /\ UNCHANGED <<toAgent, agent, runners, bus>>
<1>1. toHub \in [Agents -> Seq(Msgs)] /\ tasks \in Seq(Tasks) /\ poll \in Polls
      /\ entries \in [Agents -> {"none", "injected", "external"}]
  BY DEF Typed
<1>2. Reads(a) /\ UNCHANGED <<toAgent, agent, runners, bus, ids>>
  BY DEF PollStep, PollLooksUp, PollUnregisters, PollRelays, PollDelivers, PollIgnores, Takes, hub, agent
<1>3. toHub' \in [Agents -> Seq(Msgs)] /\ Head(toHub[a]) \in Msgs BY <1>1, <1>2, ReadsFacts
<1>4. Head(toHub[a]).id \in Nat /\ Head(toHub[a]).to \in Agents \cup {NoAgent} BY <1>3 DEF Msgs
<1> DEFINE n == Head(toHub[a]).id
<1>5. tasks' \in Seq(Tasks)
  <2>1. CASE PollRelays(a)
    <3>1. tasks' = Append(tasks, Task(Head(toHub[a]), a)) BY <2>1 DEF PollRelays
    <3>2. Task(Head(toHub[a]), a) \in Tasks BY <1>4 DEF Task, Tasks
    <3> QED BY <1>1, <3>1, <3>2
  <2>2. CASE tasks' = tasks BY <1>1, <2>2
  <2> QED BY <2>1, <2>2 DEF PollStep, PollLooksUp, PollUnregisters, PollDelivers, PollIgnores, hub
<1>6. entries' \in [Agents -> {"none", "injected", "external"}]
  BY <1>1 DEF PollStep, PollLooksUp, PollUnregisters, PollRelays, PollDelivers, PollIgnores, hub
<1>7. poll' \in Polls
  <2>1. CASE PollLooksUp(a)
    <3>1. poll' = [Idle EXCEPT !.at = "merge", !.agent = a, !.life = n, !.isNew = (entries[a] = "none")]
      BY <2>1 DEF PollLooksUp
    <3> QED BY <1>4, <3>1 DEF Idle, Polls
  <2>2. CASE PollUnregisters(a)
    <3>1. PICK tell \in {"", "left"} :
            poll' = [Idle EXCEPT !.at = "tell", !.agent = a, !.life = n, !.reply = "unregistered",
                                 !.tell = tell]
      BY <2>2 DEF PollUnregisters
    <3> QED BY <1>4, <3>1 DEF Idle, Polls
  <2>3. CASE poll' = poll BY <1>1, <2>3
  <2> QED BY <2>1, <2>2, <2>3 DEF PollStep, PollRelays, PollDelivers, PollIgnores
<1>8. UNCHANGED <<pc, life, cur, toAgent, bus, ids>> BY <1>2 DEF agent
<1> QED BY <1>2, <1>3, <1>5, <1>6, <1>7, <1>8 DEF Typed

LEMMA PollRegistersTyped ==
  ASSUME Typed, PollRegisters
  PROVE  Typed' /\ UNCHANGED <<toHub, toAgent, pc, life, runners, bus>>
<1>1. UNCHANGED <<bus, tasks, ids, toHub, toAgent, pc, life, cur, runners>>
  BY DEF PollRegisters, net, agent
<1>2. entries' \in [Agents -> {"none", "injected", "external"}]
  BY DEF PollRegisters, Typed, Merged
<1>3. PICK tell \in {"", "joined"} :
        poll' = [poll EXCEPT !.at = "tell", !.reply = "registered", !.tell = tell]
  BY DEF PollRegisters
<1>4. poll' \in Polls BY <1>3 DEF Typed, Polls
<1> QED BY <1>1, <1>2, <1>4 DEF Typed

LEMMA PollTellsTyped ==
  ASSUME Typed, PollTells
  PROVE  Typed' /\ UNCHANGED <<toHub, pc, life, runners, bus, entries>> /\ poll' = Idle
<1>1. UNCHANGED <<bus, entries, tasks, ids, toHub, pc, life, cur, runners>> /\ poll' = Idle
  BY DEF PollTells, hub, agent
<1>2. Idle \in Polls BY DEF Idle, Polls
<1> DEFINE m == Msg(poll.reply, poll.life, NoAgent)
<1>3. CASE poll.reply # ""
  <2>1. m \in Msgs BY <1>3 DEF Typed, Polls, Msg, Msgs, Types
  <2>2. Post(poll.agent, m) BY DEF PollTells
  <2> HIDE DEF m
  <2>3. toAgent' \in [Agents -> Seq(Msgs)] BY <2>1, <2>2, PostFacts DEF Typed
  <2> QED BY <1>1, <1>2, <2>3 DEF Typed
<1>4. CASE poll.reply = ""
  <2>1. toAgent' = toAgent
    <3>1. m.type = "" BY <1>4 DEF Msg
    <3>2. Post(poll.agent, m) BY DEF PollTells
    <3>3. m.type # "ask" BY <3>1
    <3>4. \A b \in Agents : <<m.type, m.id>> \notin WaitsFor(b)
      BY <3>1 DEF WaitsFor
    <3> QED BY <3>2, <3>3, <3>4 DEF Post, Typed, Connected
  <2> QED BY <1>1, <1>2, <2>1 DEF Typed
<1> QED BY <1>3, <1>4

(* The agents' own steps. *)
LEMMA Moves ==
  ASSUME Typed, NEW a \in Agents, NEW to \in Places, Goes(a, to)
  PROVE  /\ pc' \in [Agents -> Places] /\ pc'[a] = to
         /\ \A b \in Agents : b # a => pc'[b] = pc[b]
BY DEF Typed, Goes

LEMMA Works ==
  ASSUME Typed, NEW a \in Agents, NEW w, w \in [ask : Nat, relay : Nat], cur' = [cur EXCEPT ![a] = w]
  PROVE  cur' \in [Agents -> [ask : Nat, relay : Nat]]
BY DEF Typed

LEMMA WorkFacts ==
  ASSUME Typed, NEW a \in Agents
  PROVE  /\ cur[a].ask \in Nat /\ cur[a].relay \in Nat /\ NoWork \in [ask : Nat, relay : Nat]
         /\ \A n \in Nat : /\ [cur[a] EXCEPT !.ask = n] \in [ask : Nat, relay : Nat]
                           /\ [cur[a] EXCEPT !.relay = n] \in [ask : Nat, relay : Nat]
<1>1. cur[a] \in [ask : Nat, relay : Nat] BY DEF Typed
<1> QED BY <1>1 DEF NoWork

Others(a) ==
  \A b \in Agents : b # a => pc'[b] = pc[b] /\ life'[b] = life[b] /\ toHub'[b] = toHub[b]

(* The variables of the hub that the links to the agents are about. *)
HubRests == UNCHANGED <<bus, entries, runners, tasks, poll>>

(* An agent that works: it takes and answers requests, and relays. *)
InLoop == {"loop", "handling", "relaying"}
Joins == {"register", "unregister"}

LEMMA LoopTyped ==
  ASSUME Typed, NEW a \in Agents,
         \/ TakesRequest(a) \/ SendsAnswer(a) \/ RelayReturns(a) \/ RelayGivesUp(a)
         \/ \E b \in RelaysTo[a] : Relays(a, b)
  PROVE  /\ Typed' /\ Tidy /\ Others(a) /\ HubRests /\ life' = life
         /\ pc[a] \in InLoop /\ pc'[a] \in InLoop
         /\ \/ toHub' = toHub
            \/ \E m \in Msgs : m.type \notin Joins /\ toHub'[a] = Append(toHub[a], m)
<1>1. HubRests /\ life' = life BY DEF TakesRequest, SendsAnswer, RelayReturns, RelayGivesUp, Relays, HubRests, hub
<1>2. RelaysTo[a] \subseteq Agents BY SwarmAssumption
<1>3. toAgent \in [Agents -> Seq(Msgs)] /\ toHub \in [Agents -> Seq(Msgs)] BY DEF Typed
<1>4. CASE TakesRequest(a)
  <2>1. /\ pc[a] = "loop" /\ toAgent[a] # <<>> /\ toAgent' = [toAgent EXCEPT ![a] = Tail(@)]
        /\ cur' = [cur EXCEPT ![a].ask = Head(toAgent[a]).id] /\ Goes(a, "handling")
        /\ toHub' = toHub /\ ids' = ids
    BY <1>4 DEF TakesRequest
  <2>2. toAgent[a] \in Seq(Msgs) BY <1>3
  <2>3. Head(toAgent[a]) \in Msgs BY <2>1, <2>2, TailFacts
  <2>4. Head(toAgent[a]).id \in Nat BY <2>3 DEF Msgs
  <2> DEFINE w == [cur[a] EXCEPT !.ask = Head(toAgent[a]).id]
  <2>5. w \in [ask : Nat, relay : Nat] BY <2>4, WorkFacts
  <2>6. cur' = [cur EXCEPT ![a] = w] BY <2>1
  <2> HIDE DEF w
  <2>7. cur' \in [Agents -> [ask : Nat, relay : Nat]] BY <2>5, <2>6, Works
  <2>8. Tidy BY <1>3, <2>1, EmptiedFacts DEF Tidy
  <2>9. pc' \in [Agents -> Places] /\ pc'[a] = "handling" /\ \A b \in Agents : b # a => pc'[b] = pc[b]
    BY <2>1, Moves DEF Places
  <2>10. Typed' BY <1>1, <2>1, <2>7, <2>8, <2>9 DEF Typed, HubRests, Tidy
  <2> QED BY <1>1, <2>1, <2>8, <2>9, <2>10 DEF Others, InLoop
<1>5. CASE SendsAnswer(a)
  <2> DEFINE m == Msg("answer", cur[a].ask, NoAgent)
  <2>1. /\ pc[a] = "handling" /\ toAgent' = toAgent /\ Sends(a, m)
        /\ cur' = [cur EXCEPT ![a] = NoWork] /\ Goes(a, "loop") /\ ids' = ids
    BY <1>5 DEF SendsAnswer
  <2>2. m \in Msgs /\ m.type \notin Joins BY WorkFacts DEF Msg, Msgs, Types, Joins
  <2> HIDE DEF m
  <2>3. /\ toHub' \in [Agents -> Seq(Msgs)] /\ toHub'[a] = Append(toHub[a], m)
        /\ \A b \in Agents : b # a => toHub'[b] = toHub[b]
    BY <1>3, <2>1, <2>2, SendsFacts
  <2>4. cur' \in [Agents -> [ask : Nat, relay : Nat]] BY <2>1, Works, WorkFacts
  <2>5. Tidy BY <2>1, UnchangedTidy
  <2>6. pc' \in [Agents -> Places] /\ pc'[a] = "loop" /\ \A b \in Agents : b # a => pc'[b] = pc[b]
    BY <2>1, Moves DEF Places
  <2>7. Typed' BY <1>1, <2>1, <2>3, <2>4, <2>5, <2>6 DEF Typed, HubRests, Tidy
  <2> QED BY <1>1, <2>1, <2>2, <2>3, <2>5, <2>6, <2>7 DEF Others, InLoop
<1>6. CASE RelayReturns(a) \/ RelayGivesUp(a)
  <2> DEFINE w == [cur[a] EXCEPT !.relay = 0]
  <2>1. /\ pc[a] = "relaying" /\ toHub' = toHub /\ ids' = ids /\ Goes(a, "handling")
        /\ cur' = [cur EXCEPT ![a] = w]
        /\ \/ TakesReply(a, "relayed", cur[a].relay)
           \/ toAgent' = [toAgent EXCEPT ![a] = Requests(@)]
    BY <1>6 DEF RelayReturns, RelayGivesUp
  <2>2. w \in [ask : Nat, relay : Nat] BY WorkFacts
  <2> HIDE DEF w
  <2>3. cur' \in [Agents -> [ask : Nat, relay : Nat]] BY <2>1, <2>2, Works
  <2>4. Tidy BY <1>3, <2>1, TakesReplyFacts, EmptiedFacts DEF Tidy
  <2>5. pc' \in [Agents -> Places] /\ pc'[a] = "handling" /\ \A b \in Agents : b # a => pc'[b] = pc[b]
    BY <2>1, Moves DEF Places
  <2>6. Typed' BY <1>1, <2>1, <2>3, <2>4, <2>5 DEF Typed, HubRests, Tidy
  <2> QED BY <1>1, <2>1, <2>4, <2>5, <2>6 DEF Others, InLoop
<1>7. ASSUME NEW b \in RelaysTo[a], Relays(a, b)
      PROVE  /\ Typed' /\ Tidy /\ Others(a)
             /\ pc[a] \in InLoop /\ pc'[a] \in InLoop
             /\ \E m \in Msgs : m.type \notin Joins /\ toHub'[a] = Append(toHub[a], m)
  <2> DEFINE m == Msg("relay", ids + 1, b)
             w == [cur[a] EXCEPT !.relay = ids + 1]
  <2>1. /\ pc[a] = "handling" /\ toAgent' = toAgent /\ Sends(a, m) /\ ids' = ids + 1
        /\ cur' = [cur EXCEPT ![a] = w] /\ Goes(a, "relaying")
    BY <1>7 DEF Relays
  <2>2. ids + 1 \in Nat /\ b \in Agents BY <1>2 DEF Typed
  <2>3. m \in Msgs /\ m.type \notin Joins BY <2>2 DEF Msg, Msgs, Types, Joins
  <2>4. w \in [ask : Nat, relay : Nat] BY <2>2, WorkFacts
  <2> HIDE DEF m, w
  <2>5. /\ toHub' \in [Agents -> Seq(Msgs)] /\ toHub'[a] = Append(toHub[a], m)
        /\ \A c \in Agents : c # a => toHub'[c] = toHub[c]
    BY <1>3, <2>1, <2>3, SendsFacts
  <2>6. cur' \in [Agents -> [ask : Nat, relay : Nat]] BY <2>1, <2>4, Works
  <2>7. Tidy BY <2>1, UnchangedTidy
  <2>8. pc' \in [Agents -> Places] /\ pc'[a] = "relaying" /\ \A c \in Agents : c # a => pc'[c] = pc[c]
    BY <2>1, Moves DEF Places
  <2>9. Typed' BY <1>1, <2>1, <2>2, <2>5, <2>6, <2>7, <2>8 DEF Typed, HubRests, Tidy
  <2> QED BY <1>1, <2>1, <2>3, <2>5, <2>7, <2>8, <2>9 DEF Others, InLoop
<1> QED BY <1>1, <1>4, <1>5, <1>6, <1>7

LEMMA BeginsTyped ==
  ASSUME Typed, NEW a \in Agents, RunBegins(a)
  PROVE  /\ Typed' /\ Tidy /\ Others(a) /\ HubRests /\ life' = life
         /\ pc[a] = "setup" /\ pc'[a] = "registering"
         /\ \E m \in Msgs : /\ m.type = "register" /\ m.id = life[a]
                            /\ toHub'[a] = Append(toHub[a], m)
<1> DEFINE m == Msg("register", life[a], NoAgent)
<1>1. /\ pc[a] = "setup" /\ Sends(a, m) /\ Goes(a, "registering") /\ toAgent' = toAgent
      /\ HubRests /\ life' = life /\ cur' = cur /\ ids' = ids
  BY DEF RunBegins, HubRests, hub
<1>2. m \in Msgs /\ m.type = "register" /\ m.id = life[a] BY DEF Msg, Msgs, Types, Typed
<1> HIDE DEF m
<1>3. /\ toHub' \in [Agents -> Seq(Msgs)] /\ toHub'[a] = Append(toHub[a], m)
      /\ \A b \in Agents : b # a => toHub'[b] = toHub[b]
  BY <1>1, <1>2, SendsFacts DEF Typed
<1>4. Tidy BY <1>1, UnchangedTidy
<1>5. pc' \in [Agents -> Places] /\ pc'[a] = "registering" /\ \A b \in Agents : b # a => pc'[b] = pc[b]
  BY <1>1, Moves DEF Places
<1>6. Typed' BY <1>1, <1>3, <1>4, <1>5 DEF Typed, HubRests, Tidy
<1> QED BY <1>1, <1>2, <1>3, <1>4, <1>5, <1>6 DEF Others

LEMMA RegisteredTyped ==
  ASSUME Typed, NEW a \in Agents, IsRegistered(a)
  PROVE  /\ Typed' /\ Tidy /\ Others(a) /\ HubRests /\ life' = life /\ toHub' = toHub
         /\ pc[a] = "registering" /\ pc'[a] = "loop"
         /\ \E i \in DOMAIN toAgent[a] : toAgent[a][i].type = "registered" /\ toAgent[a][i].id = life[a]
<1>1. /\ pc[a] = "registering" /\ TakesReply(a, "registered", life[a]) /\ Goes(a, "loop")
      /\ HubRests /\ life' = life /\ cur' = cur /\ ids' = ids /\ toHub' = toHub
  BY DEF IsRegistered, HubRests, hub
<1>5. toAgent \in [Agents -> Seq(Msgs)] BY DEF Typed
<1>6. /\ toAgent' \in [Agents -> Seq(Msgs)] /\ \A b \in Agents : Kept(b)
      /\ \E i \in DOMAIN toAgent[a] : toAgent[a][i].type = "registered" /\ toAgent[a][i].id = life[a]
  BY <1>1, <1>5, TakesReplyFacts
<1>2. /\ Tidy
      /\ \E i \in DOMAIN toAgent[a] : toAgent[a][i].type = "registered" /\ toAgent[a][i].id = life[a]
  BY <1>6 DEF Tidy
<1>3. pc' \in [Agents -> Places] /\ pc'[a] = "loop" /\ \A b \in Agents : b # a => pc'[b] = pc[b]
  BY <1>1, Moves DEF Places
<1>4. Typed' BY <1>1, <1>2, <1>3 DEF Typed, HubRests, Tidy
<1> QED BY <1>1, <1>2, <1>3, <1>4 DEF Others

(* The way out. *)
LEMMA LeavesTyped ==
  ASSUME Typed, NEW a \in Agents, RegistrationTimesOut(a) \/ LeavesLoop(a)
  PROVE  /\ Typed' /\ Tidy /\ Others(a) /\ HubRests /\ life' = life
         /\ pc'[a] \in {"leaving", "failing"}
         /\ \E m \in Msgs : m.type = "unregister" /\ toHub'[a] = Append(toHub[a], m)
<1> DEFINE m == Msg("unregister", life[a], NoAgent)
<1>1. PICK to \in {"leaving", "failing"} :
        /\ Sends(a, m) /\ Goes(a, to) /\ toAgent' = [toAgent EXCEPT ![a] = <<>>]
        /\ HubRests /\ life' = life /\ cur' = cur /\ ids' = ids
  BY DEF RegistrationTimesOut, LeavesLoop, Disconnects, HubRests, hub
<1>2. m \in Msgs /\ m.type = "unregister" BY DEF Msg, Msgs, Types, Typed
<1> HIDE DEF m
<1>3. /\ toHub' \in [Agents -> Seq(Msgs)] /\ toHub'[a] = Append(toHub[a], m)
      /\ \A b \in Agents : b # a => toHub'[b] = toHub[b]
  BY <1>1, <1>2, SendsFacts DEF Typed
<1>4. Tidy BY <1>1, EmptiedFacts DEF Typed, Tidy
<1>5. pc' \in [Agents -> Places] /\ pc'[a] = to /\ \A b \in Agents : b # a => pc'[b] = pc[b]
  BY <1>1, Moves DEF Places
<1>6. Typed' BY <1>1, <1>3, <1>4, <1>5 DEF Typed, HubRests, Tidy
<1> QED BY <1>1, <1>2, <1>3, <1>4, <1>5, <1>6 DEF Others

LEMMA GoneTyped ==
  ASSUME Typed, NEW a \in Agents, IsUnregistered(a) \/ UnregisterTimesOut(a) \/ Dies(a)
  PROVE  /\ Typed' /\ Tidy /\ Others(a) /\ HubRests /\ life' = life /\ toHub' = toHub
         /\ \/ pc'[a] = "killed"
            \/ pc[a] \in {"leaving", "failing"} /\ pc'[a] \in {"ended", "failed"}
<1>1. PICK to \in {"ended", "failed", "killed"} :
        /\ Goes(a, to) /\ toAgent' = [toAgent EXCEPT ![a] = <<>>]
        /\ HubRests /\ life' = life /\ ids' = ids /\ toHub' = toHub
        /\ cur' = cur \/ cur' = [cur EXCEPT ![a] = NoWork]
        /\ to = "killed" \/ pc[a] \in {"leaving", "failing"}
  BY DEF IsUnregistered, UnregisterTimesOut, Disconnected, Dies, HubRests, hub
<1>2. Tidy BY <1>1, EmptiedFacts DEF Typed, Tidy
<1>3. pc' \in [Agents -> Places] /\ pc'[a] = to /\ \A b \in Agents : b # a => pc'[b] = pc[b]
  BY <1>1, Moves DEF Places
<1>4. cur' \in [Agents -> [ask : Nat, relay : Nat]] BY <1>1, Works, WorkFacts DEF Typed
<1>5. Typed' BY <1>1, <1>2, <1>3, <1>4 DEF Typed, HubRests, Tidy
<1> QED BY <1>1, <1>2, <1>3, <1>5 DEF Others

(* A new life, of an agent that restarts or that the hub starts. *)
LEMMA LivesTyped ==
  ASSUME Typed, NEW a \in Agents, Goes(a, "setup"), life' = [life EXCEPT ![a] = @ + 1],
         cur' = cur \/ cur' = [cur EXCEPT ![a] = NoWork],
         UNCHANGED <<bus, entries, tasks, poll, ids, toHub, toAgent>>
  PROVE  /\ Typed' /\ Tidy /\ Others(a)
         /\ pc'[a] = "setup" /\ life'[a] = life[a] + 1 /\ life[a] \in Nat
<1>1. pc' \in [Agents -> Places] /\ pc'[a] = "setup" /\ \A b \in Agents : b # a => pc'[b] = pc[b]
  BY Moves DEF Places
<1>2. life' \in [Agents -> Nat] /\ life'[a] = life[a] + 1 /\ life[a] \in Nat
      /\ \A b \in Agents : b # a => life'[b] = life[b]
  BY DEF Typed
<1>3. Tidy BY UnchangedTidy
<1>4. cur' \in [Agents -> [ask : Nat, relay : Nat]] BY Works, WorkFacts DEF Typed
<1>5. Typed' BY <1>1, <1>2, <1>4 DEF Typed
<1> QED BY <1>1, <1>2, <1>3, <1>5 DEF Others

(* An agent and the hub ------------------------------------------------------- *)
Up == {"registering", "loop", "handling", "relaying"}
Out == {"leaving", "failing", "ended", "failed"}

Merging(a) == poll.at = "merge" /\ poll.agent = a
Telling(a) ==
  poll.at = "tell" /\ poll.agent = a /\ poll.reply = "registered" /\ poll.life = life[a]
Told(a) ==
  \E i \in DOMAIN toAgent[a] : toAgent[a][i].type = "registered" /\ toAgent[a][i].id = life[a]
Quiet(a) == \A i \in DOMAIN toHub[a] : toHub[a][i].type \notin Joins

(* Registrations and their answers are of a life that has registered. *)
Past(a, n) == n <= life[a] /\ (pc[a] = "setup" => n # life[a])
Earlier(a) ==
  /\ \A i \in DOMAIN toHub[a] : toHub[a][i].type = "register" => Past(a, toHub[a][i].id)
  /\ \A i \in DOMAIN toAgent[a] : toAgent[a][i].type = "registered" => Past(a, toAgent[a][i].id)
  /\ poll.agent = a /\ (poll.at = "merge" \/ poll.reply = "registered") => Past(a, poll.life)

(* This life's registration is the last that an agent sent, and once it was
   handled nothing that the agent sent before takes it back. *)
InOrder(a) ==
  pc[a] \in Up =>
    /\ \A i, j \in DOMAIN toHub[a] :
         i < j /\ toHub[a][i].type = "register" /\ toHub[a][i].id = life[a]
           => toHub[a][j].type \notin Joins
    /\ Merging(a) /\ poll.life = life[a] => Quiet(a)
    /\ Telling(a) \/ Told(a) \/ pc[a] \in InLoop =>
         Quiet(a) /\ ~Merging(a) /\ (a \in runners => entries[a] # "none")

(* The last that one that leaves sent is that it leaves. *)
HasLeft(a) ==
  pc[a] \in Out =>
    IF toHub[a] # <<>> THEN Last(toHub[a]).type = "unregister"
    ELSE bus => entries[a] = "none" /\ ~Merging(a)

Link(a) == Earlier(a) /\ InOrder(a) /\ HasLeft(a)

(* What another's step leaves of the poll thread's work for a. *)
PollKept(a) ==
  poll'.agent = a /\ (poll'.at = "merge" \/ poll'.reply = "registered") =>
    /\ poll.agent = a /\ poll'.life = poll.life /\ poll'.reply = poll.reply
    /\ poll'.at = poll.at \/ poll'.at = "idle"
EntryKept(a) ==
  /\ pc[a] \in Up /\ a \in runners' => a \in runners /\ entries'[a] = entries[a]
  /\ pc[a] \in Out => entries'[a] \in {entries[a], "none"}

LEMMA EarlierStays ==
  ASSUME NEW a, Earlier(a), Kept(a), PollKept(a), life'[a] = life[a],
         pc'[a] = "setup" => pc[a] = "setup",
         \A i \in DOMAIN toHub'[a] : toHub'[a][i].type = "register" =>
           \E k \in DOMAIN toHub[a] : toHub[a][k] = toHub'[a][i]
  PROVE  Earlier(a)'
<1>1. \A n : Past(a, n) => (Past(a, n))' BY DEF Past
<1>2. ASSUME NEW i \in DOMAIN toHub'[a], toHub'[a][i].type = "register"
      PROVE  Past(a, toHub'[a][i].id)
  BY <1>2 DEF Earlier
<1>3. ASSUME NEW i \in DOMAIN toAgent'[a], toAgent'[a][i].type = "registered"
      PROVE  Past(a, toAgent'[a][i].id)
  BY <1>3 DEF Earlier, Kept
<1>4. ASSUME poll'.agent = a, poll'.at = "merge" \/ poll'.reply = "registered"
      PROVE  Past(a, poll'.life)
  BY <1>4 DEF Earlier, PollKept
<1>5. ASSUME NEW n, Past(a, n) PROVE n <= life'[a] /\ (pc'[a] = "setup" => n # life'[a])
  BY <1>5 DEF Past
<1> QED BY <1>2, <1>3, <1>4, <1>5 DEF Earlier, Past

LEMMA PollStays ==
  ASSUME NEW a, PollKept(a), life'[a] = life[a]
  PROVE  /\ Merging(a)' => Merging(a) /\ poll'.life = poll.life
         /\ Telling(a)' => Telling(a)
BY DEF PollKept, Merging, Telling

LEMMA ToldStays ==
  ASSUME NEW a, Kept(a), life'[a] = life[a]
  PROVE  Told(a)' => Told(a)
BY DEF Kept, Told

(* A step that a's link to the hub does not notice. *)
LEMMA StaysLink ==
  ASSUME NEW a, Link(a), Kept(a), PollKept(a), EntryKept(a), life'[a] = life[a], pc'[a] = pc[a],
         toHub'[a] = toHub[a], bus' => bus
  PROVE  Link(a)'
<1>1. Earlier(a)' BY EarlierStays DEF Link
<1>2. InOrder(a)'
  <2>1. Quiet(a)' <=> Quiet(a) BY DEF Quiet
  <2>2. pc[a] \in Up => InOrder(a)' BY <2>1, PollStays, ToldStays DEF Link, InOrder, EntryKept
  <2> QED BY <2>2 DEF InOrder
<1>3. HasLeft(a)' BY PollStays DEF Link, HasLeft, EntryKept
<1> QED BY <1>1, <1>2, <1>3 DEF Link

(* The hub took from a a message that is no registration, nor takes one back. *)
LEMMA ReadLink ==
  ASSUME NEW a, Link(a), Kept(a), PollKept(a), EntryKept(a), life'[a] = life[a], pc'[a] = pc[a],
         toHub[a] \in Seq(Msgs), toHub[a] # <<>>, Head(toHub[a]).type \notin Joins,
         toHub'[a] = Tail(toHub[a]), bus' => bus
  PROVE  Link(a)'
<1>1. /\ toHub[a][1] = Head(toHub[a])
      /\ \A i \in DOMAIN toHub'[a] :
           i \in Nat /\ i + 1 \in DOMAIN toHub[a] /\ toHub'[a][i] = toHub[a][i + 1]
      /\ toHub'[a] # <<>> => Last(toHub'[a]) = Last(toHub[a])
      /\ toHub'[a] = <<>> => Last(toHub[a]) = Head(toHub[a])
  BY TailFacts
<1>2. Earlier(a)'
  <2>1. \A i \in DOMAIN toHub'[a] : \E k \in DOMAIN toHub[a] : toHub[a][k] = toHub'[a][i] BY <1>1
  <2> QED BY <2>1, EarlierStays DEF Link
<1>3. Quiet(a) => Quiet(a)' BY <1>1 DEF Quiet
<1>4. ASSUME pc[a] \in Up PROVE InOrder(a)'
  <2>1. ASSUME NEW i \in DOMAIN toHub'[a], NEW j \in DOMAIN toHub'[a], i < j,
               toHub'[a][i].type = "register", toHub'[a][i].id = life'[a]
        PROVE  toHub'[a][j].type \notin Joins
    <3>1. i + 1 < j + 1 /\ i + 1 \in DOMAIN toHub[a] /\ j + 1 \in DOMAIN toHub[a]
          /\ toHub'[a][i] = toHub[a][i + 1] /\ toHub'[a][j] = toHub[a][j + 1]
      BY <1>1, <2>1
    <3> QED BY <1>4, <2>1, <3>1 DEF Link, InOrder
  <2>2. Merging(a)' /\ poll'.life = life'[a] => Quiet(a)'
    BY <1>3, <1>4, PollStays DEF Link, InOrder
  <2>3. (Telling(a) \/ Told(a))' \/ pc'[a] \in InLoop =>
          Quiet(a)' /\ ~Merging(a)' /\ (a \in runners' => entries'[a] # "none")
    BY <1>3, <1>4, PollStays, ToldStays DEF Link, InOrder, EntryKept
  <2> QED BY <2>1, <2>2, <2>3 DEF InOrder
<1>5. InOrder(a)' BY <1>4 DEF InOrder
<1>6. HasLeft(a)'
  <2>1. ASSUME pc[a] \in Out PROVE toHub'[a] # <<>> /\ Last(toHub'[a]).type = "unregister"
    <3>1. Last(toHub[a]).type = "unregister" BY <2>1 DEF Link, HasLeft
    <3> QED BY <1>1, <3>1 DEF Joins
  <2> QED BY <2>1 DEF HasLeft
<1> QED BY <1>2, <1>5, <1>6 DEF Link

(* The hub's variables that a's link is about. *)
LinkHub == <<bus, entries, runners, poll>>

LEMMA RestsKept ==
  ASSUME NEW a, UNCHANGED LinkHub
  PROVE  PollKept(a) /\ EntryKept(a) /\ (bus' => bus)
BY DEF LinkHub, PollKept, EntryKept

LEMMA LoopLink ==
  ASSUME NEW a, Link(a), Kept(a), UNCHANGED LinkHub, life'[a] = life[a],
         pc[a] \in InLoop, pc'[a] \in InLoop, toHub[a] \in Seq(Msgs),
         \/ toHub'[a] = toHub[a]
         \/ \E m \in Msgs : m.type \notin Joins /\ toHub'[a] = Append(toHub[a], m)
  PROVE  Link(a)'
<1>1. PollKept(a) /\ EntryKept(a) BY RestsKept
<1>2. pc[a] \in Up /\ pc'[a] \notin Out /\ pc'[a] # "setup" BY DEF InLoop, Up, Out
<1>3. Quiet(a) /\ ~Merging(a) /\ (a \in runners => entries[a] # "none")
  BY <1>2 DEF Link, InOrder
<1>4. \A i \in DOMAIN toHub'[a] :
        \/ toHub'[a][i].type \notin Joins
        \/ \E k \in DOMAIN toHub[a] : toHub[a][k] = toHub'[a][i]
  <2>1. CASE toHub'[a] = toHub[a] BY <2>1
  <2>2. CASE \E m \in Msgs : m.type \notin Joins /\ toHub'[a] = Append(toHub[a], m)
    <3>1. PICK m \in Msgs : m.type \notin Joins /\ toHub'[a] = Append(toHub[a], m) BY <2>2
    <3>2. /\ DOMAIN Append(toHub[a], m) = (DOMAIN toHub[a]) \cup {Len(toHub[a]) + 1}
          /\ Append(toHub[a], m)[Len(toHub[a]) + 1] = m
          /\ \A i \in DOMAIN toHub[a] : Append(toHub[a], m)[i] = toHub[a][i]
      BY AppendFacts
    <3> QED BY <3>1, <3>2
  <2> QED BY <2>1, <2>2
<1>5. Quiet(a)' BY <1>3, <1>4 DEF Quiet
<1>6. Earlier(a)' BY <1>1, <1>2, <1>4, EarlierStays DEF Link, Joins
<1>7. ~Merging(a)' BY <1>3 DEF Merging, LinkHub
<1>8. InOrder(a)' BY <1>3, <1>5, <1>7 DEF InOrder, Quiet, Joins, LinkHub
<1>9. HasLeft(a)' BY <1>2 DEF HasLeft
<1> QED BY <1>6, <1>8, <1>9 DEF Link

LEMMA RegisteredLink ==
  ASSUME NEW a, Link(a), Kept(a), UNCHANGED LinkHub, life'[a] = life[a], toHub'[a] = toHub[a],
         pc[a] = "registering", pc'[a] = "loop",
         \E i \in DOMAIN toAgent[a] : toAgent[a][i].type = "registered" /\ toAgent[a][i].id = life[a]
  PROVE  Link(a)'
<1>1. PollKept(a) BY RestsKept
<1>2. Told(a) /\ pc[a] \in Up BY DEF Told, Up
<1>3. Quiet(a) /\ ~Merging(a) /\ (a \in runners => entries[a] # "none") BY <1>2 DEF Link, InOrder
<1>4. Quiet(a)' /\ ~Merging(a)' BY <1>3 DEF Quiet, Merging, LinkHub
<1>5. Earlier(a)' BY <1>1, EarlierStays DEF Link
<1>6. InOrder(a)' BY <1>3, <1>4 DEF InOrder, Quiet, Joins, LinkHub
<1>7. HasLeft(a)' BY DEF HasLeft, Out
<1> QED BY <1>5, <1>6, <1>7 DEF Link

LEMMA BeginsLink ==
  ASSUME NEW a, Link(a), Kept(a), UNCHANGED LinkHub, life'[a] = life[a], life[a] \in Nat,
         pc[a] = "setup", pc'[a] = "registering", toHub[a] \in Seq(Msgs),
         NEW m \in Msgs, m.type = "register", m.id = life[a], toHub'[a] = Append(toHub[a], m)
  PROVE  Link(a)'
<1>1. PollKept(a) BY RestsKept
<1>2. /\ DOMAIN toHub'[a] = (DOMAIN toHub[a]) \cup {Len(toHub[a]) + 1}
      /\ toHub'[a][Len(toHub[a]) + 1] = m /\ Len(toHub[a]) \in Nat /\ DOMAIN toHub[a] = 1..Len(toHub[a])
      /\ \A i \in DOMAIN toHub[a] : toHub'[a][i] = toHub[a][i]
  BY AppendFacts
<1>3. /\ \A i \in DOMAIN toHub[a] : toHub[a][i].type = "register" =>
           toHub[a][i].id <= life[a] /\ toHub[a][i].id # life[a]
      /\ \A i \in DOMAIN toAgent[a] : toAgent[a][i].type = "registered" =>
           toAgent[a][i].id <= life[a] /\ toAgent[a][i].id # life[a]
      /\ poll.agent = a /\ (poll.at = "merge" \/ poll.reply = "registered") =>
           poll.life <= life[a] /\ poll.life # life[a]
  BY DEF Link, Earlier, Past
<1>4. \A n : n <= life[a] => Past(a, n)' BY DEF Past
<1>5. \A i \in DOMAIN toHub'[a] : toHub'[a][i].type = "register" => toHub'[a][i].id <= life[a]
  BY <1>2, <1>3
<1>6. \A i \in DOMAIN toAgent'[a] : toAgent'[a][i].type = "registered" =>
        toAgent'[a][i].id <= life[a] /\ toAgent'[a][i].id # life[a]
  BY <1>3 DEF Kept
<1>7. poll' = poll BY DEF LinkHub
<1>8. Earlier(a)' BY <1>3, <1>4, <1>5, <1>6, <1>7 DEF Earlier, Past
<1>9. ~Telling(a)' /\ ~(Merging(a)' /\ poll'.life = life'[a])
  BY <1>3, <1>7 DEF Telling, Merging
<1>10. ~Told(a)' BY <1>6 DEF Told
<1>11. ASSUME NEW i \in DOMAIN toHub'[a], NEW j \in DOMAIN toHub'[a], i < j,
              toHub'[a][i].type = "register", toHub'[a][i].id = life'[a]
       PROVE  FALSE
  <2>1. i \in DOMAIN toHub[a] BY <1>2, <1>11
  <2> QED BY <1>2, <1>3, <1>11, <2>1
<1>12. InOrder(a)' BY <1>9, <1>10, <1>11 DEF InOrder, InLoop
<1>13. HasLeft(a)' BY DEF HasLeft, Out
<1> QED BY <1>8, <1>12, <1>13 DEF Link

LEMMA LeavesLink ==
  ASSUME NEW a, Link(a), Kept(a), UNCHANGED LinkHub, life'[a] = life[a],
         pc'[a] \in {"leaving", "failing"}, toHub[a] \in Seq(Msgs),
         NEW m \in Msgs, m.type = "unregister", toHub'[a] = Append(toHub[a], m)
  PROVE  Link(a)'
<1>1. PollKept(a) BY RestsKept
<1>2. /\ DOMAIN toHub'[a] = (DOMAIN toHub[a]) \cup {Len(toHub[a]) + 1}
      /\ toHub'[a][Len(toHub[a]) + 1] = m
      /\ \A i \in DOMAIN toHub[a] : toHub'[a][i] = toHub[a][i]
      /\ Append(toHub[a], m) # <<>> /\ Last(Append(toHub[a], m)) = m
  BY AppendFacts
<1>3. \A i \in DOMAIN toHub'[a] : toHub'[a][i].type = "register" =>
        \E k \in DOMAIN toHub[a] : toHub[a][k] = toHub'[a][i]
  BY <1>2
<1>4. pc'[a] # "setup" /\ pc'[a] \notin Up BY DEF Up
<1>5. Earlier(a)' BY <1>1, <1>3, <1>4, EarlierStays DEF Link
<1>6. InOrder(a)' BY <1>4 DEF InOrder
<1>7. HasLeft(a)' BY <1>2 DEF HasLeft
<1> QED BY <1>5, <1>6, <1>7 DEF Link

LEMMA GoneLink ==
  ASSUME NEW a, Link(a), Kept(a), PollKept(a), life'[a] = life[a], toHub'[a] = toHub[a],
         \/ pc'[a] = "killed"
         \/ pc[a] \in {"leaving", "failing"} /\ pc'[a] \in {"ended", "failed"} /\ UNCHANGED LinkHub
  PROVE  Link(a)'
<1>1. pc'[a] # "setup" /\ pc'[a] \notin Up BY DEF Up
<1>2. Earlier(a)' BY <1>1, EarlierStays DEF Link
<1>3. InOrder(a)' BY <1>1 DEF InOrder
<1>4. HasLeft(a)'
  <2>1. CASE pc'[a] = "killed" BY <2>1 DEF HasLeft, Out
  <2>2. CASE pc[a] \in {"leaving", "failing"} /\ UNCHANGED LinkHub
    <3>1. pc[a] \in Out BY <2>2 DEF Out
    <3> QED BY <2>2, <3>1 DEF Link, HasLeft, Merging, LinkHub
  <2> QED BY <2>1, <2>2
<1> QED BY <1>2, <1>3, <1>4 DEF Link

LEMMA LivesLink ==
  ASSUME NEW a, Link(a), Kept(a), PollKept(a), life[a] \in Nat, life'[a] = life[a] + 1,
         pc'[a] = "setup", toHub'[a] = toHub[a], toHub[a] \in Seq(Msgs), toAgent[a] \in Seq(Msgs),
         poll \in Polls
  PROVE  Link(a)'
<1>1. \A n \in Nat : n <= life[a] => n <= life'[a] /\ n # life'[a] OBVIOUS
<1>2. ASSUME NEW i \in DOMAIN toHub'[a], toHub'[a][i].type = "register"
      PROVE  toHub'[a][i].id \in Nat /\ toHub'[a][i].id <= life[a]
  <2>1. toHub[a][i] \in Msgs OBVIOUS
  <2> QED BY <1>2, <2>1 DEF Link, Earlier, Past, Msgs
<1>3. ASSUME NEW i \in DOMAIN toAgent'[a], toAgent'[a][i].type = "registered"
      PROVE  toAgent'[a][i].id \in Nat /\ toAgent'[a][i].id <= life[a]
  <2>1. PICK k \in DOMAIN toAgent[a] : toAgent[a][k] = toAgent'[a][i] BY <1>3 DEF Kept
  <2>2. toAgent[a][k] \in Msgs OBVIOUS
  <2> QED BY <1>3, <2>1, <2>2 DEF Link, Earlier, Past, Msgs
<1>4. ASSUME poll'.agent = a, poll'.at = "merge" \/ poll'.reply = "registered"
      PROVE  poll'.life \in Nat /\ poll'.life <= life[a]
  BY <1>4 DEF Link, Earlier, Past, PollKept, Polls
<1>5. Earlier(a)' BY <1>1, <1>2, <1>3, <1>4 DEF Earlier, Past
<1>6. InOrder(a)' /\ HasLeft(a)' BY DEF InOrder, HasLeft, Up, Out
<1> QED BY <1>5, <1>6 DEF Link

(* The poll thread and an agent. *)
LEMMA LooksUpLink ==
  ASSUME Typed, NEW a \in Agents, PollLooksUp(a), Link(a), Kept(a)
  PROVE  Link(a)'
<1> DEFINE m == Head(toHub[a])
<1>1. /\ Reads(a) /\ m.type = "register" /\ poll'.at = "merge" /\ poll'.agent = a /\ poll'.life = m.id
      /\ UNCHANGED <<entries, runners, pc, life, bus>>
  BY DEF PollLooksUp, Takes, Idle, hub, agent
<1>2. toHub[a] \in Seq(Msgs) /\ toHub[a] # <<>> /\ toHub'[a] = Tail(toHub[a])
  BY <1>1, ReadsFacts DEF Typed
<1>3. /\ 1 \in DOMAIN toHub[a] /\ toHub[a][1] = m
      /\ \A i \in DOMAIN toHub'[a] :
           i \in Nat /\ i + 1 \in DOMAIN toHub[a] /\ toHub'[a][i] = toHub[a][i + 1]
      /\ toHub'[a] # <<>> => Last(toHub'[a]) = Last(toHub[a])
      /\ toHub'[a] = <<>> => Last(toHub[a]) = m
  BY <1>2, TailFacts
<1> HIDE DEF m
<1>12. \A i \in DOMAIN toHub'[a] : i >= 1
  <2>1. toHub'[a] \in Seq(Msgs) BY <1>2, TailFacts
  <2> QED BY <2>1
<1>4. ~Quiet(a) BY <1>1, <1>3 DEF Quiet, Joins
<1>5. Earlier(a)'
  <2>1. \A n : Past(a, n) => (Past(a, n))' BY <1>1 DEF Past
  <2>2. Past(a, m.id) BY <1>1, <1>3 DEF Link, Earlier
  <2>3. \A i \in DOMAIN toHub'[a] : toHub'[a][i].type = "register" => Past(a, toHub'[a][i].id)
    BY <1>3 DEF Link, Earlier
  <2>4. \A i \in DOMAIN toAgent'[a] : toAgent'[a][i].type = "registered" => Past(a, toAgent'[a][i].id)
    BY DEF Link, Earlier, Kept
  <2> QED BY <1>1, <2>2, <2>3, <2>4 DEF Earlier, Past
<1>6. ASSUME pc[a] \in Up PROVE InOrder(a)'
  <2>1. ASSUME NEW i \in DOMAIN toHub'[a], NEW j \in DOMAIN toHub'[a], i < j,
               toHub'[a][i].type = "register", toHub'[a][i].id = life'[a]
        PROVE  toHub'[a][j].type \notin Joins
    <3>1. i + 1 < j + 1 /\ i + 1 \in DOMAIN toHub[a] /\ j + 1 \in DOMAIN toHub[a]
          /\ toHub'[a][i] = toHub[a][i + 1] /\ toHub'[a][j] = toHub[a][j + 1]
      BY <1>3, <2>1
    <3> QED BY <1>1, <1>6, <2>1, <3>1 DEF Link, InOrder
  <2>2. ASSUME poll'.life = life'[a] PROVE Quiet(a)'
    <3>1. \A i \in DOMAIN toHub'[a] : 1 < i + 1 /\ i + 1 \in DOMAIN toHub[a] /\ toHub'[a][i] = toHub[a][i + 1]
      BY <1>3, <1>12
    <3>2. m.id = life[a] BY <1>1, <2>2
    <3> QED BY <1>1, <1>3, <1>6, <3>1, <3>2 DEF Link, InOrder, Quiet
  <2>3. ~Telling(a)' /\ ~Told(a)' /\ pc'[a] \notin InLoop
    BY <1>1, <1>4, <1>6, ToldStays DEF Link, InOrder, Telling
  <2> QED BY <2>1, <2>2, <2>3 DEF InOrder
<1>7. InOrder(a)' BY <1>1, <1>6 DEF InOrder
<1>8. HasLeft(a)'
  <2>1. ASSUME pc[a] \in Out PROVE toHub'[a] # <<>> /\ Last(toHub'[a]).type = "unregister"
    <3>1. Last(toHub[a]).type = "unregister" BY <1>2, <2>1 DEF Link, HasLeft
    <3> QED BY <1>1, <1>3, <3>1
  <2> QED BY <1>1, <2>1 DEF HasLeft
<1> QED BY <1>5, <1>7, <1>8 DEF Link

LEMMA UnregistersLink ==
  ASSUME Typed, NEW a \in Agents, PollUnregisters(a), Link(a), Kept(a)
  PROVE  Link(a)'
<1> DEFINE m == Head(toHub[a])
<1>1. /\ Reads(a) /\ m.type = "unregister" /\ poll'.at = "tell" /\ poll'.reply = "unregistered"
      /\ entries'[a] = "none" /\ UNCHANGED <<runners, pc, life, bus>>
  BY DEF PollUnregisters, Takes, Idle, hub, agent, Typed
<1>2. toHub[a] \in Seq(Msgs) /\ toHub[a] # <<>> /\ toHub'[a] = Tail(toHub[a])
  BY <1>1, ReadsFacts DEF Typed
<1>3. /\ 1 \in DOMAIN toHub[a] /\ toHub[a][1] = m
      /\ \A i \in DOMAIN toHub'[a] :
           i \in Nat /\ i + 1 \in DOMAIN toHub[a] /\ toHub'[a][i] = toHub[a][i + 1]
      /\ toHub'[a] # <<>> => Last(toHub'[a]) = Last(toHub[a])
  BY <1>2, TailFacts
<1> HIDE DEF m
<1>4. ~Quiet(a) BY <1>1, <1>3 DEF Quiet, Joins
<1>5. PollKept(a) BY <1>1 DEF PollKept
<1>6. Earlier(a)'
  <2>1. \A i \in DOMAIN toHub'[a] : \E k \in DOMAIN toHub[a] : toHub[a][k] = toHub'[a][i] BY <1>3
  <2> QED BY <1>1, <1>5, <2>1, EarlierStays DEF Link
<1>7. ASSUME pc[a] \in Up PROVE InOrder(a)'
  <2>1. ASSUME NEW i \in DOMAIN toHub'[a], NEW j \in DOMAIN toHub'[a], i < j,
               toHub'[a][i].type = "register", toHub'[a][i].id = life'[a]
        PROVE  toHub'[a][j].type \notin Joins
    <3>1. i + 1 < j + 1 /\ i + 1 \in DOMAIN toHub[a] /\ j + 1 \in DOMAIN toHub[a]
          /\ toHub'[a][i] = toHub[a][i + 1] /\ toHub'[a][j] = toHub[a][j + 1]
      BY <1>3, <2>1
    <3> QED BY <1>1, <1>7, <2>1, <3>1 DEF Link, InOrder
  <2>2. ~Merging(a)' /\ ~Telling(a)' BY <1>1 DEF Merging, Telling
  <2>3. ~Told(a)' /\ pc'[a] \notin InLoop
    BY <1>1, <1>4, <1>7, ToldStays DEF Link, InOrder
  <2> QED BY <2>1, <2>2, <2>3 DEF InOrder
<1>8. InOrder(a)' BY <1>1, <1>7 DEF InOrder
<1>9. HasLeft(a)'
  <2>1. ~Merging(a)' BY <1>1 DEF Merging
  <2>2. pc[a] \in Out => Last(toHub[a]).type = "unregister" BY <1>2 DEF Link, HasLeft
  <2> QED BY <1>1, <1>3, <2>1, <2>2 DEF HasLeft
<1> QED BY <1>6, <1>8, <1>9 DEF Link

LEMMA RegistersLink ==
  ASSUME Typed, NEW a \in Agents, PollRegisters, Link(a), Kept(a)
  PROVE  Link(a)'
<1>1. /\ poll.at = "merge" /\ poll'.at = "tell" /\ poll'.reply = "registered"
      /\ poll'.agent = poll.agent /\ poll'.life = poll.life
      /\ UNCHANGED <<toHub, pc, life, runners, bus>>
      /\ entries' = [entries EXCEPT ![poll.agent] = Merged(@)]
  BY DEF PollRegisters, net, agent, Typed, Polls
<1>2. CASE poll.agent # a
  <2>1. entries'[a] = entries[a] BY <1>1, <1>2 DEF Typed
  <2>2. PollKept(a) /\ EntryKept(a) BY <1>1, <1>2, <2>1 DEF PollKept, EntryKept
  <2> QED BY <1>1, <2>2, StaysLink
<1>3. CASE poll.agent = a
  <2>1. entries'[a] # "none" BY <1>1, <1>3 DEF Typed, Merged
  <2>2. Merging(a) /\ ~Merging(a)' BY <1>1, <1>3 DEF Merging
  <2>3. Past(a, poll.life) BY <1>1, <1>3 DEF Link, Earlier
  <2>4. Earlier(a)'
    <3>1. \A i \in DOMAIN toAgent'[a] : toAgent'[a][i].type = "registered" => Past(a, toAgent'[a][i].id)
      BY DEF Link, Earlier, Kept
    <3> QED BY <1>1, <2>3, <3>1 DEF Link, Earlier, Past
  <2>5. ASSUME pc[a] \in Up PROVE InOrder(a)'
    <3>1. ~Told(a)' /\ pc'[a] \notin InLoop
      BY <1>1, <2>2, <2>5, ToldStays DEF Link, InOrder
    <3>2. Telling(a)' => Quiet(a)' BY <1>1, <2>2, <2>5 DEF Link, InOrder, Telling, Quiet
    <3> QED BY <1>1, <2>1, <2>2, <2>5, <3>1, <3>2 DEF Link, InOrder
  <2>6. InOrder(a)' BY <1>1, <2>5 DEF InOrder
  <2>7. HasLeft(a)' BY <1>1, <2>2 DEF Link, HasLeft
  <2> QED BY <2>4, <2>6, <2>7 DEF Link
<1> QED BY <1>2, <1>3

LEMMA TellsLink ==
  ASSUME Typed, NEW a \in Agents, PollTells, Link(a)
  PROVE  Link(a)'
<1> DEFINE m == Msg(poll.reply, poll.life, NoAgent)
<1>1. /\ poll.at = "tell" /\ poll' = Idle /\ UNCHANGED <<toHub, pc, life, runners, bus, entries>>
      /\ Post(poll.agent, m)
  BY DEF PollTells, hub, agent
<1>2. PollKept(a) /\ EntryKept(a) BY <1>1 DEF PollKept, EntryKept, Idle
<1>3. m.type = poll.reply /\ m.id = poll.life BY DEF Msg
<1> HIDE DEF m
<1>4. CASE Kept(a) BY <1>1, <1>2, <1>4, StaysLink
<1>5. CASE ~Kept(a)
  <2>1. poll.reply = "registered" /\ poll.agent = a
    /\ \A j \in DOMAIN toAgent'[a] :
         \/ toAgent'[a][j] = m
         \/ \E i \in DOMAIN toAgent[a] : toAgent[a][i] = toAgent'[a][j]
    <3>1. toAgent \in [Agents -> Seq(Msgs)] /\ poll \in Polls BY DEF Typed
    <3>2. toAgent' # toAgent BY <1>5 DEF Kept
    <3>3. toAgent' = [toAgent EXCEPT ![poll.agent] = Append(@, m)] BY <1>1, <3>2 DEF Post
    <3>4. poll.agent \in Agents BY <3>1, <3>2, <3>3
    <3>5. m.type = "ask" \/ <<m.type, m.id>> \in WaitsFor(poll.agent) BY <1>1, <3>2 DEF Post
    <3>6. poll.reply # "" BY <1>3, <3>5 DEF WaitsFor
    <3>7. m \in Msgs BY <3>1, <3>6 DEF m, Msg, Msgs, Types, Polls
    <3>8. /\ \A b \in Agents : b # poll.agent => toAgent'[b] = toAgent[b]
          /\ \A j \in DOMAIN toAgent'[a] :
               \/ toAgent'[a][j] = m
               \/ \E i \in DOMAIN toAgent[a] : toAgent[a][i] = toAgent'[a][j]
      BY <1>1, <3>1, <3>7, PostFacts
    <3>9. poll.agent = a BY <1>5, <3>8 DEF Kept
    <3>10. m.type = "registered" BY <1>5, <3>8 DEF Kept
    <3> QED BY <1>3, <3>8, <3>9, <3>10
  <2>2. Past(a, poll.life) BY <2>1 DEF Link, Earlier
  <2>3. Earlier(a)' BY <1>1, <1>3, <2>1, <2>2 DEF Link, Earlier, Past, Idle
  <2>4. Told(a)' => Told(a) \/ Telling(a)
    <3>1. ASSUME NEW j \in DOMAIN toAgent'[a], toAgent'[a][j].type = "registered", toAgent'[a][j].id = life[a]
          PROVE  Told(a) \/ Telling(a)
      <4>1. CASE toAgent'[a][j] = m BY <1>1, <1>3, <2>1, <3>1, <4>1 DEF Telling
      <4>2. CASE \E i \in DOMAIN toAgent[a] : toAgent[a][i] = toAgent'[a][j] BY <3>1, <4>2 DEF Told
      <4> QED BY <2>1, <4>1, <4>2
    <3> QED BY <1>1, <3>1 DEF Told
  <2>5. ~Merging(a)' /\ ~Telling(a)' BY <1>1 DEF Merging, Telling, Idle
  <2>6. InOrder(a)'
    <3>1. ASSUME pc[a] \in Up PROVE InOrder(a)'
      BY <1>1, <2>4, <2>5, <3>1 DEF Link, InOrder, Quiet
    <3> QED BY <1>1, <3>1 DEF InOrder
  <2>7. HasLeft(a)' BY <1>1, <2>5 DEF Link, HasLeft
  <2> QED BY <2>3, <2>6, <2>7 DEF Link
<1> QED BY <1>4, <1>5

(* The hub's tables, its registry and its agents ------------------------------- *)
Unstarted == todo \subseteq Injected /\ \A a \in todo : pc[a] = "off"
Linked == \A a \in Agents : Link(a)
SwarmInv == Typed /\ MainInv /\ Unstarted /\ Linked

(* A step of agent a's runner; the others notice nothing. *)
LEMMA OneLinked ==
  ASSUME Typed, Linked, Unstarted, NEW a \in Agents, Tidy, Others(a), HubRests, todo' = todo,
         pc[a] # "off" \/ a \notin todo, Link(a)'
  PROVE  Linked' /\ Unstarted'
<1>1. UNCHANGED LinkHub BY DEF HubRests, LinkHub
<1>2. ASSUME NEW b \in Agents, b # a PROVE Link(b)'
  <2>1. PollKept(b) /\ EntryKept(b) /\ (bus' => bus) BY <1>1, RestsKept
  <2> QED BY <1>2, <2>1, StaysLink DEF Linked, Others, Tidy
<1>3. Unstarted' BY DEF Unstarted, Others, Agents
<1> QED BY <1>2, <1>3 DEF Linked

LEMMA AgentLinked ==
  ASSUME Typed, Linked, Unstarted, NEW a \in Agents,
         \/ AgentStep(a) \/ Dies(a) \/ Restarts(a) \/ TimesOut(a)
         \/ \E b \in RelaysTo[a] : Relays(a, b)
  PROVE  Typed' /\ Linked' /\ Unstarted'
<1>1. /\ toHub[a] \in Seq(Msgs) /\ toAgent[a] \in Seq(Msgs) /\ life[a] \in Nat /\ poll \in Polls
      /\ Link(a)
  BY DEF Typed, Linked
<1>2. todo' = todo
  BY DEF AgentStep, RunBegins, IsRegistered, LeavesLoop, Disconnects, IsUnregistered, Disconnected,
         TakesRequest, SendsAnswer, RelayReturns, Dies, Restarts, TimesOut, RegistrationTimesOut,
         UnregisterTimesOut, RelayGivesUp, Relays, mainVars
<1>3. CASE \/ TakesRequest(a) \/ SendsAnswer(a) \/ RelayReturns(a) \/ RelayGivesUp(a)
           \/ \E b \in RelaysTo[a] : Relays(a, b)
  <2>1. /\ Typed' /\ Tidy /\ Others(a) /\ HubRests /\ life' = life
        /\ pc[a] \in InLoop /\ pc'[a] \in InLoop
        /\ \/ toHub' = toHub
           \/ \E m \in Msgs : m.type \notin Joins /\ toHub'[a] = Append(toHub[a], m)
    BY <1>3, LoopTyped
  <2>2. Link(a)' BY <1>1, <2>1, LoopLink DEF Tidy, HubRests, LinkHub
  <2>3. pc[a] # "off" BY <2>1 DEF InLoop
  <2> QED BY <1>2, <2>1, <2>2, <2>3, OneLinked
<1>4. CASE RunBegins(a)
  <2>1. /\ Typed' /\ Tidy /\ Others(a) /\ HubRests /\ life' = life
        /\ pc[a] = "setup" /\ pc'[a] = "registering"
    BY <1>4, BeginsTyped
  <2>2. PICK m \in Msgs : /\ m.type = "register" /\ m.id = life[a]
                          /\ toHub'[a] = Append(toHub[a], m)
    BY <1>4, BeginsTyped
  <2>3. Link(a)' BY <1>1, <2>1, <2>2, BeginsLink DEF Tidy, HubRests, LinkHub
  <2> QED BY <1>2, <2>1, <2>3, OneLinked
<1>5. CASE IsRegistered(a)
  <2>1. /\ Typed' /\ Tidy /\ Others(a) /\ HubRests /\ life' = life /\ toHub' = toHub
        /\ pc[a] = "registering" /\ pc'[a] = "loop"
        /\ \E i \in DOMAIN toAgent[a] : toAgent[a][i].type = "registered" /\ toAgent[a][i].id = life[a]
    BY <1>5, RegisteredTyped
  <2>2. Link(a)' BY <1>1, <2>1, RegisteredLink DEF Tidy, HubRests, LinkHub
  <2> QED BY <1>2, <2>1, <2>2, OneLinked
<1>6. CASE RegistrationTimesOut(a) \/ LeavesLoop(a)
  <2>1. /\ Typed' /\ Tidy /\ Others(a) /\ HubRests /\ life' = life /\ pc'[a] \in {"leaving", "failing"}
    BY <1>6, LeavesTyped
  <2>2. PICK m \in Msgs : m.type = "unregister" /\ toHub'[a] = Append(toHub[a], m)
    BY <1>6, LeavesTyped
  <2>3. Link(a)' BY <1>1, <2>1, <2>2, LeavesLink DEF Tidy, HubRests, LinkHub
  <2>4. pc[a] # "off" BY <1>6 DEF RegistrationTimesOut, LeavesLoop
  <2> QED BY <1>2, <2>1, <2>3, <2>4, OneLinked
<1>7. CASE IsUnregistered(a) \/ UnregisterTimesOut(a) \/ Dies(a)
  <2>1. /\ Typed' /\ Tidy /\ Others(a) /\ HubRests /\ life' = life /\ toHub' = toHub
        /\ \/ pc'[a] = "killed"
           \/ pc[a] \in {"leaving", "failing"} /\ pc'[a] \in {"ended", "failed"}
    BY <1>7, GoneTyped
  <2>2. UNCHANGED LinkHub /\ PollKept(a) BY <2>1, RestsKept DEF HubRests, LinkHub
  <2>3. Link(a)' BY <1>1, <2>1, <2>2, GoneLink DEF Tidy
  <2>4. pc[a] # "off" BY <1>7 DEF IsUnregistered, UnregisterTimesOut, Dies, Over
  <2> QED BY <1>2, <2>1, <2>3, <2>4, OneLinked
<1>8. CASE Restarts(a)
  <2>1. /\ Goes(a, "setup") /\ life' = [life EXCEPT ![a] = @ + 1]
        /\ cur' = [cur EXCEPT ![a] = NoWork]
        /\ UNCHANGED <<bus, entries, runners, tasks, poll, ids, toHub, toAgent>>
    BY <1>8 DEF Restarts, hub, net
  <2>2. /\ Typed' /\ Tidy /\ Others(a) /\ pc'[a] = "setup" /\ life'[a] = life[a] + 1
    BY <2>1, LivesTyped
  <2>3. HubRests BY <2>1 DEF HubRests
  <2>4. PollKept(a) BY <2>1, RestsKept DEF LinkHub
  <2>5. Link(a)' BY <1>1, <2>1, <2>2, <2>4, LivesLink DEF Tidy
  <2>6. pc[a] # "off" \/ a \notin todo
    BY <1>8, SwarmAssumption DEF Restarts, Unstarted
  <2> QED BY <1>2, <2>2, <2>3, <2>5, <2>6, OneLinked
<1> QED BY <1>3, <1>4, <1>5, <1>6, <1>7, <1>8 DEF AgentStep, TimesOut

(* The poll thread reads, and does what it read. *)
LEMMA PollLinked ==
  ASSUME Typed, Linked, Unstarted, NEW a \in Agents, PollStep(a)
  PROVE  Typed' /\ Linked' /\ Unstarted'
<1>1. Typed' /\ UNCHANGED <<toAgent, agent, runners, bus>> BY PollTyped
<1>2. \A b \in Agents : Kept(b) BY <1>1, NothingNew
<1>3. todo' = todo
  BY DEF PollStep, PollLooksUp, PollUnregisters, PollRelays, PollDelivers, PollIgnores, mainVars
<1>4. pc' = pc /\ life' = life BY <1>1 DEF agent
<1>5. Unstarted' BY <1>3, <1>4 DEF Unstarted
<1>6. Reads(a)
  BY DEF PollStep, PollLooksUp, PollUnregisters, PollRelays, PollDelivers, PollIgnores, Takes
<1>7. /\ toHub[a] # <<>> /\ toHub[a] \in Seq(Msgs) /\ toHub'[a] = Tail(toHub[a])
      /\ \A b \in Agents : b # a => toHub'[b] = toHub[b]
      /\ poll.at = "idle"
  BY <1>6, ReadsFacts DEF Typed
<1>8. CASE PollRelays(a) \/ PollDelivers(a) \/ PollIgnores(a)
  <2>1. poll' = poll /\ entries' = entries BY <1>8 DEF PollRelays, PollDelivers, PollIgnores, hub
  <2>2. Head(toHub[a]).type \notin Joins
    BY <1>8 DEF PollRelays, PollDelivers, PollIgnores, Takes, Routed, Joins
  <2>3. UNCHANGED LinkHub BY <1>1, <2>1 DEF LinkHub
  <2>4. ASSUME NEW b \in Agents PROVE Link(b)'
    <3>1. PollKept(b) /\ EntryKept(b) BY <2>3, RestsKept
    <3>2. CASE b = a BY <1>1, <1>2, <1>4, <1>7, <2>2, <3>1, <3>2, ReadLink DEF Linked
    <3>3. CASE b # a BY <1>1, <1>2, <1>4, <1>7, <3>1, <3>3, StaysLink DEF Linked
    <3> QED BY <3>2, <3>3
  <2> QED BY <1>1, <1>5, <2>4 DEF Linked
<1>9. CASE PollLooksUp(a) \/ PollUnregisters(a)
  <2>1. poll'.agent = a BY <1>9 DEF PollLooksUp, PollUnregisters, Idle
  <2>2. \A b \in Agents : b # a => entries'[b] = entries[b]
    BY <1>9 DEF PollLooksUp, PollUnregisters, hub, Typed
  <2>3. ASSUME NEW b \in Agents PROVE Link(b)'
    <3>1. CASE b = a BY <1>2, <1>9, <3>1, LooksUpLink, UnregistersLink DEF Linked
    <3>2. CASE b # a
      <4>1. PollKept(b) /\ EntryKept(b) BY <1>1, <2>1, <2>2, <3>2 DEF PollKept, EntryKept
      <4> QED BY <1>1, <1>2, <1>4, <1>7, <3>2, <4>1, StaysLink DEF Linked
    <3> QED BY <3>1, <3>2
  <2> QED BY <1>1, <1>5, <2>3 DEF Linked
<1> QED BY <1>8, <1>9 DEF PollStep

LEMMA PollGoesOnLinked ==
  ASSUME Typed, Linked, Unstarted, PollGoesOn
  PROVE  Typed' /\ Linked' /\ Unstarted'
<1>1. UNCHANGED <<pc, todo>> BY DEF PollGoesOn, PollRegisters, PollTells, agent, mainVars
<1>2. Unstarted' BY <1>1 DEF Unstarted
<1>3. CASE PollRegisters
  <2>1. Typed' /\ toAgent' = toAgent BY <1>3, PollRegistersTyped
  <2>2. \A b \in Agents : Kept(b) BY <2>1, NothingNew
  <2>3. Linked' BY <1>3, <2>2, RegistersLink DEF Linked
  <2> QED BY <1>2, <2>1, <2>3
<1>4. CASE PollTells
  <2>1. Typed' BY <1>4, PollTellsTyped
  <2>2. Linked' BY <1>4, TellsLink DEF Linked
  <2> QED BY <1>2, <2>1, <2>2
<1> QED BY <1>3, <1>4 DEF PollGoesOn

(* A step of the hub that no agent's runner moves with. *)
LEMMA QuietLinked ==
  ASSUME Typed, Linked, Unstarted, Tidy, UNCHANGED <<toHub, pc, life>>, todo' \subseteq todo,
         bus' => bus, \A b \in Agents : PollKept(b) /\ EntryKept(b)
  PROVE  Linked' /\ Unstarted'
<1>1. ASSUME NEW b \in Agents PROVE Link(b)' BY StaysLink DEF Linked, Tidy
<1> QED BY <1>1 DEF Linked, Unstarted

LEMMA PoolLinked ==
  ASSUME Typed, Linked, Unstarted, PoolStep \/ RelayTimesOut
  PROVE  Typed' /\ Linked' /\ Unstarted'
<1>1. /\ Tidy /\ tasks' \in Seq(Tasks)
      /\ UNCHANGED <<poll, mainVars, ids, toHub, agent, runners, entries, bus>>
  BY PoolTyped DEF PoolStep, RelayClosed, RelayTimesOut
<1>2. UNCHANGED LinkHub /\ UNCHANGED <<pc, life, cur, todo>> BY <1>1 DEF LinkHub, agent, mainVars
<1>3. \A b \in Agents : PollKept(b) /\ EntryKept(b) BY <1>2, RestsKept
<1>4. Linked' /\ Unstarted' BY <1>1, <1>2, <1>3, QuietLinked DEF LinkHub
<1> QED BY <1>1, <1>2, <1>4 DEF Typed, Tidy

(* The main thread's own steps.  NetRests: neither a queue to an agent nor a
   runner's state changes. *)
NetRests == UNCHANGED <<tasks, ids, toHub, toAgent, pc, life, cur>>
EntriesFall == \A b \in Agents : entries'[b] \in {entries[b], "none"}

LEMMA HubLinked ==
  ASSUME Typed, Linked, Unstarted, NetRests, bus' \in BOOLEAN, bus' => bus, todo' \subseteq todo,
         poll' = poll \/ poll' = [poll EXCEPT !.at = "idle"],
         entries' \in [Agents -> {"none", "injected", "external"}],
         \A b \in Agents : EntryKept(b)
  PROVE  Typed' /\ Linked' /\ Unstarted'
<1>1. poll' \in Polls BY DEF Typed, Polls
<1>2. \A b \in Agents : PollKept(b) BY DEF PollKept, Typed, Polls
<1>3. Tidy BY UnchangedTidy DEF NetRests
<1>4. Typed' BY <1>1 DEF Typed, NetRests
<1>5. Linked' /\ Unstarted' BY <1>2, <1>3, QuietLinked DEF NetRests
<1> QED BY <1>4, <1>5

(* An agent that was never started has sent nothing that is still believed. *)
LEMMA StartLinked ==
  ASSUME SwarmInv, NEW a \in Agents, StartAgent(a)
  PROVE  Typed' /\ Linked' /\ Unstarted'
<1> USE DEF SwarmInv
<1>1. /\ NetRests /\ bus' = bus /\ poll' = poll /\ todo' = todo \ {a} /\ a \in todo
      /\ entries' = [entries EXCEPT ![a] = "injected"] /\ runners' = runners
  BY DEF StartAgent, NetRests, net, agent
<1>2. entries' \in [Agents -> {"none", "injected", "external"}] BY <1>1 DEF Typed
<1>3. pc[a] = "off" BY <1>1 DEF Unstarted
<1>4. ASSUME NEW b \in Agents PROVE EntryKept(b)
  <2>1. CASE b = a BY <1>3, <2>1 DEF EntryKept, Up, Out
  <2>2. CASE b # a BY <1>1, <2>2 DEF EntryKept, Typed
  <2> QED BY <2>1, <2>2
<1>5. bus' \in BOOLEAN BY <1>1 DEF Typed
<1> QED BY <1>1, <1>2, <1>4, <1>5, HubLinked

LEMMA RunnerStartsLinked ==
  ASSUME SwarmInv, RunnerStarts
  PROVE  Typed' /\ Linked' /\ Unstarted'
<1> USE DEF SwarmInv
<1>0. PICK a : a = Top.name OBVIOUS
<1>1. /\ At("start", "run") /\ Goes(a, "setup") /\ life' = [life EXCEPT ![a] = @ + 1]
      /\ runners' = runners \cup {a} /\ cur' = cur
      /\ UNCHANGED <<bus, entries, tasks, poll, ids, toHub, toAgent, todo>>
  BY <1>0 DEF RunnerStarts, Goes, net
<1>2. /\ main \in Seq(Frames) /\ Len(main) \in DOMAIN main
      /\ main[Len(main)].op = "start" /\ a = main[Len(main)].name
  BY <1>0, <1>1, AtFacts DEF MainInv
<1>3. a \in Agents /\ a \notin todo /\ a \notin runners BY <1>2 DEF MainInv
<1>4. /\ Typed' /\ Tidy /\ Others(a) /\ pc'[a] = "setup" /\ life'[a] = life[a] + 1
      /\ life[a] \in Nat
  BY <1>1, <1>3, LivesTyped
<1>5. \A b \in Agents : PollKept(b) BY <1>1 DEF PollKept
<1>6. /\ toHub[a] \in Seq(Msgs) /\ toAgent[a] \in Seq(Msgs) /\ poll \in Polls /\ Link(a)
  BY <1>3 DEF Typed, Linked
<1>7. Link(a)' BY <1>1, <1>3, <1>4, <1>5, <1>6, LivesLink DEF Tidy
<1>8. ASSUME NEW b \in Agents, b # a PROVE Link(b)'
  <2>1. EntryKept(b) BY <1>1, <1>8 DEF EntryKept
  <2>2. toHub'[b] = toHub[b] /\ (bus' => bus) BY <1>1
  <2> QED BY <1>4, <1>5, <1>8, <2>1, <2>2, StaysLink DEF Linked, Others, Tidy
<1>9. Unstarted' BY <1>1, <1>3, <1>4 DEF Unstarted, Others, Agents
<1> QED BY <1>4, <1>7, <1>8, <1>9 DEF Linked

LEMMA AskLinked ==
  ASSUME SwarmInv, NEW a \in Agents, Ask(a)
  PROVE  Typed' /\ Linked' /\ Unstarted'
<1> USE DEF SwarmInv
<1>1. /\ Post(a, Msg("ask", ids + 1, NoAgent)) /\ ids' = ids + 1 /\ todo' = todo
      /\ UNCHANGED <<bus, entries, runners, tasks, poll, toHub, pc, life, cur>>
  BY DEF Ask, hub, agent
<1>2. ids + 1 \in Nat /\ ids' \in Nat BY <1>1 DEF Typed
<1>3. Tidy BY <1>1, <1>2, AskTidy
<1>4. \A b \in Agents : PollKept(b) /\ EntryKept(b) BY <1>1, RestsKept DEF LinkHub
<1>5. Linked' /\ Unstarted' BY <1>1, <1>3, <1>4, QuietLinked
<1>6. Typed' BY <1>1, <1>2, <1>3 DEF Typed, Tidy
<1> QED BY <1>5, <1>6

(* The steps that take an agent off the registry, or touch it not at all. *)
LEMMA RestsLinked ==
  ASSUME SwarmInv,
         \/ AskAnswered \/ AskFails \/ StopAnnounces \/ ShutdownStops \/ Signal
         \/ ShutdownClosesBus \/ \E a \in Agents : Stop(a) \/ OwnerStops(a)
  PROVE  Typed' /\ Linked' /\ Unstarted'
<1> USE DEF SwarmInv
<1>1. /\ NetRests /\ entries' = entries /\ runners' \subseteq runners /\ todo' = todo
      /\ bus' = bus \/ bus' = FALSE
      /\ poll' = poll \/ poll' = [poll EXCEPT !.at = "idle"]
  BY DEF NetRests, AskAnswered, AskFails, StopAnnounces, ShutdownStops, Signal, ShutdownClosesBus,
         Stop, OwnerStops, StopRunner, hub, mainVars, net, agent
<1>2. bus' \in BOOLEAN /\ (bus' => bus)
  <2>1. bus \in BOOLEAN BY DEF Typed
  <2>2. CASE bus' = bus BY <2>1, <2>2
  <2>3. CASE bus' = FALSE BY <2>3
  <2> QED BY <1>1, <2>2, <2>3
<1>3. \A b \in Agents : EntryKept(b) BY <1>1 DEF EntryKept
<1>4. entries' \in [Agents -> {"none", "injected", "external"}] BY <1>1 DEF Typed
<1> QED BY <1>1, <1>2, <1>3, <1>4, HubLinked

LEMMA RefusedLinked ==
  ASSUME SwarmInv, RunnerRefuses \/ StopUnregisters
  PROVE  Typed' /\ Linked' /\ Unstarted'
<1> USE DEF SwarmInv
<1>0. PICK a : a = Top.name OBVIOUS
<1>1. /\ NetRests /\ entries' = [entries EXCEPT ![a] = "none"] /\ runners' = runners
      /\ todo' = todo /\ bus' = bus /\ poll' = poll
  BY <1>0 DEF NetRests, RunnerRefuses, StopUnregisters, net, agent
<1>2. At("start", "run") \/ At("stop", "unregister") BY DEF RunnerRefuses, StopUnregisters
<1>3. /\ main \in Seq(Frames) /\ Len(main) \in DOMAIN main /\ a = main[Len(main)].name
      /\ main[Len(main)].op \in {"start", "stop"}
  BY <1>0, <1>2, AtFacts DEF MainInv
<1>4. a \notin runners BY <1>3 DEF MainInv
<1>5. ASSUME NEW b \in Agents PROVE EntryKept(b)
  <2>1. CASE b = a BY <1>1, <1>4, <2>1 DEF EntryKept, Typed
  <2>2. CASE b # a BY <1>1, <2>2 DEF EntryKept, Typed
  <2> QED BY <2>1, <2>2
<1>6. entries' \in [Agents -> {"none", "injected", "external"}] /\ bus' \in BOOLEAN
  BY <1>1 DEF Typed
<1> QED BY <1>1, <1>5, <1>6, HubLinked

LEMMA JoinsLinked ==
  ASSUME SwarmInv, StopJoins
  PROVE  Typed' /\ Linked' /\ Unstarted'
<1> USE DEF SwarmInv
<1>0. PICK a : a = Top.name OBVIOUS
<1>1. /\ UNCHANGED <<bus, entries, runners, poll, tasks, ids, toHub, toAgent, life, cur, todo>>
      /\ \/ pc' = pc
         \/ pc' = [pc EXCEPT ![a] = "killed"] /\ a \in Processes /\ pc[a] \notin Over
  BY <1>0 DEF StopJoins, net
<1>2. CASE pc' = pc
  <2>1. NetRests BY <1>1, <1>2 DEF NetRests
  <2>2. /\ \A b \in Agents : EntryKept(b)
        /\ entries' \in [Agents -> {"none", "injected", "external"}] /\ bus' \in BOOLEAN
    BY <1>1 DEF EntryKept, Typed
  <2> QED BY <1>1, <2>1, <2>2, HubLinked
<1>3. CASE pc' = [pc EXCEPT ![a] = "killed"] /\ a \in Processes /\ pc[a] \notin Over
  <2>1. a \in Agents BY <1>3, SwarmAssumption DEF Agents
  <2>2. pc' \in [Agents -> Places] /\ pc'[a] = "killed" /\ \A b \in Agents : b # a => pc'[b] = pc[b]
    BY <1>3, <2>1 DEF Typed, Places
  <2>3. Tidy BY <1>1, UnchangedTidy
  <2>4. HubRests /\ Others(a) BY <1>1, <2>2 DEF HubRests, Others
  <2>5. Typed' BY <1>1, <2>2 DEF Typed
  <2>6. PollKept(a) BY <1>1 DEF PollKept
  <2>7. Link(a) /\ Kept(a) /\ life'[a] = life[a] /\ toHub'[a] = toHub[a]
    BY <1>1, <2>1, <2>3 DEF Linked, Tidy
  <2>8. Link(a)' BY <2>2, <2>6, <2>7, GoneLink
  <2>9. pc[a] # "off" BY <1>3 DEF Over
  <2> QED BY <1>1, <2>1, <2>3, <2>4, <2>5, <2>8, <2>9, OneLinked
<1> QED BY <1>1, <1>2, <1>3

LEMMA SwarmInit == Init => SwarmInv
<1> SUFFICES ASSUME Init PROVE SwarmInv
  OBVIOUS
<1>1. Typed
  <2>1. Idle \in Polls BY DEF Idle, Polls
  <2>6. <<>> \in Seq(Tasks) OBVIOUS
  <2>7. <<>> \in Seq(Msgs) OBVIOUS
  <2>8. tasks = <<>> BY DEF Init
  <2>2. tasks = <<>> /\ <<>> \in Seq(Tasks) /\ <<>> \in Seq(Msgs) BY <2>6, <2>7, <2>8
  <2>3. NoWork \in [ask : Nat, relay : Nat] BY DEF NoWork
  <2>4. /\ toHub \in [Agents -> Seq(Msgs)] /\ toAgent \in [Agents -> Seq(Msgs)]
        /\ cur \in [Agents -> [ask : Nat, relay : Nat]]
    BY <2>2, <2>3 DEF Init
  <2>5. /\ bus \in BOOLEAN /\ entries \in [Agents -> {"none", "injected", "external"}] /\ ids \in Nat
        /\ pc \in [Agents -> Places] /\ life \in [Agents -> Nat] /\ poll \in Polls
    BY <2>1 DEF Init, Places
  <2> QED BY <2>2, <2>4, <2>5 DEF Typed
<1>2. Unstarted BY DEF Init, Unstarted, Agents
<1>3. ASSUME NEW a \in Agents PROVE Link(a)
  <2>1. toHub[a] = <<>> /\ toAgent[a] = <<>> /\ pc[a] = "off" /\ poll.at = "idle" /\ poll.reply = ""
    BY DEF Init, Idle
  <2>3. DOMAIN <<>> = {} OBVIOUS
  <2>2. DOMAIN toHub[a] = {} /\ DOMAIN toAgent[a] = {} BY <2>1, <2>3, Zenon
  <2> QED BY <2>1, <2>2 DEF Link, Earlier, InOrder, HasLeft, Up, Out
<1> QED BY <1>1, <1>2, <1>3, MainInit DEF SwarmInv, Linked

LEMMA SwarmStep == SwarmInv /\ [Next]_vars => SwarmInv'
<1> SUFFICES ASSUME SwarmInv, [Next]_vars PROVE SwarmInv'
  OBVIOUS
<1>1. MainInv' BY MainStepKeeps DEF SwarmInv, Typed
<1>2. Typed /\ Linked /\ Unstarted BY DEF SwarmInv
<1> DEFINE Rest == Typed' /\ Linked' /\ Unstarted'
<1> SUFFICES Rest BY <1>1 DEF SwarmInv
<1>3. CASE MainStep
  <2>1. ASSUME NEW a \in Agents, StartAgent(a) PROVE Rest BY <2>1, StartLinked
  <2>2. CASE RunnerStarts BY <2>2, RunnerStartsLinked
  <2>3. CASE AskAnswered \/ StopAnnounces \/ ShutdownStops \/ ShutdownClosesBus BY <2>3, RestsLinked
  <2>4. CASE StopJoins BY <2>4, JoinsLinked
  <2>5. CASE StopUnregisters BY <2>5, RefusedLinked
  <2> QED BY <1>3, <2>1, <2>2, <2>3, <2>4, <2>5 DEF MainStep
<1>4. CASE PollGoesOn BY <1>2, <1>4, PollGoesOnLinked
<1>5. CASE PoolStep BY <1>2, <1>5, PoolLinked
<1>6. ASSUME NEW a \in Agents, PollStep(a) PROVE Rest BY <1>2, <1>6, PollLinked
<1>7. ASSUME NEW a \in Agents, AgentStep(a) PROVE Rest BY <1>2, <1>7, AgentLinked
<1>8. CASE Environment
  <2>1. CASE RunnerRefuses BY <2>1, RefusedLinked
  <2>2. CASE AskFails \/ Signal BY <2>2, RestsLinked
  <2>3. CASE RelayTimesOut BY <1>2, <2>3, PoolLinked
  <2>4. ASSUME NEW a \in Agents, Ask(a) PROVE Rest BY <2>4, AskLinked
  <2>5. ASSUME NEW a \in Agents, Stop(a) \/ OwnerStops(a) PROVE Rest BY <2>5, RestsLinked
  <2>6. ASSUME NEW a \in Agents,
               Dies(a) \/ Restarts(a) \/ TimesOut(a) \/ \E b \in RelaysTo[a] : Relays(a, b)
        PROVE  Rest
    BY <1>2, <2>6, AgentLinked
  <2> QED BY <1>8, <2>1, <2>2, <2>3, <2>4, <2>5, <2>6 DEF Environment
<1>9. CASE UNCHANGED vars
  <2>1. NetRests /\ UNCHANGED LinkHub /\ todo' = todo
    BY <1>9 DEF vars, NetRests, LinkHub, hub, mainVars, net, agent
  <2>2. /\ \A b \in Agents : EntryKept(b)
        /\ entries' \in [Agents -> {"none", "injected", "external"}] /\ bus' \in BOOLEAN
    BY <1>2, <2>1, RestsKept DEF Typed, LinkHub
  <2> QED BY <1>2, <2>1, <2>2, HubLinked DEF LinkHub
<1> QED BY <1>3, <1>4, <1>5, <1>6, <1>7, <1>8, <1>9 DEF Next

(* While the main thread is at rest the hub's tables agree: there is a channel
   for each runner and no other (Hub._runners and the bus's channels), for any
   number of agents and any nesting of stops and a signal. *)
THEOREM ChannelsMatch == Spec => []ChannelsOfRunners
<1>1. SwarmInv => ChannelsOfRunners
  <2> SUFFICES ASSUME SwarmInv, main = <<>> PROVE channels = runners
    BY DEF ChannelsOfRunners
  <2>1. \A a : ~Finishing(a) BY DEF Finishing
  <2> QED BY <2>1 DEF SwarmInv, MainInv
<1> QED BY <1>1, SwarmInit, SwarmStep, PTL DEF Spec

(* An agent that left, with its messages handled, is not in the hub's registry,
   and one in its loop is: whatever order registrations, deregistrations,
   restarts, stops and deaths came in. *)
THEOREM RegistryTrue == Spec => []RegistryIsTrue
<1>1. SwarmInv => RegistryIsTrue
  <2> SUFFICES ASSUME SwarmInv, NEW a \in Agents
               PROVE  /\ (bus /\ pc[a] \in {"ended", "failed"} /\ toHub[a] = <<>>)
                           => entries[a] = "none"
                      /\ (a \in runners /\ pc[a] \in InLoop) => entries[a] # "none"
    BY DEF RegistryIsTrue, InLoop
  <2>1. InOrder(a) /\ HasLeft(a) BY DEF SwarmInv, Linked, Link
  <2> QED BY <2>1 DEF InOrder, HasLeft, Up, Out, InLoop
<1> QED BY <1>1, SwarmInit, SwarmStep, PTL DEF Spec
-----------------------------------------------------------------------------
(* Types.  An agent of the hub that was not started yet has no life behind it,
   so the one start that the hub gives it is within the bound. *)
Answered == {m \in Msgs : m.type = "answer"}
Fresh(a) == a \in todo \/ \E i \in DOMAIN main : main[i].op = "start" /\ main[i].name = a
Flags ==
  /\ signalled \in BOOLEAN
  /\ halted \in [Agents -> BOOLEAN] /\ stopEvent \in [Agents -> BOOLEAN]
  /\ announced \in [External -> {"", "joined", "left"}]
  /\ ids <= MaxRequests /\ kills \in 0..MaxKills
Lives ==
  /\ life \in [Agents -> 0..MaxLives] /\ runners \subseteq Injected
  /\ \A a \in Agents : Fresh(a) => a \in Injected /\ pc[a] = "off" /\ life[a] = 0
Inboxes == inbox \in [Agents -> Seq(Answered)]

FlagVars == <<signalled, halted, stopEvent, announced, ids, kills>>

(* A bounded count that goes up by one. *)
LEMMA More ==
  /\ \A n \in Nat : n < MaxRequests => n + 1 <= MaxRequests
  /\ \A n \in 0..MaxKills : n < MaxKills => n + 1 \in 0..MaxKills
BY SwarmAssumption

LEMMA StoppedFlags ==
  ASSUME Flags, NEW a, StopRunner(a)
  PROVE  halted' \in [Agents -> BOOLEAN] /\ stopEvent' \in [Agents -> BOOLEAN]
BY DEF Flags, StopRunner

LEMMA FlagsStep ==
  ASSUME Typed, Flags, [Next]_vars
  PROVE  Flags'
<1> USE DEF hub, mainVars, net, agent
<1>1. CASE UNCHANGED FlagVars BY <1>1 DEF FlagVars, Flags
<1>2. CASE MainStep
  <2>1. CASE StopAnnounces
    <3>1. Announce(Top.name, "left") /\ UNCHANGED <<signalled, halted, stopEvent, ids, kills>>
      BY <2>1 DEF StopAnnounces
    <3> QED BY <3>1 DEF Flags, Announce
  <2>2. CASE ShutdownStops
    <3>1. PICK a : StopRunner(a) BY <2>2 DEF ShutdownStops
    <3>2. UNCHANGED <<signalled, announced, ids, kills>> BY <2>2 DEF ShutdownStops
    <3> QED BY <3>1, <3>2, StoppedFlags DEF Flags
  <2> QED BY <1>1, <1>2, <2>1, <2>2
          DEF MainStep, StartAgent, RunnerStarts, AskAnswered, StopJoins, StopUnregisters,
              ShutdownClosesBus, FlagVars
<1>3. CASE PollGoesOn
  <2>1. CASE PollTells
    <3>1. Announce(poll.agent, poll.tell) /\ UNCHANGED <<signalled, halted, stopEvent, ids, kills>>
      BY <2>1 DEF PollTells
    <3>2. poll.tell \in {"", "joined", "left"} BY DEF Typed, Polls
    <3> QED BY <3>1, <3>2 DEF Flags, Announce
  <2> QED BY <1>1, <1>3, <2>1 DEF PollGoesOn, PollRegisters, FlagVars
<1>4. CASE PoolStep
  BY <1>1, <1>4 DEF PoolStep, RelayStarts, RelayAnswered, RelayClosed, RelayEndsWithout, FlagVars
<1>5. ASSUME NEW a \in Agents, PollStep(a) PROVE Flags'
  BY <1>1, <1>5 DEF PollStep, PollLooksUp, PollUnregisters, PollRelays, PollDelivers, PollIgnores,
                    FlagVars
<1>6. ASSUME NEW a \in Agents, Disconnects(a, "leaving") \/ Disconnects(a, "failing") PROVE Flags'
  BY <1>6 DEF Disconnects, Flags
<1>7. ASSUME NEW a \in Agents, AgentStep(a) PROVE Flags'
  <2>1. CASE RunBegins(a) BY <2>1 DEF RunBegins, Cleared, Flags
  <2>2. CASE LeavesLoop(a) BY <1>6, <2>2 DEF LeavesLoop
  <2> QED BY <1>1, <1>7, <2>1, <2>2
          DEF AgentStep, IsRegistered, IsUnregistered, Disconnected, TakesRequest, SendsAnswer,
              RelayReturns, FlagVars
<1>8. ASSUME NEW a \in Agents, TimesOut(a) PROVE Flags'
  <2>1. CASE RegistrationTimesOut(a) BY <1>6, <2>1 DEF RegistrationTimesOut
  <2> QED BY <1>1, <1>8, <2>1 DEF TimesOut, UnregisterTimesOut, Disconnected, RelayGivesUp, FlagVars
<1>9. CASE Environment
  <2>1. CASE RunnerRefuses \/ AskFails \/ RelayTimesOut
    BY <1>1, <2>1 DEF RunnerRefuses, AskFails, RelayTimesOut, RelayEndsWithout, FlagVars
  <2>2. CASE Signal
    <3>1. PICK told : stopEvent' = [a \in Agents |-> stopEvent[a] \/ a \in told]
      BY <2>2 DEF Signal
    <3>2. signalled' = TRUE /\ UNCHANGED <<halted, announced, ids, kills>> BY <2>2 DEF Signal
    <3>3. stopEvent' \in [Agents -> BOOLEAN] BY <3>1
    <3> QED BY <3>2, <3>3 DEF Flags
  <2>3. ASSUME NEW a \in Agents, Ask(a) PROVE Flags'
    <3>1. ids < MaxRequests /\ ids' = ids + 1 /\ UNCHANGED <<signalled, halted, stopEvent, announced, kills>>
      BY <2>3 DEF Ask
    <3> QED BY <3>1, More DEF Flags, Typed
  <2>4. ASSUME NEW a \in Agents, NEW b \in RelaysTo[a], Relays(a, b) PROVE Flags'
    <3>1. ids < MaxRequests /\ ids' = ids + 1 /\ UNCHANGED <<signalled, halted, stopEvent, announced, kills>>
      BY <2>4 DEF Relays
    <3> QED BY <3>1, More DEF Flags, Typed
  <2>5. ASSUME NEW a \in Agents, Stop(a) PROVE Flags'
    <3>1. StopRunner(a) /\ UNCHANGED <<signalled, announced, ids, kills>> BY <2>5 DEF Stop
    <3> QED BY <3>1, StoppedFlags DEF Flags
  <2>6. ASSUME NEW a \in Agents, Dies(a) PROVE Flags'
    <3>1. kills < MaxKills /\ kills' = kills + 1 /\ UNCHANGED <<signalled, halted, stopEvent, announced, ids>>
      BY <2>6 DEF Dies
    <3> QED BY <3>1, More DEF Flags
  <2>7. ASSUME NEW a \in Agents, Restarts(a) PROVE Flags'
    BY <1>1, <2>7 DEF Restarts, FlagVars
  <2>8. ASSUME NEW a \in Agents, OwnerStops(a) PROVE Flags'
    BY <2>8 DEF OwnerStops, Flags
  <2> QED BY <1>8, <1>9, <2>1, <2>2, <2>3, <2>4, <2>5, <2>6, <2>7, <2>8 DEF Environment
<1>10. CASE UNCHANGED vars BY <1>1, <1>10 DEF vars, FlagVars
<1> QED BY <1>2, <1>3, <1>4, <1>5, <1>7, <1>9, <1>10 DEF Next

(* What a transport holds are answers: it is given nothing else, and a caller
   takes its own out or gives up. *)
LEMMA OneInbox ==
  ASSUME Inboxes, NEW a, NEW q, a \in Agents => q \in Seq(Answered), inbox' = [inbox EXCEPT ![a] = q]
  PROVE  Inboxes'
BY DEF Inboxes

LEMMA InboxParts ==
  ASSUME Inboxes, NEW a,
         \/ inbox' = inbox \/ inbox' = [inbox EXCEPT ![a] = <<>>]
         \/ \E id : inbox' = [inbox EXCEPT ![a] = Without(inbox[a], id)]
         \/ \E i \in DOMAIN inbox[a] : inbox' = [inbox EXCEPT ![a] = RemoveAt(inbox[a], i)]
  PROVE  Inboxes'
<1>1. a \in Agents => inbox[a] \in Seq(Answered) BY DEF Inboxes
<1>2. CASE inbox' = inbox BY <1>2 DEF Inboxes
<1>3. CASE inbox' = [inbox EXCEPT ![a] = <<>>]
  <2>1. <<>> \in Seq(Answered) OBVIOUS
  <2> QED BY <1>3, <2>1, OneInbox
<1>4. ASSUME NEW id, inbox' = [inbox EXCEPT ![a] = Without(inbox[a], id)] PROVE Inboxes'
  <2>1. a \in Agents => Without(inbox[a], id) \in Seq(Answered) BY <1>1, WithoutFacts
  <2> QED BY <1>4, <2>1, OneInbox
<1>5. ASSUME NEW i \in DOMAIN inbox[a], inbox' = [inbox EXCEPT ![a] = RemoveAt(inbox[a], i)]
      PROVE  Inboxes'
  <2>1. a \in Agents => RemoveAt(inbox[a], i) \in Seq(Answered) BY <1>1, RemoveFacts
  <2> QED BY <1>5, <2>1, OneInbox
<1> QED BY <1>2, <1>3, <1>4, <1>5

LEMMA InboxesStep ==
  ASSUME Typed, Inboxes, [Next]_vars
  PROVE  Inboxes'
<1> USE DEF hub, mainVars, net, agent
<1>1. CASE inbox' = inbox BY <1>1 DEF Inboxes
<1>2. CASE MainStep
  <2>1. CASE AskAnswered
    <3>1. \E i \in DOMAIN inbox[Top.name] :
            inbox' = [inbox EXCEPT ![Top.name] = RemoveAt(inbox[Top.name], i)]
      BY <2>1 DEF AskAnswered, Answers
    <3> QED BY <3>1, InboxParts
  <2>2. CASE StopJoins BY <2>2, InboxParts DEF StopJoins, DropChannel
  <2>3. CASE ShutdownClosesBus
    <3>1. inbox' = [a \in Agents |-> <<>>] BY <2>3 DEF ShutdownClosesBus
    <3>2. <<>> \in Seq(Answered) OBVIOUS
    <3> QED BY <3>1, <3>2 DEF Inboxes
  <2> QED BY <1>1, <1>2, <2>1, <2>2, <2>3
          DEF MainStep, StartAgent, RunnerStarts, StopUnregisters, StopAnnounces, ShutdownStops
<1>3. CASE PollGoesOn BY <1>1, <1>3 DEF PollGoesOn, PollRegisters, PollTells
<1>4. CASE PoolStep \/ RelayTimesOut
  <2>1. CASE RelayStarts BY <1>1, <2>1 DEF RelayStarts
  <2>2. CASE RelayAnswered
    <3>1. PICK i \in Waiting : \E j \in DOMAIN inbox[tasks[i].to] :
            inbox' = [inbox EXCEPT ![tasks[i].to] = RemoveAt(inbox[tasks[i].to], j)]
      BY <2>2 DEF RelayAnswered, Answers
    <3> QED BY <3>1, InboxParts
  <2>3. ASSUME NEW i, RelayEndsWithout(i) PROVE Inboxes'
    <3>1. inbox' = [inbox EXCEPT ![tasks[i].to] = Without(inbox[tasks[i].to], tasks[i].id)]
      BY <2>3 DEF RelayEndsWithout
    <3> QED BY <3>1, InboxParts
  <2> QED BY <1>4, <2>1, <2>2, <2>3 DEF PoolStep, RelayClosed, RelayTimesOut
<1>5. ASSUME NEW a \in Agents, PollStep(a) PROVE Inboxes'
  <2>1. CASE PollDelivers(a)
    <3>1. Reads(a) /\ Head(toHub[a]).type = "answer"
          /\ \/ inbox' = inbox \/ inbox' = [inbox EXCEPT ![a] = Append(inbox[a], Head(toHub[a]))]
      BY <2>1 DEF PollDelivers, Routed
    <3>2. Head(toHub[a]) \in Answered BY <3>1, ReadsFacts DEF Typed, Answered
    <3>3. inbox[a] \in Seq(Answered) BY DEF Inboxes
    <3>4. Append(inbox[a], Head(toHub[a])) \in Seq(Answered) BY <3>2, <3>3, AppendFacts
    <3> QED BY <1>1, <3>1, <3>4, OneInbox
  <2> QED BY <1>1, <1>5, <2>1 DEF PollStep, PollLooksUp, PollUnregisters, PollRelays, PollIgnores
<1>6. ASSUME NEW a \in Agents, AgentStep(a) PROVE Inboxes'
  BY <1>1, <1>6 DEF AgentStep, RunBegins, IsRegistered, LeavesLoop, Disconnects, IsUnregistered,
                    Disconnected, TakesRequest, SendsAnswer, RelayReturns
<1>7. CASE Environment
  <2>1. CASE RunnerRefuses BY <2>1, InboxParts DEF RunnerRefuses, DropChannel
  <2>2. CASE AskFails
    <3>1. inbox' = [inbox EXCEPT ![Top.name] = Without(inbox[Top.name], Top.id)]
      BY <2>2 DEF AskFails
    <3> QED BY <3>1, InboxParts
  <2>3. CASE Signal BY <1>1, <2>3 DEF Signal
  <2>4. ASSUME NEW a \in Agents, Ask(a) \/ Stop(a) \/ Dies(a) \/ Restarts(a) \/ OwnerStops(a)
        PROVE  Inboxes'
    BY <1>1, <2>4 DEF Ask, Stop, Dies, Restarts, OwnerStops
  <2>5. ASSUME NEW a \in Agents, TimesOut(a) \/ \E b \in RelaysTo[a] : Relays(a, b) PROVE Inboxes'
    BY <1>1, <2>5 DEF TimesOut, RegistrationTimesOut, Disconnects, UnregisterTimesOut, Disconnected,
                      RelayGivesUp, Relays
  <2> QED BY <1>4, <1>7, <2>1, <2>2, <2>3, <2>4, <2>5 DEF Environment
<1>8. CASE UNCHANGED vars BY <1>1, <1>8 DEF vars
<1> QED BY <1>2, <1>3, <1>4, <1>5, <1>6, <1>7, <1>8 DEF Next

(* Lives: a start by the hub is an agent's first, and a restart is within the
   bound.  Nobody becomes fresh. *)
NoFresher == \A a \in Agents : Fresh(a)' => Fresh(a)

LEMMA LivesStay ==
  ASSUME Lives, NoFresher, life' = life, runners' \subseteq runners,
         \A a \in Agents : pc'[a] = pc[a] \/ pc[a] # "off"
  PROVE  Lives'
BY DEF Lives, NoFresher

LEMMA StartLives ==
  ASSUME SwarmInv, Lives, NEW a \in Agents, StartAgent(a)
  PROVE  Lives'
<1> DEFINE f == Frame("start", "run", a, 0, {})
<1>1. /\ main = <<>> /\ a \in todo /\ todo' = todo \ {a} /\ main' = Append(main, f)
      /\ UNCHANGED <<runners, pc, life>>
  BY DEF StartAgent, Push, agent
<1>2. f \in Frames /\ f.op = "start" /\ f.name = a BY DEF Frame, Frames, Ops, Steps
<1> HIDE DEF f
<1>3. main' = <<f>> BY <1>1
<1>4. NoFresher
  <2>1. ASSUME NEW b \in Agents, Fresh(b)' PROVE b \in todo
    BY <1>1, <1>2, <1>3, <2>1 DEF Fresh
  <2> QED BY <2>1 DEF NoFresher, Fresh
<1> QED BY <1>1, <1>4, LivesStay

(* Frames that were there, or that start nobody. *)
LEMMA FramesFresh ==
  ASSUME todo' \subseteq todo,
         \A i \in DOMAIN main' : main'[i].op = "start" =>
           \E j \in DOMAIN main : main[j].op = "start" /\ main[j].name = main'[i].name
  PROVE  NoFresher
BY DEF NoFresher, Fresh

LEMMA RunnerStartsLives ==
  ASSUME SwarmInv, Lives, RunnerStarts
  PROVE  Lives'
<1>0. PICK a : a = Top.name OBVIOUS
<1>1. /\ At("start", "run") /\ pc' = [pc EXCEPT ![a] = "setup"] /\ life' = [life EXCEPT ![a] = life[a] + 1]
      /\ runners' = runners \cup {a} /\ Pop /\ todo' = todo
  BY <1>0 DEF RunnerStarts
<1>2. /\ main \in Seq(Frames) /\ main # <<>> /\ Len(main) \in DOMAIN main
      /\ main[Len(main)].op = "start" /\ main[Len(main)].name = a
  BY <1>0, <1>1, AtFacts DEF SwarmInv, MainInv
<1>3. Len(main) = 1 /\ a \in Agents /\ a \notin todo BY <1>2 DEF SwarmInv, MainInv
<1>4. a \in Injected /\ life[a] = 0 BY <1>2, <1>3 DEF Lives, Fresh
<1>5. DOMAIN main' = {}
  <2>1. DOMAIN main' = 1..(Len(main) - 1) BY <1>1, <1>2, PopFacts
  <2> QED BY <1>3, <2>1
<1>6. ASSUME NEW b \in Agents, Fresh(b)' PROVE b \in todo /\ b # a
  BY <1>1, <1>3, <1>5, <1>6 DEF Fresh
<1>7. ASSUME NEW b \in Agents, Fresh(b)'
      PROVE  b \in Injected /\ pc'[b] = "off" /\ life'[b] = 0
  <2>1. Fresh(b) /\ b # a BY <1>6, <1>7 DEF Fresh
  <2> QED BY <1>1, <2>1 DEF Lives, SwarmInv, Typed
<1>8. life' \in [Agents -> 0..MaxLives]
  <2>1. 1 \in 0..MaxLives /\ 0 + 1 = 1 BY SwarmAssumption
  <2> QED BY <1>1, <1>4, <2>1 DEF Lives
<1> QED BY <1>1, <1>4, <1>7, <1>8 DEF Lives

LEMMA PopFresh ==
  ASSUME main \in Seq(Frames), main # <<>>, Pop, todo' = todo
  PROVE  NoFresher
<1>1. \A i \in DOMAIN main' : i \in DOMAIN main /\ main'[i] = main[i] BY PopFacts
<1> QED BY <1>1, FramesFresh

LEMMA PushFresh ==
  ASSUME main \in Seq(Frames), NEW f \in Frames, f.op # "start", main' = Append(main, f), todo' = todo
  PROVE  NoFresher
<1>1. /\ DOMAIN main' = (DOMAIN main) \cup {Len(main) + 1}
      /\ \A i \in DOMAIN main : main'[i] = main[i]
      /\ main'[Len(main) + 1] = f
  BY PushFacts
<1> QED BY <1>1, FramesFresh

LEMMA GoToFresh ==
  ASSUME main \in Seq(Frames), main # <<>>, NEW step \in Steps, GoTo(step), todo' = todo
  PROVE  NoFresher
<1>1. /\ DOMAIN main' = DOMAIN main
      /\ \A i \in DOMAIN main : main'[i].op = main[i].op /\ main'[i].name = main[i].name
  BY GoToFacts
<1> QED BY <1>1, FramesFresh

LEMMA ShutdownStopsFresh ==
  ASSUME SwarmInv, ShutdownStops
  PROVE  NoFresher
<1>1. PICK a \in Top.left :
        main' = Append([main EXCEPT ![Len(main)].left = @ \ {a}], Frame("stop", "join", a, 0, {}))
  BY DEF ShutdownStops
<1>2. At("shutdown", "agents") /\ todo' = todo BY DEF ShutdownStops
<1>3. main \in Seq(Frames) BY DEF SwarmInv, MainInv
<1> DEFINE n == Len(main)
           g == [main[n] EXCEPT !.left = @ \ {a}]
           s == [main EXCEPT ![n] = g]
           f == Frame("stop", "join", a, 0, {})
<1>4. /\ main # <<>> /\ n \in DOMAIN main /\ Top = main[n] /\ Top \in Frames
      /\ main[n].op = "shutdown"
  BY <1>2, <1>3, AtFacts
<1>5. a \in Agents BY <1>1, <1>4 DEF Frames
<1>6. f \in Frames /\ f.op = "stop" BY <1>5 DEF Frame, Frames, Ops, Steps
<1>7. g \in Frames /\ g.op = "shutdown" BY <1>4 DEF Frames
<1>8. main' = Append(s, f) BY <1>1
<1> HIDE DEF f, g
<1>9. /\ s \in Seq(Frames) /\ DOMAIN s = DOMAIN main /\ Len(s) = n
      /\ s[n] = g /\ \A i \in DOMAIN main : i # n => s[i] = main[i]
  BY <1>3, <1>4, <1>7, SetTopFacts
<1> HIDE DEF s
<1>10. /\ DOMAIN main' = (DOMAIN main) \cup {n + 1}
       /\ main'[n + 1] = f /\ \A i \in DOMAIN main : main'[i] = s[i]
  <2>1. /\ DOMAIN Append(s, f) = (DOMAIN s) \cup {Len(s) + 1}
        /\ Append(s, f)[Len(s) + 1] = f /\ \A i \in DOMAIN s : Append(s, f)[i] = s[i]
    BY <1>6, <1>9, AppendFacts
  <2> QED BY <1>8, <1>9, <2>1
<1> HIDE DEF n
<1> QED BY <1>2, <1>6, <1>7, <1>9, <1>10, FramesFresh

(* A runner's own step: only one that was started takes any. *)
LEMMA AgentLives ==
  ASSUME SwarmInv, Lives, NEW a \in Agents,
         \/ AgentStep(a) \/ Dies(a) \/ TimesOut(a) \/ \E b \in RelaysTo[a] : Relays(a, b)
  PROVE  Lives'
<1>1. main' = main /\ todo' = todo /\ life' = life /\ runners' = runners
  BY DEF AgentStep, RunBegins, IsRegistered, LeavesLoop, Disconnects, IsUnregistered, Disconnected,
         TakesRequest, SendsAnswer, RelayReturns, Dies, TimesOut, RegistrationTimesOut,
         UnregisterTimesOut, RelayGivesUp, Relays, mainVars, hub
<1>2. pc[a] # "off" /\ \E to : Goes(a, to)
  BY DEF AgentStep, RunBegins, IsRegistered, LeavesLoop, Disconnects, IsUnregistered, Disconnected,
         TakesRequest, SendsAnswer, RelayReturns, Dies, TimesOut, RegistrationTimesOut,
         UnregisterTimesOut, RelayGivesUp, Relays, Over
<1>3. \A b \in Agents : pc'[b] = pc[b] \/ pc[b] # "off"
  BY <1>2 DEF Goes, SwarmInv, Typed
<1>4. NoFresher BY <1>1 DEF NoFresher, Fresh
<1> QED BY <1>1, <1>3, <1>4, LivesStay

LEMMA RestartsLives ==
  ASSUME SwarmInv, Lives, NEW a \in Agents, Restarts(a)
  PROVE  Lives'
<1>1. /\ life[a] < MaxLives /\ life' = [life EXCEPT ![a] = life[a] + 1] /\ pc' = [pc EXCEPT ![a] = "setup"]
      /\ UNCHANGED <<main, todo, runners>>
  BY DEF Restarts, MayRestart, Goes, mainVars, hub
<1>2. ~Fresh(a)
  <2>1. a \in External \/ pc[a] \in {"failed", "killed"} BY DEF Restarts
  <2> QED BY <2>1, SwarmAssumption DEF Lives
<1>3. life' \in [Agents -> 0..MaxLives]
  <2>1. life[a] \in 0..MaxLives BY DEF Lives
  <2>2. life[a] + 1 \in 0..MaxLives BY <1>1, <2>1, SwarmAssumption
  <2> QED BY <1>1, <2>2 DEF Lives
<1>4. \A b \in Agents : Fresh(b)' => Fresh(b) /\ b # a BY <1>1, <1>2 DEF Fresh
<1>5. \A b \in Agents : b # a => pc'[b] = pc[b] /\ life'[b] = life[b]
  BY <1>1 DEF SwarmInv, Typed
<1> QED BY <1>1, <1>3, <1>4, <1>5 DEF Lives

LEMMA LivesStep ==
  ASSUME SwarmInv, Lives, [Next]_vars
  PROVE  Lives'
<1> USE DEF hub, mainVars, net, agent
<1> DEFINE Same == UNCHANGED <<main, todo, runners, pc, life>>
<1>0. main \in Seq(Frames) BY DEF SwarmInv, MainInv
<1>1. CASE Same
  <2>1. NoFresher BY <1>1 DEF NoFresher, Fresh
  <2> QED BY <1>1, <2>1, LivesStay
<1> DEFINE Still == UNCHANGED <<pc, life>> /\ runners' \subseteq runners
<1>2. ASSUME Still, NoFresher PROVE Lives' BY <1>2, LivesStay
<1>3. CASE MainStep
  <2>1. ASSUME NEW a \in Agents, StartAgent(a) PROVE Lives' BY <2>1, StartLives
  <2>2. CASE RunnerStarts BY <2>2, RunnerStartsLives
  <2>3. CASE AskAnswered \/ StopAnnounces \/ ShutdownClosesBus
    <3>1. main # <<>> /\ Pop /\ todo' = todo /\ Still
      BY <2>3 DEF AskAnswered, StopAnnounces, ShutdownClosesBus, At
    <3> QED BY <1>0, <1>2, <3>1, PopFresh
  <2>4. CASE StopJoins
    <3>1. main # <<>> /\ GoTo("unregister") /\ todo' = todo /\ life' = life /\ runners' = runners
      BY <2>4 DEF StopJoins, At
    <3>2. NoFresher BY <1>0, <3>1, GoToFresh DEF Steps
    <3>3. \A b \in Agents : pc'[b] = pc[b] \/ pc[b] # "off"
      BY <2>4 DEF StopJoins, Over, SwarmInv, Typed
    <3> QED BY <3>1, <3>2, <3>3, LivesStay
  <2>5. CASE StopUnregisters
    <3>1. main # <<>> /\ (GoTo("announce") \/ Pop) /\ todo' = todo /\ Still
      BY <2>5 DEF StopUnregisters, At
    <3> QED BY <1>0, <1>2, <3>1, PopFresh, GoToFresh DEF Steps
  <2>6. CASE ShutdownStops
    <3>1. Still BY <2>6 DEF ShutdownStops, StopRunner
    <3> QED BY <1>2, <2>6, <3>1, ShutdownStopsFresh
  <2> QED BY <1>3, <2>1, <2>2, <2>3, <2>4, <2>5, <2>6 DEF MainStep
<1>4. CASE PollGoesOn BY <1>1, <1>4 DEF PollGoesOn, PollRegisters, PollTells
<1>5. CASE PoolStep \/ RelayTimesOut
  BY <1>1, <1>5 DEF PoolStep, RelayStarts, RelayAnswered, RelayClosed, RelayTimesOut, RelayEndsWithout
<1>6. ASSUME NEW a \in Agents, PollStep(a) PROVE Lives'
  BY <1>1, <1>6 DEF PollStep, PollLooksUp, PollUnregisters, PollRelays, PollDelivers, PollIgnores
<1>7. CASE Environment
  <2>1. CASE RunnerRefuses \/ AskFails
    <3>1. main # <<>> /\ Pop /\ todo' = todo /\ Still BY <2>1 DEF RunnerRefuses, AskFails, At
    <3> QED BY <1>0, <1>2, <3>1, PopFresh
  <2>2. CASE Signal
    <3>1. main' = Append(main, Frame("shutdown", "agents", NoAgent, 0, runners)) /\ todo' = todo /\ Still
      BY <2>2 DEF Signal, Push
    <3>2. runners \subseteq Agents BY DEF Lives, Agents
    <3> DEFINE f == Frame("shutdown", "agents", NoAgent, 0, runners)
    <3>3. f \in Frames /\ f.op # "start" BY <3>2, FrameFacts DEF Ops, Steps
    <3> HIDE DEF f
    <3> QED BY <1>0, <1>2, <3>1, <3>3, PushFresh DEF f
  <2>3. ASSUME NEW a \in Agents, Ask(a) PROVE Lives'
    <3> DEFINE f == Frame("ask", "wait", a, ids + 1, {})
    <3>1. main' = Append(main, f) /\ todo' = todo /\ Still BY <2>3 DEF Ask, Push
    <3>2. ids + 1 \in Nat BY DEF SwarmInv, Typed
    <3>3. f \in Frames /\ f.op # "start" BY <3>2, FrameFacts DEF Ops, Steps
    <3> HIDE DEF f
    <3> QED BY <1>0, <1>2, <3>1, <3>3, PushFresh
  <2>4. ASSUME NEW a \in Agents, Stop(a) PROVE Lives'
    <3> DEFINE f == Frame("stop", "join", a, 0, {})
    <3>1. main' = Append(main, f) /\ todo' = todo /\ Still BY <2>4 DEF Stop, Push, StopRunner
    <3>2. f \in Frames /\ f.op # "start" BY FrameFacts DEF Ops, Steps
    <3> HIDE DEF f
    <3> QED BY <1>0, <1>2, <3>1, <3>2, PushFresh
  <2>5. ASSUME NEW a \in Agents, Restarts(a) PROVE Lives' BY <2>5, RestartsLives
  <2>6. ASSUME NEW a \in Agents, OwnerStops(a) PROVE Lives' BY <1>1, <2>6 DEF OwnerStops
  <2>7. ASSUME NEW a \in Agents, Dies(a) \/ TimesOut(a) \/ \E b \in RelaysTo[a] : Relays(a, b)
        PROVE  Lives'
    BY <2>7, AgentLives
  <2> QED BY <1>5, <1>7, <2>1, <2>2, <2>3, <2>4, <2>5, <2>6, <2>7 DEF Environment
<1>8. ASSUME NEW a \in Agents, AgentStep(a) PROVE Lives' BY <1>8, AgentLives
<1>9. CASE UNCHANGED vars BY <1>1, <1>9 DEF vars
<1> HIDE DEF Same, Still
<1> QED BY <1>3, <1>4, <1>5, <1>6, <1>7, <1>8, <1>9 DEF Next

(* The hub's and the agents' variables have their types.  A runner is started no
   more often than it may be, and what a transport holds are answers. *)
THEOREM SwarmTypeCorrect == Spec => []TypeOK
<1>1. Init => SwarmInv /\ Flags /\ Lives /\ Inboxes
  <2> SUFFICES ASSUME Init PROVE Flags /\ Lives /\ Inboxes
    BY SwarmInit
  <2>1. Flags
    <3>1. 0 <= MaxRequests /\ 0 \in 0..MaxKills BY SwarmAssumption
    <3> QED BY <3>1 DEF Init, Flags
  <2>2. Lives
    <3>1. 0 \in 0..MaxLives BY SwarmAssumption
    <3>2. main = <<>> /\ todo = Injected BY DEF Init
    <3>3. \A a : Fresh(a) => a \in Injected BY <3>2 DEF Fresh
    <3> QED BY <3>1, <3>3 DEF Init, Lives
  <2>3. <<>> \in Seq(Answered) OBVIOUS
  <2> QED BY <2>1, <2>2, <2>3 DEF Init, Inboxes
<1>2. SwarmInv /\ Flags /\ Lives /\ Inboxes /\ [Next]_vars => (SwarmInv /\ Flags /\ Lives /\ Inboxes)'
  BY SwarmStep, FlagsStep, LivesStep, InboxesStep DEF SwarmInv
<1>3. SwarmInv /\ Flags /\ Lives /\ Inboxes => TypeOK
  <2> SUFFICES ASSUME SwarmInv, Flags, Lives, Inboxes PROVE TypeOK
    OBVIOUS
  <2>1. bus \in BOOLEAN /\ entries \in [Agents -> {"none", "injected", "external"}]
        /\ channels \subseteq Agents /\ todo \subseteq Injected /\ pc \in [Agents -> Places]
    BY DEF SwarmInv, Typed, MainInv, Unstarted
  <2>2. Places = Over \cup {"setup", "registering", "loop", "handling", "relaying", "leaving", "failing"}
    BY DEF Places, Over
  <2>3. ids \in 0..MaxRequests
    <3>1. ids \in Nat /\ ids <= MaxRequests BY DEF SwarmInv, Typed, Flags
    <3> QED BY <3>1, SwarmAssumption
  <2>4. ASSUME NEW a \in Agents
        PROVE  /\ \A m \in Range(inbox[a]) : m.type = "answer"
               /\ \A m \in Range(toHub[a]) \cup Range(toAgent[a]) : MsgOK(m)
    <3>1. inbox[a] \in Seq(Answered) /\ toHub[a] \in Seq(Msgs) /\ toAgent[a] \in Seq(Msgs)
      BY DEF Inboxes, SwarmInv, Typed
    <3>2. Range(inbox[a]) \subseteq Answered /\ Range(toHub[a]) \subseteq Msgs /\ Range(toAgent[a]) \subseteq Msgs
      BY <3>1 DEF Range
    <3> QED BY <3>2 DEF Answered, MsgOK, Msgs
  <2> QED BY <2>1, <2>2, <2>3, <2>4 DEF TypeOK, Flags, Lives
<1> QED BY <1>1, <1>2, <1>3, PTL DEF Spec
================================================================================
