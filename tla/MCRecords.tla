------------------------------- MODULE MCRecords -------------------------------
EXTENDS Records, TLC

CONSTANTS root, left, right

(* Two items of a map. *)
Items == (root :> <<root>>) @@ (left :> <<root, left>>) @@
         (right :> <<root, right>>)
Budgets == [s \in Scopes \ {root} |-> 1]
Refunds == {1, -1}

(* Rate cards over names of at most three characters. *)
ShortNames == UNION {[1..n -> {"g", "3", "-", "."}] : n \in 1..3}
Google == {<<"p", "/">>}
SomeCards ==
  {k \cup d : k \in {s \in SUBSET {<<"g">>, <<"g", "3">>, <<"g", "-">>, <<"g", "-", "3">>, <<"g", ".", "3">>, <<"3", "-", "-">>} :
                       Cardinality(s) <= 3},
             d \in SUBSET {Default}}
SomeRules ==
  {[kind |-> "llm", input |-> 5, output |-> 11, cached |-> 2],
   [kind |-> "llm", input |-> 5, output |-> 11, cached |-> NoRule],
   [kind |-> "fixed", unit |-> 3]}
Marks == {"-", "_", ".", "/"}

(* Values nested three deep, whose keys and classes are the codec's own names. *)
Fields == {"a", "x", "type", "item", "$type", "$data"}
Partial(keys, S) == {[k \in Fields |-> IF k \in d THEN f[k] ELSE Absent] : d \in SUBSET keys, f \in [keys -> S]}
Names == {"x", "dict", "tuple", "Failure", "Point", "Inner", "Note", "ValueError"}
Leaves == {Leaf(x) : x \in {"x", "dict", "tuple", "Point"}}
Flat ==
  Leaves \cup {List(s) : s \in UNION {[1..n -> Leaves] : n \in 0..2}}
        \cup {Tuple(s) : s \in UNION {[1..n -> Leaves] : n \in 0..1}}
        \cup {Dict(f) : f \in Partial({"a", "$type", "$data"}, Leaves)}
        \cup {Object(c, f) : c \in {"Point", "Inner"}, f \in Partial({"x", "$type"}, Leaves)}
        \cup {Model("Note", f) : f \in Partial({"x", "$type"}, Leaves)}
        \cup {Failure("ValueError", b, i) : b \in BOOLEAN, i \in Leaves}
        \cup {Alien}
Just(k, v) == Pairs(k, v, k, v)
Around(S) ==
  {List(<<v>>) : v \in S} \cup {Tuple(<<Leaf("x"), v>>) : v \in S}
    \cup {Dict(Pairs("$type", n, "$data", v)) : n \in Leaves, v \in S}
    \cup {Dict(Just("$type", v)) : v \in S}
    \cup {Object("Point", Just("x", v)) : v \in S}
    \cup {Failure("ValueError", FALSE, v) : v \in S}
Nested == Flat \cup Around(Flat)
             \cup Around(Around(Leaves \cup {Tuple(<<Leaf("x")>>), Dict(Just("$type", Leaf("tuple"))), Alien,
                           Failure("ValueError", FALSE, Leaf("x")), Model("Note", Just("$type", Leaf("dict")))}))
===============================================================================
