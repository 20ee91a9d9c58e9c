--------------------------------- MODULE Codec ---------------------------------
(***************************************************************************)
(* The codec of the values a checkpoint holds beside its scopes: the input *)
(* of the next step, a carried value, a paused turn's result               *)
(* (flow/state/codec.py).  A run holds a value, a checkpoint stores it as  *)
(* JSON, a resumed run holds what it decodes and may store it again.       *)
(*                                                                         *)
(* A value is a leaf, a list or tuple of values, a dict of them, an object *)
(* with to_dict and from_dict, a pydantic model, whose fields are JSON, or *)
(* a map's Failure; any other is "alien".  JSON is leaves, lists and dicts.*)
(* What is recursive in the code is a recursive function over the values   *)
(* that nest to a depth.                                                   *)
(***************************************************************************)
EXTENDS Naturals, Sequences

CONSTANTS
  Values,    \* what runs hold
  Strings,     \* what leaves hold, the names of types among it
  Keys,      \* the keys of dicts, and the fields of objects
  Classes,   \* the classes with to_dict and from_dict
  Pydantic,  \* the classes that are pydantic models
  Local,     \* those of both that are defined inside a function
  Nesting,   \* bound: how deep a value nests
  MaxSaves   \* bound: checkpoints of one value

Leaf(x) == [is |-> "leaf", leaf |-> x]
List(items) == [is |-> "list", items |-> items]
Tuple(items) == [is |-> "tuple", items |-> items]
Dict(entries) == [is |-> "dict", at |-> entries]
Object(class, fields) == [is |-> "object", class |-> class, at |-> fields]
Model(class, fields) == [is |-> "model", class |-> class, at |-> fields]
Failure(type, restored, item) ==
  [is |-> "failure", type |-> type, restored |-> restored, item |-> item]
Alien == [is |-> "alien"]

Absent == [is |-> "absent"]  \* at a key that a dict lacks
Entries(S) == [Keys -> S \cup {Absent}]

JsonOver(S) ==
  [is : {"leaf"}, leaf : Strings] \cup [is : {"list"}, items : Seq(S)]
    \cup [is : {"dict"}, at : Entries(S)]

ValueOver(S, J) ==
  JsonOver(S) \cup [is : {"tuple"}, items : Seq(S)]
    \cup [is : {"object"}, class : Classes, at : Entries(S)]
    \cup [is : {"model"}, class : Pydantic, at : Entries(J)]
    \cup [is : {"failure"}, type : Strings, restored : BOOLEAN, item : S]
    \cup {Alien}

(* What is nested n deep or less.  A level of a value takes up to three of JSON:
   a dict with a "$type" is wrapped, and an object's is wrapped once more. *)
LayerOver(below) ==
  [json |-> JsonOver(below.json), held |-> ValueOver(below.held, below.json)]
Layer[n \in 0..(3 * Nesting + 3)] ==
  LayerOver(IF n = 0 THEN [json |-> {}, held |-> {}] ELSE Layer[n - 1])

Data == Layer[3 * Nesting + 3].json
Held == Layer[Nesting].held

ASSUME CodecConstants ==
  /\ Nesting \in Nat /\ MaxSaves \in Nat
  /\ {"$type", "$data", "type", "item"} \subseteq Keys
  /\ Classes \cup Pydantic \cup {"dict", "tuple", "Failure"} \subseteq Strings
  /\ (Classes \cup Pydantic) \cap {"dict", "tuple", "Failure"} = {}
  /\ Classes \cap Pydantic = {}
  /\ Values \subseteq Held

Present(entries) == {k \in DOMAIN entries : entries[k] # Absent}
All(f, g) == [k \in DOMAIN g |-> IF g[k] = Absent THEN Absent ELSE f[g[k]]]

VARIABLES
  slot,  \* the value, or what a checkpoint stores of it
  kept   \* history: what the run held at first, and its checkpoints

codecVars == <<slot, kept>>

Empty == [at |-> "none"]
CodecInit == slot = Empty /\ kept = [first |-> Alien, saves |-> 0]

-----------------------------------------------------------------------------
(* encode *)

Pairs(k, v, l, w) == [key \in Keys |-> IF key = k THEN v ELSE IF key = l THEN w ELSE Absent]
Typed(type, data) == Dict(Pairs("$type", Leaf(type), "$data", data))

(* A plain dict with a "$type" of its own is wrapped. *)
EncodedDict(entries) ==
  IF entries["$type"] # Absent THEN Typed("dict", Dict(entries)) ELSE Dict(entries)

(* Of a Failure, to_dict gives these; the exception's message is left out. *)
FailureFields(type, item) == Dict(Pairs("type", Leaf(type), "item", item))

EncodedBy(encode, v) ==
  CASE v.is = "leaf" -> v
    [] v.is = "list" -> List(All(encode, v.items))
    [] v.is = "tuple" -> Typed("tuple", List(All(encode, v.items)))
    [] v.is = "dict" -> EncodedDict(All(encode, v.at))
    [] v.is = "model" -> Typed(v.class, Dict(v.at))
    [] v.is = "object" -> Typed(v.class, EncodedDict(All(encode, v.at)))
    [] v.is = "failure" -> Typed("Failure", FailureFields(v.type, encode[v.item]))
    [] OTHER -> Alien
Encode[v \in Held] == EncodedBy(Encode, v)

(* It raises at the first part that has no form. *)
RaisesBy(raises, v) ==
  CASE v.is = "alien" -> TRUE
    [] v.is \in {"list", "tuple"} -> \E i \in DOMAIN v.items : raises[v.items[i]]
    [] v.is = "dict" -> \E k \in Present(v.at) : raises[v.at[k]]
    [] v.is = "model" -> v.class \in Local
    [] v.is = "object" -> v.class \in Local \/ \E k \in Present(v.at) : raises[v.at[k]]
    [] v.is = "failure" -> raises[v.item]
    [] OTHER -> FALSE
Raises[v \in Held] == RaisesBy(Raises, v)

(* decode.  What encode does not give, it refuses. *)

Unwrapped_Stored(decode, entries) == Dict(entries)
Unwrapped(decode, entries) == Dict(All(decode, entries))

FromDict(class, fields) ==
  IF class = "Failure" THEN Failure(fields["type"].leaf, TRUE, fields["item"])
  ELSE Object(class, fields)

Tagged(data, types, form) ==
  /\ data.is = "dict" /\ {"$type", "$data"} \subseteq Present(data.at)
  /\ data.at["$type"].is = "leaf" /\ data.at["$type"].leaf \in types
  /\ data.at["$data"].is = form
Tag(data) == data.at["$type"].leaf
Inner(data) == data.at["$data"]

DecodedBy(decode, data) ==
  CASE data.is = "leaf" -> data
    [] data.is = "list" -> List(All(decode, data.items))
    [] data.is = "dict" /\ data.at["$type"] = Absent -> Dict(All(decode, data.at))
    [] Tagged(data, {"dict"}, "dict") -> Unwrapped(decode, Inner(data).at)
    [] Tagged(data, {"tuple"}, "list") -> Tuple(All(decode, Inner(data).items))
    [] Tagged(data, Pydantic, "dict") -> Model(Tag(data), Inner(data).at)
    [] Tagged(data, Classes \cup {"Failure"}, "dict") ->
         FromDict(Tag(data), decode[Inner(data)].at)
    [] OTHER -> Alien
Decode[data \in Data] == DecodedBy(Decode, data)

-----------------------------------------------------------------------------
(* What happens to a value *)

Hold(v) ==
  /\ slot' = [at |-> "live", value |-> v]
  /\ kept' = [first |-> v, saves |-> 0]

(* ScopeRegistry.capture, to_json *)
Save ==
  /\ slot.at = "live" /\ ~Raises[slot.value] /\ kept.saves < MaxSaves
  /\ slot' = [at |-> "stored", value |-> Encode[slot.value]]
  /\ kept' = [kept EXCEPT !.saves = @ + 1]

SaveRaises ==
  /\ slot.at = "live" /\ Raises[slot.value]
  /\ slot' = [at |-> "raised", value |-> slot.value]
  /\ UNCHANGED kept

(* ScopeRegistry.take_cursor *)
Resume ==
  /\ slot.at = "stored"
  /\ slot' = [at |-> "live", value |-> Decode[slot.value]]
  /\ UNCHANGED kept

Drops == slot # Empty /\ slot' = Empty /\ kept' = [first |-> Alien, saves |-> 0]

CodecNext ==
  \/ slot = Empty /\ \E v \in Values : Hold(v)
  \/ Save \/ SaveRaises \/ Resume \/ Drops

CodecSpec == CodecInit /\ [][CodecNext]_codecVars

-----------------------------------------------------------------------------
(* What comes back is what was stored, over any number of resumes, whatever
   names its keys and types have; only an exception comes back as what is
   known of it ("Such a value must come back on resume as the value it
   was").  What cannot come back is not stored, and all else is, as JSON. *)
PartsBy(parts, v) ==
  {v} \cup CASE v.is \in {"list", "tuple"} -> UNION {parts[v.items[i]] : i \in DOMAIN v.items}
             [] v.is \in {"dict", "object"} -> UNION {parts[v.at[k]] : k \in Present(v.at)}
             [] v.is = "failure" -> parts[v.item]
             [] OTHER -> {}
Parts[v \in Held] == PartsBy(Parts, v)

BackBy(back, v) ==
  CASE v.is = "list" -> List(All(back, v.items))
    [] v.is = "tuple" -> Tuple(All(back, v.items))
    [] v.is = "dict" -> Dict(All(back, v.at))
    [] v.is = "object" -> Object(v.class, All(back, v.at))
    [] v.is = "failure" -> Failure(v.type, TRUE, back[v.item])
    [] OTHER -> v
Back[v \in Held] == BackBy(Back, v)

CannotComeBack(v) == v.is = "alien" \/ (v.is \in {"object", "model"} /\ v.class \in Local)

ValuesSurvive ==
  /\ slot.at = "live" =>
       slot.value = IF kept.saves = 0 THEN kept.first ELSE Back[kept.first]
  /\ slot.at = "stored" =>
       slot.value \in Data /\ \A part \in Parts[kept.first] : ~CannotComeBack(part)
  /\ slot.at = "raised" => \E part \in Parts[kept.first] : CannotComeBack(part)
=============================================================================
