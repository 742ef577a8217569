---------------------------- MODULE MCCatalogue ----------------------------
(* Two connections; a parameter, an asset or two, two units, two categories. *)
EXTENDS Catalogue, TLC

CONSTANTS u1, u2, o1, ca, cb, c1, c2

(* In the parameter's unit or in one that is named.                          *)
MCNumber == {[amount |-> 1, unit |-> Null], [amount |-> 2, unit |-> u2]}

Code1(c) == [id |-> Null, code |-> c]
MCList == {<<Code1(ca)>>, <<Code1(ca), Code1(cb)>>,
           <<[id |-> o1, code |-> cb]>>, <<[id |-> o1, code |-> cb], Code1(ca)>>}

Filter(kind, min, max, unit, option) ==
    [kind |-> kind, min |-> min, max |-> max, unit |-> unit, option |-> option]
MCQuery == {Filter("text", 0, 0, Null, Null), Filter("enum", 0, 0, Null, o1)} \union
           {Filter("number", min, 2, u, Null) : min \in 1 .. 2, u \in {u1, u2, Null}}

(* Laboratories to begin with: without a parameter, with a text that has a   *)
(* value, with a length that has one, and with assets filed in a tree.        *)
Metre == [dimension |-> "length", scale |-> 1]
MCUnits == (u1 :> Metre) @@ (u2 :> Null)
Missing(S) == [x \in S |-> Null]
TextType == [type |-> "text", dimension |-> Null, unit |-> Null]
LengthType == [type |-> "number", dimension |-> "length", unit |-> u1]
Value1(type, text, n, u) ==
    [type |-> type, text |-> text, number |-> n, unit |-> u, base |-> n, option |-> Null]

Lab(ops, p, v, filed, tree) ==
    [menu |-> ops, parameter |-> p, values |-> [a \in Asset |-> v], units |-> MCUnits,
     assets |-> [a \in Asset |-> filed], categories |-> tree]
Tree == (c1 :> <<c1>>) @@ (c2 :> <<c1, c2>>)

MCStart ==
    {Lab({"create_asset", "update_asset", "create_parameter", "update_parameter"},
         Null, Null, Null, Missing(Category)),
     Lab({"update_asset", "delete_asset", "update_parameter", "delete_parameter"},
         TextType, Value1("text", TRUE, Null, Null), NoCategory, Missing(Category)),
     Lab({"update_asset", "update_parameter", "unit"},
         LengthType, Value1("number", FALSE, 1, u1), NoCategory, Missing(Category)),
     Lab({"update_asset", "create_category", "update_category", "delete_parameter"},
         TextType, Null, NoCategory, Missing(Category)),
     Lab({"create_asset", "update_asset", "update_category", "delete_category"},
         TextType, Null, c2, Tree)}
=============================================================================
