-------------------------- MODULE CatalogueProofs --------------------------
(***************************************************************************)
(* Theorems about Catalogue, for any number of connections, assets,        *)
(* categories, units, options and codes.                                   *)
(*                                                                         *)
(* What a request has found out about a row it relies on until it ends:    *)
(* the invariant says what that is at each step (Fits) and by which of its *)
(* locks, that no two requests hold one lock (Exclusive), and that a tree  *)
(* whose categories are locked does not grow, because what is put below a  *)
(* category needs the lock of that category.                               *)
(***************************************************************************)
EXTENDS Catalogue, SequenceTheorems, TLAPS

AssetOps == {"create_asset", "update_asset", "delete_asset"}
Parameter == <<"parameter", Null>>
ValueOf(a) == <<"value", a>>
CategoryRow(c) == <<"category", c>>
CategoryOps == {"create_category", "update_category", "delete_category"}
Chosen == {"definition", "pick", "measure", "required", "write"}

Typed ==
    /\ parameter \in Definition \union {Null, Gone}
    /\ values \in [Asset -> Value \union {Null}]
    /\ units \in [Unit -> Measure \union {Null, Gone}]
    /\ assets \in [Asset -> Filed \union {Null, Gone}]
    /\ DOMAIN categories = Category
    /\ required \in [Category -> Assignment]
    /\ txn \in [Worker -> Txn \union {Idle}]

(* The category an asset or a category is put into stays until the commit.   *)
PlaceLocked(t) == t.place \in Category => IsCategory(t.place) /\ CategoryRow(t.place) \in t.locks

Sent(i) == i.kind \notin {"unsent", "clear"}
UnitLocked(t) ==
    LET u == UnitOf(t.def, t.input)
    IN u # Null => Measured(t.def, u) /\ UnitRow(u) \in t.locks

(* What is known of the value that is sent for an asset.                      *)
InputFits(t) ==
    /\ t.input \in AssetInputs
    /\ t.step = "definition" => t.input # Nothing
    /\ t.step \in {"pick", "measure"} => Sent(t.input)
    /\ t.step # "definition" /\ Sent(t.input) =>
          Defined /\ Parameter \in t.locks /\ t.def = parameter /\ t.def.type = t.input.kind
    /\ t.step = "pick" => t.input.kind = "enum"
    /\ t.step = "measure" => UnitOf(t.def, t.input) # Null
    /\ t.step \in {"required", "write"} /\ t.input.kind = "clear" => t.value = Null
    /\ t.step \in {"required", "write"} /\ Sent(t.input) =>
          /\ t.value = Resolved(t.def, t.input) /\ UnitLocked(t)
          /\ t.input.kind = "enum" => t.input.option \in OptionsNow

AssetFits(t) ==
    t.op \in AssetOps =>
        /\ t.on \in Asset /\ t.need = "keep"
        /\ t.op = "create_asset" => assets[t.on] = Null /\ t.step \in {"category"} \union Chosen
        /\ t.op = "update_asset" => t.step \in {"asset", "values", "category"} \union Chosen
        /\ t.op = "delete_asset" => t.step \in {"asset", "values", "write"}
        /\ t.op # "create_asset" /\ t.step # "asset" =>
              assets[t.on] \in Filed /\ <<"asset", t.on>> \in t.locks
        /\ t.op = "update_asset" /\ t.step \in {"category"} \union Chosen /\ values[t.on] # Null =>
              ValueOf(t.on) \in t.locks
        /\ t.op # "delete_asset" /\ t.step \in {"asset", "values", "category", "definition"} => t.value = Null
        /\ t.op # "delete_asset" /\ t.step \in Chosen => PlaceLocked(t) /\ InputFits(t)
        /\ t.op # "delete_asset" /\ t.step = "write" /\ t.place \in Category =>
              (required[t.place] # "none" => HasValue(t))

(* What is known of the parameter by requests that change it.                 *)
ParameterFits(t) ==
    /\ t.op = "create_parameter" =>
          /\ parameter = Null /\ t.def \in Definition /\ t.input = Nothing /\ t.need = "keep"
          /\ t.step \in {"unit", "write"} /\ (t.step = "unit" => t.def.unit \in Unit)
    /\ t.op \in {"update_parameter", "delete_parameter"} =>
          /\ t.need = "keep"
          /\ t.step # "parameter" => Defined /\ Parameter \in t.locks
    /\ t.op = "delete_parameter" => t.step \in {"parameter", "options", "assignments", "values", "write"}
    /\ t.op = "update_parameter" =>
          /\ t.step \in {"parameter", "options", "values", "unit", "measure", "write"}
          /\ t.step \in {"parameter", "options"} => t.input = Nothing
          /\ t.step \in {"values", "unit", "measure", "write"} =>
                /\ t.def \in Definition
                /\ t.def.type = parameter.type \/ t.step = "values" => t.input = Nothing
                /\ t.step = "values" => t.def.type # parameter.type
                /\ t.def.type # parameter.type /\ t.step # "values" =>
                      t.input \in Targets(t.def.type) /\ \A a \in Valued : ValueOf(a) \in t.locks
                /\ t.step = "unit" => t.def.unit \in Unit
                /\ t.step = "measure" => UnitOf(t.def, t.input) # Null
                /\ t.step = "write" /\ Valued # {} => UnitLocked(t)

(* What is known of the tree by requests that change it.                      *)
TreeLocked(t) == \A c \in TreeOf(t.on) : CategoryRow(c) \in t.locks
CategoryFits(t) ==
    t.op \in CategoryOps =>
        /\ t.on \in Category
        /\ t.op = "create_category" => categories[t.on] = Null /\ t.step \in {"parent", "write"}
        /\ t.op = "update_category" => t.step \in {"category", "assignments", "parent", "descend", "write"}
        /\ t.op = "delete_category" => t.step \in {"category", "descend", "assignments", "assets", "write"}
        /\ t.op # "create_category" /\ t.step # "category" =>
              IsCategory(t.on) /\ CategoryRow(t.on) \in t.locks
        /\ \/ t.op = "create_category" /\ t.step = "write"
           \/ t.op = "update_category" /\ t.step \in {"descend", "write"}
           => PlaceLocked(t) /\ (t.place \in Category => ~Under(t.place, t.on))
        /\ \/ t.op = "update_category" /\ t.step = "write"
           \/ t.op = "delete_category" /\ t.step \in {"assignments", "assets", "write"}
           => TreeLocked(t)

Fits(t) == AssetFits(t) /\ ParameterFits(t) /\ CategoryFits(t)
RequestsFit == \A w \in Worker : \A t \in {txn[w]} \ {Idle} : Fits(t)

Exclusive == \A v, w \in Worker : v # w => Holds(v) \intersect Holds(w) = {}
DistinctDraws ==
    \A v, w \in Worker : v # w /\ txn[v].op = txn[w].op =>
        /\ txn[v].op \in {"create_asset", "create_category"} => txn[v].on # txn[w].on
        /\ txn[v].op # "create_parameter"

ValuesFit ==
    /\ ValuesAreReadable
    /\ \A a \in Valued : assets[a] \in Filed /\ (values[a].unit = Null => values[a].base = Null)
TreeFits == Rooted(categories) /\ AssetsAreFiledSomewhere

IndInv == Typed /\ RequestsFit /\ Exclusive /\ DistinctDraws /\ ValuesFit /\ TreeFits
-----------------------------------------------------------------------------
(* Transactions *)

LEMMA IdleIsNoTransaction == Idle \notin Txn
<1>1. \A t \in Txn : t.op # "idle"
  BY DEF Txn, Ops
<1>2. Idle.op = "idle"
  BY DEF Idle
<1> QED BY <1>1, <1>2

LEMMA Running ==
    ASSUME Typed, NEW w \in Worker, txn[w] # Idle
    PROVE  txn[w] \in Txn
  BY DEF Typed

LEMMA RunningFits ==
    ASSUME IndInv, NEW w \in Worker, txn[w] # Idle
    PROVE  txn[w] \in Txn /\ Fits(txn[w]) /\ Holds(w) = txn[w].locks
<1>1. txn[w] \in Txn
  BY Running DEF IndInv
<1>2. PICK t : t = txn[w]
  OBVIOUS
<1>3. Fits(t)
  BY <1>2 DEF IndInv, RequestsFit
<1> QED BY <1>1, <1>2, <1>3 DEF Holds

(* Requests read rows only. *)
LEMMA SameRowsSameFit ==
    ASSUME UNCHANGED rows, NEW t, Fits(t)
    PROVE  Fits(t)'
<1>1. /\ parameter' = parameter /\ options' = options /\ values' = values /\ units' = units
      /\ assets' = assets /\ categories' = categories /\ required' = required
  BY DEF rows
<1>2. AssetFits(t)'
  BY <1>1 DEF Fits, AssetFits, PlaceLocked, InputFits, UnitLocked, HasValue, Measured, Resolved, Defined,
     OptionsNow, IsCategory, UnitOf
<1>3. ParameterFits(t)'
  BY <1>1 DEF Fits, ParameterFits, UnitLocked, Measured, Defined, Valued, UnitOf
<1>4. CategoryFits(t)'
  BY <1>1 DEF Fits, CategoryFits, PlaceLocked, TreeLocked, TreeOf, Under, IsCategory
<1> QED BY <1>2, <1>3, <1>4 DEF Fits

LEMMA SameRowsSameTables ==
    ASSUME UNCHANGED rows, IndInv
    PROVE  ValuesFit' /\ TreeFits'
<1>1. /\ parameter' = parameter /\ options' = options /\ values' = values /\ units' = units
      /\ assets' = assets /\ categories' = categories /\ required' = required
  BY DEF rows
<1>2. ValuesFit'
  BY <1>1 DEF IndInv, ValuesFit, ValuesAreReadable, Valued, Defined, OptionsNow
<1>3. TreeFits'
  BY <1>1 DEF IndInv, TreeFits, Rooted, AssetsAreFiledSomewhere, IsCategory
<1> QED BY <1>2, <1>3

(* A statement that takes locks and writes nothing. *)
LEMMA GoingOn ==
    ASSUME IndInv, NEW w \in Worker, txn[w] # Idle, Blockers(w) = {},
           NEW t \in Txn, GoOn(w, t), Fits(t), t.op = txn[w].op, t.on = txn[w].on,
           t.locks \subseteq txn[w].locks \union Wanted(w)
    PROVE  IndInv'
<1>1. Typed
  BY DEF IndInv
<1>2. UNCHANGED rows
  BY DEF GoOn
<1>3. txn'[w] = t /\ (\A v \in Worker \ {w} : txn'[v] = txn[v]) /\ txn' \in [Worker -> Txn \union {Idle}]
  BY <1>1 DEF GoOn, Typed
<1>4. Typed'
  BY <1>1, <1>2, <1>3 DEF Typed, rows
<1>5. RequestsFit'
  <2> SUFFICES ASSUME NEW v \in Worker, NEW u, u = txn'[v], u # Idle PROVE Fits(u)'
    BY DEF RequestsFit
  <2>1. Fits(u)
    BY <1>3 DEF IndInv, RequestsFit
  <2> QED BY <2>1, <1>2, SameRowsSameFit
<1>6. t # Idle
  BY IdleIsNoTransaction
<1>7. Exclusive'
  <2>1. Holds(w)' = t.locks /\ Holds(w) = txn[w].locks
    BY <1>3, <1>6 DEF Holds
  <2>2. \A v \in Worker \ {w} : Holds(v)' = Holds(v)
    BY <1>3 DEF Holds
  <2>3. \A v \in Worker \ {w} : Wanted(w) \intersect Holds(v) = {}
    BY DEF Blockers
  <2>4. \A v \in Worker \ {w} : Holds(w) \intersect Holds(v) = {}
    BY DEF IndInv, Exclusive
  <2>5. \A v \in Worker \ {w} : Holds(w)' \intersect Holds(v)' = {}
    BY <2>1, <2>2, <2>3, <2>4
  <2>6. \A u, v \in Worker \ {w} : u # v => Holds(u)' \intersect Holds(v)' = {}
    BY <2>2 DEF IndInv, Exclusive
  <2> QED BY <2>5, <2>6 DEF Exclusive
<1>8. DistinctDraws'
  <2>1. \A v \in Worker : txn'[v].op = txn[v].op /\ txn'[v].on = txn[v].on
    BY <1>3
  <2> QED BY <2>1 DEF IndInv, DistinctDraws
<1> QED BY <1>2, <1>4, <1>5, <1>7, <1>8, SameRowsSameTables DEF IndInv

(* The end of a transaction, once what it wrote disturbs nobody. *)
LEMMA Ending ==
    ASSUME IndInv, NEW w \in Worker, End(w),
           parameter' \in Definition \union {Null, Gone},
           values' \in [Asset -> Value \union {Null}],
           units' \in [Unit -> Measure \union {Null, Gone}],
           assets' \in [Asset -> Filed \union {Null, Gone}],
           DOMAIN categories' = Category, required' \in [Category -> Assignment],
           ValuesFit', TreeFits',
           \A v \in Worker \ {w} : \A t \in {txn[v]} \ {Idle} : Fits(t)'
    PROVE  IndInv'
<1>1. Typed
  BY DEF IndInv
<1>3. txn'[w] = Idle /\ (\A v \in Worker \ {w} : txn'[v] = txn[v]) /\ txn' \in [Worker -> Txn \union {Idle}]
  BY <1>1 DEF End, Typed
<1>4. Typed'
  BY <1>1, <1>3 DEF Typed
<1>5. RequestsFit'
  <2> SUFFICES ASSUME NEW v \in Worker, NEW u, u = txn'[v], u # Idle PROVE Fits(u)'
    BY DEF RequestsFit
  <2> QED BY <1>3
<1>7. Exclusive'
  <2>1. \A v \in Worker : Holds(v)' \subseteq Holds(v)
    BY <1>3 DEF Holds
  <2> QED BY <2>1 DEF IndInv, Exclusive
<1>8. DistinctDraws'
  <2>1. txn'[w].op = "idle"
    BY <1>3 DEF Idle
  <2> QED BY <1>3, <2>1 DEF IndInv, DistinctDraws
<1> QED BY <1>4, <1>5, <1>7, <1>8 DEF IndInv

LEMMA RefuseKeeps ==
    ASSUME IndInv, NEW w \in Worker, Refuse(w)
    PROVE  IndInv'
<1>1. UNCHANGED rows /\ End(w)
  BY DEF Refuse
<1>2. \A v \in Worker \ {w} : \A t \in {txn[v]} \ {Idle} : Fits(t)'
  BY <1>1, SameRowsSameFit DEF IndInv, RequestsFit
<1>3. /\ parameter' = parameter /\ options' = options /\ values' = values /\ units' = units
      /\ assets' = assets /\ categories' = categories /\ required' = required
  BY <1>1 DEF rows
<1> HIDE DEF Refuse
<1> QED BY <1>1, <1>2, <1>3, SameRowsSameTables, Ending DEF IndInv, Typed

-----------------------------------------------------------------------------
(* Requests and inputs *)

LEMMA InputFields ==
    /\ Nothing \in Input /\ Clear \in Input /\ Text \in Input
    /\ Nothing.kind = "unsent" /\ Clear.kind = "clear" /\ Text.kind = "text"
    /\ \A n \in Number : Amount(n) \in Input /\ Amount(n).kind = "number" /\ Amount(n).number = n
    /\ \A o \in Option : Pick(o) \in Input /\ Pick(o).kind = "enum" /\ Pick(o).option = o
    /\ \A c \in Code : Named(c) \in Input /\ Named(c).kind = "enum" /\ Named(c).code = c
    /\ Clear # Nothing /\ Text # Nothing /\ (\A n \in Number : Amount(n) # Nothing)
    /\ (\A o \in Option : Pick(o) # Nothing) /\ \A c \in Code : Named(c) # Nothing
  BY DEF Nothing, Clear, Text, Amount, Pick, Named, Input, Type

LEMMA InputsAreTyped ==
    /\ \A i \in AssetInputs :
          /\ i \in Input /\ (i.kind = "number" => i.number \in Number)
          /\ i.kind = "enum" => i.option \in Option
          /\ i.kind = "unsent" <=> i = Nothing
          /\ i.kind = "clear" <=> i = Clear
    /\ \A type \in Type : \A i \in Targets(type) :
          /\ i \in Input /\ i.kind = type /\ i # Nothing
          /\ i.kind = "number" => i.number \in Number
          /\ i.kind = "enum" => i.code \in Code
<1>1. ASSUME NEW i \in AssetInputs
      PROVE  /\ i \in Input /\ (i.kind = "number" => i.number \in Number)
             /\ i.kind = "enum" => i.option \in Option
             /\ i.kind = "unsent" <=> i = Nothing
             /\ i.kind = "clear" <=> i = Clear
  BY <1>1, InputFields DEF AssetInputs
<1>2. ASSUME NEW type \in Type, NEW i \in Targets(type)
      PROVE  /\ i \in Input /\ i.kind = type /\ i # Nothing
             /\ i.kind = "number" => i.number \in Number
             /\ i.kind = "enum" => i.code \in Code
  BY <1>2, InputFields DEF Targets
<1> QED BY <1>1, <1>2

LEMMA UnitsOfInputs ==
    ASSUME NEW d \in Definition, NEW i \in Input, i.kind = "number" => i.number \in Number
    PROVE  /\ UnitOf(d, i) \in Unit \union {Null}
           /\ i.kind # "number" => UnitOf(d, i) = Null
<1>1. i.kind = "number" => i.number.unit \in Unit \union {Null}
  BY InputsAssumption
<1> QED BY <1>1 DEF UnitOf, Definition

(* The columns of a value that is resolved against units that are there.     *)
LEMMA ResolvedColumns ==
    ASSUME NEW d \in Definition, NEW i \in Input, i.kind = "number" => i.number \in Number,
           UnitOf(d, i) # Null => Measured(d, UnitOf(d, i))
    PROVE  /\ Resolved(d, i) \in Value /\ Resolved(d, i) # Null
           /\ Resolved(d, i).type = d.type
           /\ Resolved(d, i).text = (i.kind = "text")
           /\ i.kind = "number" => Resolved(d, i).number \in Nat /\ Resolved(d, i).number # Null
           /\ Resolved(d, i).option = i.option
           /\ Resolved(d, i).unit = Null => Resolved(d, i).base = Null
           /\ Resolved(d, i).unit = UnitOf(d, i)
           /\ Resolved(d, i).unit # Null =>
                 Resolved(d, i).base = Resolved(d, i).number * units[UnitOf(d, i)].scale
<1> DEFINE u == UnitOf(d, i)
           n == IF i.kind = "number" THEN i.number.amount ELSE Null
           m == IF u = Null THEN Null ELSE i.number.amount * units[u].scale
<1>1. u \in Unit \union {Null} /\ (u # Null => i.kind = "number")
  BY UnitsOfInputs
<1>2. i.kind = "number" => i.number.amount \in Nat
  BY InputsAssumption
<1>3. u # Null => units[u].scale \in Nat
  BY DEF Measured, Measure, Scale
<1>4. m \in Nat \union {Null}
  <2>1. CASE u = Null
    BY <2>1
  <2>2. CASE u # Null
    <3>1. i.number.amount \in Nat /\ units[u].scale \in Nat
      BY <1>1, <1>2, <1>3, <2>2
    <3>2. i.number.amount * units[u].scale \in Nat
      BY <3>1
    <3> QED BY <2>2, <3>2
  <2> QED BY <2>1, <2>2
<1>5. n \in Nat \union {Null} /\ d.type \in Type /\ i.option \in Option \union {Null}
  BY <1>2 DEF Definition, Input
<1>6. Resolved(d, i) = [type |-> d.type, text |-> i.kind = "text", number |-> n, unit |-> u, base |-> m, option |-> i.option]
  BY DEF Resolved
<1>7. (i.kind = "text") \in BOOLEAN
  OBVIOUS
<1>8. Null \notin Value /\ Null \notin Nat
  BY NullsAssumption
<1>9. u # Null => m = n * units[u].scale
  BY <1>1
<1> HIDE DEF u, n, m
<1>10. Resolved(d, i) \in Value
  BY <1>1, <1>4, <1>5, <1>6, <1>7 DEF Value
<1>11. i.kind = "number" => n \in Nat
  BY <1>2 DEF n
<1>12. u = Null => m = Null
  BY DEF m
<1> QED BY <1>6, <1>8, <1>9, <1>10, <1>11, <1>12 DEF u

LEMMA RequestFields ==
    ASSUME NEW op \in Ops, NEW step \in Steps, NEW on \in Asset \union Category \union {Null}
    PROVE  /\ Request(op, step, on) \in Txn
           /\ LET t == Request(op, step, on)
              IN /\ t.op = op /\ t.step = step /\ t.on = on /\ t.place = NoCategory /\ t.def = Null
                 /\ t.input = Nothing /\ t.value = Null /\ t.need = "keep" /\ t.locks = {}
  BY InputFields DEF Request, Txn, Filed

LEMMA Starting ==
    ASSUME IndInv, NEW w \in Worker, NEW t \in Txn, Begin(w, t), Fits(t), t.locks = {},
           t.op \in {"create_asset", "create_category"} => Undrawn(t.on),
           t.op = "create_parameter" => \A v \in Worker : txn[v] # Idle => txn[v].op # "create_parameter"
    PROVE  IndInv'
<1>1. Typed /\ txn[w] = Idle
  BY DEF IndInv, Begin
<1>2. UNCHANGED rows
  BY DEF Begin
<1>3. txn'[w] = t /\ (\A v \in Worker \ {w} : txn'[v] = txn[v]) /\ txn' \in [Worker -> Txn \union {Idle}]
  BY <1>1 DEF Begin, Typed
<1>4. Typed'
  BY <1>1, <1>2, <1>3 DEF Typed, rows
<1>5. RequestsFit'
  <2> SUFFICES ASSUME NEW v \in Worker, NEW u, u = txn'[v], u # Idle PROVE Fits(u)'
    BY DEF RequestsFit
  <2>1. Fits(u)
    BY <1>3 DEF IndInv, RequestsFit
  <2> QED BY <2>1, <1>2, SameRowsSameFit
<1>6. t # Idle
  BY IdleIsNoTransaction
<1>7. Exclusive'
  <2>1. Holds(w)' = {}
    BY <1>3, <1>6 DEF Holds
  <2>2. \A v \in Worker \ {w} : Holds(v)' = Holds(v)
    BY <1>3 DEF Holds
  <2> QED BY <2>1, <2>2 DEF IndInv, Exclusive
<1>8. DistinctDraws'
  <2>1. \A v \in Worker : txn[v] = Idle => txn[v].op = "idle"
    BY DEF Idle
  <2>2. t.op \in Ops
    BY DEF Txn
  <2>3. \A v \in Worker \ {w} : t.op = txn[v].op =>
           /\ t.op \in {"create_asset", "create_category"} => txn[v].on # t.on
           /\ t.op # "create_parameter"
    BY <2>1, <2>2 DEF Undrawn, Ops
  <2> QED BY <1>3, <2>3 DEF IndInv, DistinctDraws
<1> QED BY <1>2, <1>4, <1>5, <1>7, <1>8, SameRowsSameTables DEF IndInv

LEMMA BeginAssetKeeps ==
    ASSUME IndInv, NEW w \in Worker, NEW a \in Asset, BeginAsset(w, a)
    PROVE  IndInv'
<1>1. CASE assets[a] \in Filed
  <2>1. PICK op \in {"update_asset", "delete_asset"} : Begin(w, Request(op, "asset", a))
    BY <1>1, NullsAssumption DEF BeginAsset
  <2> DEFINE t == Request(op, "asset", a)
  <2>2. t \in Txn /\ t.op = op /\ t.step = "asset" /\ t.on = a /\ t.need = "keep" /\ t.locks = {} /\ t.value = Null
    BY RequestFields DEF Ops, Steps
  <2> HIDE DEF t
  <2>3. Fits(t)
    BY <2>2 DEF Fits, AssetFits, ParameterFits, CategoryFits, AssetOps, CategoryOps, Chosen
  <2> QED BY <2>1, <2>2, <2>3, Starting DEF t
<1>2. CASE assets[a] \notin Filed
  <2>1. PICK c \in Filed : /\ assets[a] = Null /\ Undrawn(a)
                           /\ Begin(w, [Request("create_asset", "category", a) EXCEPT !.place = c])
    BY <1>2 DEF BeginAsset
  <2> DEFINE t == [Request("create_asset", "category", a) EXCEPT !.place = c]
  <2>2. t \in Txn /\ t.op = "create_asset" /\ t.step = "category" /\ t.on = a /\ t.need = "keep" /\ t.locks = {}
        /\ t.value = Null
    BY RequestFields DEF Ops, Steps, Txn
  <2> HIDE DEF t
  <2>3. Fits(t)
    BY <2>1, <2>2 DEF Fits, AssetFits, ParameterFits, CategoryFits, AssetOps, CategoryOps, Chosen
  <2> QED BY <2>1, <2>2, <2>3, Starting DEF t
<1> QED BY <1>1, <1>2

LEMMA BeginParameterKeeps ==
    ASSUME IndInv, NEW w \in Worker, BeginParameter(w)
    PROVE  IndInv'
<1>1. CASE parameter = Null /\ \A v \in Worker : txn[v] # Idle => txn[v].op # "create_parameter"
  <2>1. PICK d \in Configured :
             Begin(w, [Request("create_parameter", IF d.unit = Null THEN "write" ELSE "unit", Null)
                       EXCEPT !.def = d])
    BY <1>1, NullsAssumption DEF BeginParameter, Defined
  <2> DEFINE s == IF d.unit = Null THEN "write" ELSE "unit"
             t == [Request("create_parameter", s, Null) EXCEPT !.def = d]
  <2>2. d \in Definition /\ s \in Steps
    BY DEF Configured, Steps
  <2>3. t \in Txn /\ t.op = "create_parameter" /\ t.step = s /\ t.need = "keep" /\ t.locks = {}
        /\ t.def = d /\ t.input = Nothing
    BY <2>2, RequestFields DEF Ops, Txn
  <2>4. d.unit \in Unit \union {Null}
    BY <2>2 DEF Definition
  <2>5. s \in {"unit", "write"} /\ (s = "unit" => d.unit \in Unit)
    BY <2>4
  <2>6. Begin(w, t)
    BY <2>1
  <2> HIDE DEF t, s
  <2>7. Fits(t)
    BY <1>1, <2>2, <2>3, <2>5 DEF Fits, AssetFits, ParameterFits, CategoryFits, AssetOps, CategoryOps
  <2> QED BY <1>1, <2>3, <2>6, <2>7, Starting
<1>2. CASE ~(parameter = Null /\ \A v \in Worker : txn[v] # Idle => txn[v].op # "create_parameter")
  <2>1. PICK op \in {"update_parameter", "delete_parameter"} : Begin(w, Request(op, "parameter", Null))
    BY <1>2 DEF BeginParameter
  <2> DEFINE t == Request(op, "parameter", Null)
  <2>2. t \in Txn /\ t.op = op /\ t.step = "parameter" /\ t.need = "keep" /\ t.locks = {} /\ t.input = Nothing
    BY RequestFields DEF Ops, Steps
  <2> HIDE DEF t
  <2>3. Fits(t)
    BY <2>2 DEF Fits, AssetFits, ParameterFits, CategoryFits, AssetOps, CategoryOps
  <2> QED BY <2>1, <2>2, <2>3, Starting DEF t
<1> QED BY <1>1, <1>2

LEMMA BeginCategoryKeeps ==
    ASSUME IndInv, NEW w \in Worker, NEW c \in Category, BeginCategory(w, c)
    PROVE  IndInv'
<1>1. CASE IsCategory(c)
  <2>1. PICK op \in {"update_category", "delete_category"} : Begin(w, Request(op, "category", c))
    BY <1>1 DEF BeginCategory, IsCategory
  <2> DEFINE t == Request(op, "category", c)
  <2>2. t \in Txn /\ t.op = op /\ t.step = "category" /\ t.on = c /\ t.locks = {}
    BY RequestFields DEF Ops, Steps
  <2> HIDE DEF t
  <2>3. Fits(t)
    BY <2>2 DEF Fits, AssetFits, ParameterFits, CategoryFits, AssetOps, CategoryOps
  <2> QED BY <2>1, <2>2, <2>3, Starting DEF t
<1>2. CASE ~IsCategory(c)
  <2>1. PICK p \in Filed, n \in Assignment :
           /\ categories[c] = Null /\ Undrawn(c)
           /\ Begin(w, [Request("create_category", "parent", c) EXCEPT !.place = p, !.need = n])
    BY <1>2 DEF BeginCategory
  <2> DEFINE r == Request("create_category", "parent", c)
             t == [r EXCEPT !.place = p, !.need = n]
  <2>4. r \in Txn /\ r.op = "create_category" /\ r.step = "parent" /\ r.on = c /\ r.locks = {}
    BY RequestFields DEF Ops, Steps
  <2> HIDE DEF r
  <2>2. t \in Txn /\ t.op = "create_category" /\ t.step = "parent" /\ t.on = c /\ t.locks = {}
    BY <2>4 DEF Txn
  <2> HIDE DEF t
  <2>3. Fits(t)
    BY <2>1, <2>2 DEF Fits, AssetFits, ParameterFits, CategoryFits, AssetOps, CategoryOps
  <2> QED BY <2>1, <2>2, <2>3, Starting DEF t, r
<1> QED BY <1>1, <1>2

-----------------------------------------------------------------------------
(* Statements that lock *)

LEMMA WantedRows ==
    ASSUME NEW w \in Worker, NEW t, t = txn[w]
    PROVE  /\ t.step = "asset" => Wanted(w) = Rows("asset", {t.on})
           /\ t.step = "values" => Wanted(w) =
                 Rows("value", IF t.op \in {"update_asset", "delete_asset"} THEN {t.on} \intersect Valued ELSE Valued)
           /\ t.step \in {"definition", "parameter"} => Wanted(w) = Rows("parameter", {Null})
           /\ t.step = "category" => Wanted(w) =
                 Rows("category", IF t.on \in Category THEN {t.on} ELSE {t.place} \ {NoCategory})
           /\ t.step = "parent" => Wanted(w) = Rows("category", {t.place} \ {NoCategory})
           /\ t.step = "measure" => Wanted(w) = Rows("unit", {UnitOf(t.def, t.input)})
           /\ t.step = "pick" => Wanted(w) = Rows("option", {t.input.option})
           /\ t.step = "options" => Wanted(w) = Rows("option", OptionsNow)
           /\ t.step = "unit" => Wanted(w) = Rows("unit", {t.def.unit})
           /\ t.step = "descend" => Wanted(w) = Rows("category", TreeOf(t.on))
           /\ t.step = "assignments" =>
                 \E S \in {Requiring, {t.on}, TreeOf(t.on)} :
                    /\ Wanted(w) = Rows("assignment", S)
                    /\ t.op = "delete_parameter" => S = Requiring
           /\ t.step = "assets" => Wanted(w) = Rows("asset", FiledIn(TreeOf(t.on)))
           /\ t.step = "write" => Wanted(w) = Rows("parameter", IF t.need \in {"own", "below"} THEN {Null} ELSE {})
           /\ t.step = "required" => Wanted(w) = {}
<1>1. CASE t.step = "asset"
  BY <1>1 DEF Wanted
<1>2. CASE t.step = "values"
  BY <1>2 DEF Wanted
<1>3. CASE t.step = "definition"
  BY <1>3 DEF Wanted
<1>4. CASE t.step = "parameter"
  BY <1>4 DEF Wanted
<1>5. CASE t.step = "category"
  BY <1>5 DEF Wanted
<1>6. CASE t.step = "parent"
  BY <1>6 DEF Wanted
<1>7. CASE t.step = "measure"
  BY <1>7 DEF Wanted
<1>8. CASE t.step = "pick"
  BY <1>8 DEF Wanted
<1>9. CASE t.step = "options"
  BY <1>9 DEF Wanted
<1>10. CASE t.step = "unit"
  BY <1>10 DEF Wanted
<1>11. CASE t.step = "descend"
  BY <1>11 DEF Wanted
<1>12. CASE t.step = "assignments"
  BY <1>12 DEF Wanted
<1>13. CASE t.step = "assets"
  BY <1>13 DEF Wanted
<1>14. CASE t.step = "write"
  BY <1>14 DEF Wanted
<1>15. CASE t.step = "required"
  BY <1>15 DEF Wanted
<1>16. CASE t.step \notin Steps
  BY <1>16 DEF Steps
<1> QED BY <1>1, <1>2, <1>3, <1>4, <1>5, <1>6, <1>7, <1>8, <1>9, <1>10, <1>11, <1>12, <1>13, <1>14, <1>15, <1>16
  DEF Steps

(* What the steps of each kind of request are. *)
LEMMA StepsOfOps ==
    ASSUME NEW t \in Txn, Fits(t)
    PROVE  /\ t.op \in AssetOps \union CategoryOps \union
                      {"create_parameter", "update_parameter", "delete_parameter"}
           /\ t.step = "asset" => t.op \in AssetOps
           /\ t.step = "pick" => t.op \in {"create_asset", "update_asset"}
           /\ t.step = "measure" => t.op \in {"create_asset", "update_asset", "update_parameter"}
           /\ t.step = "required" => t.op \in {"create_asset", "update_asset"}
           /\ t.step \in {"unit"} => t.op \in {"create_parameter", "update_parameter"}
           /\ t.step \in {"parent", "descend", "assets"} => t.op \in CategoryOps
           /\ t.step = "assignments" => t.op \in CategoryOps \union {"delete_parameter"}
           /\ t.step = "category" => t.op \in AssetOps \union CategoryOps
           /\ t.step = "values" => t.op \notin CategoryOps
           /\ t.step = "parameter" => t.op \in {"update_parameter", "delete_parameter"}
<1>1. t.op \in Ops
  BY DEF Txn
<1>2. t.op \in AssetOps \union CategoryOps \union {"create_parameter", "update_parameter", "delete_parameter"}
  BY <1>1 DEF Ops, AssetOps, CategoryOps
<1>3. CASE t.op \in AssetOps
  <2>1. CASE t.op = "create_asset"
    BY <2>1 DEF Fits, AssetFits, AssetOps, Chosen
  <2>2. CASE t.op = "update_asset"
    BY <2>2 DEF Fits, AssetFits, AssetOps, CategoryOps, Chosen
  <2>3. CASE t.op = "delete_asset"
    BY <2>3 DEF Fits, AssetFits, AssetOps, CategoryOps
  <2> QED BY <1>3, <2>1, <2>2, <2>3 DEF AssetOps
<1>4. CASE t.op \in CategoryOps
  BY <1>4 DEF Fits, CategoryFits, CategoryOps
<1>5. CASE t.op \in {"create_parameter", "update_parameter", "delete_parameter"}
  <2>1. CASE t.op = "create_parameter"
    BY <2>1 DEF Fits, ParameterFits, CategoryOps
  <2>2. CASE t.op = "update_parameter"
    BY <2>2 DEF Fits, ParameterFits, CategoryOps
  <2>3. CASE t.op = "delete_parameter"
    BY <2>3 DEF Fits, ParameterFits, CategoryOps
  <2> QED BY <1>5, <2>1, <2>2, <2>3
<1> QED BY <1>2, <1>3, <1>4, <1>5

LEMMA WantedAreLocks ==
    ASSUME IndInv, NEW w \in Worker, txn[w] # Idle
    PROVE  Wanted(w) \subseteq Lock
<1>0. PICK t : t = txn[w]
  OBVIOUS
<1>1. t \in Txn /\ Fits(t)
  BY <1>0, RunningFits
<1>2. t.step \in Steps /\ t.place \in Filed
  BY <1>1 DEF Txn
<1>3. /\ t.op \in AssetOps => t.on \in Asset
      /\ t.op \in CategoryOps => t.on \in Category
  BY <1>1 DEF Fits, AssetFits, CategoryFits
<1>4. /\ Valued \subseteq Asset /\ OptionsNow \subseteq Option /\ TreeOf(t.on) \subseteq Category
      /\ Requiring \subseteq Category /\ FiledIn(TreeOf(t.on)) \subseteq Asset
  BY DEF Valued, OptionsNow, TreeOf, Requiring, FiledIn
<1>5. /\ \A S \in SUBSET Asset : Rows("asset", S) \subseteq Lock /\ Rows("value", S) \subseteq Lock
      /\ \A S \in SUBSET Category : Rows("category", S) \subseteq Lock /\ Rows("assignment", S) \subseteq Lock
      /\ \A S \in SUBSET Unit : Rows("unit", S) \subseteq Lock
      /\ \A S \in SUBSET Option : Rows("option", S) \subseteq Lock
      /\ \A S \in SUBSET {Null} : Rows("parameter", S) \subseteq Lock
  BY DEF Rows, Lock
<1>6. CASE t.step = "asset"
  <2>8. Wanted(w) = Rows("asset", {t.on})
    BY <1>0, <1>6, WantedRows
  <2>9. {t.on} \in SUBSET Asset
    BY <1>1, <1>3, <1>6, StepsOfOps
  <2> QED BY <2>8, <2>9, <1>5
<1>7. CASE t.step = "values"
  <2>1. Wanted(w) = Rows("value", {t.on} \intersect Valued) \/ Wanted(w) = Rows("value", Valued)
    BY <1>0, <1>7, WantedRows
  <2>2. {t.on} \intersect Valued \subseteq Asset
    BY <1>4
  <2> QED BY <2>1, <2>2, <1>4, <1>5
<1>8. CASE t.step \in {"definition", "parameter"}
  <2>8. Wanted(w) = Rows("parameter", {Null})
    BY <1>0, <1>8, WantedRows
  <2>9. {Null} \in SUBSET {Null}
    OBVIOUS
  <2> QED BY <2>8, <2>9, <1>5
<1>9. CASE t.step \in {"category", "parent"}
  <2>1. \/ Wanted(w) = Rows("category", {t.place} \ {NoCategory})
        \/ t.on \in Category /\ Wanted(w) = Rows("category", {t.on})
    BY <1>0, <1>9, WantedRows
  <2>2. {t.place} \ {NoCategory} \subseteq Category
    BY <1>2 DEF Filed
  <2> QED BY <2>1, <2>2, <1>5
<1>10. CASE t.step = "options"
  <2>8. Wanted(w) = Rows("option", OptionsNow)
    BY <1>0, <1>10, WantedRows
  <2>9. OptionsNow \in SUBSET Option
    BY <1>4
  <2> QED BY <2>8, <2>9, <1>5
<1>11. CASE t.step = "descend"
  <2>8. Wanted(w) = Rows("category", TreeOf(t.on))
    BY <1>0, <1>11, WantedRows
  <2>9. TreeOf(t.on) \in SUBSET Category
    BY <1>4
  <2> QED BY <2>8, <2>9, <1>5
<1>12. CASE t.step = "assignments"
  <2>1. PICK S \in {Requiring, {t.on}, TreeOf(t.on)} :
           Wanted(w) = Rows("assignment", S) /\ (t.op = "delete_parameter" => S = Requiring)
    BY <1>0, <1>12, WantedRows
  <2>2. S \in SUBSET Category
    BY <1>1, <1>3, <1>4, <1>12, <2>1, StepsOfOps
  <2> QED BY <2>1, <2>2, <1>5
<1>13. CASE t.step = "assets"
  <2>8. Wanted(w) = Rows("asset", FiledIn(TreeOf(t.on)))
    BY <1>0, <1>13, WantedRows
  <2>9. FiledIn(TreeOf(t.on)) \in SUBSET Asset
    BY <1>4
  <2> QED BY <2>8, <2>9, <1>5
<1>14. CASE t.step = "write"
  <2>8. Wanted(w) = Rows("parameter", IF t.need \in {"own", "below"} THEN {Null} ELSE {})
    BY <1>0, <1>14, WantedRows
  <2>9. (IF t.need \in {"own", "below"} THEN {Null} ELSE {}) \in SUBSET {Null}
    OBVIOUS
  <2> QED BY <2>8, <2>9, <1>5
<1>15. CASE t.step = "required"
  BY <1>0, <1>15, WantedRows
<1>16. CASE t.step = "pick"
  <2>1. t.input \in AssetInputs /\ t.input.kind = "enum"
    BY <1>1, <1>16, StepsOfOps DEF Fits, AssetFits, InputFits, AssetOps, Chosen
  <2>2. t.input.option \in Option
    BY <2>1, InputsAreTyped
  <2>8. Wanted(w) = Rows("option", {t.input.option})
    BY <1>0, <1>16, WantedRows
  <2>9. {t.input.option} \in SUBSET Option
    BY <2>2
  <2> QED BY <2>8, <2>9, <1>5
<1>17. CASE t.step = "measure"
  <2>1. UnitOf(t.def, t.input) \in Unit
    <3>1. CASE t.op \in AssetOps
      <4>1. t.input \in AssetInputs /\ t.def \in Definition /\ UnitOf(t.def, t.input) # Null
        BY <1>1, <1>17, <3>1, StepsOfOps DEF Fits, AssetFits, InputFits, AssetOps, Chosen, Defined
      <4> QED BY <4>1, InputsAreTyped, UnitsOfInputs
    <3>2. CASE t.op = "update_parameter"
      <4>1. /\ t.def \in Definition /\ UnitOf(t.def, t.input) # Null
            /\ t.input = Nothing \/ t.input \in Targets(t.def.type)
        BY <1>1, <1>17, <3>2 DEF Fits, ParameterFits
      <4>2. t.input \in Input /\ (t.input.kind = "number" => t.input.number \in Number)
        <5>1. t.def.type \in Type
          BY <4>1 DEF Definition
        <5> QED BY <4>1, <5>1, InputsAreTyped, InputFields
      <4> QED BY <4>1, <4>2, UnitsOfInputs
    <3> QED BY <1>1, <1>17, <3>1, <3>2, StepsOfOps DEF AssetOps
  <2>8. Wanted(w) = Rows("unit", {UnitOf(t.def, t.input)})
    BY <1>0, <1>17, WantedRows
  <2>9. {UnitOf(t.def, t.input)} \in SUBSET Unit
    BY <2>1
  <2> QED BY <2>8, <2>9, <1>5
<1>18. CASE t.step = "unit"
  <2>1. t.def.unit \in Unit
    BY <1>1, <1>18, StepsOfOps DEF Fits, ParameterFits
  <2>8. Wanted(w) = Rows("unit", {t.def.unit})
    BY <1>0, <1>18, WantedRows
  <2>9. {t.def.unit} \in SUBSET Unit
    BY <2>1
  <2> QED BY <2>8, <2>9, <1>5
<1> QED BY <1>2, <1>6, <1>7, <1>8, <1>9, <1>10, <1>11, <1>12, <1>13, <1>14, <1>15, <1>16, <1>17, <1>18 DEF Steps

LEMMA LockedFields ==
    ASSUME IndInv, NEW w \in Worker, txn[w] # Idle, NEW step \in Steps
    PROVE  /\ Locked(w, step) \in Txn
           /\ LET u == Locked(w, step)
                  t == txn[w]
              IN /\ u.op = t.op /\ u.step = step /\ u.on = t.on /\ u.place = t.place /\ u.def = t.def
                 /\ u.input = t.input /\ u.value = t.value /\ u.need = t.need
                 /\ u.locks = t.locks \union Wanted(w)
<1>1. txn[w] \in Txn /\ Wanted(w) \subseteq Lock
  BY RunningFits, WantedAreLocks
<1>2. txn[w].locks \union Wanted(w) \in SUBSET Lock
  BY <1>1 DEF Txn
<1>3. PICK t \in Txn : t = txn[w]
  BY <1>1
<1>4. PICK l \in SUBSET Lock : l = txn[w].locks \union Wanted(w)
  BY <1>2
<1>5. Locked(w, step) = [t EXCEPT !.locks = l, !.step = step]
  BY <1>3, <1>4 DEF Locked
<1>6. LET u == [t EXCEPT !.locks = l, !.step = step]
      IN /\ u \in Txn
         /\ u.op = t.op /\ u.step = step /\ u.on = t.on /\ u.place = t.place /\ u.def = t.def
         /\ u.input = t.input /\ u.value = t.value /\ u.need = t.need /\ u.locks = l
  BY DEF Txn
<1> QED BY <1>3, <1>4, <1>5, <1>6

LEMMA UnlockedFields ==
    ASSUME IndInv, NEW w \in Worker, txn[w] # Idle, NEW step \in Steps
    PROVE  /\ Unlocked(w, step) \in Txn
           /\ LET u == Unlocked(w, step)
                  t == txn[w]
              IN /\ u.op = t.op /\ u.step = step /\ u.on = t.on /\ u.place = t.place /\ u.def = t.def
                 /\ u.input = t.input /\ u.value = t.value /\ u.need = t.need /\ u.locks = t.locks
  BY RunningFits DEF Unlocked, Txn

LEMMA AtStep ==
    ASSUME IndInv, NEW w \in Worker, NEW ops, NEW step, At(w, ops, step), NEW t, t = txn[w]
    PROVE  /\ txn[w] # Idle /\ Blockers(w) = {} /\ t \in Txn /\ Fits(t)
           /\ t.op \in ops /\ t.step = step
  BY RunningFits DEF At

LEMMA FitsByOp ==
    ASSUME NEW t
    PROVE  /\ t.op \in AssetOps /\ AssetFits(t) => Fits(t)
           /\ t.op \in CategoryOps /\ CategoryFits(t) => Fits(t)
           /\ t.op \in {"create_parameter", "update_parameter", "delete_parameter"} /\ ParameterFits(t) => Fits(t)
  BY DEF Fits, AssetFits, ParameterFits, CategoryFits, AssetOps, CategoryOps

LEMMA LockAssetKeeps ==
    ASSUME IndInv, NEW w \in Worker, LockAsset(w)
    PROVE  IndInv'
<1>0. PICK t : t = txn[w]
  OBVIOUS
<1>1. /\ txn[w] # Idle /\ Blockers(w) = {} /\ t \in Txn /\ Fits(t)
      /\ t.op \in {"update_asset", "delete_asset"} /\ t.step = "asset"
  BY <1>0, AtStep DEF LockAsset
<1>2. CASE assets[t.on] \notin Filed
  BY <1>0, <1>2, RefuseKeeps DEF LockAsset
<1>3. CASE assets[t.on] \in Filed
  <2>1. PICK u : u = Locked(w, "values")
    OBVIOUS
  <2>2. /\ u \in Txn /\ GoOn(w, u)
        /\ u.op = t.op /\ u.step = "values" /\ u.on = t.on /\ u.value = t.value /\ u.need = t.need
        /\ u.locks = t.locks \union Wanted(w)
    BY <1>0, <1>1, <1>3, <2>1, LockedFields DEF LockAsset, Steps
  <2>3. Wanted(w) = Rows("asset", {t.on})
    BY <1>0, <1>1, WantedRows
  <2>5. <<"asset", t.on>> \in Wanted(w)
    BY <2>3 DEF Rows
  <2>4. AssetFits(u)
    BY <1>1, <1>3, <2>2, <2>5 DEF Fits, AssetFits, AssetOps, Chosen
  <2> QED BY <1>0, <1>1, <2>2, <2>4, FitsByOp, GoingOn DEF AssetOps
<1> QED BY <1>2, <1>3

LEMMA LockOwnValueKeeps ==
    ASSUME IndInv, NEW w \in Worker, LockOwnValue(w)
    PROVE  IndInv'
<1>0. PICK t : t = txn[w]
  OBVIOUS
<1>1. CASE At(w, {"update_asset"}, "values") /\ \E c \in Filed : GoOn(w, [Locked(w, "category") EXCEPT !.place = c])
  <2>1. /\ txn[w] # Idle /\ Blockers(w) = {} /\ t \in Txn /\ Fits(t)
        /\ t.op = "update_asset" /\ t.step = "values"
    BY <1>0, <1>1, AtStep
  <2>9. PICK c \in Filed : GoOn(w, [Locked(w, "category") EXCEPT !.place = c])
    BY <1>1
  <2>2. PICK r, u : r = Locked(w, "category") /\ u = [r EXCEPT !.place = c] /\ GoOn(w, u)
    BY <2>9
  <2>3. /\ r \in Txn
        /\ r.op = t.op /\ r.step = "category" /\ r.on = t.on /\ r.value = t.value /\ r.need = t.need
        /\ r.locks = t.locks \union Wanted(w)
    BY <1>0, <2>1, <2>2, LockedFields DEF Steps
  <2>4. /\ u \in Txn
        /\ u.op = t.op /\ u.step = "category" /\ u.on = t.on /\ u.value = t.value /\ u.need = t.need
        /\ u.locks = t.locks \union Wanted(w)
    BY <2>2, <2>3 DEF Txn
  <2>5. Wanted(w) = Rows("value", {t.on} \intersect Valued)
    BY <1>0, <2>1, WantedRows
  <2>6. t.on \in Asset
    BY <2>1 DEF Fits, AssetFits, AssetOps
  <2>7. values[t.on] # Null => ValueOf(t.on) \in Wanted(w)
    BY <2>5, <2>6 DEF Rows, Valued, ValueOf
  <2>8. AssetFits(u)
    BY <2>1, <2>4, <2>7 DEF Fits, AssetFits, AssetOps, Chosen
  <2> QED BY <1>0, <2>1, <2>2, <2>4, <2>8, FitsByOp, GoingOn DEF AssetOps
<1>2. CASE At(w, {"delete_asset"}, "values") /\ GoOn(w, Locked(w, "write"))
  <2>1. /\ txn[w] # Idle /\ Blockers(w) = {} /\ t \in Txn /\ Fits(t)
        /\ t.op = "delete_asset" /\ t.step = "values"
    BY <1>0, <1>2, AtStep
  <2>2. PICK u : u = Locked(w, "write")
    OBVIOUS
  <2>3. /\ u \in Txn /\ GoOn(w, u)
        /\ u.op = t.op /\ u.step = "write" /\ u.on = t.on /\ u.value = t.value /\ u.need = t.need
        /\ u.locks = t.locks \union Wanted(w)
    BY <1>0, <1>2, <2>1, <2>2, LockedFields DEF Steps
  <2>4. AssetFits(u)
    BY <2>1, <2>3 DEF Fits, AssetFits, AssetOps, Chosen
  <2> QED BY <1>0, <2>1, <2>3, <2>4, FitsByOp, GoingOn DEF AssetOps
<1> QED BY <1>1, <1>2 DEF LockOwnValue

LEMMA ValidateCategoryKeeps ==
    ASSUME IndInv, NEW w \in Worker, ValidateCategory(w)
    PROVE  IndInv'
<1>0. PICK t : t = txn[w]
  OBVIOUS
<1>1. /\ txn[w] # Idle /\ Blockers(w) = {} /\ t \in Txn /\ Fits(t)
      /\ t.op \in {"create_asset", "update_asset"} /\ t.step = "category"
  BY <1>0, AtStep DEF ValidateCategory
<1>2. CASE t.place \in Category /\ ~IsCategory(t.place)
  BY <1>0, <1>2, RefuseKeeps DEF ValidateCategory
<1>3. CASE t.place \in Category => IsCategory(t.place)
  <2>1. PICK i \in AssetInputs :
           GoOn(w, [Locked(w, IF i = Nothing THEN "required" ELSE "definition") EXCEPT !.input = i])
    BY <1>0, <1>3 DEF ValidateCategory
  <2>2. PICK s, r, u :
           /\ s \in {"required", "definition"} /\ (s = "required" <=> i = Nothing)
           /\ r = Locked(w, s) /\ u = [r EXCEPT !.input = i] /\ GoOn(w, u)
    BY <2>1
  <2>3. /\ r \in Txn
        /\ r.op = t.op /\ r.step = s /\ r.on = t.on /\ r.value = t.value /\ r.need = t.need
        /\ r.place = t.place /\ r.locks = t.locks \union Wanted(w)
    BY <1>0, <1>1, <2>2, LockedFields DEF Steps
  <2>4. i \in Input /\ (i.kind = "unsent" <=> i = Nothing) /\ (i.kind = "clear" <=> i = Clear)
    BY InputsAreTyped
  <2>5. /\ u \in Txn
        /\ u.op = t.op /\ u.step = s /\ u.on = t.on /\ u.value = t.value /\ u.need = t.need
        /\ u.place = t.place /\ u.locks = t.locks \union Wanted(w) /\ u.input = i
    BY <2>2, <2>3, <2>4 DEF Txn
  <2>6. t.on \in Asset /\ t.on \notin Category
    BY <1>1, NullsAssumption DEF Fits, AssetFits, AssetOps
  <2>11. Wanted(w) = Rows("category", {t.place} \ {NoCategory})
    BY <1>0, <1>1, <2>6, WantedRows
  <2>7. t.place \in Category => CategoryRow(t.place) \in Wanted(w)
    BY <2>11, NullsAssumption DEF Rows, CategoryRow
  <2>8. PlaceLocked(u)
    BY <1>3, <2>5, <2>7 DEF PlaceLocked
  <2>9. InputFits(u)
    BY <2>2, <2>4, <2>5 DEF InputFits, Sent
  <2>10. AssetFits(u)
    BY <1>1, <2>2, <2>5, <2>8, <2>9 DEF Fits, AssetFits, AssetOps, Chosen
  <2> QED BY <1>0, <1>1, <2>2, <2>5, <2>10, FitsByOp, GoingOn DEF AssetOps
<1> QED BY <1>2, <1>3

LEMMA FetchDefinitionKeeps ==
    ASSUME IndInv, NEW w \in Worker, FetchDefinition(w)
    PROVE  IndInv'
<1>0. PICK t : t = txn[w]
  OBVIOUS
<1>1. /\ txn[w] # Idle /\ Blockers(w) = {} /\ t \in Txn /\ Fits(t)
      /\ t.op \in {"create_asset", "update_asset"} /\ t.step = "definition"
  BY <1>0, AtStep DEF FetchDefinition
<1>2. PICK i : i = t.input
  OBVIOUS
<1>3. i \in AssetInputs /\ i # Nothing /\ t.on \in Asset /\ t.need = "keep" /\ PlaceLocked(t)
  BY <1>1, <1>2 DEF Fits, AssetFits, AssetOps, Chosen, InputFits
<1>4. /\ i \in Input /\ i.kind # "unsent" /\ (i.kind = "clear" <=> i = Clear)
      /\ i.kind = "number" => i.number \in Number
  BY <1>3, InputsAreTyped
<1>5. CASE i = Clear
  <2>1. PICK u : u = Locked(w, "required") /\ GoOn(w, u)
    BY <1>0, <1>2, <1>5 DEF FetchDefinition
  <2>2. /\ u \in Txn /\ GoOn(w, u)
        /\ u.op = t.op /\ u.step = "required" /\ u.on = t.on /\ u.value = t.value /\ u.need = t.need
        /\ u.place = t.place /\ u.input = i /\ u.locks = t.locks \union Wanted(w)
    BY <1>0, <1>1, <1>2, <2>1, LockedFields DEF Steps
  <2>3. PlaceLocked(u)
    BY <1>3, <2>2 DEF PlaceLocked
  <2>4. InputFits(u)
    BY <1>1, <1>3, <1>4, <1>5, <2>2 DEF InputFits, Sent, Fits, AssetFits, AssetOps
  <2>5. AssetFits(u)
    BY <1>1, <2>2, <2>3, <2>4 DEF Fits, AssetFits, AssetOps, Chosen
  <2> QED BY <1>0, <1>1, <2>2, <2>5, FitsByOp, GoingOn DEF AssetOps
<1>6. CASE i # Clear /\ (~Defined \/ parameter.type # i.kind)
  BY <1>0, <1>2, <1>6, RefuseKeeps DEF FetchDefinition
<1>7. CASE i # Clear /\ Defined /\ parameter.type = i.kind
  <2>1. PICK s, x, r, u :
           /\ s = NextOfInput(parameter, i)
           /\ x = IF s = "required" THEN Resolved(parameter, i) ELSE Null
           /\ r = Locked(w, s) /\ u = [r EXCEPT !.def = parameter, !.value = x] /\ GoOn(w, u)
    BY <1>0, <1>2, <1>7 DEF FetchDefinition
  <2>2. /\ s \in {"pick", "measure", "required"} /\ (s = "pick" <=> i.kind = "enum")
        /\ s = "measure" <=> UnitOf(parameter, i) # Null /\ i.kind # "enum"
    BY <2>1 DEF NextOfInput
  <2>3. /\ r \in Txn
        /\ r.op = t.op /\ r.step = s /\ r.on = t.on /\ r.need = t.need /\ r.input = i
        /\ r.place = t.place /\ r.locks = t.locks \union Wanted(w)
    BY <1>0, <1>1, <1>2, <2>1, <2>2, LockedFields DEF Steps
  <2>4. parameter \in Definition
    BY <1>7 DEF Defined
  <2>5. x \in Value \union {Null}
    <3>1. CASE s = "required"
      BY <1>4, <2>1, <2>2, <2>4, <3>1, ResolvedColumns
    <3>2. CASE s # "required"
      BY <2>1, <3>2
    <3> QED BY <3>1, <3>2
  <2>6. /\ u \in Txn
        /\ u.op = t.op /\ u.step = s /\ u.on = t.on /\ u.value = x /\ u.need = t.need /\ u.def = parameter
        /\ u.place = t.place /\ u.locks = t.locks \union Wanted(w) /\ u.input = i
    BY <2>1, <2>3, <2>4, <2>5 DEF Txn
  <2>7. Wanted(w) = Rows("parameter", {Null})
    BY <1>0, <1>1, WantedRows
  <2>8. Parameter \in u.locks
    BY <2>6, <2>7 DEF Rows, Parameter
  <2>9. PlaceLocked(u)
    BY <1>3, <2>6 DEF PlaceLocked
  <2>10. InputFits(u)
    <3>1. Sent(i) /\ u.step # "definition"
      BY <1>4, <1>7, <2>2, <2>6 DEF Sent
    <3>2. u.step = "required" => u.value = Resolved(u.def, u.input) /\ UnitLocked(u) /\ u.input.kind # "enum"
      BY <2>1, <2>2, <2>6 DEF UnitLocked
    <3>3. u.step = "measure" => UnitOf(u.def, u.input) # Null
      BY <2>2, <2>6
    <3>4. u.step = "pick" => u.input.kind = "enum"
      BY <2>2, <2>6
    <3> QED BY <1>3, <1>4, <1>7, <2>2, <2>6, <2>8, <3>1, <3>2, <3>3, <3>4 DEF InputFits
  <2>11. AssetFits(u)
    BY <1>1, <2>2, <2>6, <2>9, <2>10 DEF Fits, AssetFits, AssetOps, Chosen
  <2> QED BY <1>0, <1>1, <2>1, <2>6, <2>11, FitsByOp, GoingOn DEF AssetOps
<1> QED BY <1>5, <1>6, <1>7

LEMMA ValidateOptionKeeps ==
    ASSUME IndInv, NEW w \in Worker, ValidateOption(w)
    PROVE  IndInv'
<1>0. PICK t : t = txn[w]
  OBVIOUS
<1>1. /\ txn[w] # Idle /\ Blockers(w) = {} /\ t \in Txn /\ Fits(t) /\ t.step = "pick"
  BY <1>0, AtStep DEF ValidateOption
<1>2. t.op \in {"create_asset", "update_asset"}
  BY <1>1, StepsOfOps
<1>3. t.on \in Asset /\ t.need = "keep" /\ PlaceLocked(t) /\ InputFits(t)
  BY <1>1, <1>2 DEF Fits, AssetFits, AssetOps, Chosen
<1>4. /\ t.input \in AssetInputs /\ t.input.kind = "enum" /\ t.def = parameter /\ Defined
      /\ Parameter \in t.locks /\ t.def.type = t.input.kind
  BY <1>1, <1>3 DEF InputFits
<1>5. t.input \in Input /\ t.def \in Definition /\ UnitOf(t.def, t.input) = Null
  BY <1>4, InputsAreTyped DEF UnitOf, Defined
<1>6. CASE t.input.option \notin OptionsNow
  BY <1>0, <1>6, RefuseKeeps DEF ValidateOption
<1>7. CASE t.input.option \in OptionsNow
  <2>1. PICK x, r, u :
           /\ x = Resolved(t.def, t.input) /\ r = Locked(w, "required")
           /\ u = [r EXCEPT !.value = x] /\ GoOn(w, u)
    BY <1>0, <1>7 DEF ValidateOption
  <2>2. /\ r \in Txn
        /\ r.op = t.op /\ r.step = "required" /\ r.on = t.on /\ r.need = t.need /\ r.input = t.input
        /\ r.place = t.place /\ r.def = t.def /\ r.locks = t.locks \union Wanted(w)
    BY <1>0, <1>1, <2>1, LockedFields DEF Steps
  <2>3. x \in Value
    BY <1>4, <1>5, <2>1, ResolvedColumns
  <2>4. /\ u \in Txn
        /\ u.op = t.op /\ u.step = "required" /\ u.on = t.on /\ u.need = t.need /\ u.input = t.input
        /\ u.place = t.place /\ u.def = t.def /\ u.locks = t.locks \union Wanted(w) /\ u.value = x
    BY <2>1, <2>2, <2>3 DEF Txn
  <2>5. PlaceLocked(u)
    BY <1>3, <2>4 DEF PlaceLocked
  <2>6. UnitLocked(u)
    BY <1>5, <2>4 DEF UnitLocked
  <2>7. InputFits(u)
    BY <1>4, <1>7, <2>1, <2>4, <2>6, InputFields DEF InputFits
  <2>8. AssetFits(u)
    BY <1>1, <1>2, <2>4, <2>5, <2>7 DEF Fits, AssetFits, AssetOps, Chosen
  <2> QED BY <1>0, <1>1, <1>2, <2>1, <2>4, <2>8, FitsByOp, GoingOn DEF AssetOps
<1> QED BY <1>6, <1>7

LEMMA ValidateRequiredKeeps ==
    ASSUME IndInv, NEW w \in Worker, ValidateRequired(w)
    PROVE  IndInv'
<1>0. PICK t : t = txn[w]
  OBVIOUS
<1>1. /\ txn[w] # Idle /\ Blockers(w) = {} /\ t \in Txn /\ Fits(t) /\ t.step = "required"
  BY <1>0, AtStep DEF ValidateRequired
<1>2. t.op \in {"create_asset", "update_asset"}
  BY <1>1, StepsOfOps
<1>3. t.on \in Asset /\ t.need = "keep" /\ PlaceLocked(t) /\ InputFits(t)
  BY <1>1, <1>2 DEF Fits, AssetFits, AssetOps, Chosen
<1>4. CASE Requires(t.place) /\ ~HasValue(t)
  BY <1>0, <1>4, RefuseKeeps DEF ValidateRequired
<1>5. CASE Requires(t.place) => HasValue(t)
  <2>1. PICK u : u = Unlocked(w, "write") /\ GoOn(w, u)
    BY <1>0, <1>5 DEF ValidateRequired
  <2>2. /\ u \in Txn
        /\ u.op = t.op /\ u.step = "write" /\ u.on = t.on /\ u.need = t.need /\ u.input = t.input
        /\ u.place = t.place /\ u.def = t.def /\ u.locks = t.locks /\ u.value = t.value
    BY <1>0, <1>1, <2>1, UnlockedFields DEF Steps
  <2>3. PlaceLocked(u)
    BY <1>3, <2>2 DEF PlaceLocked
  <2>4. InputFits(u)
    BY <1>1, <1>3, <2>2 DEF InputFits, UnitLocked
  <2>5. t.place \in Category /\ required[t.place] # "none" => Requires(t.place)
    <3> SUFFICES ASSUME t.place \in Category, required[t.place] # "none" PROVE Requires(t.place)
      OBVIOUS
    <3>1. required[t.place] \in {"own", "below"}
      BY DEF IndInv, Typed, Assignment
    <3>2. t.place # NoCategory /\ IsCategory(t.place)
      BY <1>3, NullsAssumption DEF PlaceLocked
    <3>3. categories[t.place] \in Seq(Category)
      BY <3>2 DEF IndInv, TreeFits, Rooted, IsCategory
    <3>4. Under(t.place, t.place)
      BY <3>2, <3>3 DEF Under, IsPrefix
    <3> QED BY <3>1, <3>2, <3>4 DEF Requires
  <2>6. HasValue(u) <=> HasValue(t)
    BY <2>2 DEF HasValue
  <2>7. AssetFits(u)
    BY <1>1, <1>2, <1>5, <2>2, <2>3, <2>4, <2>5, <2>6 DEF Fits, AssetFits, AssetOps, Chosen
  <2> QED BY <1>0, <1>1, <1>2, <2>1, <2>2, <2>7, FitsByOp, GoingOn DEF AssetOps
<1> QED BY <1>4, <1>5

LEMMA FetchUnitOfValueKeeps ==
    ASSUME IndInv, NEW w \in Worker, FetchUnitOfValue(w)
    PROVE  IndInv'
<1>0. PICK t : t = txn[w]
  OBVIOUS
<1>1. /\ txn[w] # Idle /\ Blockers(w) = {} /\ t \in Txn /\ Fits(t) /\ t.step = "measure"
  BY <1>0, AtStep DEF FetchUnitOfValue
<1>2. t.op \in {"create_asset", "update_asset", "update_parameter"}
  BY <1>1, StepsOfOps
<1>3. CASE ~Measured(t.def, UnitOf(t.def, t.input))
  BY <1>0, <1>3, RefuseKeeps DEF FetchUnitOfValue
<1>4. CASE Measured(t.def, UnitOf(t.def, t.input))
  <2>1. PICK s, x, r, u :
           /\ s = IF t.op = "update_parameter" THEN "write" ELSE "required"
           /\ x = Resolved(t.def, t.input) /\ r = Locked(w, s)
           /\ u = [r EXCEPT !.value = x] /\ GoOn(w, u)
    BY <1>0, <1>4 DEF FetchUnitOfValue
  <2>2. /\ r \in Txn
        /\ r.op = t.op /\ r.step = s /\ r.on = t.on /\ r.need = t.need /\ r.input = t.input
        /\ r.place = t.place /\ r.def = t.def /\ r.locks = t.locks \union Wanted(w)
    BY <1>0, <1>1, <2>1, LockedFields DEF Steps
  <2>3. ASSUME t.def \in Definition, t.input \in Input, t.input.kind = "number" => t.input.number \in Number
        PROVE  /\ u \in Txn
               /\ u.op = t.op /\ u.step = s /\ u.on = t.on /\ u.need = t.need /\ u.input = t.input
               /\ u.place = t.place /\ u.def = t.def /\ u.locks = t.locks \union Wanted(w) /\ u.value = x
    <3>1. x \in Value
      BY <1>4, <2>1, <2>3, ResolvedColumns
    <3> QED BY <2>1, <2>2, <3>1 DEF Txn
  <2>4. Wanted(w) = Rows("unit", {UnitOf(t.def, t.input)})
    BY <1>0, <1>1, WantedRows
  <2>5. UnitRow(UnitOf(t.def, t.input)) \in Wanted(w)
    BY <2>4 DEF Rows, UnitRow
  <2>6. CASE t.op \in {"create_asset", "update_asset"}
    <3>1. t.on \in Asset /\ t.need = "keep" /\ PlaceLocked(t) /\ InputFits(t)
      BY <1>1, <2>6 DEF Fits, AssetFits, AssetOps, Chosen
    <3>2. /\ t.input \in AssetInputs /\ Sent(t.input) /\ t.def = parameter /\ Defined
          /\ Parameter \in t.locks /\ t.def.type = t.input.kind /\ UnitOf(t.def, t.input) # Null
      BY <1>1, <3>1 DEF InputFits
    <3>3. t.def \in Definition /\ t.input \in Input /\ t.input.kind = "number" /\ t.input.number \in Number
      BY <3>2, InputsAreTyped DEF UnitOf, Defined
    <3>4. s = "required"
      BY <2>1, <2>6
    <3>5. /\ u \in Txn
          /\ u.op = t.op /\ u.step = s /\ u.on = t.on /\ u.need = t.need /\ u.input = t.input
          /\ u.place = t.place /\ u.def = t.def /\ u.locks = t.locks \union Wanted(w) /\ u.value = x
      BY <2>3, <3>3
    <3>6. PlaceLocked(u)
      BY <3>1, <3>5 DEF PlaceLocked
    <3>7. UnitLocked(u)
      BY <1>4, <2>5, <3>5 DEF UnitLocked
    <3>8. InputFits(u)
      BY <2>1, <3>2, <3>3, <3>4, <3>5, <3>7 DEF InputFits
    <3>9. AssetFits(u)
      BY <1>1, <2>6, <3>4, <3>5, <3>6, <3>8 DEF Fits, AssetFits, AssetOps, Chosen
    <3> QED BY <1>0, <1>1, <2>1, <2>6, <3>5, <3>9, FitsByOp, GoingOn DEF AssetOps
  <2>7. CASE t.op = "update_parameter"
    <3>1. /\ t.need = "keep" /\ Defined /\ Parameter \in t.locks
          /\ t.def \in Definition /\ UnitOf(t.def, t.input) # Null
          /\ t.def.type = parameter.type => t.input = Nothing
          /\ t.def.type # parameter.type =>
                t.input \in Targets(t.def.type) /\ \A a \in Valued : ValueOf(a) \in t.locks
      BY <1>1, <2>7 DEF Fits, ParameterFits
    <3>2. t.def.type # parameter.type
      BY <3>1, InputFields DEF UnitOf
    <3>3. t.input \in Input /\ (t.input.kind = "number" => t.input.number \in Number)
      <4>1. t.def.type \in Type
        BY <3>1 DEF Definition
      <4> QED BY <3>1, <3>2, <4>1, InputsAreTyped
    <3>4. s = "write"
      BY <2>1, <2>7
    <3>5. /\ u \in Txn
          /\ u.op = t.op /\ u.step = s /\ u.on = t.on /\ u.need = t.need /\ u.input = t.input
          /\ u.place = t.place /\ u.def = t.def /\ u.locks = t.locks \union Wanted(w) /\ u.value = x
      BY <2>3, <3>1, <3>3
    <3>6. UnitLocked(u)
      BY <1>4, <2>5, <3>5 DEF UnitLocked
    <3>7. ParameterFits(u)
      BY <2>7, <3>1, <3>2, <3>4, <3>5, <3>6 DEF ParameterFits
    <3> QED BY <1>0, <1>1, <2>1, <2>7, <3>5, <3>7, FitsByOp, GoingOn
  <2> QED BY <1>2, <2>6, <2>7
<1> QED BY <1>3, <1>4

LEMMA LockParameterKeeps ==
    ASSUME IndInv, NEW w \in Worker, LockParameter(w)
    PROVE  IndInv'
<1>0. PICK t : t = txn[w]
  OBVIOUS
<1>1. /\ txn[w] # Idle /\ Blockers(w) = {} /\ t \in Txn /\ Fits(t) /\ t.step = "parameter"
  BY <1>0, AtStep DEF LockParameter
<1>2. t.op \in {"update_parameter", "delete_parameter"}
  BY <1>1, StepsOfOps
<1>3. CASE ~Defined
  BY <1>0, <1>3, RefuseKeeps DEF LockParameter
<1>4. CASE Defined
  <2>1. PICK u : u = Locked(w, "options") /\ GoOn(w, u)
    BY <1>4 DEF LockParameter
  <2>2. /\ u \in Txn
        /\ u.op = t.op /\ u.step = "options" /\ u.on = t.on /\ u.need = t.need /\ u.input = t.input
        /\ u.def = t.def /\ u.locks = t.locks \union Wanted(w)
    BY <1>0, <1>1, <2>1, LockedFields DEF Steps
  <2>3. Wanted(w) = Rows("parameter", {Null})
    BY <1>0, <1>1, WantedRows
  <2>4. Parameter \in u.locks
    BY <2>2, <2>3 DEF Rows, Parameter
  <2>5. ParameterFits(u)
    BY <1>1, <1>2, <1>4, <2>2, <2>4 DEF Fits, ParameterFits
  <2> QED BY <1>0, <1>1, <1>2, <2>1, <2>2, <2>5, FitsByOp, GoingOn
<1> QED BY <1>3, <1>4

LEMMA LockOptionsKeeps ==
    ASSUME IndInv, NEW w \in Worker, LockOptions(w)
    PROVE  IndInv'
<1>0. PICK t : t = txn[w]
  OBVIOUS
<1>1. CASE At(w, {"update_parameter"}, "options")
  <2>1. /\ txn[w] # Idle /\ Blockers(w) = {} /\ t \in Txn /\ Fits(t)
        /\ t.op = "update_parameter" /\ t.step = "options"
    BY <1>0, <1>1, AtStep
  <2>2. PICK d \in Configured :
             GoOn(w, [Locked(w, IF d.type # parameter.type THEN "values"
                                ELSE IF d.unit # Null THEN "unit" ELSE "write") EXCEPT !.def = d])
    BY <1>0, <2>1, <1>1 DEF LockOptions, At
  <2>3. PICK s, r, u :
           /\ s = IF d.type # parameter.type THEN "values" ELSE IF d.unit # Null THEN "unit" ELSE "write"
           /\ r = Locked(w, s) /\ u = [r EXCEPT !.def = d] /\ GoOn(w, u)
    BY <2>2
  <2>4. s \in {"values", "unit", "write"} /\ (s = "values" <=> d.type # parameter.type)
        /\ (s = "unit" => d.unit # Null)
    BY <2>3
  <2>5. /\ r \in Txn
        /\ r.op = t.op /\ r.step = s /\ r.on = t.on /\ r.need = t.need /\ r.input = t.input
        /\ r.locks = t.locks \union Wanted(w)
    BY <1>0, <2>1, <2>3, <2>4, LockedFields DEF Steps
  <2>6. d \in Definition /\ (s = "unit" => d.unit \in Unit)
    BY <2>4 DEF Configured, Definition
  <2>7. /\ u \in Txn
        /\ u.op = t.op /\ u.step = s /\ u.on = t.on /\ u.need = t.need /\ u.input = t.input
        /\ u.def = d /\ u.locks = t.locks \union Wanted(w)
    BY <2>3, <2>5, <2>6 DEF Txn
  <2>8. t.input = Nothing /\ t.need = "keep" /\ Defined /\ Parameter \in t.locks
    BY <2>1 DEF Fits, ParameterFits
  <2>9. UnitLocked(u)
    BY <2>7, <2>8, InputFields DEF UnitLocked, UnitOf
  <2>10. ParameterFits(u)
    BY <2>1, <2>4, <2>6, <2>7, <2>8, <2>9 DEF ParameterFits
  <2> QED BY <1>0, <2>1, <2>3, <2>7, <2>10, FitsByOp, GoingOn
<1>2. CASE At(w, {"delete_parameter"}, "options") /\ GoOn(w, Locked(w, "assignments"))
  <2>1. /\ txn[w] # Idle /\ Blockers(w) = {} /\ t \in Txn /\ Fits(t)
        /\ t.op = "delete_parameter" /\ t.step = "options"
    BY <1>0, <1>2, AtStep
  <2>2. PICK u : u = Locked(w, "assignments") /\ GoOn(w, u)
    BY <1>2
  <2>3. /\ u \in Txn
        /\ u.op = t.op /\ u.step = "assignments" /\ u.on = t.on /\ u.need = t.need
        /\ u.locks = t.locks \union Wanted(w)
    BY <1>0, <2>1, <2>2, LockedFields DEF Steps
  <2>4. ParameterFits(u)
    BY <2>1, <2>3 DEF Fits, ParameterFits
  <2> QED BY <1>0, <2>1, <2>2, <2>3, <2>4, FitsByOp, GoingOn
<1> QED BY <1>1, <1>2 DEF LockOptions

LEMMA LockAssignmentsKeeps ==
    ASSUME IndInv, NEW w \in Worker, LockAssignments(w)
    PROVE  IndInv'
<1>0. PICK t : t = txn[w]
  OBVIOUS
<1>1. /\ txn[w] # Idle /\ Blockers(w) = {} /\ t \in Txn /\ Fits(t)
      /\ t.op = "delete_parameter" /\ t.step = "assignments"
  BY <1>0, AtStep DEF LockAssignments
<1>2. PICK u : u = Locked(w, "values") /\ GoOn(w, u)
  BY DEF LockAssignments
<1>3. /\ u \in Txn
      /\ u.op = t.op /\ u.step = "values" /\ u.on = t.on /\ u.need = t.need
      /\ u.locks = t.locks \union Wanted(w)
  BY <1>0, <1>1, <1>2, LockedFields DEF Steps
<1>4. ParameterFits(u)
  BY <1>1, <1>3 DEF Fits, ParameterFits
<1> QED BY <1>0, <1>1, <1>2, <1>3, <1>4, FitsByOp, GoingOn

LEMMA LockValuesKeeps ==
    ASSUME IndInv, NEW w \in Worker, LockValues(w)
    PROVE  IndInv'
<1>0. PICK t : t = txn[w]
  OBVIOUS
<1>1. CASE At(w, {"update_parameter"}, "values")
  <2>1. /\ txn[w] # Idle /\ Blockers(w) = {} /\ t \in Txn /\ Fits(t)
        /\ t.op = "update_parameter" /\ t.step = "values"
    BY <1>0, <1>1, AtStep
  <2>2. PICK d : d = t.def
    OBVIOUS
  <2>3. PICK i \in Targets(d.type) :
           GoOn(w, [Locked(w, IF d.unit # Null THEN "unit"
                              ELSE IF Valued # {} THEN NextOfTarget(d, i) ELSE "write") EXCEPT !.input = i])
    BY <1>0, <2>1, <2>2 DEF LockValues, At
  <2>4. PICK s, r, u :
           /\ s = IF d.unit # Null THEN "unit" ELSE IF Valued # {} THEN NextOfTarget(d, i) ELSE "write"
           /\ r = Locked(w, s) /\ u = [r EXCEPT !.input = i] /\ GoOn(w, u)
    BY <2>3
  <2>5. /\ s \in {"unit", "measure", "write"} /\ (s = "unit" => d.unit # Null)
        /\ s = "measure" => UnitOf(d, i) # Null
        /\ s = "write" /\ Valued # {} => UnitOf(d, i) = Null
    BY <2>4 DEF NextOfTarget
  <2>6. /\ t.need = "keep" /\ Defined /\ Parameter \in t.locks
        /\ d \in Definition /\ d.type # parameter.type
    BY <2>1, <2>2 DEF Fits, ParameterFits
  <2>7. d.type \in Type /\ (s = "unit" => d.unit \in Unit)
    BY <2>5, <2>6 DEF Definition
  <2>8. i \in Input
    BY <2>7, InputsAreTyped
  <2>9. /\ r \in Txn
        /\ r.op = t.op /\ r.step = s /\ r.on = t.on /\ r.need = t.need /\ r.def = d
        /\ r.locks = t.locks \union Wanted(w)
    BY <1>0, <2>1, <2>2, <2>4, <2>5, LockedFields DEF Steps
  <2>10. /\ u \in Txn
         /\ u.op = t.op /\ u.step = s /\ u.on = t.on /\ u.need = t.need /\ u.input = i
         /\ u.def = d /\ u.locks = t.locks \union Wanted(w)
    BY <2>4, <2>8, <2>9 DEF Txn
  <2>11. Wanted(w) = Rows("value", Valued)
    BY <1>0, <2>1, WantedRows
  <2>12. \A a \in Valued : ValueOf(a) \in u.locks
    BY <2>10, <2>11 DEF Rows, ValueOf
  <2>13. s = "write" /\ Valued # {} => UnitLocked(u)
    BY <2>5, <2>10 DEF UnitLocked
  <2>14. ParameterFits(u)
    BY <2>1, <2>5, <2>6, <2>7, <2>10, <2>12, <2>13 DEF ParameterFits
  <2> QED BY <1>0, <2>1, <2>4, <2>10, <2>14, FitsByOp, GoingOn
<1>2. CASE At(w, {"delete_parameter"}, "values") /\ GoOn(w, Locked(w, "write"))
  <2>1. /\ txn[w] # Idle /\ Blockers(w) = {} /\ t \in Txn /\ Fits(t)
        /\ t.op = "delete_parameter" /\ t.step = "values"
    BY <1>0, <1>2, AtStep
  <2>2. PICK u : u = Locked(w, "write") /\ GoOn(w, u)
    BY <1>2
  <2>3. /\ u \in Txn
        /\ u.op = t.op /\ u.step = "write" /\ u.on = t.on /\ u.need = t.need
        /\ u.locks = t.locks \union Wanted(w)
    BY <1>0, <2>1, <2>2, LockedFields DEF Steps
  <2>4. ParameterFits(u)
    BY <2>1, <2>3 DEF Fits, ParameterFits
  <2> QED BY <1>0, <2>1, <2>2, <2>3, <2>4, FitsByOp, GoingOn
<1> QED BY <1>1, <1>2 DEF LockValues

LEMMA NormalizeUnitKeeps ==
    ASSUME IndInv, NEW w \in Worker, NormalizeUnit(w)
    PROVE  IndInv'
<1>0. PICK t : t = txn[w]
  OBVIOUS
<1>1. /\ txn[w] # Idle /\ Blockers(w) = {} /\ t \in Txn /\ Fits(t)
      /\ t.op \in {"create_parameter", "update_parameter"} /\ t.step = "unit"
  BY <1>0, AtStep DEF NormalizeUnit
<1>2. t.def \in Definition /\ t.need = "keep" /\ t.def.unit \in Unit
  BY <1>1 DEF Fits, ParameterFits
<1>3. CASE ~(units[t.def.unit] \in Measure /\ t.def.dimension \in {Null, units[t.def.unit].dimension})
  BY <1>0, <1>3, RefuseKeeps DEF NormalizeUnit
<1>4. CASE units[t.def.unit] \in Measure /\ t.def.dimension \in {Null, units[t.def.unit].dimension}
  <2>1. PICK s, m, r, u :
           /\ s = IF t.input # Nothing /\ Valued # {} THEN NextOfTarget(t.def, t.input) ELSE "write"
           /\ m = units[t.def.unit].dimension /\ r = Locked(w, s)
           /\ u = [r EXCEPT !.def.dimension = m] /\ GoOn(w, u)
    BY <1>0, <1>4 DEF NormalizeUnit
  <2>2. /\ s \in {"measure", "write"}
        /\ s = "measure" => UnitOf(t.def, t.input) # Null /\ t.input # Nothing
        /\ s = "write" /\ Valued # {} /\ t.input # Nothing => UnitOf(t.def, t.input) = Null
    BY <2>1 DEF NextOfTarget
  <2>3. m \in Dimension
    BY <1>4, <2>1 DEF Measure
  <2>4. /\ r \in Txn
        /\ r.op = t.op /\ r.step = s /\ r.on = t.on /\ r.need = t.need /\ r.input = t.input
        /\ r.def = t.def /\ r.locks = t.locks \union Wanted(w)
    BY <1>0, <1>1, <2>1, <2>2, LockedFields DEF Steps
  <2>5. PICK d : d = [t.def EXCEPT !.dimension = m]
    OBVIOUS
  <2>6. d \in Definition /\ d.type = t.def.type /\ d.unit = t.def.unit
    BY <1>2, <2>3, <2>5 DEF Definition
  <2>7. u = [r EXCEPT !.def = d]
    BY <2>1, <2>4, <2>5
  <2>8. /\ u \in Txn
        /\ u.op = t.op /\ u.step = s /\ u.on = t.on /\ u.need = t.need /\ u.input = t.input
        /\ u.def = d /\ u.locks = t.locks \union Wanted(w)
    BY <2>4, <2>6, <2>7 DEF Txn
  <2>9. UnitOf(d, t.input) = UnitOf(t.def, t.input)
    BY <2>6 DEF UnitOf
  <2>10. CASE t.op = "create_parameter"
    <3>1. t.input = Nothing /\ parameter = Null
      BY <1>1, <2>10 DEF Fits, ParameterFits
    <3>2. s = "write"
      BY <2>2, <3>1
    <3>3. ParameterFits(u)
      BY <1>2, <2>6, <2>8, <2>10, <3>1, <3>2 DEF ParameterFits
    <3> QED BY <1>0, <1>1, <2>1, <2>8, <2>10, <3>3, FitsByOp, GoingOn
  <2>11. CASE t.op = "update_parameter"
    <3>1. /\ Defined /\ Parameter \in t.locks
          /\ t.def.type = parameter.type => t.input = Nothing
          /\ t.def.type # parameter.type =>
                t.input \in Targets(t.def.type) /\ \A a \in Valued : ValueOf(a) \in t.locks
      BY <1>1, <2>11 DEF Fits, ParameterFits
    <3>2. s = "write" /\ Valued # {} => UnitLocked(u)
      BY <2>2, <2>8, <2>9, InputFields DEF UnitLocked, UnitOf
    <3>3. ParameterFits(u)
      BY <1>2, <2>2, <2>6, <2>8, <2>9, <2>11, <3>1, <3>2 DEF ParameterFits
    <3> QED BY <1>0, <1>1, <2>1, <2>8, <2>11, <3>3, FitsByOp, GoingOn
  <2> QED BY <1>1, <2>10, <2>11
<1> QED BY <1>3, <1>4

LEMMA LockCategoryKeeps ==
    ASSUME IndInv, NEW w \in Worker, LockCategory(w)
    PROVE  IndInv'
<1>0. PICK t : t = txn[w]
  OBVIOUS
<1>1. /\ txn[w] # Idle /\ Blockers(w) = {} /\ t \in Txn /\ Fits(t)
      /\ t.op \in {"update_category", "delete_category"} /\ t.step = "category"
  BY <1>0, AtStep DEF LockCategory
<1>2. CASE ~IsCategory(t.on)
  BY <1>0, <1>2, RefuseKeeps DEF LockCategory
<1>3. CASE IsCategory(t.on)
  <2>1. PICK s, u : /\ s = IF t.op = "update_category" THEN "assignments" ELSE "descend"
                    /\ u = Locked(w, s) /\ GoOn(w, u)
    BY <1>0, <1>3 DEF LockCategory
  <2>2. /\ u \in Txn
        /\ u.op = t.op /\ u.step = s /\ u.on = t.on
        /\ u.locks = t.locks \union Wanted(w)
    BY <1>0, <1>1, <2>1, LockedFields DEF Steps
  <2>3. t.on \in Category
    BY <1>1 DEF Fits, CategoryFits, CategoryOps
  <2>4. Wanted(w) = Rows("category", {t.on})
    BY <1>0, <1>1, <2>3, WantedRows
  <2>5. CategoryRow(u.on) \in u.locks
    BY <2>2, <2>4 DEF Rows, CategoryRow
  <2>6. CategoryFits(u)
    BY <1>1, <1>3, <2>1, <2>2, <2>3, <2>5 DEF CategoryFits
  <2> QED BY <1>0, <1>1, <2>1, <2>2, <2>6, FitsByOp, GoingOn DEF CategoryOps
<1> QED BY <1>2, <1>3

LEMMA LockCategoryAssignmentsKeeps ==
    ASSUME IndInv, NEW w \in Worker, LockCategoryAssignments(w)
    PROVE  IndInv'
<1>0. PICK t : t = txn[w]
  OBVIOUS
<1>1. CASE At(w, {"update_category"}, "assignments")
  <2>1. /\ txn[w] # Idle /\ Blockers(w) = {} /\ t \in Txn /\ Fits(t)
        /\ t.op = "update_category" /\ t.step = "assignments"
    BY <1>0, <1>1, AtStep
  <2>2. PICK p \in Filed, n \in Assignment \union {"keep"} :
             GoOn(w, [Locked(w, "parent") EXCEPT !.place = p, !.need = n])
    BY <1>0, <2>1 DEF LockCategoryAssignments, At
  <2>3. PICK r, u : r = Locked(w, "parent") /\ u = [r EXCEPT !.place = p, !.need = n] /\ GoOn(w, u)
    BY <2>2
  <2>4. /\ r \in Txn
        /\ r.op = t.op /\ r.step = "parent" /\ r.on = t.on /\ r.locks = t.locks \union Wanted(w)
    BY <1>0, <2>1, <2>3, LockedFields DEF Steps
  <2>5. /\ u \in Txn
        /\ u.op = t.op /\ u.step = "parent" /\ u.on = t.on /\ u.locks = t.locks \union Wanted(w)
    BY <2>3, <2>4 DEF Txn
  <2>6. CategoryFits(u)
    BY <2>1, <2>5 DEF Fits, CategoryFits, CategoryOps
  <2> QED BY <1>0, <2>1, <2>3, <2>5, <2>6, FitsByOp, GoingOn DEF CategoryOps
<1>2. CASE At(w, {"delete_category"}, "assignments") /\ GoOn(w, Locked(w, "assets"))
  <2>1. /\ txn[w] # Idle /\ Blockers(w) = {} /\ t \in Txn /\ Fits(t)
        /\ t.op = "delete_category" /\ t.step = "assignments"
    BY <1>0, <1>2, AtStep
  <2>2. PICK u : u = Locked(w, "assets") /\ GoOn(w, u)
    BY <1>2
  <2>3. /\ u \in Txn
        /\ u.op = t.op /\ u.step = "assets" /\ u.on = t.on /\ u.locks = t.locks \union Wanted(w)
    BY <1>0, <2>1, <2>2, LockedFields DEF Steps
  <2>4. TreeLocked(u)
    BY <2>1, <2>3 DEF Fits, CategoryFits, CategoryOps, TreeLocked
  <2>5. CategoryFits(u)
    BY <2>1, <2>3, <2>4 DEF Fits, CategoryFits, CategoryOps
  <2> QED BY <1>0, <2>1, <2>2, <2>3, <2>5, FitsByOp, GoingOn DEF CategoryOps
<1> QED BY <1>1, <1>2 DEF LockCategoryAssignments

LEMMA ResolveParentKeeps ==
    ASSUME IndInv, NEW w \in Worker, ResolveParent(w)
    PROVE  IndInv'
<1>0. PICK t : t = txn[w]
  OBVIOUS
<1>1. /\ txn[w] # Idle /\ Blockers(w) = {} /\ t \in Txn /\ Fits(t)
      /\ t.op \in {"create_category", "update_category"} /\ t.step = "parent"
  BY <1>0, AtStep DEF ResolveParent
<1>2. CASE t.place # NoCategory /\ (~IsCategory(t.place) \/ Under(t.place, t.on))
  BY <1>0, <1>2, RefuseKeeps DEF ResolveParent
<1>3. CASE ~(t.place # NoCategory /\ (~IsCategory(t.place) \/ Under(t.place, t.on)))
  <2>1. PICK s, u : /\ s = IF t.op = "create_category" THEN "write" ELSE "descend"
                    /\ u = Locked(w, s) /\ GoOn(w, u)
    BY <1>0, <1>3 DEF ResolveParent
  <2>2. /\ u \in Txn
        /\ u.op = t.op /\ u.step = s /\ u.on = t.on /\ u.place = t.place
        /\ u.locks = t.locks \union Wanted(w)
    BY <1>0, <1>1, <2>1, LockedFields DEF Steps
  <2>3. Wanted(w) = Rows("category", {t.place} \ {NoCategory})
    BY <1>0, <1>1, WantedRows
  <2>4. PlaceLocked(u)
    BY <1>3, <2>2, <2>3, NullsAssumption DEF PlaceLocked, Rows, CategoryRow
  <2>5. u.place \in Category => ~Under(u.place, u.on)
    BY <1>3, <2>2, NullsAssumption
  <2>6. CategoryFits(u)
    BY <1>1, <2>1, <2>2, <2>4, <2>5 DEF Fits, CategoryFits, CategoryOps
  <2> QED BY <1>0, <1>1, <2>1, <2>2, <2>6, FitsByOp, GoingOn DEF CategoryOps
<1> QED BY <1>2, <1>3

LEMMA LockTreeKeeps ==
    ASSUME IndInv, NEW w \in Worker, LockTree(w)
    PROVE  IndInv'
<1>0. PICK t : t = txn[w]
  OBVIOUS
<1>1. /\ txn[w] # Idle /\ Blockers(w) = {} /\ t \in Txn /\ Fits(t)
      /\ t.op \in {"update_category", "delete_category"} /\ t.step = "descend"
  BY <1>0, AtStep DEF LockTree
<1>2. PICK s, u : /\ s = IF t.op = "update_category" THEN "write" ELSE "assignments"
                  /\ u = Locked(w, s) /\ GoOn(w, u)
  BY <1>0 DEF LockTree
<1>3. /\ u \in Txn
      /\ u.op = t.op /\ u.step = s /\ u.on = t.on /\ u.place = t.place
      /\ u.locks = t.locks \union Wanted(w)
  BY <1>0, <1>1, <1>2, LockedFields DEF Steps
<1>4. Wanted(w) = Rows("category", TreeOf(t.on))
  BY <1>0, <1>1, WantedRows
<1>5. TreeLocked(u)
  BY <1>3, <1>4 DEF TreeLocked, Rows, CategoryRow
<1>6. t.op = "update_category" => PlaceLocked(u) /\ (u.place \in Category => ~Under(u.place, u.on))
  BY <1>1, <1>3 DEF Fits, CategoryFits, CategoryOps, PlaceLocked
<1>7. CategoryFits(u)
  BY <1>1, <1>2, <1>3, <1>5, <1>6 DEF Fits, CategoryFits, CategoryOps
<1> QED BY <1>0, <1>1, <1>2, <1>3, <1>7, FitsByOp, GoingOn DEF CategoryOps

LEMMA LockFiledAssetsKeeps ==
    ASSUME IndInv, NEW w \in Worker, LockFiledAssets(w)
    PROVE  IndInv'
<1>0. PICK t : t = txn[w]
  OBVIOUS
<1>1. /\ txn[w] # Idle /\ Blockers(w) = {} /\ t \in Txn /\ Fits(t)
      /\ t.op = "delete_category" /\ t.step = "assets"
  BY <1>0, AtStep DEF LockFiledAssets
<1>2. PICK u : u = Locked(w, "write") /\ GoOn(w, u)
  BY DEF LockFiledAssets
<1>3. /\ u \in Txn
      /\ u.op = t.op /\ u.step = "write" /\ u.on = t.on /\ u.locks = t.locks \union Wanted(w)
  BY <1>0, <1>1, <1>2, LockedFields DEF Steps
<1>4. TreeLocked(u)
  BY <1>1, <1>3 DEF Fits, CategoryFits, CategoryOps, TreeLocked
<1>5. CategoryFits(u)
  BY <1>1, <1>3, <1>4 DEF Fits, CategoryFits, CategoryOps
<1> QED BY <1>0, <1>1, <1>2, <1>3, <1>5, FitsByOp, GoingOn DEF CategoryOps

-----------------------------------------------------------------------------
(* Commits *)

LEMMA TheOthers ==
    ASSUME IndInv, NEW w \in Worker, txn[w] # Idle, NEW t, t = txn[w],
           NEW v \in Worker \ {w}, txn[v] # Idle, NEW u, u = txn[v]
    PROVE  /\ u \in Txn /\ Fits(u) /\ t.locks \intersect u.locks = {}
           /\ t.op = u.op => /\ t.op \in {"create_asset", "create_category"} => t.on # u.on
                             /\ t.op # "create_parameter"
<1>1. u \in Txn /\ Fits(u) /\ Holds(v) = u.locks /\ Holds(w) = t.locks
  BY RunningFits
<1>2. Holds(w) \intersect Holds(v) = {}
  BY DEF IndInv, Exclusive
<1>3. txn[w].op = txn[v].op =>
        /\ txn[w].op \in {"create_asset", "create_category"} => txn[w].on # txn[v].on
        /\ txn[w].op # "create_parameter"
  BY DEF IndInv, DistinctDraws
<1> QED BY <1>1, <1>2, <1>3

(* The asset a written by a request is not one that another relies on.       *)
LEMMA AssetWritten ==
    ASSUME NEW a \in Asset, NEW x \in Filed \union {Gone}, NEW y,
           Typed, assets' = [assets EXCEPT ![a] = x], values' = [values EXCEPT ![a] = y],
           UNCHANGED <<parameter, options, units, categories, required>>,
           NEW u, Fits(u),
           u.op \in AssetOps /\ (u.op = "create_asset" \/ u.step # "asset") => u.on # a,
           Parameter \in u.locks => values[a] # Null \/ y = Null
    PROVE  Fits(u)'
<1>1. /\ \A b \in Asset \ {a} : assets'[b] = assets[b] /\ values'[b] = values[b]
      /\ assets'[a] = x /\ values'[a] = y
  BY DEF Typed
<1>2. AssetFits(u)'
  <2>1. CASE u.op \notin AssetOps
    BY <2>1 DEF AssetFits
  <2>2. CASE u.op \in AssetOps /\ u.on = a
    BY <2>2 DEF Fits, AssetFits, AssetOps, Chosen
  <2>3. CASE u.op \in AssetOps /\ u.on # a
    <3>1. u.on \in Asset
      BY <2>3 DEF Fits, AssetFits
    <3>2. assets'[u.on] = assets[u.on] /\ values'[u.on] = values[u.on]
      BY <1>1, <2>3, <3>1
    <3>3. HasValue(u)' <=> HasValue(u)
      BY <3>2 DEF HasValue
    <3>4. PlaceLocked(u)' <=> PlaceLocked(u)
      BY DEF PlaceLocked, IsCategory
    <3>5. InputFits(u)' <=> InputFits(u)
      BY DEF InputFits, UnitLocked, Measured, Resolved, Defined, OptionsNow, UnitOf
    <3> QED BY <2>3, <3>2, <3>3, <3>4, <3>5 DEF Fits, AssetFits
  <2> QED BY <2>1, <2>2, <2>3
<1>3. ParameterFits(u)'
  <2>1. UnitLocked(u)' <=> UnitLocked(u)
    BY DEF UnitLocked, Measured, UnitOf
  <2>2. Parameter \in u.locks => Valued' \subseteq Valued
    BY <1>1 DEF Valued
  <2>3. Defined' <=> Defined
    BY DEF Defined
  <2> HIDE DEF Valued
  <2>4. CASE u.op = "create_parameter"
    BY <2>4 DEF Fits, ParameterFits
  <2>5. CASE u.op = "delete_parameter"
    BY <2>3, <2>5 DEF Fits, ParameterFits
  <2>6. CASE u.op = "update_parameter"
    <3>1. CASE u.step = "parameter"
      BY <2>6, <3>1 DEF Fits, ParameterFits
    <3>2. CASE u.step # "parameter"
      <4>1. Valued' \subseteq Valued
        BY <2>2, <2>6, <3>2 DEF Fits, ParameterFits
      <4> QED BY <2>1, <2>3, <2>6, <3>2, <4>1 DEF Fits, ParameterFits
    <3> QED BY <3>1, <3>2
  <2>7. CASE u.op \notin {"create_parameter", "update_parameter", "delete_parameter"}
    BY <2>7 DEF ParameterFits
  <2> QED BY <2>4, <2>5, <2>6, <2>7
<1>4. CategoryFits(u)'
  BY DEF Fits, CategoryFits, PlaceLocked, TreeLocked, TreeOf, Under, IsCategory
<1> QED BY <1>2, <1>3, <1>4 DEF Fits

(* What an asset is committed with.                                           *)
LEMMA Committed ==
    ASSUME IndInv, NEW w \in Worker, NEW t, t = txn[w], At(w, {"create_asset", "update_asset"}, "write")
    PROVE  /\ t \in Txn /\ Fits(t) /\ txn[w] # Idle /\ t.on \in Asset /\ t.place \in Filed
           /\ t.value \in Value \union {Null}
           /\ t.op \in {"create_asset", "update_asset"} /\ t.step = "write" /\ Wanted(w) = {}
           /\ t.place \in Category => IsCategory(t.place)
           /\ t.place \in Category /\ required[t.place] # "none" => HasValue(t)
           /\ t.op = "create_asset" => assets[t.on] = Null
           /\ t.op = "update_asset" => assets[t.on] \in Filed /\ <<"asset", t.on>> \in t.locks
           /\ t.input.kind # "unsent" /\ t.value # Null =>
                 /\ Defined /\ Parameter \in t.locks /\ t.value.type = parameter.type
                 /\ parameter.type = "text" => t.value.text
                 /\ parameter.type = "number" => t.value.number # Null
                 /\ parameter.type = "enum" => t.value.option \in OptionsNow
                 /\ t.value.unit = Null => t.value.base = Null
                 /\ Current(t.value)
<1>1. t \in Txn /\ Fits(t) /\ txn[w] # Idle /\ t.op \in {"create_asset", "update_asset"} /\ t.step = "write"
  BY AtStep
<1>2. t.on \in Asset /\ t.need = "keep" /\ PlaceLocked(t) /\ InputFits(t)
  BY <1>1 DEF Fits, AssetFits, AssetOps, Chosen
<1>3. Wanted(w) = {}
  <2>1. Wanted(w) = Rows("parameter", IF t.need \in {"own", "below"} THEN {Null} ELSE {})
    BY <1>1, WantedRows
  <2> QED BY <1>2, <2>1 DEF Rows
<1>4. ASSUME t.input.kind # "unsent", t.value # Null
      PROVE  /\ Defined /\ Parameter \in t.locks /\ t.value.type = parameter.type
             /\ parameter.type = "text" => t.value.text
             /\ parameter.type = "number" => t.value.number # Null
             /\ parameter.type = "enum" => t.value.option \in OptionsNow
             /\ t.value.unit = Null => t.value.base = Null
             /\ Current(t.value)
  <2>1. Sent(t.input)
    BY <1>1, <1>2, <1>4 DEF InputFits, Sent
  <2>2. /\ t.input \in AssetInputs /\ Defined /\ Parameter \in t.locks /\ t.def = parameter
        /\ t.def.type = t.input.kind /\ t.value = Resolved(t.def, t.input) /\ UnitLocked(t)
        /\ t.input.kind = "enum" => t.input.option \in OptionsNow
    BY <1>1, <1>2, <2>1 DEF InputFits
  <2>3. /\ t.def \in Definition /\ t.input \in Input /\ (t.input.kind = "number" => t.input.number \in Number)
    BY <2>2, InputsAreTyped DEF Defined
  <2>4. UnitOf(t.def, t.input) # Null => Measured(t.def, UnitOf(t.def, t.input))
    BY <2>2 DEF UnitLocked
  <2>5. /\ t.value.type = t.def.type
        /\ t.value.text = (t.input.kind = "text")
        /\ t.input.kind = "number" => t.value.number # Null
        /\ t.value.option = t.input.option
        /\ t.value.unit = Null => t.value.base = Null
        /\ t.value.unit = UnitOf(t.def, t.input)
        /\ t.value.unit # Null => t.value.base = t.value.number * units[UnitOf(t.def, t.input)].scale
    BY <2>2, <2>3, <2>4, ResolvedColumns
  <2>6. Current(t.value)
    BY <2>2, <2>4, <2>5 DEF Current, Measured
  <2> QED BY <2>2, <2>5, <2>6
<1>5. t.place \in Filed /\ t.value \in Value \union {Null}
  BY <1>1 DEF Txn
<1>6. t.place \in Category /\ required[t.place] # "none" => HasValue(t)
  BY <1>1 DEF Fits, AssetFits, AssetOps
<1>7. /\ t.op = "create_asset" => assets[t.on] = Null
      /\ t.op = "update_asset" => assets[t.on] \in Filed /\ <<"asset", t.on>> \in t.locks
  BY <1>1 DEF Fits, AssetFits, AssetOps
<1> QED BY <1>1, <1>2, <1>3, <1>4, <1>5, <1>6, <1>7 DEF PlaceLocked

LEMMA CommitAssetKeeps ==
    ASSUME IndInv, NEW w \in Worker, CommitAsset(w)
    PROVE  IndInv'
<1>0. PICK t : t = txn[w]
  OBVIOUS
<1>1. At(w, {"create_asset", "update_asset"}, "write")
  BY DEF CommitAsset
<1>2. PICK y : y = IF t.input.kind = "unsent" THEN values[t.on] ELSE t.value
  OBVIOUS
<1>3. /\ t \in Txn /\ txn[w] # Idle /\ t.on \in Asset /\ t.place \in Filed /\ t.value \in Value \union {Null}
      /\ t.op \in {"create_asset", "update_asset"}
      /\ t.place \in Category => IsCategory(t.place)
      /\ t.op = "create_asset" => assets[t.on] = Null
      /\ t.op = "update_asset" => assets[t.on] \in Filed /\ <<"asset", t.on>> \in t.locks
      /\ t.input.kind # "unsent" /\ t.value # Null =>
            /\ Defined /\ Parameter \in t.locks /\ t.value.type = parameter.type
            /\ parameter.type = "text" => t.value.text
            /\ parameter.type = "number" => t.value.number # Null
            /\ parameter.type = "enum" => t.value.option \in OptionsNow
            /\ t.value.unit = Null => t.value.base = Null
  BY <1>0, <1>1, Committed
<1>4. Typed
  BY DEF IndInv
<1>5. /\ assets' = [assets EXCEPT ![t.on] = t.place] /\ values' = [values EXCEPT ![t.on] = y]
      /\ End(w) /\ UNCHANGED <<parameter, options, units, categories, required>>
  BY <1>0, <1>2, <1>3 DEF CommitAsset
<1>6. /\ \A b \in Asset \ {t.on} : assets'[b] = assets[b] /\ values'[b] = values[b]
      /\ assets'[t.on] = t.place /\ values'[t.on] = y
  BY <1>3, <1>4, <1>5 DEF Typed
<1>7. y \in Value \union {Null}
  BY <1>2, <1>3, <1>4 DEF Typed
<1>8. ValuesFit'
  <2> SUFFICES ASSUME NEW a \in Valued'
               PROVE  /\ Defined' /\ values'[a].type = parameter'.type
                      /\ CASE parameter.type = "text" -> values'[a].text
                           [] parameter.type = "number" -> values'[a].number # Null
                           [] parameter.type = "enum" -> values'[a].option \in OptionsNow'
                      /\ assets'[a] \in Filed /\ (values'[a].unit = Null => values'[a].base = Null)
    BY <1>5 DEF ValuesFit, ValuesAreReadable
  <2>1. Defined' = Defined /\ OptionsNow' = OptionsNow /\ a \in Asset /\ values'[a] # Null
    BY <1>5 DEF Defined, OptionsNow, Valued
  <2>2. \A b \in Asset : values[b] # Null =>
           /\ Defined /\ values[b].type = parameter.type
           /\ CASE parameter.type = "text" -> values[b].text
                [] parameter.type = "number" -> values[b].number # Null
                [] parameter.type = "enum" -> values[b].option \in OptionsNow
           /\ assets[b] \in Filed /\ (values[b].unit = Null => values[b].base = Null)
    BY DEF IndInv, ValuesFit, ValuesAreReadable, Valued
  <2>3. CASE a # t.on
    BY <1>5, <1>6, <2>1, <2>2, <2>3
  <2>4. CASE a = t.on /\ t.input.kind = "unsent"
    <3>1. values'[a] = values[a] /\ values[a] # Null /\ assets'[a] \in Filed
      BY <1>2, <1>3, <1>6, <2>1, <2>4
    <3>2. /\ Defined /\ values[a].type = parameter.type
          /\ CASE parameter.type = "text" -> values[a].text
               [] parameter.type = "number" -> values[a].number # Null
               [] parameter.type = "enum" -> values[a].option \in OptionsNow
          /\ values[a].unit = Null => values[a].base = Null
      BY <2>1, <2>2, <3>1
    <3> QED BY <1>5, <2>1, <3>1, <3>2
  <2>5. CASE a = t.on /\ t.input.kind # "unsent"
    <3>1. values'[a] = t.value /\ t.value # Null
      BY <1>2, <1>6, <2>1, <2>5
    <3>2. parameter.type \in Type
      BY <1>3, <2>5, <3>1 DEF Defined, Definition
    <3>3. CASE parameter.type = "text"
      BY <1>3, <1>5, <1>6, <2>1, <2>5, <3>1, <3>3
    <3>4. CASE parameter.type = "number"
      BY <1>3, <1>5, <1>6, <2>1, <2>5, <3>1, <3>4
    <3>5. CASE parameter.type = "enum"
      BY <1>3, <1>5, <1>6, <2>1, <2>5, <3>1, <3>5
    <3> QED BY <3>2, <3>3, <3>4, <3>5 DEF Type
  <2> QED BY <2>3, <2>4, <2>5
<1>9. TreeFits'
  <2>1. Rooted(categories)'
    BY <1>5 DEF IndInv, TreeFits, Rooted
  <2>2. AssetsAreFiledSomewhere'
    BY <1>3, <1>5, <1>6 DEF IndInv, TreeFits, AssetsAreFiledSomewhere, IsCategory
  <2> QED BY <2>1, <2>2 DEF TreeFits
<1>10. \A v \in Worker \ {w} : \A u \in {txn[v]} \ {Idle} : Fits(u)'
  <2> SUFFICES ASSUME NEW v \in Worker \ {w}, NEW u, u = txn[v], u # Idle PROVE Fits(u)'
    OBVIOUS
  <2>1. /\ u \in Txn /\ Fits(u) /\ t.locks \intersect u.locks = {}
        /\ t.op = u.op => (t.op \in {"create_asset", "create_category"} => t.on # u.on)
    BY <1>0, <1>3, TheOthers
  <2>2. u.op \in AssetOps /\ (u.op = "create_asset" \/ u.step # "asset") => u.on # t.on
    <3>1. CASE u.op = "create_asset"
      <4>1. assets[u.on] = Null
        BY <2>1, <3>1 DEF Fits, AssetFits, AssetOps
      <4> QED BY <1>3, <2>1, <3>1, <4>1, NullsAssumption
    <3>2. CASE u.op \in AssetOps \ {"create_asset"} /\ u.step # "asset"
      <4>1. assets[u.on] \in Filed /\ <<"asset", u.on>> \in u.locks
        BY <2>1, <3>2 DEF Fits, AssetFits
      <4> QED BY <1>3, <2>1, <4>1, NullsAssumption
    <3> QED BY <3>1, <3>2
  <2>3. Parameter \in u.locks => values[t.on] # Null \/ y = Null
    BY <1>2, <1>3, <2>1
  <2> QED BY <1>3, <1>4, <1>5, <2>1, <2>2, <2>3, AssetWritten
<1>11. values' \in [Asset -> Value \union {Null}] /\ assets' \in [Asset -> Filed \union {Null, Gone}]
  BY <1>3, <1>4, <1>5, <1>7 DEF Typed
<1> QED BY <1>4, <1>5, <1>8, <1>9, <1>10, <1>11, Ending DEF Typed

LEMMA CommitDeleteAssetKeeps ==
    ASSUME IndInv, NEW w \in Worker, CommitDeleteAsset(w)
    PROVE  IndInv'
<1>0. PICK t : t = txn[w]
  OBVIOUS
<1>1. /\ txn[w] # Idle /\ t \in Txn /\ Fits(t) /\ t.op = "delete_asset" /\ t.step = "write"
  BY <1>0, AtStep DEF CommitDeleteAsset
<1>2. t.on \in Asset /\ assets[t.on] \in Filed /\ <<"asset", t.on>> \in t.locks
  BY <1>1 DEF Fits, AssetFits, AssetOps
<1>3. Typed
  BY DEF IndInv
<1>4. /\ assets' = [assets EXCEPT ![t.on] = Gone] /\ values' = [values EXCEPT ![t.on] = Null]
      /\ End(w) /\ UNCHANGED <<parameter, options, units, categories, required>>
  BY <1>0 DEF CommitDeleteAsset
<1>5. /\ \A b \in Asset \ {t.on} : assets'[b] = assets[b] /\ values'[b] = values[b]
      /\ assets'[t.on] = Gone /\ values'[t.on] = Null
  BY <1>2, <1>3, <1>4 DEF Typed
<1>6. ValuesFit'
  BY <1>4, <1>5 DEF IndInv, ValuesFit, ValuesAreReadable, Valued, Defined, OptionsNow
<1>7. TreeFits'
  BY <1>4, <1>5, NullsAssumption DEF IndInv, TreeFits, Rooted, AssetsAreFiledSomewhere, IsCategory, Filed
<1>8. \A v \in Worker \ {w} : \A u \in {txn[v]} \ {Idle} : Fits(u)'
  <2> SUFFICES ASSUME NEW v \in Worker \ {w}, NEW u, u = txn[v], u # Idle PROVE Fits(u)'
    OBVIOUS
  <2>1. u \in Txn /\ Fits(u) /\ t.locks \intersect u.locks = {}
    BY <1>0, <1>1, TheOthers
  <2>2. u.op \in AssetOps /\ (u.op = "create_asset" \/ u.step # "asset") => u.on # t.on
    BY <1>2, <2>1, NullsAssumption DEF Fits, AssetFits
  <2> QED BY <1>2, <1>3, <1>4, <2>1, <2>2, AssetWritten
<1>9. values' \in [Asset -> Value \union {Null}] /\ assets' \in [Asset -> Filed \union {Null, Gone}]
  BY <1>2, <1>3, <1>4 DEF Typed
<1> QED BY <1>3, <1>4, <1>6, <1>7, <1>8, <1>9, Ending DEF Typed

(* Requests that do not hold the parameter know nothing of it.               *)
LEMMA ParameterWritten ==
    ASSUME NEW u, Fits(u), Parameter \notin u.locks, Defined \/ u.op # "create_parameter",
           UNCHANGED <<units, assets, categories>>,
           Valued' \subseteq Valued,
           u.op \in {"create_asset", "update_asset"} /\ u.step = "write" /\ u.place \in Category =>
               (required'[u.place] # "none" => HasValue(u)'),
           u.op \in AssetOps => (values'[u.on] # Null => values[u.on] # Null)
    PROVE  Fits(u)'
<1>1. AssetFits(u)'
  <2>1. PlaceLocked(u)' <=> PlaceLocked(u)
    BY DEF PlaceLocked, IsCategory
  <2>2. InputFits(u) => InputFits(u)'
    BY DEF InputFits
  <2>3. CASE u.op = "create_asset"
    BY <2>1, <2>2, <2>3 DEF Fits, AssetFits
  <2>4. CASE u.op = "update_asset"
    BY <2>1, <2>2, <2>4 DEF Fits, AssetFits, AssetOps
  <2>5. CASE u.op = "delete_asset"
    BY <2>5 DEF Fits, AssetFits
  <2>6. CASE u.op \notin AssetOps
    BY <2>6 DEF AssetFits
  <2> QED BY <2>3, <2>4, <2>5, <2>6 DEF AssetOps
<1>2. ParameterFits(u)'
  <2>1. CASE u.op = "create_parameter"
    BY <2>1, NullsAssumption DEF Fits, ParameterFits, Defined
  <2>2. CASE u.op \in {"update_parameter", "delete_parameter"}
    <3>1. u.step = "parameter"
      BY <2>2 DEF Fits, ParameterFits
    <3> QED BY <2>2, <3>1 DEF Fits, ParameterFits
  <2>3. CASE u.op \notin {"create_parameter", "update_parameter", "delete_parameter"}
    BY <2>3 DEF ParameterFits
  <2> QED BY <2>1, <2>2, <2>3
<1>3. CategoryFits(u)'
  BY DEF Fits, CategoryFits, PlaceLocked, TreeLocked, TreeOf, Under, IsCategory
<1> QED BY <1>1, <1>2, <1>3 DEF Fits

LEMMA CommitNewParameterKeeps ==
    ASSUME IndInv, NEW w \in Worker, CommitNewParameter(w)
    PROVE  IndInv'
<1>0. PICK t : t = txn[w]
  OBVIOUS
<1>1. /\ txn[w] # Idle /\ t \in Txn /\ Fits(t) /\ t.op = "create_parameter" /\ t.step = "write"
  BY <1>0, AtStep DEF CommitNewParameter
<1>2. parameter = Null /\ t.def \in Definition /\ ~Defined
  BY <1>1, NullsAssumption DEF Fits, ParameterFits, Defined
<1>3. /\ parameter' = t.def /\ End(w) /\ UNCHANGED <<values, units, assets, categories, required>>
  BY <1>0 DEF CommitNewParameter
<1>4. Valued = {} /\ Valued' = {}
  BY <1>2, <1>3 DEF IndInv, ValuesFit, ValuesAreReadable, Valued
<1>5. ValuesFit'
  BY <1>4 DEF ValuesFit, ValuesAreReadable
<1>6. TreeFits'
  BY <1>3 DEF IndInv, TreeFits, Rooted, AssetsAreFiledSomewhere, IsCategory
<1>7. \A v \in Worker \ {w} : \A u \in {txn[v]} \ {Idle} : Fits(u)'
  <2> SUFFICES ASSUME NEW v \in Worker \ {w}, NEW u, u = txn[v], u # Idle PROVE Fits(u)'
    OBVIOUS
  <2>1. u \in Txn /\ Fits(u) /\ u.op # "create_parameter"
    BY <1>0, <1>1, TheOthers
  <2>2. AssetFits(u)'
    <3>1. PlaceLocked(u)' <=> PlaceLocked(u)
      BY <1>3 DEF PlaceLocked, IsCategory
    <3>2. InputFits(u) => InputFits(u)'
      BY <1>2 DEF InputFits
    <3>3. HasValue(u)' <=> HasValue(u)
      BY <1>3 DEF HasValue
    <3> QED BY <1>3, <2>1, <3>1, <3>2, <3>3 DEF Fits, AssetFits
  <2>3. ParameterFits(u)'
    <3>1. CASE u.op \in {"update_parameter", "delete_parameter"}
      <4>1. u.step = "parameter"
        BY <1>2, <2>1, <3>1 DEF Fits, ParameterFits
      <4> QED BY <2>1, <3>1, <4>1 DEF Fits, ParameterFits
    <3>2. CASE u.op \notin {"create_parameter", "update_parameter", "delete_parameter"}
      BY <3>2 DEF ParameterFits
    <3> QED BY <2>1, <3>1, <3>2
  <2>4. CategoryFits(u)'
    BY <1>3, <2>1 DEF Fits, CategoryFits, PlaceLocked, TreeLocked, TreeOf, Under, IsCategory
  <2> QED BY <2>2, <2>3, <2>4 DEF Fits
<1> QED BY <1>2, <1>3, <1>5, <1>6, <1>7, Ending DEF IndInv, Typed

LEMMA CommitDeleteParameterKeeps ==
    ASSUME IndInv, NEW w \in Worker, CommitDeleteParameter(w)
    PROVE  IndInv'
<1>0. PICK t : t = txn[w]
  OBVIOUS
<1>1. /\ txn[w] # Idle /\ t \in Txn /\ Fits(t) /\ t.op = "delete_parameter" /\ t.step = "write"
  BY <1>0, AtStep DEF CommitDeleteParameter
<1>2. Defined /\ Parameter \in t.locks
  BY <1>1 DEF Fits, ParameterFits
<1>3. /\ parameter' = Gone /\ values' = [a \in Asset |-> Null] /\ required' = [c \in Category |-> "none"]
      /\ End(w) /\ UNCHANGED <<units, assets, categories>>
  BY DEF CommitDeleteParameter
<1>4. Valued' = {}
  BY <1>3 DEF Valued
<1>5. ValuesFit'
  BY <1>4 DEF ValuesFit, ValuesAreReadable
<1>6. TreeFits'
  BY <1>3 DEF IndInv, TreeFits, Rooted, AssetsAreFiledSomewhere, IsCategory
<1>7. \A v \in Worker \ {w} : \A u \in {txn[v]} \ {Idle} : Fits(u)'
  <2> SUFFICES ASSUME NEW v \in Worker \ {w}, NEW u, u = txn[v], u # Idle PROVE Fits(u)'
    OBVIOUS
  <2>1. u \in Txn /\ Fits(u) /\ Parameter \notin u.locks
    BY <1>0, <1>1, <1>2, TheOthers
  <2>2. u.op \in AssetOps => values'[u.on] = Null
    BY <1>3, <2>1 DEF Fits, AssetFits
  <2>3. u.place \in Category => required'[u.place] = "none"
    BY <1>3
  <2> QED BY <1>2, <1>3, <1>4, <2>1, <2>2, <2>3, ParameterWritten
<1>8. required' \in [Category -> Assignment] /\ values' \in [Asset -> Value \union {Null}]
  BY <1>3 DEF Assignment
<1> QED BY <1>3, <1>5, <1>6, <1>7, <1>8, Ending DEF IndInv, Typed

(* The units requests rely on are locked.                                     *)
LEMMA UnitWritten ==
    ASSUME IndInv, NEW w \in Worker, NEW u \in Unit, NEW m \in Measure \union {Null, Gone},
           UnitFree(w, u), units' = [units EXCEPT ![u] = m]
    PROVE  IndInv'
<1>1. /\ UNCHANGED <<parameter, options, values, assets, categories, required, txn>>
      /\ \A v \in Worker : UnitRow(u) \notin Holds(v)
  BY DEF UnitFree
<1>2. Typed
  BY DEF IndInv
<1>3. \A x : x # u => units'[x] = units[x]
  BY <1>2 DEF Typed
<1>4. Typed'
  BY <1>1, <1>2 DEF Typed
<1>5. RequestsFit'
  <2> SUFFICES ASSUME NEW v \in Worker, NEW t, t = txn[v], t # Idle PROVE Fits(t)'
    BY <1>1 DEF RequestsFit
  <2>1. t \in Txn /\ Fits(t) /\ UnitRow(u) \notin t.locks
    BY <1>1, RunningFits
  <2>2. UnitLocked(t) => UnitLocked(t)' /\ Resolved(t.def, t.input)' = Resolved(t.def, t.input)
    <3> SUFFICES ASSUME UnitLocked(t)
                 PROVE  UnitLocked(t)' /\ Resolved(t.def, t.input)' = Resolved(t.def, t.input)
      OBVIOUS
    <3>1. UnitOf(t.def, t.input) # Null =>
             Measured(t.def, UnitOf(t.def, t.input)) /\ UnitRow(UnitOf(t.def, t.input)) \in t.locks
      BY DEF UnitLocked
    <3>2. UnitOf(t.def, t.input) # Null => UnitOf(t.def, t.input) # u
      BY <2>1, <3>1
    <3>3. UnitOf(t.def, t.input)' = UnitOf(t.def, t.input)
      BY DEF UnitOf
    <3>4. UnitOf(t.def, t.input) # Null => units'[UnitOf(t.def, t.input)] = units[UnitOf(t.def, t.input)]
      BY <1>3, <3>2
    <3>5. UnitLocked(t)'
      BY <3>1, <3>3, <3>4 DEF UnitLocked, Measured
    <3>6. Resolved(t.def, t.input)' = Resolved(t.def, t.input)
      BY <3>3, <3>4 DEF Resolved
    <3> QED BY <3>5, <3>6
  <2>3. AssetFits(t)'
    <3>1. PlaceLocked(t)' <=> PlaceLocked(t)
      BY <1>1 DEF PlaceLocked, IsCategory
    <3>2. InputFits(t) => InputFits(t)'
      <4>1. UnitOf(t.def, t.input)' = UnitOf(t.def, t.input)
        BY DEF UnitOf
      <4>2. Defined' = Defined /\ OptionsNow' = OptionsNow
        BY <1>1 DEF Defined, OptionsNow
      <4> QED BY <1>1, <2>2, <4>1, <4>2 DEF InputFits
    <3>3. HasValue(t)' <=> HasValue(t)
      BY <1>1 DEF HasValue
    <3> QED BY <1>1, <2>1, <3>1, <3>2, <3>3 DEF Fits, AssetFits
  <2>4. ParameterFits(t)'
    <3>1. UnitOf(t.def, t.input)' = UnitOf(t.def, t.input)
      BY DEF UnitOf
    <3>2. Defined' = Defined /\ Valued' = Valued
      BY <1>1 DEF Defined, Valued
    <3> QED BY <1>1, <2>1, <2>2, <3>1, <3>2 DEF Fits, ParameterFits
  <2>5. CategoryFits(t)'
    BY <1>1, <2>1 DEF Fits, CategoryFits, PlaceLocked, TreeLocked, TreeOf, Under, IsCategory
  <2> QED BY <2>3, <2>4, <2>5 DEF Fits
<1>6. Exclusive' /\ DistinctDraws'
  BY <1>1 DEF IndInv, Exclusive, DistinctDraws, Holds
<1>7. ValuesFit'
  BY <1>1 DEF IndInv, ValuesFit, ValuesAreReadable, Valued, Defined, OptionsNow
<1>8. TreeFits'
  BY <1>1 DEF IndInv, TreeFits, Rooted, AssetsAreFiledSomewhere, IsCategory
<1> QED BY <1>4, <1>5, <1>6, <1>7, <1>8 DEF IndInv

LEMMA UnitsKeep ==
    ASSUME IndInv, NEW w \in Worker, NEW u \in Unit,
           CreateUnit(w, u) \/ UpdateUnit(w, u) \/ DeleteUnit(w, u)
    PROVE  IndInv'
<1>1. UnitFree(w, u)
  BY DEF CreateUnit, UpdateUnit, DeleteUnit
<1>2. PICK m \in Measure \union {Null, Gone} : units' = [units EXCEPT ![u] = m]
  <2>1. CASE CreateUnit(w, u) \/ UpdateUnit(w, u)
    BY <2>1 DEF CreateUnit, UpdateUnit
  <2>2. CASE DeleteUnit(w, u)
    <3>1. CASE InUse(u)
      <4>1. units' = units /\ units[u] \in Measure
        BY <2>2, <3>1 DEF DeleteUnit
      <4>2. units' = [units EXCEPT ![u] = units[u]]
        BY <4>1 DEF IndInv, Typed
      <4> QED BY <4>1, <4>2
    <3>2. CASE ~InUse(u)
      BY <2>2, <3>2 DEF DeleteUnit
    <3> QED BY <3>1, <3>2
  <2> QED BY <2>1, <2>2
<1> QED BY <1>1, <1>2, UnitWritten

(* A value whose target is an option finds one with its code.                *)
LEMMA TargetIsThere ==
    ASSUME NEW opts, NEW c, WithTarget(opts, c) # Null
    PROVE  WithCode(WithTarget(opts, c), c) # {}
<1>1. CASE WithCode(opts, c) # {}
  BY <1>1 DEF WithTarget
<1>2. CASE WithCode(opts, c) = {}
  <2>1. WithTarget(opts, c) = AddCode(opts, c)
    BY <1>2 DEF WithTarget
  <2>2. PICK o \in WithCode(opts, Null) : AddCode(opts, c) = SetCode(opts, o, c)
    BY <2>1 DEF AddCode
  <2>3. o \in Option
    BY DEF WithCode
  <2>4. SetCode(opts, o, c) = [p \in Option |-> IF p = o THEN c ELSE opts[p]]
    BY <2>1, <2>2 DEF SetCode
  <2>5. o \in WithCode(WithTarget(opts, c), c)
    BY <2>1, <2>2, <2>3, <2>4 DEF WithCode
  <2> QED BY <2>5
<1> QED BY <1>1, <1>2

LEMMA MigratedColumns ==
    ASSUME NEW old \in Value, NEW new \in Value
    PROVE  /\ Migrated(old, new) \in Value /\ Migrated(old, new).type = new.type
           /\ new.type = "text" => Migrated(old, new).text = new.text
           /\ new.type = "number" => /\ Migrated(old, new).number = new.number
                                     /\ Migrated(old, new).unit = new.unit
                                     /\ Migrated(old, new).base = new.base
           /\ new.type # "number" => /\ Migrated(old, new).unit = old.unit
                                     /\ Migrated(old, new).base = old.base
           /\ Migrated(old, new).option = new.option
<1>1. PICK x, n, u, b :
        /\ x = IF new.type = "text" THEN new.text ELSE old.text
        /\ n = IF new.type = "number" THEN new.number ELSE old.number
        /\ u = IF new.type = "number" THEN new.unit ELSE old.unit
        /\ b = IF new.type = "number" THEN new.base ELSE old.base
  OBVIOUS
<1>2. x \in BOOLEAN /\ n \in Nat \union {Null} /\ u \in Unit \union {Null} /\ b \in Nat \union {Null}
      /\ new.type \in Type /\ new.option \in Option \union {Null}
  BY <1>1 DEF Value
<1>3. Migrated(old, new) = [type |-> new.type, text |-> x, number |-> n, unit |-> u, base |-> b,
                            option |-> new.option]
  BY <1>1 DEF Migrated
<1>4. Migrated(old, new) \in Value
  BY <1>2, <1>3 DEF Value
<1> QED BY <1>1, <1>3, <1>4

(* What the values of a parameter become that are rewritten for another type. *)
IsRewritten(x, d, opts) ==
    /\ x \in Value /\ x.type = d.type
    /\ d.type = "text" => x.text
    /\ d.type = "number" => x.number # Null
    /\ d.type = "enum" => x.option \in Option /\ opts[x.option] \in Code
    /\ x.unit = Null => x.base = Null
    /\ x.type = "number" /\ x.unit # Null => Measured(d, x.unit) /\ x.base = x.number * units[x.unit].scale

LEMMA Rewritten ==
    ASSUME IndInv, NEW t \in Txn, Fits(t), t.op = "update_parameter", t.step = "write",
           t.def.type # parameter.type, NEW a \in Valued, NEW final, final # Null,
           t.def.type = "enum" => WithCode(final, t.input.code) # {},
           NEW x, x = Migrated(values[a], MigratedTo(t, final))
    PROVE  IsRewritten(x, t.def, final)
<1>1. /\ t.def \in Definition /\ t.input \in Targets(t.def.type) /\ UnitLocked(t)
  BY DEF Fits, ParameterFits
<1>2. t.def.type \in Type
  BY <1>1 DEF Definition
<1>3. /\ t.input \in Input /\ t.input.kind = t.def.type
      /\ t.input.kind = "number" => t.input.number \in Number
      /\ t.input.kind = "enum" => t.input.code \in Code
  BY <1>1, <1>2, InputsAreTyped
<1>4. a \in Asset /\ values[a] \in Value /\ (values[a].unit = Null => values[a].base = Null)
  BY DEF IndInv, ValuesFit, Typed, Valued
<1>5. CASE t.def.type = "enum"
  <2>1. PICK o : o = CHOOSE p \in WithCode(final, t.input.code) : TRUE
    OBVIOUS
  <2>2. o \in WithCode(final, t.input.code)
    BY <1>5, <2>1
  <2>3. o \in Option /\ final[o] \in Code
    BY <1>3, <1>5, <2>2 DEF WithCode
  <2>4. Pick(o) \in Input /\ Pick(o).kind = "enum" /\ Pick(o).option = o
    BY <2>3, InputFields
  <2>5. UnitOf(t.def, Pick(o)) = Null
    BY <2>4 DEF UnitOf
  <2>6. PICK new : new = Resolved(t.def, Pick(o))
    OBVIOUS
  <2>7. new \in Value /\ new.type = t.def.type /\ new.option = o
    BY <1>1, <2>4, <2>5, <2>6, ResolvedColumns
  <2>8. x = Migrated(values[a], new)
    BY <1>5, <2>1, <2>6 DEF MigratedTo
  <2>9. /\ x \in Value /\ x.type = "enum" /\ x.option = o
        /\ x.unit = values[a].unit /\ x.base = values[a].base
    BY <1>4, <1>5, <2>7, <2>8, MigratedColumns
  <2> QED BY <1>4, <1>5, <2>3, <2>9 DEF IsRewritten
<1>6. CASE t.def.type # "enum"
  <2>1. UnitOf(t.def, t.input) # Null => Measured(t.def, UnitOf(t.def, t.input))
    BY <1>1 DEF UnitLocked
  <2>2. PICK new : new = Resolved(t.def, t.input)
    OBVIOUS
  <2>3. /\ new \in Value /\ new.type = t.def.type
        /\ new.text = (t.input.kind = "text")
        /\ t.input.kind = "number" => new.number # Null
        /\ new.unit = Null => new.base = Null
        /\ new.unit = UnitOf(t.def, t.input)
        /\ new.unit # Null => new.base = new.number * units[UnitOf(t.def, t.input)].scale
    BY <1>1, <1>3, <2>1, <2>2, ResolvedColumns
  <2>4. x = Migrated(values[a], new)
    BY <1>6, <2>2 DEF MigratedTo
  <2>5. /\ x \in Value /\ x.type = new.type
        /\ new.type = "text" => x.text = new.text
        /\ new.type = "number" => x.number = new.number /\ x.unit = new.unit /\ x.base = new.base
        /\ new.type # "number" => x.unit = values[a].unit /\ x.base = values[a].base
    BY <1>4, <2>3, <2>4, MigratedColumns
  <2>6. x.unit = Null => x.base = Null
    BY <1>4, <2>3, <2>5
  <2>7. x.type = "number" /\ x.unit # Null =>
          Measured(t.def, x.unit) /\ x.base = x.number * units[x.unit].scale
    BY <2>1, <2>3, <2>5
  <2>8. t.def.type = "text" => x.text
    BY <1>3, <2>3, <2>5
  <2>9. t.def.type = "number" => x.number # Null
    BY <1>3, <2>3, <2>5
  <2> QED BY <1>6, <2>3, <2>5, <2>6, <2>7, <2>8, <2>9 DEF IsRewritten
<1> QED BY <1>5, <1>6

(* The outcomes of an update: an error, or each value as it was, null, or    *)
(* rewritten.                                                                 *)
LEMMA UpdateParameterOutcome ==
    ASSUME IndInv, NEW w \in Worker, UpdateParameter(w), ~Refuse(w), NEW t, t = txn[w]
    PROVE  /\ txn[w] # Idle /\ t \in Txn /\ Fits(t) /\ t.op = "update_parameter" /\ t.step = "write"
           /\ parameter' = t.def /\ End(w) /\ UNCHANGED <<units, assets, categories, required>>
           /\ values' \in [Asset -> Value \union {Null}] /\ Valued' \subseteq Valued
           /\ t.def.type = parameter.type =>
                 /\ values' = values
                 /\ \A a \in Valued : values[a].option # Null => options'[values[a].option] \in Code
           /\ t.def.type # parameter.type => \A a \in Valued' :
                 /\ values'[a].type = t.def.type
                 /\ t.def.type = "text" => values'[a].text
                 /\ t.def.type = "number" => values'[a].number # Null
                 /\ t.def.type = "enum" => values'[a].option \in OptionsNow'
                 /\ values'[a].unit = Null => values'[a].base = Null
                 /\ values'[a].type = "number" /\ values'[a].unit # Null =>
                       /\ Measured(t.def, values'[a].unit)
                       /\ values'[a].base = values'[a].number * units[values'[a].unit].scale
<1>1. txn[w] # Idle /\ t \in Txn /\ Fits(t) /\ t.op = "update_parameter" /\ t.step = "write"
  BY AtStep DEF UpdateParameter
<1>2. PICK list \in List \union {Null}, kept \in SUBSET Valued :
        LET retyped == t.def.type # parameter.type
            enum == t.def.type = "enum"
            listed == OptionsFor(t, list)
            final == IF listed # Null /\ retyped /\ enum /\ kept # {}
                     THEN WithTarget(listed, t.input.code) ELSE listed
            moved == [a \in Asset |-> IF a \in kept THEN Migrated(values[a], MigratedTo(t, final))
                                      ELSE IF retyped THEN Null ELSE values[a]]
        IN /\ retyped \/ kept = {}
           /\ ~(\/ final = Null
                \/ enum /\ retyped /\ list = Null /\ kept = {}
                \/ ~retyped /\ ~Droppable(final))
           /\ parameter' = t.def
           /\ options' = final
           /\ values' = moved
           /\ End(w)
           /\ UNCHANGED <<units, assets, categories, required>>
  BY DEF UpdateParameter
<1>3. PICK listed : listed = OptionsFor(t, list)
  OBVIOUS
<1>4. PICK final : final = IF listed # Null /\ t.def.type # parameter.type /\ t.def.type = "enum" /\ kept # {}
                           THEN WithTarget(listed, t.input.code) ELSE listed
  OBVIOUS
<1>5. /\ t.def.type # parameter.type \/ kept = {}
      /\ final # Null /\ (t.def.type = parameter.type => Droppable(final))
      /\ parameter' = t.def /\ options' = final /\ End(w) /\ UNCHANGED <<units, assets, categories, required>>
      /\ values' = [a \in Asset |-> IF a \in kept THEN Migrated(values[a], MigratedTo(t, final))
                                    ELSE IF t.def.type # parameter.type THEN Null ELSE values[a]]
  BY <1>2, <1>3, <1>4
<1>6. t.def.type # parameter.type /\ t.def.type = "enum" /\ kept # {} =>
         WithCode(final, t.input.code) # {}
  <2> SUFFICES ASSUME t.def.type # parameter.type, t.def.type = "enum", kept # {}
               PROVE  WithCode(final, t.input.code) # {}
    OBVIOUS
  <2>1. final = WithTarget(listed, t.input.code)
    BY <1>4, <1>5
  <2> QED BY <1>5, <2>1, TargetIsThere
<1>7. CASE t.def.type = parameter.type
  <2>1. kept = {}
    BY <1>5, <1>7
  <2>2. values \in [Asset -> Value \union {Null}]
    BY DEF IndInv, Typed
  <2>3. values' = values
    BY <1>5, <1>7, <2>1, <2>2
  <2>4. Droppable(final)
    BY <1>5, <1>7
  <2>5. Valued' = Valued
    BY <2>3 DEF Valued
  <2> QED BY <1>1, <1>5, <1>7, <2>2, <2>3, <2>4, <2>5 DEF Droppable
<1>8. CASE t.def.type # parameter.type
  <2>1. ASSUME NEW a \in kept
        PROVE  /\ values'[a] \in Value /\ values'[a].type = t.def.type
               /\ t.def.type = "text" => values'[a].text
               /\ t.def.type = "number" => values'[a].number # Null
               /\ t.def.type = "enum" => values'[a].option \in OptionsNow'
               /\ values'[a].unit = Null => values'[a].base = Null
               /\ values'[a].type = "number" /\ values'[a].unit # Null =>
                     /\ Measured(t.def, values'[a].unit)
                     /\ values'[a].base = values'[a].number * units[values'[a].unit].scale
    <3>1. PICK x : x = Migrated(values[a], MigratedTo(t, final))
      OBVIOUS
    <3>2. a \in Valued /\ a \in Asset
      BY DEF Valued
    <3>3. values'[a] = x
      BY <1>5, <3>1, <3>2
    <3>4. IsRewritten(x, t.def, final)
      <4>1. kept # {}
        OBVIOUS
      <4>2. t.def.type = "enum" => WithCode(final, t.input.code) # {}
        BY <1>6, <1>8, <4>1
      <4>3. final # Null
        BY <1>5
      <4> QED BY <1>1, <1>8, <3>1, <3>2, <4>2, <4>3, Rewritten
    <3>5. t.def.type = "enum" => x.option \in OptionsNow'
      BY <1>5, <1>8, <3>4 DEF OptionsNow, IsRewritten
    <3> QED BY <3>3, <3>4, <3>5 DEF IsRewritten
  <2>2. \A a \in Asset \ kept : values'[a] = Null
    BY <1>5, <1>8
  <2>3. kept \subseteq Asset /\ kept \subseteq Valued
    BY DEF Valued
  <2>4. Valued' \subseteq kept
    BY <2>2 DEF Valued
  <2>5. values' \in [Asset -> Value \union {Null}]
    <3>1. DOMAIN values' = Asset /\ values' = [a \in Asset |-> values'[a]]
      BY <1>5
    <3>2. \A a \in Asset : values'[a] \in Value \union {Null}
      BY <2>1, <2>2
    <3> QED BY <3>1, <3>2
  <2> QED BY <1>1, <1>5, <1>8, <2>1, <2>3, <2>4, <2>5
<1> QED BY <1>7, <1>8

LEMMA UpdateParameterKeeps ==
    ASSUME IndInv, NEW w \in Worker, UpdateParameter(w)
    PROVE  IndInv'
<1> SUFFICES ASSUME ~Refuse(w) PROVE IndInv'
  BY RefuseKeeps
<1>0. PICK t : t = txn[w]
  OBVIOUS
<1>1. /\ txn[w] # Idle /\ t \in Txn /\ Fits(t) /\ t.op = "update_parameter" /\ t.step = "write"
      /\ parameter' = t.def /\ End(w) /\ UNCHANGED <<units, assets, categories, required>>
      /\ values' \in [Asset -> Value \union {Null}] /\ Valued' \subseteq Valued
      /\ t.def.type = parameter.type =>
            /\ values' = values
            /\ \A a \in Valued : values[a].option # Null => options'[values[a].option] \in Code
      /\ t.def.type # parameter.type => \A a \in Valued' :
            /\ values'[a].type = t.def.type
            /\ t.def.type = "text" => values'[a].text
            /\ t.def.type = "number" => values'[a].number # Null
            /\ t.def.type = "enum" => values'[a].option \in OptionsNow'
            /\ values'[a].unit = Null => values'[a].base = Null
  BY <1>0, UpdateParameterOutcome
<1>2. /\ Defined /\ Parameter \in t.locks /\ t.def \in Definition
      /\ t.def.type # parameter.type => \A a \in Valued : ValueOf(a) \in t.locks
  BY <1>1 DEF Fits, ParameterFits
<1>3. Defined'
  BY <1>1, <1>2 DEF Defined
<1>4. ValuesFit'
  <2>1. \A a \in Valued' : assets'[a] \in Filed
    BY <1>1 DEF IndInv, ValuesFit
  <2>2. CASE t.def.type = parameter.type
    <3>1. Valued' = Valued
      BY <1>1, <2>2 DEF Valued
    <3>2. ASSUME NEW a \in Valued', parameter.type = "enum" PROVE values'[a].option \in OptionsNow'
      <4>1. values[a].option \in OptionsNow
        BY <3>1, <3>2 DEF IndInv, ValuesFit, ValuesAreReadable
      <4>2. values[a].option \in Option /\ values[a].option # Null
        BY <4>1, NullsAssumption DEF OptionsNow
      <4> QED BY <1>1, <2>2, <3>1, <3>2, <4>2 DEF OptionsNow
    <3>3. ASSUME NEW a \in Valued'
          PROVE  /\ values'[a].type = parameter'.type /\ (values'[a].unit = Null => values'[a].base = Null)
                 /\ parameter'.type = "text" => values'[a].text
                 /\ parameter'.type = "number" => values'[a].number # Null
                 /\ parameter'.type = "enum" => values'[a].option \in OptionsNow'
      BY <1>1, <2>2, <3>1, <3>2, <3>3 DEF IndInv, ValuesFit, ValuesAreReadable
    <3>4. parameter'.type \in Type
      BY <1>1, <1>2 DEF Definition
    <3> QED BY <1>3, <2>1, <3>3, <3>4 DEF ValuesFit, ValuesAreReadable, Type
  <2>3. CASE t.def.type # parameter.type
    <3>1. t.def.type \in Type
      BY <1>2 DEF Definition
    <3> QED BY <1>1, <1>3, <2>1, <2>3, <3>1 DEF ValuesFit, ValuesAreReadable, Type
  <2> QED BY <2>2, <2>3
<1>5. TreeFits'
  BY <1>1 DEF IndInv, TreeFits, Rooted, AssetsAreFiledSomewhere, IsCategory
<1>6. \A v \in Worker \ {w} : \A u \in {txn[v]} \ {Idle} : Fits(u)'
  <2> SUFFICES ASSUME NEW v \in Worker \ {w}, NEW u, u = txn[v], u # Idle PROVE Fits(u)'
    OBVIOUS
  <2>1. u \in Txn /\ Fits(u) /\ t.locks \intersect u.locks = {}
    BY <1>0, <1>1, TheOthers
  <2>2. u.op \in AssetOps => u.on \in Asset
    BY <2>1 DEF Fits, AssetFits
  <2>3. u.op \in AssetOps => (values'[u.on] # Null => values[u.on] # Null)
    BY <1>1, <2>2 DEF Valued
  <2>4. ASSUME u.op \in {"create_asset", "update_asset"}, u.step = "write", u.place \in Category,
               required'[u.place] # "none"
        PROVE  HasValue(u)'
    <3>1. HasValue(u)
      BY <1>1, <2>1, <2>4 DEF Fits, AssetFits, AssetOps
    <3>2. CASE u.input.kind # "unsent"
      BY <3>1, <3>2 DEF HasValue
    <3>3. CASE u.input.kind = "unsent"
      <4>1. values[u.on] # Null /\ u.on \in Valued
        BY <2>2, <2>4, <3>1, <3>3 DEF HasValue, Valued, AssetOps
      <4>2. u.op = "update_asset"
        <5>1. assets[u.on] \in Filed
          BY <4>1 DEF IndInv, ValuesFit
        <5> QED BY <2>1, <2>4, <5>1, NullsAssumption DEF Fits, AssetFits, AssetOps
      <4>3. ValueOf(u.on) \in u.locks
        BY <2>1, <2>4, <4>1, <4>2 DEF Fits, AssetFits, AssetOps, Chosen
      <4>4. t.def.type = parameter.type
        BY <1>2, <2>1, <4>1, <4>3
      <4> QED BY <1>1, <3>3, <4>1, <4>4 DEF HasValue
    <3> QED BY <3>2, <3>3
  <2> QED BY <1>1, <1>2, <2>1, <2>3, <2>4, ParameterWritten
<1> QED BY <1>1, <1>2, <1>4, <1>5, <1>6, Ending DEF IndInv, Typed

-----------------------------------------------------------------------------
(* Paths *)

LEMMA Slice ==
    ASSUME NEW S, NEW s \in Seq(S), NEW m \in Nat \ {0}, NEW n \in 0 .. Len(s)
    PROVE  /\ SubSeq(s, m, n) \in Seq(S)
           /\ Len(SubSeq(s, m, n)) = IF m <= n THEN n - m + 1 ELSE 0
           /\ \A i \in 1 .. n - m + 1 : SubSeq(s, m, n)[i] = s[m + i - 1]
<1>1. \A i \in m .. n : s[i] \in S
  BY ElementOfSeq
<1> QED BY <1>1, SubSeqProperties

LEMMA PathOf ==
    ASSUME NEW paths, Rooted(paths), NEW c \in Category, paths[c] \notin {Null, Gone}, NEW p, p = paths[c]
    PROVE  /\ p \in Seq(Category) /\ Len(p) \in Nat \ {0} /\ p[Len(p)] = c /\ DOMAIN p = 1 .. Len(p)
           /\ \A i \in 1 .. Len(p) : /\ p[i] \in Category /\ paths[p[i]] \notin {Null, Gone}
                                     /\ paths[p[i]] = SubSeq(p, 1, i)
<1>1. p \in Seq(Category) \ {<<>>} /\ p[Len(p)] = c /\ \A i \in DOMAIN p : paths[p[i]] = SubSeq(p, 1, i)
  BY DEF Rooted, Last
<1>2. Len(p) \in Nat \ {0} /\ DOMAIN p = 1 .. Len(p)
  BY <1>1, EmptySeq
<1>3. \A i \in 1 .. Len(p) : p[i] \in Category /\ SubSeq(p, 1, i) \in Seq(Category)
  BY <1>1, <1>2, ElementOfSeq, Slice
<1> QED BY <1>1, <1>2, <1>3, NullsAssumption

(* A category is below those its path names.                                  *)
LEMMA OnPath ==
    ASSUME NEW paths, Rooted(paths), NEW c \in Category, NEW d \in Category,
           paths[c] \notin {Null, Gone}, paths[d] \notin {Null, Gone}
    PROVE  IsPrefix(paths[d], paths[c]) <=> \E i \in 1 .. Len(paths[c]) : paths[c][i] = d
<1>1. PICK p, q : p = paths[c] /\ q = paths[d]
  OBVIOUS
<1>2. /\ p \in Seq(Category) /\ Len(p) \in Nat \ {0}
      /\ \A i \in 1 .. Len(p) : paths[p[i]] = SubSeq(p, 1, i)
      /\ q \in Seq(Category) /\ Len(q) \in Nat \ {0} /\ q[Len(q)] = d
  BY <1>1, PathOf
<1>3. ASSUME IsPrefix(q, p) PROVE \E i \in 1 .. Len(p) : p[i] = d
  <2>1. Len(q) <= Len(p) /\ SubSeq(q, 1, Len(q)) = SubSeq(p, 1, Len(q))
    BY <1>3 DEF IsPrefix
  <2>2. Len(q) \in 1 .. Len(p) /\ Len(q) \in 0 .. Len(p) /\ Len(q) \in 0 .. Len(q)
    BY <1>2, <2>1
  <2>3. SubSeq(q, 1, Len(q))[Len(q)] = q[Len(q)]
    BY <1>2, <2>2, Slice
  <2>4. SubSeq(p, 1, Len(q))[Len(q)] = p[Len(q)]
    BY <1>2, <2>2, Slice
  <2> QED BY <1>2, <2>1, <2>2, <2>3, <2>4
<1>4. ASSUME NEW i \in 1 .. Len(p), p[i] = d PROVE IsPrefix(q, p)
  <2>1. q = SubSeq(p, 1, i)
    BY <1>1, <1>2, <1>4
  <2>2. i \in 0 .. Len(p) /\ Len(q) = i
    BY <1>2, <2>1, Slice
  <2>3. SubSeq(q, 1, Len(q)) = q
    BY <1>2, SubSeqFull
  <2> QED BY <1>2, <2>1, <2>2, <2>3 DEF IsPrefix
<1> QED BY <1>1, <1>3, <1>4

(* A path that is moved: what was below position k of p is below h now.      *)
IsGraft(n, h, p, k) ==
    /\ Len(n) = Len(h) + Len(p) - k
    /\ \A i \in 1 .. Len(h) : n[i] = h[i] /\ SubSeq(n, 1, i) = SubSeq(h, 1, i)
    /\ \A j \in k + 1 .. Len(p) :
          /\ n[Len(h) + j - k] = p[j]
          /\ SubSeq(n, 1, Len(h) + j - k) = h \o SubSeq(SubSeq(p, 1, j), k + 1, j)

LEMMA Grafted ==
    ASSUME NEW S, NEW h \in Seq(S), NEW p \in Seq(S), NEW k \in 1 .. Len(p),
           NEW n, n = h \o SubSeq(p, k + 1, Len(p))
    PROVE  n \in Seq(S) /\ IsGraft(n, h, p, k)
<1> DEFINE r(j) == SubSeq(p, k + 1, j)
<1>1. Len(h) \in Nat /\ Len(p) \in Nat /\ k \in Nat /\ k + 1 \in Nat \ {0}
  OBVIOUS
<1>2. ASSUME NEW j \in k .. Len(p)
      PROVE  /\ r(j) \in Seq(S) /\ Len(r(j)) = j - k
             /\ \A i \in 1 .. j - k : r(j)[i] = p[k + i]
  <2>1. j \in 0 .. Len(p) /\ j \in Nat
    BY <1>1
  <2>2. /\ r(j) \in Seq(S) /\ Len(r(j)) = IF k + 1 <= j THEN j - (k + 1) + 1 ELSE 0
        /\ \A i \in 1 .. j - (k + 1) + 1 : r(j)[i] = p[k + 1 + i - 1]
    BY <1>1, <2>1, Slice
  <2> HIDE DEF r
  <2> QED BY <1>1, <2>1, <2>2
<1>3. ASSUME NEW j \in k .. Len(p)
      PROVE  /\ h \o r(j) \in Seq(S) /\ Len(h \o r(j)) = Len(h) + j - k
             /\ \A i \in 1 .. Len(h) : (h \o r(j))[i] = h[i]
             /\ \A i \in k + 1 .. j : (h \o r(j))[Len(h) + i - k] = p[i]
  <2>1. PICK x : x = r(j)
    OBVIOUS
  <2>2. x \in Seq(S) /\ Len(x) = j - k /\ \A i \in 1 .. j - k : x[i] = p[k + i]
    BY <1>2, <2>1
  <2>3. /\ h \o x \in Seq(S) /\ Len(h \o x) = Len(h) + Len(x)
        /\ \A i \in 1 .. Len(h) + Len(x) : (h \o x)[i] = IF i <= Len(h) THEN h[i] ELSE x[i - Len(h)]
    BY <2>2, ConcatProperties
  <2>4. j \in Nat /\ k <= j
    BY <1>1
  <2>5. ASSUME NEW i \in k + 1 .. j PROVE (h \o x)[Len(h) + i - k] = p[i]
    <3>1. i \in Nat /\ i - k \in 1 .. j - k
      BY <1>1, <2>4
    <3>2. Len(h) + i - k \in 1 .. Len(h) + Len(x) /\ ~(Len(h) + i - k <= Len(h))
          /\ (Len(h) + i - k) - Len(h) = i - k /\ k + (i - k) = i
      BY <1>1, <2>2, <3>1
    <3> QED BY <2>2, <2>3, <3>1, <3>2
  <2>6. \A i \in 1 .. Len(h) : (h \o x)[i] = h[i]
    BY <1>1, <2>2, <2>3, <2>4
  <2> QED BY <1>1, <2>1, <2>2, <2>3, <2>4, <2>5, <2>6
<1>4. Len(p) \in k .. Len(p) /\ n = h \o r(Len(p))
  BY <1>1
<1> HIDE DEF r
<1>5. /\ n \in Seq(S) /\ Len(n) = Len(h) + Len(p) - k
      /\ \A i \in 1 .. Len(h) : n[i] = h[i]
      /\ \A j \in k + 1 .. Len(p) : n[Len(h) + j - k] = p[j]
  BY <1>3, <1>4
<1>6. ASSUME NEW i \in 1 .. Len(h) PROVE SubSeq(n, 1, i) = SubSeq(h, 1, i)
  <2>1. i \in 0 .. Len(n) /\ i \in 0 .. Len(h) /\ 1 \in Nat \ {0} /\ i - 1 + 1 = i /\ 1 <= i
    BY <1>1, <1>5
  <2>2. /\ SubSeq(n, 1, i) \in Seq(S) /\ Len(SubSeq(n, 1, i)) = i
        /\ \A j \in 1 .. i : SubSeq(n, 1, i)[j] = n[1 + j - 1]
    BY <1>5, <2>1, Slice
  <2>3. /\ SubSeq(h, 1, i) \in Seq(S) /\ Len(SubSeq(h, 1, i)) = i
        /\ \A j \in 1 .. i : SubSeq(h, 1, i)[j] = h[1 + j - 1]
    BY <2>1, Slice
  <2>4. \A j \in 1 .. i : 1 + j - 1 = j /\ j \in 1 .. Len(h)
    BY <1>1
  <2>5. \A j \in 1 .. i : SubSeq(n, 1, i)[j] = SubSeq(h, 1, i)[j]
    BY <1>5, <2>2, <2>3, <2>4
  <2> QED BY <2>2, <2>3, <2>5, SeqEqual
<1>7. ASSUME NEW j \in k + 1 .. Len(p)
      PROVE  SubSeq(n, 1, Len(h) + j - k) = h \o SubSeq(SubSeq(p, 1, j), k + 1, j)
  <2>1. j \in k .. Len(p) /\ j \in 0 .. Len(p) /\ j \in Nat
    BY <1>1
  <2>2. SubSeq(SubSeq(p, 1, j), k + 1, j) = r(j)
    <3>1. PICK x : x = SubSeq(p, 1, j)
      OBVIOUS
    <3>2. x \in Seq(S) /\ Len(x) = j /\ \A i \in 1 .. j : x[i] = p[i]
      <4>1. /\ x \in Seq(S) /\ Len(x) = IF 1 <= j THEN j - 1 + 1 ELSE 0
            /\ \A i \in 1 .. j - 1 + 1 : x[i] = p[1 + i - 1]
        BY <2>1, <3>1, Slice
      <4> QED BY <1>1, <2>1, <4>1
    <3>3. j \in 0 .. Len(x)
      BY <2>1, <3>2
    <3>4. /\ SubSeq(x, k + 1, j) \in Seq(S)
          /\ Len(SubSeq(x, k + 1, j)) = IF k + 1 <= j THEN j - (k + 1) + 1 ELSE 0
          /\ \A i \in 1 .. j - (k + 1) + 1 : SubSeq(x, k + 1, j)[i] = x[k + 1 + i - 1]
      BY <1>1, <3>2, <3>3, Slice
    <3>5. Len(SubSeq(x, k + 1, j)) = j - k
      BY <1>1, <2>1, <3>4
    <3>6. \A i \in 1 .. j - k : SubSeq(x, k + 1, j)[i] = p[k + i]
      BY <1>1, <2>1, <3>2, <3>4
    <3>7. r(j) \in Seq(S) /\ Len(r(j)) = j - k /\ \A i \in 1 .. j - k : r(j)[i] = p[k + i]
      BY <1>2, <2>1
    <3> QED BY <3>1, <3>4, <3>5, <3>6, <3>7, SeqEqual
  <2>3. PICK m : m = Len(h) + j - k
    OBVIOUS
  <2>4. m \in 0 .. Len(n) /\ m \in Nat /\ m >= 1
    BY <1>1, <1>5, <2>1, <2>3
  <2>5. /\ SubSeq(n, 1, m) \in Seq(S) /\ Len(SubSeq(n, 1, m)) = m
        /\ \A i \in 1 .. m : SubSeq(n, 1, m)[i] = n[i]
    <3>1. /\ SubSeq(n, 1, m) \in Seq(S) /\ Len(SubSeq(n, 1, m)) = IF 1 <= m THEN m - 1 + 1 ELSE 0
          /\ \A i \in 1 .. m - 1 + 1 : SubSeq(n, 1, m)[i] = n[1 + i - 1]
      BY <1>5, <2>4, Slice
    <3> QED BY <2>4, <3>1
  <2>6. /\ h \o r(j) \in Seq(S) /\ Len(h \o r(j)) = m
        /\ \A i \in 1 .. Len(h) : (h \o r(j))[i] = h[i]
        /\ \A i \in k + 1 .. j : (h \o r(j))[Len(h) + i - k] = p[i]
    BY <1>3, <2>1, <2>3
  <2>7. ASSUME NEW i \in 1 .. m PROVE n[i] = (h \o r(j))[i]
    <3>1. CASE i <= Len(h)
      BY <1>1, <1>5, <2>6, <3>1
    <3>2. CASE i > Len(h)
      <4>1. PICK l : l = i - Len(h) + k
        OBVIOUS
      <4>2. l \in k + 1 .. j /\ l \in k + 1 .. Len(p) /\ Len(h) + l - k = i
        BY <1>1, <2>1, <2>3, <2>4, <3>2, <4>1
      <4> QED BY <1>5, <2>6, <4>2
    <3>3. i <= Len(h) \/ i > Len(h)
      BY <1>1, <2>4
    <3> QED BY <3>1, <3>2, <3>3
  <2>8. SubSeq(n, 1, m) = h \o r(j)
    BY <2>5, <2>6, <2>7, SeqEqual
  <2> QED BY <2>2, <2>3, <2>8
<1> QED BY <1>5, <1>6, <1>7 DEF IsGraft

LEMMA UnderPath ==
    ASSUME Rooted(categories), NEW c \in Category, IsCategory(c), NEW d \in Category
    PROVE  Under(c, d) <=> \E i \in 1 .. Len(categories[c]) : categories[c][i] = d
<1>1. \A i \in 1 .. Len(categories[c]) : IsCategory(categories[c][i])
  BY PathOf DEF IsCategory
<1>2. IsCategory(d) => (IsPrefix(categories[d], categories[c]) <=> \E i \in 1 .. Len(categories[c]) : categories[c][i] = d)
  BY OnPath DEF IsCategory
<1> QED BY <1>1, <1>2 DEF Under

LEMMA UnderTransitive ==
    ASSUME Rooted(categories), NEW c \in Category, NEW d \in Category, NEW e \in Category,
           Under(c, d), Under(d, e)
    PROVE  Under(c, e)
<1>1. IsCategory(c) /\ IsCategory(d)
  BY DEF Under
<1>2. PICK p, q : p = categories[c] /\ q = categories[d]
  OBVIOUS
<1>3. PICK i \in 1 .. Len(p) : p[i] = d
  BY <1>1, <1>2, UnderPath
<1>4. PICK j \in 1 .. Len(q) : q[j] = e
  BY <1>1, <1>2, UnderPath
<1>5. p \in Seq(Category) /\ Len(p) \in Nat /\ q = SubSeq(p, 1, i)
  BY <1>1, <1>2, <1>3, PathOf DEF IsCategory
<1>6. /\ Len(q) = IF 1 <= i THEN i - 1 + 1 ELSE 0
      /\ \A l \in 1 .. i - 1 + 1 : q[l] = p[1 + l - 1]
  <2>1. i \in 0 .. Len(p)
    BY <1>5
  <2> QED BY <1>5, <2>1, Slice
<1>7. j \in 1 .. Len(p) /\ p[j] = e
  BY <1>4, <1>5, <1>6
<1> QED BY <1>1, <1>2, <1>7, UnderPath

(* build_path_and_depth: on's path is that of its place, and on.             *)
LEMMA PathUnderPlace ==
    ASSUME Rooted(categories), NEW on \in Category, NEW place \in Filed,
           place \in Category => IsCategory(place) /\ ~Under(place, on),
           NEW path, path = PathUnder(place, on)
    PROVE  /\ path \in Seq(Category) /\ Len(path) \in Nat \ {0} /\ path[Len(path)] = on
           /\ SubSeq(path, 1, Len(path)) = path
           /\ \A i \in 1 .. Len(path) - 1 :
                 /\ path[i] \in Category /\ IsCategory(path[i]) /\ path[i] # on /\ ~Under(path[i], on)
                 /\ categories[path[i]] = SubSeq(path, 1, i)
                 /\ place \in Category /\ Under(place, path[i])
<1>1. CASE place = NoCategory
  <2>1. path = <<on>>
    BY <1>1 DEF PathUnder
  <2>2. path \in Seq(Category) /\ Len(path) = 1 /\ path[1] = on
    BY <2>1
  <2> QED BY <2>2, SubSeqFull
<1>2. CASE place # NoCategory
  <2>1. place \in Category /\ IsCategory(place) /\ ~Under(place, on)
    BY <1>2 DEF Filed
  <2>2. PICK h : h = categories[place]
    OBVIOUS
  <2>3. path = Append(h, on)
    BY <1>2, <2>2 DEF PathUnder
  <2>4. /\ h \in Seq(Category) /\ Len(h) \in Nat \ {0}
        /\ \A i \in 1 .. Len(h) : h[i] \in Category /\ IsCategory(h[i]) /\ categories[h[i]] = SubSeq(h, 1, i)
    BY <2>1, <2>2, PathOf DEF IsCategory
  <2>5. /\ path \in Seq(Category) /\ Len(path) = Len(h) + 1 /\ path[Len(path)] = on
        /\ \A i \in 1 .. Len(h) : path[i] = h[i]
    BY <2>3, <2>4, AppendProperties
  <2>6. SubSeq(path, 1, Len(path)) = path
    BY <2>5, SubSeqFull
  <2>7. ASSUME NEW i \in 1 .. Len(h)
        PROVE  /\ path[i] \in Category /\ IsCategory(path[i]) /\ path[i] # on /\ ~Under(path[i], on)
               /\ categories[path[i]] = SubSeq(path, 1, i) /\ Under(place, path[i])
    <3>1. path[i] = h[i] /\ path[i] \in Category /\ IsCategory(path[i]) /\ categories[path[i]] = SubSeq(h, 1, i)
      BY <2>4, <2>5
    <3>2. Under(place, path[i])
      BY <2>1, <2>2, <3>1, UnderPath
    <3>3. path[i] # on /\ ~Under(path[i], on)
      BY <2>1, <3>1, <3>2, UnderTransitive
    <3>4. SubSeq(path, 1, i) = SubSeq(h, 1, i)
      <4>1. i \in 0 .. Len(path) /\ i \in 0 .. Len(h) /\ i \in Nat /\ 1 <= i
        BY <2>4, <2>5
      <4>2. /\ SubSeq(path, 1, i) \in Seq(Category) /\ Len(SubSeq(path, 1, i)) = i
            /\ \A l \in 1 .. i : SubSeq(path, 1, i)[l] = path[l]
        <5>1. /\ SubSeq(path, 1, i) \in Seq(Category) /\ Len(SubSeq(path, 1, i)) = IF 1 <= i THEN i - 1 + 1 ELSE 0
              /\ \A l \in 1 .. i - 1 + 1 : SubSeq(path, 1, i)[l] = path[1 + l - 1]
          BY <2>5, <4>1, Slice
        <5> QED BY <4>1, <5>1
      <4>3. /\ SubSeq(h, 1, i) \in Seq(Category) /\ Len(SubSeq(h, 1, i)) = i
            /\ \A l \in 1 .. i : SubSeq(h, 1, i)[l] = h[l]
        <5>1. /\ SubSeq(h, 1, i) \in Seq(Category) /\ Len(SubSeq(h, 1, i)) = IF 1 <= i THEN i - 1 + 1 ELSE 0
              /\ \A l \in 1 .. i - 1 + 1 : SubSeq(h, 1, i)[l] = h[1 + l - 1]
          BY <2>4, <4>1, Slice
        <5> QED BY <4>1, <5>1
      <4>4. \A l \in 1 .. i : path[l] = h[l]
        BY <2>4, <2>5
      <4>5. \A l \in 1 .. i : SubSeq(path, 1, i)[l] = SubSeq(h, 1, i)[l]
        BY <4>2, <4>3, <4>4
      <4> QED BY <4>2, <4>3, <4>5, SeqEqual
    <3> QED BY <3>1, <3>2, <3>3, <3>4
  <2>8. 1 .. Len(path) - 1 = 1 .. Len(h)
    BY <2>4, <2>5
  <2> QED BY <2>1, <2>4, <2>5, <2>6, <2>7, <2>8
<1> QED BY <1>1, <1>2

(* What is below on keeps the part of its path that is below on.             *)
IsMoved(n, c, on, path, k) ==
    /\ Len(n) = Len(path) + Len(categories[c]) - k /\ k < Len(categories[c])
    /\ n[Len(n)] = c
    /\ \A i \in 1 .. Len(path) : n[i] = path[i] /\ SubSeq(n, 1, i) = SubSeq(path, 1, i)
    /\ \A j \in k + 1 .. Len(categories[c]) :
          LET d == n[Len(path) + j - k]
          IN d \in Category /\ d # on /\ Under(d, on) /\ Moved(d, on, path) = SubSeq(n, 1, Len(path) + j - k)

LEMMA MovedPath ==
    ASSUME Rooted(categories), NEW on \in Category, NEW c \in Category, c # on, Under(c, on),
           NEW path \in Seq(Category), NEW n, n = Moved(c, on, path)
    PROVE  n \in Seq(Category) /\ \E k \in Nat : IsMoved(n, c, on, path, k)
<1>1. PICK p, q : p = categories[c] /\ q = categories[on]
  OBVIOUS
<1>2. IsCategory(c) /\ IsCategory(on)
  BY DEF Under
<1>3. /\ p \in Seq(Category) /\ Len(p) \in Nat \ {0} /\ p[Len(p)] = c
      /\ \A i \in 1 .. Len(p) : p[i] \in Category /\ IsCategory(p[i]) /\ categories[p[i]] = SubSeq(p, 1, i)
  <2>1. categories[c] \notin {Null, Gone}
    BY <1>2 DEF IsCategory
  <2>2. /\ p \in Seq(Category) /\ Len(p) \in Nat \ {0} /\ p[Len(p)] = c
        /\ \A i \in 1 .. Len(p) : /\ p[i] \in Category /\ categories[p[i]] \notin {Null, Gone}
                                  /\ categories[p[i]] = SubSeq(p, 1, i)
    BY <1>1, <2>1, PathOf
  <2> QED BY <2>2 DEF IsCategory
<1>4. PICK k \in 1 .. Len(p) : p[k] = on
  BY <1>1, <1>2, UnderPath
<1>5. ASSUME NEW i \in 1 .. Len(p) PROVE Len(categories[p[i]]) = i
  <2>1. i \in 0 .. Len(p)
    BY <1>3
  <2>2. Len(SubSeq(p, 1, i)) = IF 1 <= i THEN i - 1 + 1 ELSE 0
    BY <1>3, <2>1, Slice
  <2> QED BY <1>3, <2>2
<1>6. Len(q) = k /\ k < Len(p) /\ k \in Nat
  BY <1>1, <1>3, <1>4, <1>5
<1>7. n = path \o SubSeq(p, k + 1, Len(p))
  BY <1>1, <1>6 DEF Moved
<1>8. /\ n \in Seq(Category) /\ Len(n) = Len(path) + Len(p) - k
      /\ \A i \in 1 .. Len(path) : n[i] = path[i] /\ SubSeq(n, 1, i) = SubSeq(path, 1, i)
      /\ \A j \in k + 1 .. Len(p) :
            /\ n[Len(path) + j - k] = p[j]
            /\ SubSeq(n, 1, Len(path) + j - k) = path \o SubSeq(SubSeq(p, 1, j), k + 1, j)
  <2>1. p \in Seq(Category)
    BY <1>3
  <2>2. n \in Seq(Category) /\ IsGraft(n, path, p, k)
    BY <1>4, <1>7, <2>1, Grafted
  <2> QED BY <2>2 DEF IsGraft
<1>9. ASSUME NEW j \in k + 1 .. Len(p), NEW d, d = p[j]
      PROVE  d \in Category /\ d # on /\ Under(d, on) /\ Moved(d, on, path) = SubSeq(n, 1, Len(path) + j - k)
  <2>1. j \in 1 .. Len(p) /\ j \in Nat /\ k < j
    BY <1>3, <1>6
  <2>2. d \in Category /\ IsCategory(d) /\ categories[d] = SubSeq(p, 1, j) /\ Len(categories[d]) = j
    BY <1>3, <1>5, <1>9, <2>1
  <2>3. d # on
    BY <1>1, <1>6, <2>1, <2>2
  <2>4. categories[d][k] = on
    <3>1. j \in 0 .. Len(p) /\ k \in 1 .. j - 1 + 1 /\ 1 + k - 1 = k
      BY <1>6, <2>1
    <3>2. SubSeq(p, 1, j)[k] = p[1 + k - 1]
      BY <1>3, <3>1, Slice
    <3> QED BY <1>4, <2>2, <3>1, <3>2
  <2>5. Under(d, on)
    BY <1>4, <2>1, <2>2, <2>4, UnderPath
  <2>6. Moved(d, on, path) = path \o SubSeq(SubSeq(p, 1, j), k + 1, j)
    BY <1>1, <1>6, <2>2 DEF Moved
  <2> QED BY <1>8, <2>2, <2>3, <2>5, <2>6
<1>10. n[Len(n)] = c
  <2>1. Len(p) \in k + 1 .. Len(p)
    BY <1>3, <1>6
  <2> QED BY <1>3, <1>8, <2>1
<1>11. \A j \in k + 1 .. Len(p) : n[Len(path) + j - k] = p[j]
  BY <1>8
<1>12. \A j \in k + 1 .. Len(p) :
          LET d == n[Len(path) + j - k]
          IN d \in Category /\ d # on /\ Under(d, on) /\ Moved(d, on, path) = SubSeq(n, 1, Len(path) + j - k)
  BY <1>9, <1>11
<1>13. IsMoved(n, c, on, path, k)
  BY <1>1, <1>6, <1>8, <1>10, <1>12 DEF IsMoved
<1> QED BY <1>6, <1>8, <1>13

(* create_asset_category and the move of update_asset_category keep the      *)
(* paths, and put nothing below a category that place is not below.           *)
LEMMA MovedTree ==
    ASSUME Rooted(categories), NEW on \in Category, NEW place \in Filed,
           place \in Category => IsCategory(place) /\ ~Under(place, on),
           NEW path, path = PathUnder(place, on),
           categories' = [c \in Category |-> IF c = on THEN path
                                             ELSE IF Under(c, on) THEN Moved(c, on, path) ELSE categories[c]]
    PROVE  /\ Rooted(categories)'
           /\ \A c \in Category : IsCategory(c) \/ c = on => IsCategory(c)'
           /\ \A c \in Category : ~Under(c, on) /\ c # on => categories'[c] = categories[c]
           /\ \A c, d \in Category :
                 Under(c, d)' /\ (c = on \/ Under(c, on)) =>
                     d = on \/ Under(d, on) \/ (place \in Category /\ Under(place, d))
<1>1. /\ path \in Seq(Category) /\ Len(path) \in Nat \ {0} /\ path[Len(path)] = on
      /\ SubSeq(path, 1, Len(path)) = path
      /\ \A i \in 1 .. Len(path) - 1 :
            /\ path[i] \in Category /\ IsCategory(path[i]) /\ path[i] # on /\ ~Under(path[i], on)
            /\ categories[path[i]] = SubSeq(path, 1, i)
            /\ place \in Category /\ Under(place, path[i])
  BY PathUnderPlace
<1>2. /\ categories'[on] = path
      /\ \A c \in Category : c # on /\ Under(c, on) => categories'[c] = Moved(c, on, path)
      /\ \A c \in Category : c # on /\ ~Under(c, on) => categories'[c] = categories[c]
  OBVIOUS
<1>3. ASSUME NEW i \in 1 .. Len(path) PROVE categories'[path[i]] = SubSeq(path, 1, i)
  <2>1. CASE i = Len(path)
    BY <1>1, <1>2, <2>1
  <2>2. CASE i # Len(path)
    <3>1. i \in 1 .. Len(path) - 1
      BY <1>1, <2>2
    <3> QED BY <1>1, <1>2, <3>1
  <2> QED BY <2>1, <2>2
<1>4. ASSUME NEW c \in Category, c # on, Under(c, on), NEW n, n = categories'[c]
      PROVE  /\ n \in Seq(Category) /\ Len(n) \in Nat \ {0} /\ n[Len(n)] = c
             /\ \A i \in 1 .. Len(n) :
                   /\ categories'[n[i]] = SubSeq(n, 1, i)
                   /\ \/ n[i] \in Category /\ Under(n[i], on)
                      \/ i \in 1 .. Len(path) /\ n[i] = path[i]
  <2>0. PICK m : m = Len(categories[c])
    OBVIOUS
  <2>1. n = Moved(c, on, path)
    BY <1>2, <1>4
  <2>6. n \in Seq(Category) /\ \E k \in Nat : IsMoved(n, c, on, path, k)
    BY <1>1, <1>4, <2>1, MovedPath
  <2>7. PICK k \in Nat : IsMoved(n, c, on, path, k)
    BY <2>6
  <2>2. /\ Len(n) = Len(path) + m - k /\ k < m
        /\ n[Len(n)] = c
        /\ \A i \in 1 .. Len(path) : n[i] = path[i] /\ SubSeq(n, 1, i) = SubSeq(path, 1, i)
        /\ \A j \in k + 1 .. m :
              LET d == n[Len(path) + j - k]
              IN d \in Category /\ d # on /\ Under(d, on) /\ Moved(d, on, path) = SubSeq(n, 1, Len(path) + j - k)
    BY <2>0, <2>7 DEF IsMoved
  <2>3. m \in Nat
    BY <1>4, <2>0, PathOf DEF Under, IsCategory
  <2>4. Len(n) \in Nat \ {0}
    <3>1. Len(path) \in Nat /\ Len(n) = Len(path) + m - k /\ k < m
      BY <1>1, <2>2
    <3> QED BY <2>3, <3>1
  <2>5. ASSUME NEW i \in 1 .. Len(n)
        PROVE  /\ categories'[n[i]] = SubSeq(n, 1, i)
               /\ \/ n[i] \in Category /\ Under(n[i], on)
                  \/ i \in 1 .. Len(path) /\ n[i] = path[i]
    <3>1. CASE i <= Len(path)
      <4>1. i \in 1 .. Len(path)
        BY <1>1, <2>4, <3>1
      <4> QED BY <1>3, <2>2, <4>1
    <3>2. CASE i > Len(path)
      <4>1. PICK j : j = i - Len(path) + k
        OBVIOUS
      <4>2. j \in k + 1 .. m /\ Len(path) + j - k = i
        BY <1>1, <2>2, <2>3, <2>4, <3>2, <4>1
      <4>3. PICK d : d = n[Len(path) + j - k]
        OBVIOUS
      <4>4. d \in Category /\ d # on /\ Under(d, on) /\ Moved(d, on, path) = SubSeq(n, 1, Len(path) + j - k)
        BY <2>2, <4>2, <4>3
      <4>5. d = n[i] /\ categories'[d] = SubSeq(n, 1, i)
        BY <1>2, <4>2, <4>3, <4>4
      <4> QED BY <4>4, <4>5
    <3>3. i <= Len(path) \/ i > Len(path)
      BY <1>1, <2>4
    <3> QED BY <3>1, <3>2, <3>3
  <2> QED BY <2>2, <2>4, <2>5, <2>6
<1>5. ASSUME NEW c \in Category, c # on, ~Under(c, on), IsCategory(c), NEW n, n = categories'[c]
      PROVE  /\ n \in Seq(Category) /\ Len(n) \in Nat \ {0} /\ n[Len(n)] = c
             /\ \A i \in 1 .. Len(n) : categories'[n[i]] = SubSeq(n, 1, i)
  <2>1. n = categories[c]
    BY <1>2, <1>5
  <2>2. /\ n \in Seq(Category) /\ Len(n) \in Nat \ {0} /\ n[Len(n)] = c
        /\ \A i \in 1 .. Len(n) : n[i] \in Category /\ categories[n[i]] = SubSeq(n, 1, i)
    BY <1>5, <2>1, PathOf DEF IsCategory
  <2>3. ASSUME NEW i \in 1 .. Len(n) PROVE n[i] # on /\ ~Under(n[i], on)
    <3>1. Under(c, n[i])
      BY <1>5, <2>1, <2>2, UnderPath
    <3> QED BY <1>5, <2>2, <3>1, UnderTransitive
  <2> QED BY <1>2, <2>2, <2>3
<1>6. ASSUME NEW c \in Category, categories'[c] \notin {Null, Gone}, NEW n, n = categories'[c]
      PROVE  /\ n \in Seq(Category) /\ Len(n) \in Nat \ {0} /\ n[Len(n)] = c
             /\ \A i \in 1 .. Len(n) : categories'[n[i]] = SubSeq(n, 1, i)
  <2>1. CASE c = on
    BY <1>1, <1>2, <1>3, <1>6, <2>1
  <2>2. CASE c # on /\ Under(c, on)
    <3>1. /\ n \in Seq(Category) /\ Len(n) \in Nat \ {0} /\ n[Len(n)] = c
          /\ \A i \in 1 .. Len(n) :
                /\ categories'[n[i]] = SubSeq(n, 1, i)
                /\ \/ n[i] \in Category /\ Under(n[i], on)
                   \/ i \in 1 .. Len(path) /\ n[i] = path[i]
      BY <1>4, <1>6, <2>2
    <3> QED BY <3>1
  <2>3. CASE c # on /\ ~Under(c, on)
    <3>1. IsCategory(c)
      BY <1>2, <1>6, <2>3 DEF IsCategory
    <3> QED BY <1>5, <1>6, <2>3, <3>1
  <2> QED BY <2>1, <2>2, <2>3
<1>7. Rooted(categories)'
  <2> SUFFICES ASSUME NEW c \in Category, categories'[c] \notin {Null, Gone}, NEW n, n = categories'[c]
               PROVE  /\ n \in Seq(Category) \ {<<>>} /\ Last(n) = c
                      /\ \A i \in DOMAIN n : categories'[n[i]] = SubSeq(n, 1, i)
    BY DEF Rooted
  <2>1. /\ n \in Seq(Category) /\ Len(n) \in Nat \ {0} /\ n[Len(n)] = c
        /\ \A i \in 1 .. Len(n) : categories'[n[i]] = SubSeq(n, 1, i)
    BY <1>6
  <2>2. DOMAIN n = 1 .. Len(n) /\ n # <<>>
    BY <2>1
  <2> QED BY <2>1, <2>2 DEF Last
<1>8. ASSUME NEW c \in Category, IsCategory(c) \/ c = on PROVE IsCategory(c)'
  <2>1. categories'[c] \in Seq(Category)
    BY <1>1, <1>2, <1>4, <1>5, <1>8
  <2> QED BY <2>1, NullsAssumption DEF IsCategory
<1>9. ASSUME NEW c \in Category, NEW d \in Category, Under(c, d)', c = on \/ Under(c, on)
      PROVE  d = on \/ Under(d, on) \/ (place \in Category /\ Under(place, d))
  <2>1. PICK n : n = categories'[c]
    OBVIOUS
  <2>2. n \notin {Null, Gone} /\ categories'[d] \notin {Null, Gone} /\ IsPrefix(categories'[d], n)
    BY <1>9, <2>1 DEF Under, IsCategory
  <2>3. PICK i \in 1 .. Len(n) : n[i] = d
    BY <1>7, <2>1, <2>2, OnPath
  <2>4. \/ n[i] \in Category /\ Under(n[i], on)
        \/ i \in 1 .. Len(path) /\ n[i] = path[i]
    <3>1. CASE c = on
      BY <1>2, <2>1, <3>1
    <3>2. CASE c # on
      BY <1>4, <1>9, <2>1, <3>2
    <3> QED BY <3>1, <3>2
  <2>5. ASSUME i \in 1 .. Len(path), n[i] = path[i]
        PROVE  d = on \/ (place \in Category /\ Under(place, d))
    <3>2. Len(path) \in Nat
      BY <1>1
    <3>1. i = Len(path) \/ i \in 1 .. Len(path) - 1
      BY <2>5, <3>2
    <3> QED BY <1>1, <2>3, <2>5, <3>1
  <2> QED BY <2>3, <2>4, <2>5
<1> QED BY <1>2, <1>7, <1>8, <1>9

-----------------------------------------------------------------------------
(* Commits that change the tree *)

LEMMA CommitCategoryKeeps ==
    ASSUME IndInv, NEW w \in Worker, CommitCategory(w)
    PROVE  IndInv'
<1>0. PICK t : t = txn[w]
  OBVIOUS
<1>1. /\ txn[w] # Idle /\ t \in Txn /\ Fits(t)
      /\ t.op \in {"create_category", "update_category"} /\ t.step = "write"
  BY <1>0, AtStep DEF CommitCategory
<1> SUFFICES ASSUME ~Refuse(w) PROVE IndInv'
  BY RefuseKeeps
<1>2. PICK path : path = PathUnder(t.place, t.on)
  OBVIOUS
<1>3. /\ categories' = [c \in Category |-> IF c = t.on THEN path
                                           ELSE IF Under(c, t.on) THEN Moved(c, t.on, path) ELSE categories[c]]
      /\ required' = [required EXCEPT ![t.on] = IF t.need = "keep" THEN @ ELSE t.need]
      /\ End(w)
      /\ UNCHANGED <<parameter, options, values, units, assets>>
  BY <1>0, <1>2 DEF CommitCategory
<1>4. /\ t.on \in Category /\ t.place \in Filed /\ t.need \in Assignment \union {"keep"}
      /\ PlaceLocked(t) /\ (t.place \in Category => ~Under(t.place, t.on))
      /\ t.op = "create_category" => categories[t.on] = Null
      /\ t.op = "update_category" => IsCategory(t.on) /\ CategoryRow(t.on) \in t.locks /\ TreeLocked(t)
  BY <1>1 DEF Fits, CategoryFits, CategoryOps, Txn
<1>5. /\ Rooted(categories)'
      /\ \A c \in Category : IsCategory(c) \/ c = t.on => IsCategory(c)'
      /\ \A c \in Category : ~Under(c, t.on) /\ c # t.on => categories'[c] = categories[c]
      /\ \A c, d \in Category :
            Under(c, d)' /\ (c = t.on \/ Under(c, t.on)) =>
                d = t.on \/ Under(d, t.on) \/ (t.place \in Category /\ Under(t.place, d))
  BY <1>2, <1>3, <1>4, MovedTree DEF IndInv, TreeFits, PlaceLocked
<1>6. TreeFits'
  BY <1>3, <1>5 DEF IndInv, TreeFits, AssetsAreFiledSomewhere
<1>7. ValuesFit'
  BY <1>3 DEF IndInv, ValuesFit, ValuesAreReadable, Valued, Defined, OptionsNow
<1>8. required' \in [Category -> Assignment]
  <2>1. PICK x : x = IF t.need = "keep" THEN required[t.on] ELSE t.need
    OBVIOUS
  <2>2. required' = [required EXCEPT ![t.on] = x]
    BY <1>3, <2>1
  <2>3. required \in [Category -> Assignment]
    BY DEF IndInv, Typed
  <2>4. x \in Assignment
    BY <1>4, <2>1, <2>3
  <2> QED BY <2>2, <2>3, <2>4
<1>9. DOMAIN categories' = Category
  BY <1>3
<1>10. \A v \in Worker \ {w} : \A u \in {txn[v]} \ {Idle} : Fits(u)'
  <2> SUFFICES ASSUME NEW v \in Worker \ {w}, NEW u, u = txn[v], u # Idle PROVE Fits(u)'
    OBVIOUS
  <2>1. /\ u \in Txn /\ Fits(u) /\ t.locks \intersect u.locks = {}
        /\ t.op = u.op => (t.op = "create_category" => t.on # u.on)
    BY <1>0, <1>1, TheOthers
  <2>2. PlaceLocked(u) => PlaceLocked(u)'
    BY <1>5 DEF PlaceLocked
  \* what another has locked is not moved
  <2>3. ASSUME NEW c \in Category, IsCategory(c), CategoryRow(c) \in u.locks
        PROVE  c # t.on /\ ~Under(c, t.on) /\ categories'[c] = categories[c]
    <3>1. c # t.on
      BY <1>1, <1>4, <2>1, <2>3 DEF IsCategory
    <3>2. ~Under(c, t.on)
      <4>1. CASE t.op = "create_category"
        BY <1>4, <4>1 DEF Under, IsCategory
      <4>2. CASE t.op = "update_category"
        BY <1>4, <2>1, <2>3, <4>2 DEF TreeLocked, TreeOf
      <4> QED BY <1>1, <4>1, <4>2
    <3> QED BY <1>5, <3>1, <3>2
  <2>4. AssetFits(u)'
    <3>1. InputFits(u) => InputFits(u)'
      <4>1. UnitOf(u.def, u.input)' = UnitOf(u.def, u.input)
        BY DEF UnitOf
      <4> QED BY <1>3, <4>1 DEF InputFits, UnitLocked, Measured, Resolved, Defined, OptionsNow
    <3>2. HasValue(u)' <=> HasValue(u)
      BY <1>3 DEF HasValue
    <3>3. u.place \in Category /\ PlaceLocked(u) => required'[u.place] = required[u.place]
      <4> SUFFICES ASSUME u.place \in Category, PlaceLocked(u) PROVE required'[u.place] = required[u.place]
        OBVIOUS
      <4>1. u.place # t.on
        BY <2>3 DEF PlaceLocked
      <4> QED BY <1>3, <1>4, <4>1 DEF IndInv, Typed
    <3> QED BY <1>3, <2>1, <2>2, <3>1, <3>2, <3>3 DEF Fits, AssetFits, Chosen
  <2>5. ParameterFits(u)'
    <3>1. UnitOf(u.def, u.input)' = UnitOf(u.def, u.input)
      BY DEF UnitOf
    <3> QED BY <1>3, <2>1, <3>1 DEF Fits, ParameterFits, UnitLocked, Measured, Defined, Valued
  <2>6. CategoryFits(u)'
    <3> SUFFICES ASSUME u.op \in CategoryOps PROVE CategoryFits(u)'
      BY DEF CategoryFits
    <3>1. u.on \in Category
      BY <2>1 DEF Fits, CategoryFits
    <3>2. CASE u.op = "create_category"
      <4>1. categories[u.on] = Null /\ u.step \in {"parent", "write"}
            /\ (u.step = "write" => PlaceLocked(u))
        BY <2>1, <3>2 DEF Fits, CategoryFits
      <4>2. u.on # t.on
        BY <1>1, <1>4, <2>1, <3>2, <4>1 DEF IsCategory
      <4>3. categories'[u.on] = Null
        BY <1>5, <3>1, <4>1, <4>2 DEF Under, IsCategory
      <4>4. \A c \in Category : ~Under(c, u.on)'
        BY <4>3 DEF Under, IsCategory
      <4> QED BY <2>2, <3>1, <3>2, <4>1, <4>3, <4>4 DEF CategoryFits
    <3>3. CASE u.op \in {"update_category", "delete_category"}
      <4>1. CASE u.step = "category"
        BY <2>1, <3>1, <3>3, <4>1 DEF Fits, CategoryFits
      <4>2. CASE u.step # "category"
        <5>1. IsCategory(u.on) /\ CategoryRow(u.on) \in u.locks
          BY <2>1, <3>3, <4>2 DEF Fits, CategoryFits
        <5>2. u.on # t.on /\ ~Under(u.on, t.on) /\ categories'[u.on] = categories[u.on] /\ IsCategory(u.on)'
          BY <1>5, <2>3, <3>1, <5>1
        <5>3. PlaceLocked(u) /\ u.place \in Category /\ ~Under(u.place, u.on) => ~Under(u.place, u.on)'
          <6> SUFFICES ASSUME PlaceLocked(u), u.place \in Category, ~Under(u.place, u.on)
                       PROVE  ~Under(u.place, u.on)'
            OBVIOUS
          <6>1. categories'[u.place] = categories[u.place]
            BY <2>3 DEF PlaceLocked
          <6> QED BY <5>2, <6>1 DEF Under, IsCategory
        <5>4. TreeLocked(u) => TreeLocked(u)'
          <6> SUFFICES ASSUME TreeLocked(u), NEW c \in Category, Under(c, u.on)'
                       PROVE  CategoryRow(c) \in u.locks
            BY DEF TreeLocked, TreeOf
          <6>1. CASE c = t.on \/ Under(c, t.on)
            <7>1. t.place \in Category /\ Under(t.place, u.on)
              BY <1>5, <3>1, <5>2, <6>1
            <7>2. CategoryRow(t.place) \in u.locks
              BY <7>1 DEF TreeLocked, TreeOf
            <7>3. CategoryRow(t.place) \in t.locks
              BY <1>4, <7>1 DEF PlaceLocked
            <7> QED BY <2>1, <7>2, <7>3
          <6>2. CASE c # t.on /\ ~Under(c, t.on)
            <7>1. categories'[c] = categories[c]
              BY <1>5, <6>2
            <7>2. Under(c, u.on)
              BY <5>2, <7>1 DEF Under, IsCategory
            <7> QED BY <7>2 DEF TreeLocked, TreeOf
          <6> QED BY <6>1, <6>2
        <5> QED BY <2>1, <2>2, <3>1, <3>3, <4>2, <5>1, <5>2, <5>3, <5>4 DEF Fits, CategoryFits
      <4> QED BY <4>1, <4>2
    <3> QED BY <3>2, <3>3 DEF CategoryOps
  <2> QED BY <2>4, <2>5, <2>6 DEF Fits
<1> QED BY <1>3, <1>6, <1>7, <1>8, <1>9, <1>10, Ending DEF IndInv, Typed

LEMMA DeleteCategoriesKeeps ==
    ASSUME IndInv, NEW w \in Worker, DeleteCategories(w)
    PROVE  IndInv'
<1>0. PICK t : t = txn[w]
  OBVIOUS
<1>1. /\ txn[w] # Idle /\ t \in Txn /\ Fits(t) /\ t.op = "delete_category" /\ t.step = "write"
  BY <1>0, AtStep DEF DeleteCategories
<1>2. PICK tree : tree = TreeOf(t.on)
  OBVIOUS
<1>3. /\ assets' = [a \in Asset |-> IF assets[a] \in tree THEN NoCategory ELSE assets[a]]
      /\ categories' = [c \in Category |-> IF c \in tree THEN Gone ELSE categories[c]]
      /\ required' = [c \in Category |-> IF c \in tree THEN "none" ELSE required[c]]
      /\ End(w)
      /\ UNCHANGED <<parameter, options, values, units>>
  BY <1>0, <1>2 DEF DeleteCategories
<1>4. /\ t.on \in Category /\ IsCategory(t.on)
      /\ \A c \in tree : c \in Category /\ IsCategory(c) /\ CategoryRow(c) \in t.locks
  BY <1>1, <1>2 DEF Fits, CategoryFits, CategoryOps, TreeLocked, TreeOf, Under
<1>5. /\ \A c \in Category \ tree : categories'[c] = categories[c] /\ required'[c] = required[c]
      /\ \A c \in tree : ~IsCategory(c)'
      /\ \A a \in Asset : assets[a] \notin tree => assets'[a] = assets[a]
      /\ \A a \in Asset : assets[a] \in tree => assets'[a] = NoCategory
  BY <1>3, <1>4 DEF IsCategory
<1>6. Rooted(categories)'
  <2> SUFFICES ASSUME NEW c \in Category, categories'[c] \notin {Null, Gone}, NEW p, p = categories'[c]
               PROVE  /\ p \in Seq(Category) \ {<<>>} /\ Last(p) = c
                      /\ \A i \in DOMAIN p : categories'[p[i]] = SubSeq(p, 1, i)
    BY DEF Rooted
  <2>1. c \notin tree /\ p = categories[c] /\ IsCategory(c)
    BY <1>5 DEF IsCategory
  <2>2. /\ p \in Seq(Category) \ {<<>>} /\ Last(p) = c
        /\ \A i \in DOMAIN p : categories[p[i]] = SubSeq(p, 1, i)
    BY <2>1 DEF IndInv, TreeFits, Rooted, IsCategory
  <2>3. ASSUME NEW i \in DOMAIN p PROVE p[i] \in Category \ tree
    <3>1. i \in 1 .. Len(p)
      BY <2>2
    <3>2. p[i] \in Category
      BY <2>1, <3>1, PathOf DEF IndInv, TreeFits, IsCategory
    <3>3. Under(c, p[i])
      BY <2>1, <3>1, <3>2, UnderPath DEF IndInv, TreeFits
    <3>4. p[i] \in tree => c \in tree
      BY <1>2, <1>4, <3>2, <3>3, UnderTransitive DEF TreeOf, IndInv, TreeFits
    <3> QED BY <2>1, <3>2, <3>4
  <2> QED BY <1>5, <2>2, <2>3
<1>7. AssetsAreFiledSomewhere'
  <2> SUFFICES ASSUME NEW a \in Asset, assets'[a] \in Category
               PROVE  categories'[assets'[a]] \notin {Null, Gone}
    BY DEF AssetsAreFiledSomewhere, IsCategory
  <2>1. assets[a] \notin tree /\ assets'[a] = assets[a]
    BY <1>5, NullsAssumption
  <2>2. IsCategory(assets[a])
    BY <2>1 DEF IndInv, TreeFits, AssetsAreFiledSomewhere
  <2> QED BY <1>5, <2>1, <2>2 DEF IsCategory
<1>8. ValuesFit'
  <2>1. \A a \in Asset : assets[a] \in Filed => assets'[a] \in Filed
    BY <1>5 DEF Filed
  <2>2. Valued' = Valued /\ Defined' = Defined /\ OptionsNow' = OptionsNow
    BY <1>3 DEF Valued, Defined, OptionsNow
  <2>3. Valued \subseteq Asset
    BY DEF Valued
  <2> QED BY <1>3, <2>1, <2>2, <2>3 DEF IndInv, ValuesFit, ValuesAreReadable
<1>9. /\ required' \in [Category -> Assignment] /\ DOMAIN categories' = Category
      /\ assets' \in [Asset -> Filed \union {Null, Gone}]
  <2>1. required \in [Category -> Assignment] /\ assets \in [Asset -> Filed \union {Null, Gone}]
    BY DEF IndInv, Typed
  <2>2. "none" \in Assignment /\ NoCategory \in Filed
    BY DEF Assignment, Filed
  <2> QED BY <1>3, <2>1, <2>2
<1>10. \A v \in Worker \ {w} : \A u \in {txn[v]} \ {Idle} : Fits(u)'
  <2> SUFFICES ASSUME NEW v \in Worker \ {w}, NEW u, u = txn[v], u # Idle PROVE Fits(u)'
    OBVIOUS
  <2>1. u \in Txn /\ Fits(u) /\ t.locks \intersect u.locks = {}
    BY <1>0, <1>1, TheOthers
  <2>2. ASSUME NEW c \in Category, CategoryRow(c) \in u.locks
        PROVE  c \notin tree /\ categories'[c] = categories[c] /\ required'[c] = required[c]
    BY <1>4, <1>5, <2>1, <2>2
  <2>3. PlaceLocked(u) => PlaceLocked(u)' /\ (u.place \in Category => required'[u.place] = required[u.place])
    BY <2>2 DEF PlaceLocked, IsCategory
  <2>4. AssetFits(u)'
    <3> SUFFICES ASSUME u.op \in AssetOps PROVE AssetFits(u)'
      BY DEF AssetFits
    <3>1. InputFits(u) => InputFits(u)'
      <4>1. UnitOf(u.def, u.input)' = UnitOf(u.def, u.input)
        BY DEF UnitOf
      <4> QED BY <1>3, <4>1 DEF InputFits, UnitLocked, Measured, Resolved, Defined, OptionsNow
    <3>2. HasValue(u)' <=> HasValue(u)
      BY <1>3 DEF HasValue
    <3>3. u.on \in Asset
      BY <2>1 DEF Fits, AssetFits
    <3>4. assets[u.on] = Null => assets'[u.on] = Null
      BY <1>4, <1>5, <3>3, NullsAssumption DEF Filed
    <3>5. assets[u.on] \in Filed => assets'[u.on] \in Filed
      BY <1>5, <3>3 DEF Filed
    <3> QED BY <1>3, <2>1, <2>3, <3>1, <3>2, <3>3, <3>4, <3>5 DEF Fits, AssetFits, Chosen
  <2>5. ParameterFits(u)'
    <3>1. UnitOf(u.def, u.input)' = UnitOf(u.def, u.input)
      BY DEF UnitOf
    <3> QED BY <1>3, <2>1, <3>1 DEF Fits, ParameterFits, UnitLocked, Measured, Defined, Valued
  <2>6. CategoryFits(u)'
    <3> SUFFICES ASSUME u.op \in CategoryOps PROVE CategoryFits(u)'
      BY DEF CategoryFits
    <3>1. u.on \in Category
      BY <2>1 DEF Fits, CategoryFits
    <3>2. \A c, d \in Category : Under(c, d)' => Under(c, d)
      BY <1>5 DEF Under, IsCategory
    <3>3. TreeLocked(u) => TreeLocked(u)'
      BY <3>1, <3>2 DEF TreeLocked, TreeOf
    <3>4. categories[u.on] = Null => categories'[u.on] = Null
      BY <1>4, <1>5, <3>1 DEF IsCategory
    <3>5. IsCategory(u.on) /\ CategoryRow(u.on) \in u.locks => IsCategory(u.on)'
      BY <2>2, <3>1 DEF IsCategory
    <3> QED BY <2>1, <2>3, <3>1, <3>2, <3>3, <3>4, <3>5 DEF Fits, CategoryFits
  <2> QED BY <2>4, <2>5, <2>6 DEF Fits
<1> QED BY <1>3, <1>6, <1>7, <1>8, <1>9, <1>10, Ending DEF IndInv, Typed, TreeFits

-----------------------------------------------------------------------------
(* Every step *)

LEMMA Beginning ==
    ASSUME Init
    PROVE  IndInv
<1>1. PICK s \in Start : /\ parameter = s.parameter /\ values = s.values /\ units = s.units
                        /\ assets = s.assets /\ categories = s.categories
  BY DEF Init
<1>2. /\ options = [o \in Option |-> Null] /\ required = [c \in Category |-> "none"]
      /\ txn = [w \in Worker |-> Idle]
  BY DEF Init
<1>3. /\ parameter \in Definition \union {Null}
      /\ units \in [Unit -> Measure \union {Null}]
      /\ assets \in [Asset -> Filed \union {Null}]
      /\ DOMAIN categories = Category /\ Rooted(categories)
      /\ \A c \in Category : categories[c] # Gone
      /\ \A a \in Asset : assets[a] \in Category => categories[assets[a]] # Null
      /\ values \in [Asset -> Value \union {Null}]
  BY <1>1, StartAssumption
<1>4. \A a \in Valued :
         /\ assets[a] \in Filed
         /\ parameter \in Definition /\ values[a].type = parameter.type
         /\ \/ parameter.type = "text" /\ values[a].text
            \/ parameter.type = "number" /\ values[a].number # Null
         /\ values[a].unit = Null => values[a].base = Null
  BY <1>1, StartAssumption DEF Valued
<1>5. Typed
  BY <1>2, <1>3 DEF Typed, Assignment
<1>6. RequestsFit /\ Exclusive
  BY <1>2 DEF RequestsFit, Exclusive, Holds
<1>7. DistinctDraws
  BY <1>2 DEF DistinctDraws, Idle
<1>8. ValuesFit
  BY <1>4 DEF ValuesFit, ValuesAreReadable, Defined
<1>9. TreeFits
  BY <1>3 DEF TreeFits, AssetsAreFiledSomewhere, IsCategory
<1> QED BY <1>5, <1>6, <1>7, <1>8, <1>9 DEF IndInv

LEMMA Continuing ==
    ASSUME IndInv, NEW w \in Worker, Continues(w)
    PROVE  IndInv'
<1>1. CASE LockAsset(w) \/ LockOwnValue(w) \/ ValidateCategory(w) \/ FetchDefinition(w)
  BY <1>1, LockAssetKeeps, LockOwnValueKeeps, ValidateCategoryKeeps, FetchDefinitionKeeps
<1>2. CASE FetchUnitOfValue(w) \/ ValidateOption(w) \/ ValidateRequired(w)
  BY <1>2, FetchUnitOfValueKeeps, ValidateOptionKeeps, ValidateRequiredKeeps
<1>3. CASE CommitAsset(w) \/ CommitDeleteAsset(w)
  BY <1>3, CommitAssetKeeps, CommitDeleteAssetKeeps
<1>4. CASE LockParameter(w) \/ LockOptions(w) \/ LockAssignments(w) \/ LockValues(w) \/ NormalizeUnit(w)
  BY <1>4, LockParameterKeeps, LockOptionsKeeps, LockAssignmentsKeeps, LockValuesKeeps, NormalizeUnitKeeps
<1>5. CASE CommitNewParameter(w) \/ UpdateParameter(w) \/ CommitDeleteParameter(w)
  BY <1>5, CommitNewParameterKeeps, UpdateParameterKeeps, CommitDeleteParameterKeeps
<1>6. CASE LockCategory(w) \/ LockCategoryAssignments(w) \/ ResolveParent(w)
  BY <1>6, LockCategoryKeeps, LockCategoryAssignmentsKeeps, ResolveParentKeeps
<1>7. CASE LockTree(w) \/ LockFiledAssets(w) \/ CommitCategory(w) \/ DeleteCategories(w)
  BY <1>7, LockTreeKeeps, LockFiledAssetsKeeps, CommitCategoryKeeps, DeleteCategoriesKeeps
<1>8. CASE AbortDeadlocked(w)
  BY <1>8, RefuseKeeps DEF AbortDeadlocked
<1> QED BY <1>1, <1>2, <1>3, <1>4, <1>5, <1>6, <1>7, <1>8 DEF Continues

LEMMA NextKeeps ==
    ASSUME IndInv, [Next]_vars
    PROVE  IndInv'
<1>1. CASE UNCHANGED vars
  <2>1. UNCHANGED <<rows, txn>>
    BY <1>1 DEF vars
  <2>2. Typed'
    BY <2>1 DEF rows, IndInv, Typed
  <2>3. RequestsFit'
    <3> SUFFICES ASSUME NEW w \in Worker, NEW t, t = txn[w], t # Idle PROVE Fits(t)'
      BY <2>1 DEF RequestsFit
    <3> QED BY <2>1, SameRowsSameFit DEF IndInv, RequestsFit
  <2>4. Exclusive' /\ DistinctDraws'
    BY <2>1 DEF IndInv, Exclusive, DistinctDraws, Holds
  <2> QED BY <2>1, <2>2, <2>3, <2>4, SameRowsSameTables DEF IndInv
<1>2. CASE \E w \in Worker : Begins(w)
  <2>1. PICK w \in Worker : Begins(w)
    BY <1>2
  <2>2. CASE \E a \in Asset : BeginAsset(w, a)
    BY <2>2, BeginAssetKeeps
  <2>3. CASE BeginParameter(w)
    BY <2>3, BeginParameterKeeps
  <2>4. CASE \E u \in Unit : CreateUnit(w, u) \/ UpdateUnit(w, u) \/ DeleteUnit(w, u)
    BY <2>4, UnitsKeep
  <2>5. CASE \E c \in Category : BeginCategory(w, c)
    BY <2>5, BeginCategoryKeeps
  <2> QED BY <2>1, <2>2, <2>3, <2>4, <2>5 DEF Begins
<1>3. CASE \E w \in Worker : Continues(w)
  BY <1>3, Continuing
<1> QED BY <1>1, <1>2, <1>3 DEF Next

(* What requests have found out stays true until they end, and what is       *)
(* stored fits: the invariant is inductive.                                   *)
THEOREM Inductive == Spec => []IndInv
<1>1. Init => IndInv
  BY Beginning
<1>2. IndInv /\ [Next]_vars => IndInv'
  BY NextKeeps
<1> QED BY <1>1, <1>2, PTL DEF Spec

-----------------------------------------------------------------------------
(* The properties of Catalogue *)

(* Whatever requests run at once and however they wait for each other: every *)
(* stored value carries the type the parameter has, the column of that type, *)
(* and an option that is there.                                               *)
THEOREM StoredValuesAreReadable == Spec => []ValuesAreReadable
<1>1. IndInv => ValuesAreReadable
  BY DEF IndInv, ValuesFit
<1> QED BY <1>1, Inductive, PTL

(* delete_asset_category_subtree leaves no asset filed under a category that *)
(* is gone, whatever is filed or moved while it runs.                         *)
THEOREM NoAssetInAGoneCategory == Spec => []AssetsAreFiledSomewhere
<1>1. IndInv => AssetsAreFiledSomewhere
  BY DEF IndInv, TreeFits
<1> QED BY <1>1, Inductive, PTL

(* No two transactions have the same row locked.                              *)
THEOREM RowsAreLockedOnce == Spec => []Exclusive
<1>1. IndInv => Exclusive
  BY DEF IndInv
<1> QED BY <1>1, Inductive, PTL

(* An amount and the bounds of a filter, in the unit of the filter.          *)
LEMMA AmountsCompared ==
    ASSUME NEW q \in Query, Acceptable(q), q.kind = "number",
           NEW v \in Value, v.type = "number", v.number # Null, v.unit = Null => v.base = Null, Current(v)
    PROVE  Selects(q, v) <=> Means(q, v)
<1> DEFINE f == FilterUnit(q)
           x == Compared(q, v)
           s == ScaleOf(f)
<1>1. v.number \in Nat /\ v.base \in Nat \union {Null} /\ v.unit \in Unit \union {Null}
  BY DEF Value
<1>2. q.min \in Nat /\ q.max \in Nat
  BY InputsAssumption
<1>3. Selects(q, v) <=> x # Null /\ q.min * s <= x /\ x <= q.max * s
  BY DEF Selects
<1>4. CASE f = Null
  <2>1. x = v.number /\ s = 1 /\ x # Null
    BY <1>4 DEF Compared, ScaleOf
  <2>2. Means(q, v) <=> v.number \in q.min .. q.max
    BY <1>4 DEF Means
  <2> HIDE DEF x, s
  <2>3. q.min * s = q.min /\ q.max * s = q.max
    BY <1>2, <2>1
  <2> QED BY <1>1, <1>2, <1>3, <2>1, <2>2, <2>3
<1>5. CASE f # Null
  <2>1. x = v.number * ScaleOf(v.unit)
    <3>1. CASE v.unit = Null
      BY <1>1, <3>1 DEF Compared, ScaleOf
    <3>2. CASE v.unit # Null
      <4>1. units[v.unit] \in Measure /\ v.base = v.number * units[v.unit].scale
        BY <3>2 DEF Current
      <4>2. units[v.unit].scale \in Nat
        BY <4>1 DEF Measure, Scale
      <4>3. v.number * units[v.unit].scale \in Nat
        BY <1>1, <4>2
      <4>4. v.base # Null
        BY <4>1, <4>3, NullsAssumption
      <4> QED BY <1>5, <3>2, <4>1, <4>4 DEF Compared, ScaleOf
    <3> QED BY <3>1, <3>2
  <2>2. x # Null
    BY <1>1, NullsAssumption DEF Compared
  <2>3. Means(q, v) <=> q.min * s <= v.number * ScaleOf(v.unit) /\ v.number * ScaleOf(v.unit) <= q.max * s
    BY <1>5 DEF Means
  <2> HIDE DEF x, s
  <2> QED BY <1>3, <2>1, <2>2, <2>3
<1> QED BY <1>4, <1>5

(* parameter_filters looks at the columns of the filter's type and never at  *)
(* the type of the row, and compares base amounts: it finds what is meant    *)
(* all the same.                                                              *)
THEOREM SearchesFindWhatIsMeant == Spec => []FiltersFindWhatIsMeant
<1>1. IndInv => FiltersFindWhatIsMeant
  <2> SUFFICES ASSUME IndInv, NEW q \in Query, Acceptable(q), NEW a \in Valued, Current(values[a])
               PROVE  Selects(q, values[a]) <=> Means(q, values[a])
    BY DEF FiltersFindWhatIsMeant
  <2>1. Defined /\ parameter.type = q.kind /\ q.kind \in Type
    BY DEF Acceptable, Defined, Definition
  <2>2. PICK v : v = values[a]
    OBVIOUS
  <2>3. /\ v.type = parameter.type /\ (v.unit = Null => v.base = Null)
        /\ parameter.type = "text" => v.text
        /\ parameter.type = "number" => v.number # Null
        /\ v \in Value
    BY <2>1, <2>2 DEF IndInv, Typed, ValuesFit, ValuesAreReadable, Valued
  <2>4. CASE q.kind = "text"
    BY <2>1, <2>2, <2>3, <2>4 DEF Selects, Means
  <2>5. CASE q.kind = "enum"
    BY <2>1, <2>2, <2>3, <2>5 DEF Selects, Means
  <2>6. CASE q.kind = "number"
    BY <2>1, <2>2, <2>3, <2>6, AmountsCompared
  <2> QED BY <2>1, <2>4, <2>5, <2>6 DEF Type
<1> QED BY <1>1, Inductive, PTL

(* A statement changes the transaction it belongs to, no other. *)
LEMMA OwnTransaction ==
    ASSUME IndInv, NEW w \in Worker, Continues(w)
    PROVE  \A v \in Worker \ {w} : txn'[v] = txn[v]
<1>1. (\E t : GoOn(w, t)) \/ End(w) => \A v \in Worker \ {w} : txn'[v] = txn[v]
  BY DEF GoOn, End, IndInv, Typed
<1>2. Refuse(w) => End(w)
  BY DEF Refuse
<1>3. CASE LockAsset(w) \/ LockOwnValue(w) \/ ValidateCategory(w) \/ FetchDefinition(w)
  BY <1>1, <1>2, <1>3 DEF LockAsset, LockOwnValue, ValidateCategory, FetchDefinition
<1>4. CASE FetchUnitOfValue(w) \/ ValidateOption(w) \/ ValidateRequired(w)
  BY <1>1, <1>2, <1>4 DEF FetchUnitOfValue, ValidateOption, ValidateRequired
<1>5. CASE CommitAsset(w) \/ CommitDeleteAsset(w)
  BY <1>1, <1>2, <1>5 DEF CommitAsset, CommitDeleteAsset
<1>6. CASE LockParameter(w) \/ LockOptions(w) \/ LockAssignments(w) \/ LockValues(w) \/ NormalizeUnit(w)
  BY <1>1, <1>2, <1>6 DEF LockParameter, LockOptions, LockAssignments, LockValues, NormalizeUnit
<1>7. CASE CommitNewParameter(w) \/ UpdateParameter(w) \/ CommitDeleteParameter(w)
  BY <1>1, <1>2, <1>7 DEF CommitNewParameter, UpdateParameter, CommitDeleteParameter
<1>8. CASE LockCategory(w) \/ LockCategoryAssignments(w) \/ ResolveParent(w)
  BY <1>1, <1>2, <1>8 DEF LockCategory, LockCategoryAssignments, ResolveParent
<1>9. CASE LockTree(w) \/ LockFiledAssets(w) \/ CommitCategory(w) \/ DeleteCategories(w)
  BY <1>1, <1>2, <1>9 DEF LockTree, LockFiledAssets, CommitCategory, DeleteCategories
<1>10. CASE AbortDeadlocked(w)
  BY <1>1, <1>2, <1>10 DEF AbortDeadlocked
<1> QED BY <1>3, <1>4, <1>5, <1>6, <1>7, <1>8, <1>9, <1>10 DEF Continues

(* At its last step a request that saves an asset waits for nothing, and      *)
(* ends in the commit only.                                                   *)
LEMMA SavingCommits ==
    ASSUME IndInv, NEW w \in Worker, Next, Saving(w)
    PROVE  CommitAsset(w)
<1>1. txn[w] # Idle /\ txn[w].op \in {"create_asset", "update_asset"} /\ txn[w].step = "write" /\ txn'[w] = Idle
  BY DEF Saving
<1>2. PICK v \in Worker : Begins(v) \/ Continues(v)
  BY DEF Next
<1>3. ~Begins(v)
  <2>1. ASSUME NEW t, Begin(v, t) PROVE FALSE
    BY <1>1, <2>1 DEF Begin, IndInv, Typed
  <2>2. ASSUME NEW u, UnitFree(v, u) PROVE FALSE
    BY <1>1, <2>2 DEF UnitFree
  <2> QED BY <2>1, <2>2 DEF Begins, BeginAsset, BeginParameter, BeginCategory, CreateUnit, UpdateUnit, DeleteUnit
<1>4. v = w
  BY <1>1, <1>2, <1>3, OwnTransaction
<1>5. Blockers(w) = {}
  <2>1. PICK t : t = txn[w]
    OBVIOUS
  <2>2. t \in Txn /\ Fits(t)
    BY <1>1, <2>1, RunningFits
  <2>3. t.need = "keep"
    BY <1>1, <2>1, <2>2 DEF Fits, AssetFits, AssetOps
  <2>4. Wanted(w) = Rows("parameter", IF t.need \in {"own", "below"} THEN {Null} ELSE {})
    BY <1>1, <2>1, WantedRows
  <2>5. Wanted(w) = {}
    BY <2>3, <2>4 DEF Rows
  <2> QED BY <2>5 DEF Blockers
<1>6. \A ops, step : At(w, ops, step) => step = "write" /\ txn[w].op \in ops
  BY <1>1 DEF At
<1>7. ~LockAsset(w) /\ ~LockOwnValue(w) /\ ~ValidateCategory(w) /\ ~FetchDefinition(w)
  BY <1>6 DEF LockAsset, LockOwnValue, ValidateCategory, FetchDefinition
<1>8. ~FetchUnitOfValue(w) /\ ~ValidateOption(w) /\ ~ValidateRequired(w) /\ ~CommitDeleteAsset(w)
  BY <1>1, <1>6 DEF FetchUnitOfValue, ValidateOption, ValidateRequired, CommitDeleteAsset
<1>9. ~LockParameter(w) /\ ~LockOptions(w) /\ ~LockAssignments(w) /\ ~LockValues(w) /\ ~NormalizeUnit(w)
  BY <1>6 DEF LockParameter, LockOptions, LockAssignments, LockValues, NormalizeUnit
<1>10. ~CommitNewParameter(w) /\ ~UpdateParameter(w) /\ ~CommitDeleteParameter(w)
  BY <1>1, <1>6 DEF CommitNewParameter, UpdateParameter, CommitDeleteParameter
<1>11. ~LockCategory(w) /\ ~LockCategoryAssignments(w) /\ ~ResolveParent(w)
  <2>1. ~LockCategory(w)
    BY <1>6 DEF LockCategory
  <2>2. ~LockCategoryAssignments(w)
    <3>1. ~At(w, {"update_category"}, "assignments") /\ ~At(w, {"delete_category"}, "assignments")
      BY <1>6
    <3> QED BY <3>1 DEF LockCategoryAssignments
  <2>3. ~ResolveParent(w)
    BY <1>6 DEF ResolveParent
  <2> QED BY <2>1, <2>2, <2>3
<1>12. ~LockTree(w) /\ ~LockFiledAssets(w)
  BY <1>6 DEF LockTree, LockFiledAssets
<1>13. ~CommitCategory(w) /\ ~DeleteCategories(w)
  BY <1>1, <1>6 DEF CommitCategory, DeleteCategories
<1>14. ~AbortDeadlocked(w)
  BY <1>5 DEF AbortDeadlocked
<1>15. Continues(w)
  BY <1>2, <1>3, <1>4
<1> QED BY <1>7, <1>8, <1>9, <1>10, <1>11, <1>12, <1>13, <1>14, <1>15 DEF Continues

(* validate_required_parameters runs before the commit, and the locks keep   *)
(* what it found true: no asset is saved without the value its own category  *)
(* requires.                                                                  *)
THEOREM NothingIsSavedIncomplete == Spec => RequiredValuesAreThere
<1>1. IndInv /\ [Next]_vars =>
        \A w \in Worker : Saving(w) =>
            LET a == txn[w].on
            IN assets'[a] \in Category /\ required'[assets'[a]] # "none" => values'[a] # Null
  <2> SUFFICES ASSUME IndInv, [Next]_vars, NEW w \in Worker, Saving(w), NEW t, t = txn[w],
                      assets'[t.on] \in Category, required'[assets'[t.on]] # "none"
               PROVE  values'[t.on] # Null
    OBVIOUS
  <2>1. Next
    BY DEF Saving, vars
  <2>2. CommitAsset(w)
    BY <2>1, SavingCommits
  <2>3. At(w, {"create_asset", "update_asset"}, "write")
    BY <2>2 DEF CommitAsset
  <2>4. t.on \in Asset /\ (t.place \in Category /\ required[t.place] # "none" => HasValue(t))
    BY <2>3, Committed
  <2>5. assets'[t.on] = t.place /\ required' = required
    BY <2>2, <2>4 DEF CommitAsset, IndInv, Typed
  <2>6. values'[t.on] = IF t.input.kind = "unsent" THEN values[t.on] ELSE t.value
    BY <2>2, <2>4 DEF CommitAsset, IndInv, Typed
  <2> QED BY <2>4, <2>5, <2>6 DEF HasValue
<1> QED BY <1>1, Inductive, PTL DEF Spec, RequiredValuesAreThere

(* Who writes a value that was not there: the commit of an asset, and a      *)
(* change of the parameter's type.                                            *)
LEMMA OthersWriteNoValue ==
    ASSUME IndInv, NEW w \in Worker, Begins(w) \/ Continues(w), ~CommitAsset(w), ~UpdateParameter(w),
           NEW a \in Asset
    PROVE  values'[a] \in {values[a], Null}
<1>1. \A t : Begin(w, t) \/ GoOn(w, t) => values' = values
  BY DEF Begin, GoOn, rows
<1>2. Refuse(w) \/ (\E u : UnitFree(w, u)) => values' = values
  BY DEF Refuse, rows, UnitFree
<1>3. CASE Begins(w)
  <2>1. (\E t : Begin(w, t)) \/ (\E u : UnitFree(w, u))
    BY <1>3 DEF Begins, BeginAsset, BeginParameter, BeginCategory, CreateUnit, UpdateUnit, DeleteUnit
  <2> QED BY <1>1, <1>2, <2>1
<1>4. CASE LockAsset(w) \/ LockOwnValue(w) \/ ValidateCategory(w) \/ FetchDefinition(w)
  BY <1>1, <1>2, <1>4 DEF LockAsset, LockOwnValue, ValidateCategory, FetchDefinition
<1>5. CASE FetchUnitOfValue(w) \/ ValidateOption(w) \/ ValidateRequired(w)
  BY <1>1, <1>2, <1>5 DEF FetchUnitOfValue, ValidateOption, ValidateRequired
<1>6. CASE LockParameter(w) \/ LockOptions(w) \/ LockAssignments(w) \/ LockValues(w) \/ NormalizeUnit(w)
  BY <1>1, <1>2, <1>6 DEF LockParameter, LockOptions, LockAssignments, LockValues, NormalizeUnit
<1>7. CASE LockCategory(w) \/ LockCategoryAssignments(w) \/ ResolveParent(w)
  BY <1>1, <1>2, <1>7 DEF LockCategory, LockCategoryAssignments, ResolveParent
<1>8. CASE LockTree(w) \/ LockFiledAssets(w) \/ AbortDeadlocked(w)
  BY <1>1, <1>2, <1>8 DEF LockTree, LockFiledAssets, AbortDeadlocked
<1>9. CASE CommitNewParameter(w) \/ CommitCategory(w) \/ DeleteCategories(w)
  BY <1>2, <1>9 DEF CommitNewParameter, CommitCategory, DeleteCategories
<1>10. CASE CommitDeleteAsset(w) \/ CommitDeleteParameter(w)
  BY <1>10 DEF CommitDeleteAsset, CommitDeleteParameter, IndInv, Typed
<1> QED BY <1>3, <1>4, <1>5, <1>6, <1>7, <1>8, <1>9, <1>10 DEF Continues

(* normalize_unit_value reads the definition and the unit long before the    *)
(* commit, and both are still what they were: a new amount is stored in the  *)
(* dimension of the parameter, with the base amount its unit makes of it.    *)
THEOREM NewAmountsFit == Spec => NewValuesFit
<1>1. IndInv /\ [Next]_vars =>
        \A a \in Asset :
            values'[a] # values[a] /\ values'[a] # Null /\ values'[a].type = "number" => Current(values[a])'
  <2> SUFFICES ASSUME IndInv, [Next]_vars, NEW a \in Asset, NEW x, x = values'[a],
                      x # values[a], x # Null, x.type = "number"
               PROVE  x.unit # Null => /\ units'[x.unit] \in Measure
                                       /\ parameter'.dimension = units'[x.unit].dimension
                                       /\ x.base = x.number * units'[x.unit].scale
    BY DEF Current
  <2>1. PICK w \in Worker : Begins(w) \/ Continues(w)
    BY DEF vars, rows, Next
  <2>2. PICK t : t = txn[w]
    OBVIOUS
  <2>3. CASE CommitAsset(w)
    <3>1. At(w, {"create_asset", "update_asset"}, "write")
      BY <2>3 DEF CommitAsset
    <3>2. /\ t.on \in Asset
          /\ t.input.kind # "unsent" /\ t.value # Null => Current(t.value)
      BY <2>2, <3>1, Committed
    <3>3. /\ values' = [values EXCEPT ![t.on] = IF t.input.kind = "unsent" THEN @ ELSE t.value]
          /\ units' = units /\ parameter' = parameter
      BY <2>2, <2>3 DEF CommitAsset
    <3>4. x = t.value /\ t.input.kind # "unsent"
      BY <3>2, <3>3 DEF IndInv, Typed
    <3> QED BY <3>2, <3>3, <3>4 DEF Current
  <2>4. CASE UpdateParameter(w)
    <3>1. ~Refuse(w)
      BY DEF Refuse, rows
    <3>2. /\ parameter' = t.def /\ units' = units
          /\ t.def.type = parameter.type => values' = values
          /\ t.def.type # parameter.type => \A b \in Valued' :
                values'[b].type = "number" /\ values'[b].unit # Null =>
                    /\ Measured(t.def, values'[b].unit)
                    /\ values'[b].base = values'[b].number * units[values'[b].unit].scale
      BY <2>2, <2>4, <3>1, UpdateParameterOutcome
    <3>3. a \in Valued'
      BY DEF Valued
    <3> QED BY <3>2, <3>3 DEF Measured
  <2>5. CASE ~CommitAsset(w) /\ ~UpdateParameter(w)
    BY <2>1, <2>5, OthersWriteNoValue
  <2> QED BY <2>3, <2>4, <2>5
<1> QED BY <1>1, Inductive, PTL DEF Spec, NewValuesFit
=============================================================================
