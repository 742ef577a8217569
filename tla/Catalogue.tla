----------------------------- MODULE Catalogue -----------------------------
(***************************************************************************)
(* The catalogue of one laboratory (routes/asset_parameters,               *)
(* routes/asset_categories, routes/units, the parameter half of            *)
(* routes/assets, shared/parameter_values and shared/parameter_filters):   *)
(* a parameter with its options, the values assets have for it, the units  *)
(* they are measured in, and the categories that require it.               *)
(*                                                                         *)
(* A request is a transaction that locks row after row in the order of the *)
(* code; what it writes becomes visible when it ends.  What a client asks  *)
(* for is chosen when it is first looked at.  Types that are stored and    *)
(* filtered alike stand for each other: number for range, text for boolean *)
(* and date.                                                               *)
(***************************************************************************)
EXTENDS Naturals, FiniteSets, SequencesExt

CONSTANTS Worker, Asset, Category, Unit, Option, Code,
          NoCategory,  \* SQL NULL for a category: an asset in none, a root's parent
          Null, Gone,  \* a row not yet made, or any other SQL NULL; a row deleted
          Number,      \* amounts as clients send them: [amount, unit]
          List,        \* lists of options as clients send them: [id, code]
          Query,       \* filters as clients send them
          Start,       \* laboratories to begin with, and the requests they get
          MaxRequests  \* bound: the requests of a behaviour

ASSUME ListAssumption == \* validate_updated_options refuses the others
    \A l \in List : l \in Seq([id : Option \union {Null}, code : Code]) /\ l # <<>> /\
        \A i, j \in DOMAIN l : i # j => l[i].code # l[j].code /\ (l[i].id # l[j].id \/ l[i].id = Null)
ASSUME RequestsAssumption == MaxRequests \in Nat
ASSUME InputsAssumption ==
    /\ Number \subseteq [amount : Nat, unit : Unit \union {Null}]
    /\ \A q \in Query : q.kind = "number" => q.min \in Nat /\ q.max \in Nat

VARIABLES
    parameter,   \* the row of asset_parameter_types
    options,     \* asset_parameter_options: the code of each
    values,      \* asset_parameter_values of the parameter, by asset
    units,
    assets,      \* the category of each asset
    categories,  \* the path of each category, which ends in itself
    required,    \* asset_parameter_assignments of the parameter, by category
    txn, requests,
    menu         \* the kinds of request of this behaviour

rows == <<parameter, options, values, units, assets, categories, required>>
vars == <<rows, txn, requests, menu>>

Type == {"text", "number", "enum"}
Dimension == {"length", "mass"}
Scale == {1, 2}
Definition == [type : Type, dimension : Dimension \union {Null}, unit : Unit \union {Null}]
Measure == [dimension : Dimension, scale : Scale]
Value == [type : Type, text : BOOLEAN, number : Nat \union {Null}, unit : Unit \union {Null},
          base : Nat \union {Null}, option : Option \union {Null}]
Assignment == {"none", "own", "below"} \* for itself, or for its descendants too
Input == [kind : Type \union {"unsent", "clear"}, number : Number \union {Null},
          option : Option \union {Null}, code : Code \union {Null}]
Filed == Category \union {NoCategory}

ASSUME NullsAssumption ==
    /\ \A null \in {Null, Gone} : null \notin Nat \union Definition \union Measure \union Value
                                  \union Code \union Option \union Unit \union Asset \union Filed
    /\ Null \notin Seq(Category) /\ Gone \notin Seq(Category)
    /\ NoCategory \notin Category /\ Asset \intersect Category = {}

(* The stored path of a category is its parent's, and the category.          *)
Rooted(paths) ==
    \A c \in Category : paths[c] \notin {Null, Gone} =>
        /\ paths[c] \in Seq(Category) \ {<<>>} /\ Last(paths[c]) = c
        /\ \A i \in DOMAIN paths[c] : paths[paths[c][i]] = SubSeq(paths[c], 1, i)

(* Laboratories to begin with are such as requests make them, before the     *)
(* parameter was given options and was required.                              *)
ASSUME StartAssumption ==
    \A s \in Start :
        /\ s.parameter \in Definition \union {Null}
        /\ s.units \in [Unit -> Measure \union {Null}]
        /\ s.assets \in [Asset -> Filed \union {Null}]
        /\ DOMAIN s.categories = Category /\ Rooted(s.categories)
        /\ \A c \in Category : s.categories[c] # Gone
        /\ \A a \in Asset : s.assets[a] \in Category => s.categories[s.assets[a]] # Null
        /\ s.values \in [Asset -> Value \union {Null}]
        /\ \A a \in Asset : s.values[a] # Null =>
              /\ s.assets[a] \in Filed
              /\ s.parameter \in Definition /\ s.values[a].type = s.parameter.type
              /\ \/ s.parameter.type = "text" /\ s.values[a].text
                 \/ s.parameter.type = "number" /\ s.values[a].number # Null
              /\ s.values[a].unit = Null => s.values[a].base = Null

Defined == parameter \in Definition
OptionsNow == {o \in Option : options[o] \in Code}
Valued == {a \in Asset : values[a] # Null}
IsCategory(c) == categories[c] \notin {Null, Gone}
Under(c, d) == IsCategory(c) /\ IsCategory(d) /\ IsPrefix(categories[d], categories[c])
TreeOf(d) == {c \in Category : Under(c, d)}

Lock == {<<"parameter", Null>>} \union ({"option"} \X Option) \union ({"value", "asset"} \X Asset)
        \union ({"unit"} \X Unit) \union ({"category", "assignment"} \X Category)
Ops == {"create_asset", "update_asset", "delete_asset", "create_parameter", "update_parameter",
        "delete_parameter", "create_category", "update_category", "delete_category"}
Steps == {"asset", "values", "category", "definition", "measure", "pick", "required", "parameter",
          "options", "assignments", "unit", "parent", "descend", "assets", "write"}
Idle == [op |-> "idle"]
Txn == [op : Ops, step : Steps, on : Asset \union Category \union {Null}, place : Filed,
        def : Definition \union {Null}, input : Input, value : Value \union {Null},
        need : Assignment \union {"keep"}, locks : SUBSET Lock]

TypeOK ==
    /\ parameter \in Definition \union {Null, Gone}
    /\ options \in [Option -> Code \union {Null, Gone}]
    /\ values \in [Asset -> Value \union {Null}]
    /\ units \in [Unit -> Measure \union {Null, Gone}]
    /\ assets \in [Asset -> Filed \union {Null, Gone}]
    /\ \A c \in Category : IsCategory(c) => categories[c] \in Seq(Category) /\ Last(categories[c]) = c
    /\ required \in [Category -> Assignment]
    /\ \A w \in Worker : txn[w] = Idle \/ txn[w] \in Txn
    /\ requests \in 0 .. MaxRequests

-----------------------------------------------------------------------------
(* Inputs and the rows made of them *)

Nothing == [kind |-> "unsent", number |-> Null, option |-> Null, code |-> Null]
Clear == [Nothing EXCEPT !.kind = "clear"]
Text == [Nothing EXCEPT !.kind = "text"]
Amount(n) == [Nothing EXCEPT !.kind = "number", !.number = n]
Pick(o) == [Nothing EXCEPT !.kind = "enum", !.option = o]
Named(c) == [Nothing EXCEPT !.kind = "enum", !.code = c]
AssetInputs == {Nothing, Clear, Text} \union {Amount(n) : n \in Number} \union {Pick(o) : o \in Option}
Targets(type) == {i \in {Text} \union {Amount(n) : n \in Number} \union {Named(c) : c \in Code} :
                    i.kind = type}

(* normalize_unit_value: the unit sent, or the parameter's. *)
UnitOf(d, i) == IF i.kind # "number" THEN Null
                ELSE IF i.number.unit # Null THEN i.number.unit ELSE d.unit
Measured(d, u) == units[u] \in Measure /\ d.dimension = units[u].dimension

(* resolve_parameter_value: the columns of the type, the others null. *)
Resolved(d, i) ==
    LET u == UnitOf(d, i)
    IN [type |-> d.type, text |-> i.kind = "text",
        number |-> IF i.kind = "number" THEN i.number.amount ELSE Null, unit |-> u,
        base |-> IF u = Null THEN Null ELSE i.number.amount * units[u].scale, option |-> i.option]

(* migrate_asset_parameter_value_in_database: only the columns of the new    *)
(* type are written; a reference to an option does not stay.                  *)
Migrated(old, new) ==
    LET number == new.type = "number"
    IN [type |-> new.type,
        text |-> IF new.type = "text" THEN new.text ELSE old.text,
        number |-> IF number THEN new.number ELSE old.number,
        unit |-> IF number THEN new.unit ELSE old.unit,
        base |-> IF number THEN new.base ELSE old.base,
        option |-> new.option]

(* fetch_required_parameters: by the stored paths. *)
Requires(c) == \/ c # NoCategory /\ required[c] = "own"
               \/ \E d \in Category : c # NoCategory /\ Under(c, d) /\ required[d] = "below"

-----------------------------------------------------------------------------
(* Options.  Statements run one by one under UNIQUE (parameter, code); a     *)
(* violation refuses the request, here as Null.                               *)

WithCode(opts, c) == {o \in Option : opts[o] = c}
SetCode(opts, o, c) ==
    IF WithCode(opts, c) \subseteq {o} THEN [p \in Option |-> IF p = o THEN c ELSE opts[p]] ELSE Null
AddCode(opts, c) == \* bound: there are rows left for new options
    LET unused == WithCode(opts, Null)
    IN IF unused = {} THEN Null ELSE SetCode(opts, CHOOSE o \in unused : TRUE, c)

(* insert_new_options *)
InsertOptions(opts, list) ==
    FoldLeft(LAMBDA acc, e : IF acc = Null THEN Null ELSE AddCode(acc, e.code), opts, list)

(* replace_options: an entry is matched by its id, or by the code an option  *)
(* had before the update.                                                     *)
Matched(e) == IF e.id # Null THEN {e.id} ELSE WithCode(options, e.code)

\* Mutant: what is no longer listed stays.
KeepAll(retained) == options

Kept(retained) == [o \in Option |-> IF o \in OptionsNow \ retained THEN Gone ELSE options[o]]

Replaced(list) ==
    LET kept == Kept(UNION {Matched(list[i]) : i \in DOMAIN list})
        Put(acc, e) ==
            IF acc = Null THEN Null
            ELSE IF Matched(e) # {} THEN SetCode(acc, CHOOSE o \in Matched(e) : TRUE, e.code)
            ELSE AddCode(acc, e.code)
    IN IF \E i \in DOMAIN list : list[i].id # Null /\ list[i].id \notin OptionsNow THEN Null
       ELSE FoldLeft(Put, kept, list)

(* The value-to-option foreign key: an option an asset has picked stays. *)
Droppable(opts) == \A a \in Valued : values[a].option # Null => opts[values[a].option] \in Code

-----------------------------------------------------------------------------
(* Transactions and row locks *)

UnitRow(u) == <<"unit", u>>

Holds(v) == IF txn[v] = Idle THEN {} ELSE txn[v].locks

(* The rows the next statement of w locks, or waits for. *)
Rows(table, ids) == {<<table, id>> : id \in ids}
Requiring == {c \in Category : required[c] # "none"}
FiledIn(tree) == {a \in Asset : assets[a] \in tree}
Wanted(w) ==
    LET t == txn[w]
    IN CASE t.step = "asset" -> Rows("asset", {t.on})
         [] t.step = "values" ->
                Rows("value", IF t.op \in {"update_asset", "delete_asset"} THEN {t.on} \intersect Valued ELSE Valued)
         [] t.step \in {"definition", "parameter"} -> Rows("parameter", {Null})
         [] t.step = "category" -> Rows("category", IF t.on \in Category THEN {t.on} ELSE {t.place} \ {NoCategory})
         [] t.step = "parent" -> Rows("category", {t.place} \ {NoCategory})
         [] t.step = "measure" -> Rows("unit", {UnitOf(t.def, t.input)})
         [] t.step = "pick" -> Rows("option", {t.input.option})
         [] t.step = "options" -> Rows("option", OptionsNow)
         [] t.step = "unit" -> Rows("unit", {t.def.unit})
         [] t.step = "descend" -> Rows("category", TreeOf(t.on))
         [] t.step = "assignments" ->
                Rows("assignment", CASE t.op = "delete_parameter" -> Requiring
                                     [] t.op = "update_category" -> {t.on}
                                     [] OTHER -> TreeOf(t.on))
         [] t.step = "assets" -> Rows("asset", FiledIn(TreeOf(t.on)))
         \* an assignment takes a share of the parameter it refers to
         [] t.step = "write" -> Rows("parameter", IF t.need \in {"own", "below"} THEN {Null} ELSE {})
         [] OTHER -> {}
Blockers(w) == IF txn[w] = Idle THEN {}
               ELSE {v \in Worker \ {w} : Wanted(w) \intersect Holds(v) # {}}
At(w, ops, step) == txn[w] # Idle /\ txn[w].op \in ops /\ txn[w].step = step /\ Blockers(w) = {}
Locked(w, step) == [txn[w] EXCEPT !.locks = @ \union Wanted(w), !.step = step]
Unlocked(w, step) == [txn[w] EXCEPT !.step = step]

Request(op, step, on) ==
    [op |-> op, step |-> step, on |-> on, place |-> NoCategory, def |-> Null, input |-> Nothing,
     value |-> Null, need |-> "keep", locks |-> {}]
Begin(w, t) == /\ txn[w] = Idle /\ requests < MaxRequests /\ t.op \in menu
               /\ requests' = requests + 1
               /\ txn' = [txn EXCEPT ![w] = t]
               /\ UNCHANGED <<rows, menu>>
GoOn(w, t) == txn' = [txn EXCEPT ![w] = t] /\ UNCHANGED <<rows, requests, menu>>
End(w) == txn' = [txn EXCEPT ![w] = Idle] /\ UNCHANGED <<requests, menu>>
Refuse(w) == End(w) /\ UNCHANGED rows \* an error answer, and ROLLBACK

(* A uuid is drawn for one insert only. *)
Undrawn(id) == \A v \in Worker : txn[v] # Idle => txn[v].on # id

-----------------------------------------------------------------------------
(* create_asset, update_asset, delete_asset *)

BeginAsset(w, a) ==
    \/ assets[a] \in Filed /\ Begin(w, Request("update_asset", "asset", a))
    \/ assets[a] \in Filed /\ Begin(w, Request("delete_asset", "asset", a))
    \/ /\ assets[a] = Null /\ Undrawn(a)
       /\ \E c \in Filed : Begin(w, [Request("create_asset", "category", a) EXCEPT !.place = c])

(* fetch_asset_for_update *)
LockAsset(w) ==
    /\ At(w, {"update_asset", "delete_asset"}, "asset")
    /\ IF assets[txn[w].on] \in Filed THEN GoOn(w, Locked(w, "values")) ELSE Refuse(w)

(* fetch_parameter_values_for_asset_for_update; the category an update does   *)
(* not name is the one it has.                                                *)
LockOwnValue(w) ==
    \/ /\ At(w, {"update_asset"}, "values")
       /\ \E c \in Filed : GoOn(w, [Locked(w, "category") EXCEPT !.place = c])
    \/ /\ At(w, {"delete_asset"}, "values")
       /\ GoOn(w, Locked(w, "write"))

(* validate_category *)
\* Mutant: the category is read without FOR UPDATE.
SeeCategory(w) ==
    LET t == txn[w]
    IN /\ At(w, {"create_asset", "update_asset"}, "category")
       /\ IF t.place \in Category /\ ~IsCategory(t.place) THEN Refuse(w)
          ELSE \E i \in AssetInputs :
                  /\ t.op = "create_asset" => i # Clear
                  /\ GoOn(w, [Unlocked(w, IF i = Nothing THEN "required" ELSE "definition")
                              EXCEPT !.input = i])

ValidateCategory(w) ==
    LET t == txn[w]
    IN /\ At(w, {"create_asset", "update_asset"}, "category")
       /\ IF t.place \in Category /\ ~IsCategory(t.place) THEN Refuse(w)
          ELSE \E i \in AssetInputs :
                  /\ t.op = "create_asset" => i # Clear
                  /\ GoOn(w, [Locked(w, IF i = Nothing THEN "required" ELSE "definition")
                              EXCEPT !.input = i])

(* fetch_parameter_definitions, and the parse of the value it asks for. *)
NextOfInput(d, i) ==
    IF i.kind = "enum" THEN "pick" ELSE IF UnitOf(d, i) # Null THEN "measure" ELSE "required"
\* Mutant: the definition is read without FOR UPDATE.
SeeDefinition(w) ==
    LET i == txn[w].input
    IN /\ At(w, {"create_asset", "update_asset"}, "definition")
       /\ IF i = Clear THEN GoOn(w, Unlocked(w, "required"))
          ELSE IF ~Defined \/ parameter.type # i.kind THEN Refuse(w)
          ELSE GoOn(w, [Unlocked(w, NextOfInput(parameter, i)) EXCEPT
                          !.def = parameter,
                          !.value = IF NextOfInput(parameter, i) = "required"
                                    THEN Resolved(parameter, i) ELSE Null])

FetchDefinition(w) ==
    LET i == txn[w].input
    IN /\ At(w, {"create_asset", "update_asset"}, "definition")
       /\ IF i = Clear THEN GoOn(w, Locked(w, "required"))
          ELSE IF ~Defined \/ parameter.type # i.kind THEN Refuse(w)
          ELSE GoOn(w, [Locked(w, NextOfInput(parameter, i)) EXCEPT
                          !.def = parameter,
                          !.value = IF NextOfInput(parameter, i) = "required"
                                    THEN Resolved(parameter, i) ELSE Null])

(* fetch_unit and the dimension check, for a value of an asset and for one   *)
(* that a change of type rewrites.                                            *)
\* Mutant: the unit is read without FOR UPDATE.
SeeUnitOfValue(w) ==
    LET t == txn[w]
    IN /\ At(w, Ops, "measure")
       /\ IF Measured(t.def, UnitOf(t.def, t.input))
          THEN GoOn(w, [Unlocked(w, IF t.op = "update_parameter" THEN "write" ELSE "required")
                        EXCEPT !.value = Resolved(t.def, t.input)])
          ELSE Refuse(w)

FetchUnitOfValue(w) ==
    LET t == txn[w]
    IN /\ At(w, Ops, "measure")
       /\ IF Measured(t.def, UnitOf(t.def, t.input))
          THEN GoOn(w, [Locked(w, IF t.op = "update_parameter" THEN "write" ELSE "required")
                        EXCEPT !.value = Resolved(t.def, t.input)])
          ELSE Refuse(w)

ValidateOption(w) ==
    LET t == txn[w]
    IN /\ At(w, Ops, "pick")
       /\ IF t.input.option \in OptionsNow
          THEN GoOn(w, [Locked(w, "required") EXCEPT !.value = Resolved(t.def, t.input)])
          ELSE Refuse(w)

(* validate_required_parameters, which sees what the request itself wrote. *)
HasValue(t) == IF t.input.kind = "unsent" THEN values[t.on] # Null ELSE t.value # Null
ValidateRequired(w) ==
    /\ At(w, Ops, "required")
    /\ IF Requires(txn[w].place) /\ ~HasValue(txn[w]) THEN Refuse(w)
       ELSE GoOn(w, Unlocked(w, "write"))

(* insert_asset or update_asset_in_database, upsert_asset_parameter_value or *)
(* delete_asset_parameter_value, and the commit.                              *)
CommitAsset(w) ==
    LET t == txn[w]
    IN /\ At(w, {"create_asset", "update_asset"}, "write")
       /\ assets' = [assets EXCEPT ![t.on] = t.place]
       /\ values' = [values EXCEPT ![t.on] = IF t.input.kind = "unsent" THEN @ ELSE t.value]
       /\ End(w)
       /\ UNCHANGED <<parameter, options, units, categories, required>>

(* delete_asset_from_database; the values go by cascade. *)
CommitDeleteAsset(w) ==
    /\ At(w, {"delete_asset"}, "write")
    /\ assets' = [assets EXCEPT ![txn[w].on] = Gone]
    /\ values' = [values EXCEPT ![txn[w].on] = Null]
    /\ End(w)
    /\ UNCHANGED <<parameter, options, units, categories, required>>

-----------------------------------------------------------------------------
(* create_asset_parameter, update_asset_parameter, delete_asset_parameter *)

(* Only numbers have units; the unit comes first and names the dimension. *)
Configured == {d \in Definition : d.type # "number" => d.dimension = Null /\ d.unit = Null}

BeginParameter(w) ==
    \/ /\ parameter = Null
       /\ \A v \in Worker : txn[v] # Idle => txn[v].op # "create_parameter"
       /\ \E d \in Configured :
             Begin(w, [Request("create_parameter", IF d.unit = Null THEN "write" ELSE "unit", Null)
                       EXCEPT !.def = d])
    \/ Defined /\ Begin(w, Request("update_parameter", "parameter", Null))
    \/ Defined /\ Begin(w, Request("delete_parameter", "parameter", Null))

(* fetch_asset_parameter_for_update *)
LockParameter(w) ==
    /\ At(w, Ops, "parameter")
    /\ IF Defined THEN GoOn(w, Locked(w, "options")) ELSE Refuse(w)

(* fetch_asset_parameter_options_for_update, and what the update asks for:   *)
(* if the type changes the values are next, else the unit configuration.      *)
LockOptions(w) ==
    \/ /\ At(w, {"update_parameter"}, "options")
       /\ \E d \in Configured :
             GoOn(w, [Locked(w, IF d.type # parameter.type THEN "values"
                                ELSE IF d.unit # Null THEN "unit" ELSE "write") EXCEPT !.def = d])
    \/ /\ At(w, {"delete_parameter"}, "options")
       /\ GoOn(w, Locked(w, "assignments"))

(* fetch_asset_parameter_assignments_for_update, for the delete. *)
LockAssignments(w) ==
    /\ At(w, {"delete_parameter"}, "assignments")
    /\ GoOn(w, Locked(w, "values"))

(* fetch_asset_parameter_values_for_update, and what the values become. *)
NextOfTarget(d, i) == IF UnitOf(d, i) # Null THEN "measure" ELSE "write"
LockValues(w) ==
    LET d == txn[w].def
    IN \/ /\ At(w, {"update_parameter"}, "values")
          /\ \E i \in Targets(d.type) :
                GoOn(w, [Locked(w, IF d.unit # Null THEN "unit"
                                   ELSE IF Valued # {} THEN NextOfTarget(d, i) ELSE "write")
                         EXCEPT !.input = i])
       \/ /\ At(w, {"delete_parameter"}, "values")
          /\ GoOn(w, Locked(w, "write"))

(* normalize_unit_configuration: the default unit decides the dimension. *)
NormalizeUnit(w) ==
    LET t == txn[w]
        retyped == t.input # Nothing /\ Valued # {}
    IN /\ At(w, {"create_parameter", "update_parameter"}, "unit")
       /\ IF units[t.def.unit] \in Measure /\ t.def.dimension \in {Null, units[t.def.unit].dimension}
          THEN GoOn(w, [Locked(w, IF retyped THEN NextOfTarget(t.def, t.input) ELSE "write")
                        EXCEPT !.def.dimension = units[t.def.unit].dimension])
          ELSE Refuse(w)

(* insert_asset_parameter and insert_new_options. *)
CommitNewParameter(w) ==
    LET d == txn[w].def
    IN /\ At(w, {"create_parameter"}, "write")
       /\ parameter' = d
       /\ IF d.type = "enum" THEN \E l \in List : /\ \A i \in DOMAIN l : l[i].id = Null
                                                  /\ options' = InsertOptions(options, l)
          ELSE UNCHANGED options
       /\ End(w)
       /\ UNCHANGED <<values, units, assets, categories, required>>

(* update_asset_parameter_in_database, apply_option_updates and              *)
(* migrate_parameter_values.  kept are the values with a target, the others  *)
(* are migrated to null.                                                      *)
OptionsFor(t, list) ==
    IF t.def.type # "enum" THEN [o \in Option |-> IF o \in OptionsNow THEN Gone ELSE options[o]]
    ELSE IF list # Null THEN Replaced(list) ELSE options
WithTarget(opts, c) == IF WithCode(opts, c) = {} THEN AddCode(opts, c) ELSE opts
MigratedTo(t, opts) ==
    IF t.def.type = "enum"
    THEN Resolved(t.def, Pick(CHOOSE o \in WithCode(opts, t.input.code) : TRUE))
    ELSE Resolved(t.def, t.input)

UpdateParameter(w) ==
    LET t == txn[w]
        retyped == t.def.type # parameter.type
        enum == t.def.type = "enum"
    IN /\ At(w, {"update_parameter"}, "write")
       /\ \E list \in List \union {Null}, kept \in SUBSET Valued :
             LET listed == OptionsFor(t, list)
                 final == IF listed # Null /\ retyped /\ enum /\ kept # {}
                          THEN WithTarget(listed, t.input.code) ELSE listed
                 moved == [a \in Asset |-> IF a \in kept THEN Migrated(values[a], MigratedTo(t, final))
                                           ELSE IF retyped THEN Null ELSE values[a]]
             IN /\ retyped \/ kept = {}
                /\ list # Null => enum
                /\ IF \/ final = Null
                      \/ enum /\ retyped /\ list = Null /\ kept = {}
                      \/ ~retyped /\ ~Droppable(final)
                   THEN Refuse(w)
                   ELSE /\ parameter' = t.def
                        /\ options' = final
                        /\ values' = moved
                        /\ End(w)
                        /\ UNCHANGED <<units, assets, categories, required>>

(* delete_asset_parameter_from_database; the rest goes by cascade. *)
CommitDeleteParameter(w) ==
    /\ At(w, {"delete_parameter"}, "write")
    /\ parameter' = Gone
    /\ options' = [o \in Option |-> IF o \in OptionsNow THEN Gone ELSE options[o]]
    /\ values' = [a \in Asset |-> Null]
    /\ required' = [c \in Category |-> "none"]
    /\ End(w)
    /\ UNCHANGED <<units, assets, categories>>

-----------------------------------------------------------------------------
(* units: one row, locked and written.  Nothing that was computed with a     *)
(* unit follows its change.                                                   *)

UnitFree(w, u) == /\ txn[w] = Idle /\ requests < MaxRequests /\ "unit" \in menu
                  /\ \A v \in Worker : UnitRow(u) \notin Holds(v)
                  /\ requests' = requests + 1
                  /\ UNCHANGED <<parameter, options, values, assets, categories, required, txn, menu>>
CreateUnit(w, u) ==
    /\ UnitFree(w, u) /\ units[u] = Null
    /\ \E m \in Measure : units' = [units EXCEPT ![u] = m]
UpdateUnit(w, u) ==
    /\ UnitFree(w, u) /\ units[u] \in Measure
    /\ \E m \in Measure \ {units[u]} : units' = [units EXCEPT ![u] = m]

(* A unit is referred to by what is stored, whatever the type of it now. *)
InUse(u) == (Defined /\ parameter.unit = u) \/ \E a \in Valued : values[a].unit = u
DeleteUnit(w, u) ==
    /\ UnitFree(w, u) /\ units[u] \in Measure
    /\ units' = IF InUse(u) THEN units ELSE [units EXCEPT ![u] = Gone]

-----------------------------------------------------------------------------
(* create_asset_category, update_asset_category, delete_asset_category *)

BeginCategory(w, c) ==
    \/ /\ categories[c] = Null /\ Undrawn(c)
       /\ \E p \in Filed, n \in Assignment :
             Begin(w, [Request("create_category", "parent", c) EXCEPT !.place = p, !.need = n])
    \/ IsCategory(c) /\ Begin(w, Request("update_category", "category", c))
    \/ IsCategory(c) /\ Begin(w, Request("delete_category", "category", c))

(* fetch_asset_category_for_update *)
LockCategory(w) ==
    /\ At(w, {"update_category", "delete_category"}, "category")
    /\ IF ~IsCategory(txn[w].on) THEN Refuse(w)
       ELSE GoOn(w, Locked(w, IF txn[w].op = "update_category" THEN "assignments" ELSE "descend"))

(* fetch_asset_category_parameter_assignments(_for_categories)_for_update,   *)
(* and what an update asks for.                                               *)
LockCategoryAssignments(w) ==
    \/ /\ At(w, {"update_category"}, "assignments")
       /\ \E p \in Filed, n \in Assignment \union {"keep"} :
             GoOn(w, [Locked(w, "parent") EXCEPT !.place = p, !.need = n])
    \/ /\ At(w, {"delete_category"}, "assignments")
       /\ GoOn(w, Locked(w, "assets"))

(* resolve_new_parent and resolve_moved_parent. *)
ResolveParent(w) ==
    LET t == txn[w]
    IN /\ At(w, {"create_category", "update_category"}, "parent")
       /\ IF t.place # NoCategory /\ (~IsCategory(t.place) \/ Under(t.place, t.on)) THEN Refuse(w)
          ELSE GoOn(w, Locked(w, IF t.op = "create_category" THEN "write" ELSE "descend"))

(* fetch_asset_category_tree_for_update, or the rows of update_descendant_paths. *)
LockTree(w) ==
    /\ At(w, {"update_category", "delete_category"}, "descend")
    /\ GoOn(w, Locked(w, IF txn[w].op = "update_category" THEN "write" ELSE "assignments"))

(* clear_asset_categories_in_tree waits for the assets filed there. *)
LockFiledAssets(w) ==
    /\ At(w, {"delete_category"}, "assets")
    /\ GoOn(w, Locked(w, "write"))

(* build_path_and_depth, update_descendant_paths and                         *)
(* replace_parameter_assignments.                                             *)
PathUnder(p, c) == IF p = NoCategory THEN <<c>> ELSE Append(categories[p], c)
Moved(c, on, path) == path \o SubSeq(categories[c], Len(categories[on]) + 1, Len(categories[c]))
CommitCategory(w) ==
    LET t == txn[w]
        path == PathUnder(t.place, t.on)
    IN /\ At(w, {"create_category", "update_category"}, "write")
       /\ IF t.need \in {"own", "below"} /\ ~Defined THEN Refuse(w)
          ELSE /\ categories' = [c \in Category |-> IF c = t.on THEN path
                                                    ELSE IF Under(c, t.on) THEN Moved(c, t.on, path) ELSE categories[c]]
               /\ required' = [required EXCEPT ![t.on] = IF t.need = "keep" THEN @ ELSE t.need]
               /\ End(w)
               /\ UNCHANGED <<parameter, options, values, units, assets>>

(* delete_asset_category_subtree; assignments go by cascade. *)
\* Mutant: only the assets of the category itself are taken out of it.
ClearOwnAssets(w) ==
    LET tree == TreeOf(txn[w].on)
    IN /\ At(w, {"delete_category"}, "write")
       /\ assets' = [a \in Asset |-> IF assets[a] = txn[w].on THEN NoCategory ELSE assets[a]]
       /\ categories' = [c \in Category |-> IF c \in tree THEN Gone ELSE categories[c]]
       /\ required' = [c \in Category |-> IF c \in tree THEN "none" ELSE required[c]]
       /\ End(w)
       /\ UNCHANGED <<parameter, options, values, units>>

DeleteCategories(w) ==
    LET tree == TreeOf(txn[w].on)
    IN /\ At(w, {"delete_category"}, "write")
       /\ assets' = [a \in Asset |-> IF assets[a] \in tree THEN NoCategory ELSE assets[a]]
       /\ categories' = [c \in Category |-> IF c \in tree THEN Gone ELSE categories[c]]
       /\ required' = [c \in Category |-> IF c \in tree THEN "none" ELSE required[c]]
       /\ End(w)
       /\ UNCHANGED <<parameter, options, values, units>>

(* Two transactions that lock the same rows in different orders: one goes. *)
AbortDeadlocked(w) ==
    /\ \E v \in Blockers(w) : w \in Blockers(v)
    /\ Refuse(w)

-----------------------------------------------------------------------------
(* parameter_filters: what a search with one filter answers *)

(* filter_unit_id *)
FilterUnit(q) == IF q.unit # Null THEN q.unit ELSE parameter.unit

(* normalize_filter and resolve_filter_unit *)
Acceptable(q) ==
    /\ Defined /\ parameter.type = q.kind
    /\ q.kind = "number" =>
          /\ q.min <= q.max
          /\ IF FilterUnit(q) = Null THEN parameter.dimension = Null
             ELSE Measured(parameter, FilterUnit(q))

(* scale_value, and the column it is compared with. *)
ScaleOf(u) == IF u = Null THEN 1 ELSE units[u].scale
\* Mutant: amounts are compared as they were entered.
AsEntered(q, v) == v.number

Compared(q, v) == IF FilterUnit(q) # Null /\ v.base # Null THEN v.base ELSE v.number

(* push_parameter_filters: the columns of the filter's type, and no look at  *)
(* the type of the row.                                                       *)
Selects(q, v) ==
    CASE q.kind = "text" -> v.text
      [] q.kind = "enum" -> v.option = q.option
      [] q.kind = "number" ->
            LET x == Compared(q, v)
                s == ScaleOf(FilterUnit(q))
            IN x # Null /\ q.min * s <= x /\ x <= q.max * s

-----------------------------------------------------------------------------
Init ==
    /\ \E s \in Start : /\ menu = s.menu
                       /\ parameter = s.parameter
                       /\ values = s.values
                       /\ units = s.units
                       /\ assets = s.assets
                       /\ categories = s.categories
    /\ options = [o \in Option |-> Null]
    /\ required = [c \in Category |-> "none"]
    /\ txn = [w \in Worker |-> Idle]
    /\ requests = 0

Begins(w) ==
    \/ \E a \in Asset : BeginAsset(w, a)
    \/ BeginParameter(w)
    \/ \E u \in Unit : CreateUnit(w, u) \/ UpdateUnit(w, u) \/ DeleteUnit(w, u)
    \/ \E c \in Category : BeginCategory(w, c)

Continues(w) ==
    \/ LockAsset(w) \/ LockOwnValue(w) \/ ValidateCategory(w) \/ FetchDefinition(w)
    \/ FetchUnitOfValue(w) \/ ValidateOption(w) \/ ValidateRequired(w)
    \/ CommitAsset(w) \/ CommitDeleteAsset(w)
    \/ LockParameter(w) \/ LockOptions(w) \/ LockAssignments(w) \/ LockValues(w)
    \/ NormalizeUnit(w) \/ CommitNewParameter(w) \/ UpdateParameter(w) \/ CommitDeleteParameter(w)
    \/ LockCategory(w) \/ LockCategoryAssignments(w) \/ ResolveParent(w)
    \/ LockTree(w) \/ LockFiledAssets(w) \/ CommitCategory(w) \/ DeleteCategories(w)
    \/ AbortDeadlocked(w)

Next == \E w \in Worker : Begins(w) \/ Continues(w)

Spec == Init /\ [][Next]_vars

-----------------------------------------------------------------------------
(* Properties *)

(* update_asset_parameter: "every stored value carries the parameter's data  *)
(* type", in a foreign key looked at only at the commit, and the column of    *)
(* that type and the option it names are there: nothing that is stored is     *)
(* unreadable, whatever is written while the type changes.                    *)
ValuesAreReadable ==
    \A a \in Valued :
        /\ Defined /\ values[a].type = parameter.type
        /\ CASE parameter.type = "text" -> values[a].text
             [] parameter.type = "number" -> values[a].number # Null
             [] parameter.type = "enum" -> values[a].option \in OptionsNow

(* normalize_unit_value reads the definition and the unit long before the    *)
(* commit: a new amount is stored in the dimension the parameter has by then, *)
(* and its base amount is what its unit makes of it by then.                  *)
Current(v) == v.unit # Null => /\ units[v.unit] \in Measure
                               /\ parameter.dimension = units[v.unit].dimension
                               /\ v.base = v.number * units[v.unit].scale
NewValuesFit ==
    [][\A a \in Asset :
          values'[a] # values[a] /\ values'[a] # Null /\ values'[a].type = "number"
              => Current(values[a])']_vars

(* A filter finds the values that mean what it asks for, also among values   *)
(* that were rewritten for another type and carry the columns of both, and in *)
(* whichever unit they were entered.                                          *)
Means(q, v) ==
    /\ v.type = q.kind
    /\ CASE q.kind = "text" -> TRUE
         [] q.kind = "enum" -> v.option = q.option
         [] q.kind = "number" ->
               IF FilterUnit(q) = Null THEN v.number \in q.min .. q.max
               ELSE /\ q.min * ScaleOf(FilterUnit(q)) <= v.number * ScaleOf(v.unit)
                    /\ v.number * ScaleOf(v.unit) <= q.max * ScaleOf(FilterUnit(q))
FiltersFindWhatIsMeant ==
    \A q \in Query : Acceptable(q) =>
        \A a \in Valued : Current(values[a]) => (Selects(q, values[a]) <=> Means(q, values[a]))

(* validate_required_parameters runs before the commit: whatever becomes of  *)
(* the category, its assignments and the values meanwhile, an asset is not    *)
(* saved without the value its own category requires.                         *)
Saving(w) == /\ txn[w] # Idle
             /\ txn[w].op \in {"create_asset", "update_asset"} /\ txn[w].step = "write"
             /\ txn'[w] = Idle
RequiredValuesAreThere ==
    [][\A w \in Worker : Saving(w) =>
          LET a == txn[w].on
          IN assets'[a] \in Category /\ required'[assets'[a]] # "none" => values'[a] # Null]_vars

(* delete_asset_category_subtree: "category_id is cleared first so the delete *)
(* cannot fail on the foreign key".                                           *)
AssetsAreFiledSomewhere == \A a \in Asset : assets[a] \in Category => IsCategory(assets[a])

(* replace_options: the options end as the list says, if the list names all  *)
(* of them by id or none.                                                     *)
Listed(l) == {l[i].code : i \in DOMAIN l}
PlainListsAreFollowed ==
    \A l \in List :
        (/\ Defined /\ parameter.type = "enum" /\ Replaced(l) # Null
         /\ \A i, j \in DOMAIN l : l[i].id = Null <=> l[j].id = Null)
            => {Replaced(l)[o] : o \in Option} \ {Null, Gone} = Listed(l)

(* Its comment promises as much of every list: "Whatever is matched survives; *)
(* everything else is dropped".                                               *)
OptionsFollowTheList ==
    \A l \in List :
        Defined /\ parameter.type = "enum" /\ Replaced(l) # Null
            => {Replaced(l)[o] : o \in Option} \ {Null, Gone} = Listed(l)

(* docs/architecture.md: a search converts units, so what is stored in one   *)
(* unit is found in another.                                                  *)
StoredAmountsAreCurrent == \A a \in Valued : values[a].type = "number" => Current(values[a])
=============================================================================
