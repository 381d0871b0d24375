--------------------------- MODULE PresetComposer ---------------------------
(***************************************************************************)
(* The functions of the web application's preset composer (apps/ui/src/    *)
(* core and components/app/presets): the form built from a definition, its *)
(* default values, what makes it ready, the payload it becomes, and where  *)
(* the errors that come back are shown.  The laws set them against the     *)
(* checks of PresetValidation.                                             *)
(*                                                                         *)
(* Values are those of PresetValidation, and a File that is not uploaded.  *)
(***************************************************************************)
EXTENDS PresetValidation

Upload == [t |-> "file"]
Blanks == {Undefined, Text("")}

\* "1,5": parseFloat() stops at the comma, the form reads it as a decimal point.
Decimal(s, n, dotted) == Digits(s, n) @@ [dotted |-> dotted]

Or(v, otherwise) == IF v = Undefined THEN otherwise ELSE v

-----------------------------------------------------------------------------
(* preset-payload.ts.                                                      *)

NumericInputTypes == {"number", "integer", "slider"}

NormalizeNumericPresetValue(v) ==
    LET n == IF Opt(v, "dotted") = Undefined THEN v.n ELSE v.dotted
    IN  IF Is(v, "string") /\ v.s # "" /\ n # Undefined THEN Num(n) ELSE v

\* Number(""), which a blank weight becomes, is 0.
SerializedWeight(w) ==
    LET x == IF w = Undefined THEN w ELSE NormalizeNumericPresetValue(w)
    IN  IF x = Text("") THEN Num(0) ELSE x

NormalizeSubAlgorithmEntries(v) ==
    LET entry(e) ==
            Object([algorithm_key |-> Or(Opt(e.o, "algorithm_key"), Text("")),
                    algorithm_version |-> Or(Opt(e.o, "algorithm_version"), Text("")),
                    weight |-> SerializedWeight(Opt(e.o, "weight")),
                    inputs |-> [t |-> "inputs", list |-> MapSeq(e.o.inputs.list, LAMBDA i :
                        [i EXCEPT !.value = IF @ \in {Undefined, Upload} THEN Text("") ELSE @])]])
    IN  IF Is(v, "array") THEN List(MapSeq(v.items, LAMBDA e : IF e.t = "object" THEN entry(e) ELSE e)) ELSE v

SerializePresetInputValue(input, form, fallback) ==
    LET numeric(v) == IF input.type \in NumericInputTypes THEN NormalizeNumericPresetValue(v) ELSE v
    IN  CASE form = Upload -> Text("")
          [] form # Upload /\ input.type = "array" ->
                 IF Is(form, "array") THEN form ELSE Or(fallback, Or(form, Text("")))
          [] form # Upload /\ input.type = "sub_algorithm" ->
                 NormalizeSubAlgorithmEntries(IF Is(form, "array") THEN form ELSE Or(fallback, form))
          [] OTHER -> numeric(IF form \in Blanks THEN Or(fallback, Text("")) ELSE form)

BuildPresetInputsFromForm(inputs, data, existing) ==
    MapSeq(inputs, LAMBDA i : Input(i.key, SerializePresetInputValue(i, Opt(data, i.key), Opt(existing, i.key))))

-----------------------------------------------------------------------------
(* schema-builder.ts, form-defaults.ts and build-composer-defaults.ts.     *)

\* The form's field of a definition's input: the input is found by its key or its
\* label, strings become texts or selects, and a file is always required.
TransformInputToFormInput(input, def) ==
    LET full == Find(def.inputs, LAMBDA i : i.key = input.key \/ Opt(i, "label") = Or(Opt(input, "label"), input.key), input)
        type == IF input.type # "string" THEN input.type
                ELSE IF Opt(full, "widget") = "select" THEN "select" ELSE "text"
    IN  [k \in {"key", "type", "required"} |->
            CASE k = "key" -> input.key [] k = "type" -> type
              [] OTHER -> input.type = "csv" \/ full.required] @@ full

\* The details every preset has.
NameInput == Field("name", "text")
DescriptionInput == Field("description", "text")

BuildSchemaFromAlgorithm(def) ==
    MapSeq(def.inputs, LAMBDA i : TransformInputToFormInput(i, def)) \o <<NameInput, DescriptionInput>>

\* An array of rows starts with its least number of empty rows.
BuildArrayDefaultRow(field) ==
    Object([k \in {p.key : p \in ToSet(field.item)} |->
        Or(Opt(Find(field.item, LAMBDA p : p.key = k, Undefined), "default"), Text(""))])

EmptyValue(field) ==
    CASE field.type = "sub_algorithm" -> List(<<>>)
      [] field.type = "array" ->
             IF Opt(field, "item") = Undefined \/ Opt(field, "catalog") # Undefined THEN List(<<>>)
             ELSE List([i \in 1..Or(Opt(field, "minItems"), 1) |-> BuildArrayDefaultRow(field)])
      [] field.type \in NumericInputTypes -> Text("")
      [] OTHER -> IF field.required THEN Text("") ELSE Undefined

GetDefaultValues(schema, given) ==
    LET value(f) == Or(Opt(given, f.key), Or(Opt(f, "default"), EmptyValue(f)))
    IN  [k \in {schema[i].key : i \in DOMAIN schema} |->
            LET f == Find(schema, LAMBDA x : x.key = k, Undefined)
            IN  IF f.type \in NumericInputTypes THEN NormalizeNumericPresetValue(value(f)) ELSE value(f)]

\* A stored input the definition does not have is dropped.
BuildComposerDefaults(def, preset) ==
    LET known == SelectSeq(preset, LAMBDA p : \E f \in ToSet(def.inputs) : f.key = p.key)
    IN  GetDefaultValues(BuildSchemaFromAlgorithm(def), Payload(known))

\* buildChildInputsArray
BuildChildInputsArray(def, shared) ==
    MapSeq(SelectSeq(def.inputs, LAMBDA i : i.key \notin shared),
           LAMBDA i : Input(i.key, Or(Opt(i, "default"), IF i.type = "array" THEN List(<<>>) ELSE Text(""))))

\* Mutant: the inputs are rebuilt from the definition.
SyncChildInputsAfresh(entry, def, shared) ==
    [entry EXCEPT !.o.inputs.list = BuildChildInputsArray(def, shared)]

\* The effect of SubAlgorithmCard: inputs that are not the definition's, in its order,
\* are merged into it.
SyncChildInputs(entry, def, shared) ==
    [entry EXCEPT !.o.inputs.list =
        LET expected == BuildChildInputsArray(def, shared)
            keys(s) == MapSeq(s, LAMBDA i : i.key)
            kept(e) == Find(entry.o.inputs.list, LAMBDA i : i.key = e.key /\ i.value # Undefined, e)
        IN  IF keys(entry.o.inputs.list) = keys(expected) THEN @ ELSE MapSeq(expected, kept)]

\* getSelectableChildAlgorithms: the definitions a composition may use.
GetSelectableChildAlgorithms(definitions) == {k \in DOMAIN definitions : definitions[k].kind # "combined"}

-----------------------------------------------------------------------------
(* composer-readiness.ts.                                                  *)

\* Mutant: a chosen file is as good as an uploaded one.
IsValueFilledByFile(v) == v \notin Blanks /\ (Is(v, "array") => v.items # <<>>)

IsValueFilled(v) == v \notin Blanks \cup {Upload} /\ (Is(v, "array") => v.items # <<>>)

IsSubAlgorithmEntryReady(e, definitions) ==
    LET def == Opt(definitions, e.o.algorithm_key.s)
        values == Payload(e.o.inputs.list)
    IN  /\ e.t = "object" /\ e.o.algorithm_key # Text("") /\ e.o.algorithm_version # Text("")
        /\ \/ def = Undefined \/ def.version # e.o.algorithm_version.s
           \/ \A i \in ToSet(def.inputs) : i.required => IsValueFilled(Opt(values, i.key))

HasRequiredValue(field, v, definitions) ==
    /\ v \notin Blanks
    /\ field.type \in {"csv", "json"} => v # Upload
    /\ field.type \in {"array", "sub_algorithm"} /\ Is(v, "array") => Len(v.items) >= Or(Opt(field, "minItems"), 1)
    /\ field.type = "sub_algorithm" => /\ Is(v, "array")
                                       /\ \A i \in DOMAIN v.items : IsSubAlgorithmEntryReady(v.items[i], definitions)

ComputeFieldReadiness(schema, values, errors, definitions) ==
    MapSeq(SelectSeq(schema, LAMBDA f : f.required \/ f.key \in errors),
           LAMBDA f : [key |-> f.key,
                       status |-> IF f.key \in errors THEN "error"
                                  ELSE IF HasRequiredValue(f, Opt(values, f.key), definitions) THEN "done" ELSE "missing"])

\* The submit button, of the review panel and of the action bar; invalid are the
\* fields the form's own schema refuses.
IsSubmitDisabled(readiness, uploading, invalid, submitting) ==
    submitting \/ uploading # {} \/ invalid # {} \/ \E i \in DOMAIN readiness : readiness[i].status # "done"

MaxListedReasons == 4

\* Mutant: a field with an error gives no reason.
BuildDisableReasonsMissing(readiness, uploading, submitting) ==
    [listed |-> SetToSeq(uploading) \o MapSeq(SelectSeq(readiness, LAMBDA r : r.status = "missing"), LAMBDA r : r.key),
     hidden |-> 0]

BuildDisableReasons(readiness, uploading, submitting) ==
    LET reasons == SetToSeq(uploading) \o MapSeq(SelectSeq(readiness, LAMBDA r : r.status # "done"), LAMBDA r : r.key)
    IN  CASE submitting -> [listed |-> <<>>, hidden |-> 0]
          [] ~submitting /\ Len(reasons) > MaxListedReasons ->
                 [listed |-> SubSeq(reasons, 1, MaxListedReasons), hidden |-> Len(reasons) - MaxListedReasons]
          [] OTHER -> [listed |-> reasons, hidden |-> 0]

\* The form's resolver: in the browser a file input may hold a File; Upload is one of the
\* right type and size.
FormFieldOk(field, v) ==
    IF field.type \in {"csv", "json"} THEN FileRefOk(v) \/ v = Upload ELSE FieldOk(field, v)

-----------------------------------------------------------------------------
(* preset-groups.ts.                                                       *)

\* Mutant: an input no section names is left out.
GetInputGroupsNamed(sections, schema) ==
    SelectSeq(MapSeq(sections, LAMBDA s : SelectSeq(s, LAMBDA k : \E f \in ToSet(schema) : f.key = k)), LAMBDA s : s # <<>>)

\* The algorithm's sections are sequences of keys.  What no section names goes to the
\* last one.
GetInputGroups(sections, schema) ==
    LET config == SelectSeq(schema, LAMBDA f : f.key \notin {"name", "description"})
        keys == MapSeq(config, LAMBDA f : f.key)
        groups == SelectSeq(MapSeq(sections, LAMBDA s : SelectSeq(s, LAMBDA k : k \in ToSet(keys))),
                            LAMBDA s : s # <<>>)
        uncovered == SelectSeq(keys, LAMBDA k : \A i \in DOMAIN groups : k \notin ToSet(groups[i]))
    IN  IF groups = <<>> THEN IF keys = <<>> THEN <<>> ELSE <<keys>>
        ELSE [groups EXCEPT ![Len(groups)] = @ \o uncovered]

-----------------------------------------------------------------------------
(* Laws.                                                                   *)

\* A standalone definition and a composition of it.
FormDef ==
    [key |-> "plain", version |-> "1", kind |-> "standalone", rules |-> {},
     inputs |-> <<Field("days", "integer") @@ [min |-> 1, default |-> Num(3)], Field("votes", "csv"),
                  Field("ids", "array") @@ [minItems |-> 1]>>]
FormDefinitions == [plain |-> FormDef, votes |-> VotesDef, custom |-> CustomDef({})]
StoredInputs == [days |-> Num(2), votes |-> Text("old"), ids |-> List(<<Text("r9")>>)]
FormEntries ==
    {Entry(Text(k), w, inputs) :
        k \in {"votes", "gone", ""}, w \in {Num(1), Text(""), Undefined, Decimal("1,5", 1, 2)},
        inputs \in {<<>>} \cup {<<Input("votes", v)>> : v \in {Upload, Text(""), Text("key")}}}
NamedValues == [name |-> Text("name"), description |-> Text("about it")]

ProbeForm ==
    /\ Unprobed
    /\ \/ \E days \in {Undefined, Text(""), Num(0), Num(1), Decimal("1,5", 1, 2)}, votes \in {Undefined, Text(""), Upload, Text("key")},
             ids \in {Undefined, List(<<>>), List(<<Text("r1")>>), List(<<Text("r1"), Text("r1")>>)}, stored \in {<<>>, StoredInputs} :
              probe' = [kind |-> "form", def |-> FormDef, existing |-> stored,
                        values |-> [days |-> days, votes |-> votes, ids |-> ids] @@ NamedValues]
       \/ \E entries \in BoundedSeq(FormEntries, 2) :
              probe' = [kind |-> "form", def |-> CustomDef({}), existing |-> <<>>,
                        values |-> [sub_algorithms |-> List(entries)] @@ NamedValues]

StoredEntries ==
    {Entry(Text("plain"), w, inputs) : w \in {Num(2), Digits("2", 2)},
        inputs \in {<<Input("days", d), Input("votes", Text("key")), Input("ids", List(<<Text("r1")>>))>> : d \in {Num(1), Digits("4", 4)}}
              \cup {<<Input("ids", List(<<Text("r1")>>)), Input("votes", Text("key")), Input("days", Num(1))>>}}
    \cup {Entry(Text("votes"), Num(1), <<Input("votes", Text("key"))>>)}

ProbeEdit ==
    /\ Unprobed
    /\ \/ \E days \in {Num(1), Digits("4", 4)}, order \in {<<1, 2, 3>>, <<3, 1, 2>>} :
              LET given == <<Input("days", days), Input("votes", Text("key")), Input("ids", List(<<Text("r1")>>))>>
              IN  probe' = [kind |-> "edit", def |-> FormDef, preset |-> [i \in 1..3 |-> given[order[i]]]]
       \/ \E entries \in BoundedSeq(StoredEntries, 2) :
              /\ entries # <<>>
              /\ probe' = [kind |-> "edit", def |-> CustomDef({}), preset |-> <<Input("sub_algorithms", List(entries))>>]

ProbeSections ==
    /\ Unprobed
    /\ \E sections \in BoundedSeq({<<"days">>, <<"votes", "gone">>, <<"ids">>, <<"gone">>}, 3) :
           /\ IsInjective(sections)
           /\ probe' = [kind |-> "sections", sections |-> sections]

\* The button is enabled only for a form whose payload the shared validator accepts as
\* far as the definition goes: nothing required is missing at either level and no file
\* that is still to be uploaded is sent as an empty string (composer-readiness.ts and
\* preset-payload.ts against validatePayload).
ReadyFormSubmits ==
    probe.kind = "form" =>
        LET schema == BuildSchemaFromAlgorithm(probe.def)
            invalid == {f.key : f \in {f \in ToSet(schema) : ~FormFieldOk(f, Opt(probe.values, f.key))}}
            readiness == ComputeFieldReadiness(schema, probe.values, invalid, FormDefinitions)
            inputs == BuildPresetInputsFromForm(probe.def.inputs, probe.values, probe.existing)
            sent == Payload(inputs)
            child(e) == Opt(FormDefinitions, e.o.algorithm_key.s)
            filled(def, values) == \A i \in ToSet(def.inputs) : Opt(values, i.key) \notin Blanks
        IN  ~IsSubmitDisabled(readiness, {}, invalid, FALSE) =>
                /\ SchemaErrors([key |-> probe.def.key, version |-> "1", inputs |-> inputs]) = {}
                /\ ValidatePayload(probe.def, sent).errors = {}
                /\ filled(probe.def, sent)
                /\ probe.def.kind = "combined" => \A i \in DOMAIN sent["sub_algorithms"].items :
                       LET e == sent["sub_algorithms"].items[i]
                       IN  child(e) # Undefined => filled(child(e), Payload(e.o.inputs.list))

\* A disabled button says why: when the form's errors are shown, the reasons are empty
\* only if the button is enabled, and the ones not listed are counted
\* (buildDisableReasons).
DisabledSaysWhy ==
    probe.kind = "form" => \A uploading \in SUBSET {"votes", "sub_algorithms.0"} :
        LET schema == BuildSchemaFromAlgorithm(probe.def)
            invalid == {f.key : f \in {f \in ToSet(schema) : ~FormFieldOk(f, Opt(probe.values, f.key))}}
            readiness == ComputeFieldReadiness(schema, probe.values, invalid, FormDefinitions)
            reasons == BuildDisableReasons(readiness, uploading, FALSE)
        IN  /\ reasons.listed = <<>> <=> ~IsSubmitDisabled(readiness, uploading, invalid, FALSE)
            /\ Len(reasons.listed) + reasons.hidden =
                   Cardinality(uploading) + Cardinality({i \in DOMAIN readiness : readiness[i].status # "done"})

\* Opening a stored preset and saving it unchanged stores the same values: defaults,
\* the rows' synchronisation with their definitions and the payload lose and replace
\* nothing, and numbers stored as text keep their number.
EditKeepsValues ==
    probe.kind = "edit" =>
        LET synced(form) ==
                IF probe.def.kind # "combined" THEN form
                ELSE [form EXCEPT !["sub_algorithms"].items = MapSeq(@, LAMBDA e :
                         SyncChildInputs(e, FormDefinitions[e.o.algorithm_key.s], {}))]
            saved == BuildPresetInputsFromForm(probe.def.inputs, synced(BuildComposerDefaults(probe.def, probe.preset)),
                                               Payload(probe.preset))
            known(e) == Payload(e.o.inputs.list)
            sameEntries(old, new) ==
                /\ Len(old) = Len(new)
                /\ \A i \in DOMAIN old :
                       /\ new[i].o.algorithm_key = old[i].o.algorithm_key /\ new[i].o.weight = old[i].o.weight
                       /\ known(new[i]) = known(old[i])
                       /\ old[i].o.algorithm_key.s \in GetSelectableChildAlgorithms(FormDefinitions)
            same(before, after) ==
                /\ after.errors = before.errors
                /\ before.errors = {} =>
                       IF probe.def.kind # "combined" THEN after.data = before.data
                       ELSE sameEntries(before.data["sub_algorithms"].items, after.data["sub_algorithms"].items)
        IN  same(ValidatePayload(probe.def, Payload(probe.preset)), ValidatePayload(probe.def, Payload(saved)))

\* Every input of the definition is in exactly one section of the form, whatever the
\* sections name (getInputGroups).
EveryInputShownOnce ==
    probe.kind = "sections" =>
        LET groups == GetInputGroups(probe.sections, BuildSchemaFromAlgorithm(FormDef))
            shown == FlattenSeq(groups)
        IN  IsInjective(shown) /\ ToSet(shown) = {f.key : f \in ToSet(FormDef.inputs)}

-----------------------------------------------------------------------------
(* The composer's larger fields (apps/ui/src/core/fields): rows with       *)
(* dependent options, the resource selector, the community picker, the     *)
(* weights of a composition; and where the API's errors are shown          *)
(* (components/app/presets/error-utils.ts, composer/composer-errors.ts).   *)
(* What a user does to a field is a sequence of edits, each enabled as the *)
(* field's controls are.                                                   *)

-----------------------------------------------------------------------------
(* repeater-field.tsx.  A row maps its properties to strings.              *)

UiOptionMatchesContext(prop, option, row) ==
    IF option.filters # Undefined THEN \A k \in DOMAIN option.filters : Opt(row, k) = option.filters[k]
    ELSE option.filterBy = Undefined \/ Opt(row, Or(Opt(prop, "dependsOn"), "chain")) = option.filterBy

GetVisibleOptions(prop, row) == {o \in prop.options : UiOptionMatchesContext(prop, o, row)}

\* null when a part is missing.
BuildUniqueKey(row, uniqueBy) ==
    IF uniqueBy = {} \/ \E k \in uniqueBy : row[k] = "" THEN Undefined ELSE [k \in uniqueBy |-> row[k]]

\* An option that would repeat another row's key is disabled.
OptionEnabled(rows, i, prop, option, uniqueBy) ==
    LET key == BuildUniqueKey([rows[i] EXCEPT ![prop.key] = option.value], uniqueBy)
    IN  key = Undefined \/ \A j \in DOMAIN rows \ {i} : BuildUniqueKey(rows[j], uniqueBy) # key

BuildDefaultRow(field) == [k \in {p.key : p \in ToSet(field.item)} |-> ""]

\* Mutant: what depends on the changed property keeps its value.
HandleDependentChangeNone(field, row, changed) == row

\* Everything that depends on the changed property is reset.
HandleDependentChange(field, row, changed) ==
    [k \in DOMAIN row |->
        IF Opt(Find(field.item, LAMBDA p : p.key = k, Undefined), "dependsOn") = changed THEN "" ELSE row[k]]

\* RepeaterFieldBase: an edit that its controls do not offer changes nothing.
EditRows(field, rows, edit) ==
    CASE edit.do = "append" -> Append(rows, BuildDefaultRow(field))
      [] edit.do = "remove" ->
             IF edit.row \in DOMAIN rows /\ Len(rows) > field.minItems THEN RemoveAt(rows, edit.row) ELSE rows
      [] edit.do = "pick" ->
             LET prop == Find(field.item, LAMBDA p : p.key = edit.prop, Undefined)
             IN  IF /\ edit.row \in DOMAIN rows
                    /\ \E o \in GetVisibleOptions(prop, rows[edit.row]) :
                          o.value = edit.value /\ OptionEnabled(rows, edit.row, prop, o, field.uniqueBy)
                 THEN [rows EXCEPT ![edit.row] =
                          HandleDependentChange(field, [@ EXCEPT ![edit.prop] = edit.value], edit.prop)]
                 ELSE rows

-----------------------------------------------------------------------------
(* resource-selector-field.  A selection is a sequence of chain:resource   *)
(* pairs; unlisted are the stored pairs the catalog no longer has, in the  *)
(* order localeCompare gives them.                                         *)

BuildSelectionOrder(catalog, unlisted) ==
    [p \in ToSet(catalog \o unlisted) |-> CHOOSE i \in DOMAIN (catalog \o unlisted) : (catalog \o unlisted)[i] = p]

SortResourceSelections(selections, catalog, unlisted) ==
    LET order == BuildSelectionOrder(catalog, unlisted)
    IN  SortSeq(selections, LAMBDA a, b : order[a] < order[b])

\* Mutant: the new selection goes last.
ToggleSelectionUnsorted(selections, pair, checked, catalog, unlisted) ==
    IF checked THEN Append(selections, pair) ELSE SelectSeq(selections, LAMBDA s : s # pair)

ToggleSelection(selections, pair, checked, catalog, unlisted) ==
    LET sorted == SortResourceSelections(selections, catalog, unlisted)
    IN  SortResourceSelections(IF checked THEN Append(sorted, pair) ELSE SelectSeq(sorted, LAMBDA s : s # pair),
                               catalog, unlisted)

\* The rows of the panels: every entry of the catalog, ticked or not.
BuildResourceSelectorPanels(catalog, selections) ==
    MapSeq(catalog, LAMBDA p : [pair |-> p, selected |-> p \in ToSet(selections)])

-----------------------------------------------------------------------------
(* community-resources-field.  A listing                                   *)
(* maps the ids of a connection to whether the bot can read them.          *)

BuildResourcePickerModel(listing, selected) ==
    [readableIds |-> {r \in DOMAIN listing : listing[r]},
     unavailable |-> SelectSeq(selected, LAMBDA r : r \notin DOMAIN listing),
     selectedUnreadable |-> {r \in DOMAIN listing : ~listing[r] /\ r \in ToSet(selected)}]

\* Mutant: all that is listed is selected.
SelectAllListed(listing, selected) == selected \o SetToSeq(DOMAIN listing \ ToSet(selected))

SelectAll(listing, selected) ==
    selected \o SetToSeq(BuildResourcePickerModel(listing, selected).readableIds \ ToSet(selected))

\* A row the bot cannot read can only be deselected.
EditSelection(listing, selected, edit) ==
    LET without == SelectSeq(selected, LAMBDA r : r # edit.id)
        model == BuildResourcePickerModel(listing, selected)
    IN  CASE edit.do = "tick" -> IF Opt(listing, edit.id) = TRUE THEN Append(without, edit.id) ELSE selected
          [] edit.do = "untick" -> without
          [] edit.do = "all" -> SelectAll(listing, selected)
          [] edit.do = "clear" -> <<>>
          [] edit.do = "dropUnreadable" -> SelectSeq(selected, LAMBDA r : r \notin model.selectedUnreadable)

-----------------------------------------------------------------------------
(* computeWeightShares: a share is [of, total], Undefined when it cannot   *)
(* be computed.                                                            *)

\* Mutant: a weight of zero has a share.
PositiveWeightOrZero(w) ==
    LET x == IF w = Undefined THEN w ELSE NormalizeNumericPresetValue(w)
    IN  IF Is(x, "number") /\ x.n >= 0 THEN x.n ELSE Undefined

PositiveWeight(w) ==
    LET x == IF w = Undefined THEN w ELSE NormalizeNumericPresetValue(w)
    IN  IF Is(x, "number") /\ x.n > 0 THEN x.n ELSE Undefined

ComputeWeightShares(weights) ==
    LET parsed == MapSeq(weights, PositiveWeight)
        total == SumSeq(SelectSeq(parsed, LAMBDA w : w # Undefined))
    IN  MapSeq(parsed, LAMBDA w : IF w = Undefined THEN Undefined ELSE [of |-> w, total |-> total])

-----------------------------------------------------------------------------
(* Errors of a refused save.  A field is [root, row, child]: row 0 for the *)
(* input itself, child the key of a child's input.  A payload is [errors,  *)
(* text, nested]: entries of its own, its message, and the same one level  *)
(* down when the message is an object.                                     *)

General == [root |-> "_general", row |-> 0, child |-> Undefined]

ValidationEntries(payload) ==
    Or(payload.errors, <<>>) \o IF payload.nested = Undefined THEN <<>> ELSE Or(payload.nested.errors, <<>>)

\* The messages of the entries; without any, the message, then the Error's own.
ExtractApiErrorMessages(payload, own) ==
    LET entries == FlattenSeq(MapSeq(ValidationEntries(payload), LAMBDA e : e.messages))
        texts == IF payload.nested = Undefined THEN Or(payload.text, <<>>) ELSE Or(payload.nested.text, <<>>)
    IN  ToSet(IF entries # <<>> THEN entries ELSE IF texts # <<>> THEN texts ELSE Or(own, <<>>))

ExtractApiFieldErrors(payload, own) ==
    LET entries == UNION {{[field |-> e.field, message |-> e.messages[i]] : i \in DOMAIN e.messages} :
                          e \in ToSet(ValidationEntries(payload))}
    IN  IF entries # {} THEN entries
        ELSE {[field |-> General, message |-> m] : m \in ExtractApiErrorMessages(payload, own)}

\* Mutant: a child's error is shown at the input of the same number in the definition.
ResolveErrorPathFirst(field, values, formKeys) ==
    IF field.root \notin formKeys THEN Undefined
    ELSE IF field.child = Undefined THEN [root |-> field.root, row |-> field.row, at |-> 0]
    ELSE [root |-> field.root, row |-> field.row, at |-> 1]

\* The form addresses a child's input by its position in the row.
ResolveErrorPath(field, values, formKeys) ==
    LET rows == Opt(values, field.root)
        inputs == IF Is(rows, "array") /\ field.row \in DOMAIN rows.items THEN rows.items[field.row].o.inputs.list ELSE <<>>
        at == SelectInSeq(inputs, LAMBDA i : i.key = field.child)
    IN  IF field.root \notin formKeys \/ (field.child # Undefined /\ at = 0) THEN Undefined
        ELSE [root |-> field.root, row |-> field.row, at |-> IF field.child = Undefined THEN 0 ELSE at]

\* applyApiErrorsToForm, and the composer's own message when nothing is left to say.
ApplyApiErrorsToForm(payload, own, values, formKeys) ==
    LET errors == ExtractApiFieldErrors(payload, own)
        path(e) == ResolveErrorPath(e.field, values, formKeys)
        general == {e.message : e \in {e \in errors : path(e) = Undefined}}
    IN  [fields |-> {[path |-> path(e), error |-> e] : e \in {e \in errors : path(e) # Undefined}},
         general |-> IF general = {} THEN {"Could not save the preset. Try again."} ELSE general]

-----------------------------------------------------------------------------
(* Laws.                                                                   *)

RowsField ==
    [key |-> "selected", type |-> "array", required |-> TRUE, minItems |-> 1, uniqueBy |-> {"chain", "resource_key"},
     item |-> <<Field("chain", "string") @@
                  [options |-> {[value |-> c, filters |-> Undefined, filterBy |-> Undefined] : c \in {"ethereum", "cardano"}}],
                Field("resource_key", "string") @@
                  [dependsOn |-> "chain",
                   options |-> {[value |-> "agi", filters |-> Undefined, filterBy |-> "ethereum"],
                                [value |-> "fet", filters |-> [chain |-> "cardano"], filterBy |-> Undefined]}]>>]
RowEdits ==
    {[do |-> "append"]} \cup {[do |-> "remove", row |-> i] : i \in 1..2}
    \cup {[do |-> "pick", row |-> i, prop |-> "chain", value |-> c] : i \in 1..2, c \in {"ethereum", "cardano"}}
    \cup {[do |-> "pick", row |-> i, prop |-> "resource_key", value |-> k] : i \in 1..2, k \in {"agi", "fet"}}

ProbeRowEdits ==
    /\ Unprobed
    /\ \E edits \in [1..3 -> RowEdits] :
           probe' = [kind |-> "rowEdits", edits |-> <<[do |-> "append"]>> \o edits]

Pairs == <<"e:fet", "e:agi", "c:fet">>
Unlisted == <<"x:1", "x:2">>

ProbeToggles ==
    /\ Unprobed
    /\ \E stored \in BoundedSeq({"c:fet", "x:2", "x:1"}, 2), toggles \in BoundedSeq(ToSet(Pairs), 3) :
           IsInjective(stored) /\ probe' = [kind |-> "toggles", stored |-> stored, toggles |-> toggles]

Listings == {[r1 |-> TRUE, r2 |-> FALSE], [r1 |-> FALSE, r2 |-> TRUE], [r2 |-> TRUE]}
SelectionEdits ==
    {[do |-> d, id |-> r] : d \in {"tick", "untick"}, r \in {"r1", "r2", "r3"}}
    \cup {[do |-> d, id |-> ""] : d \in {"all", "clear", "dropUnreadable"}}

ProbePicker ==
    /\ Unprobed
    /\ \E stored \in {<<>>, <<"r2">>, <<"r3", "r1">>}, edits \in [1..2 -> SelectionEdits], seen \in [1..2 -> Listings] :
           probe' = [kind |-> "picker", stored |-> stored, edits |-> edits, seen |-> seen]

ProbeWeights ==
    /\ Unprobed
    /\ \E weights \in BoundedSeq({Num(0), Num(2), Num(3), Text(""), Text("x"), Undefined, Decimal("1,5", 1, 2)}, 3) :
           probe' = [kind |-> "weights", weights |-> weights]

ErrorFields ==
    {General} \cup {[root |-> r, row |-> 0, child |-> Undefined] : r \in {"days", "key"}}
    \cup {[root |-> "sub_algorithms", row |-> i, child |-> c] : i \in {1, 2}, c \in {Undefined, "votes", "days", "gone"}}
ErrorEntries == {[field |-> f, messages |-> m] : f \in ErrorFields, m \in {<<>>, <<"m">>, <<"m", "n">>}}

ProbeApiError ==
    /\ Unprobed
    /\ \E own \in {Undefined, <<"own">>}, text \in {Undefined, <<"text">>}, outer \in {Undefined} \cup {<<e>> : e \in ErrorEntries},
          inner \in {Undefined} \cup {<<e>> : e \in ErrorEntries}, isObject \in BOOLEAN :
           /\ ~isObject => inner = Undefined
           /\ outer # Undefined /\ inner # Undefined => inner[1].field.root # "sub_algorithms"
           /\ probe' = [kind |-> "apiError", own |-> own,
                        payload |-> [errors |-> outer, text |-> IF isObject THEN Undefined ELSE text,
                                     nested |-> IF isObject THEN [errors |-> inner, text |-> text] ELSE Undefined],
                        values |-> [sub_algorithms |->
                            List(<<Entry(Text("plain"), Num(1), <<Input("days", Num(1)), Input("votes", Text("key"))>>),
                                   Entry(Text("votes"), Num(1), <<Input("votes", Text("key"))>>)>>), days |-> Num(1)]]

\* However rows are added, removed and picked, those that are filled in satisfy the
\* server's options and uniqueness: the field never lets a user build what the shared
\* validator refuses (repeater-field.tsx against validateFieldOptionConstraints).
RowsStayValid ==
    probe.kind = "rowEdits" =>
        LET rows == FoldLeft(LAMBDA r, e : EditRows(RowsField, r, e), <<BuildDefaultRow(RowsField)>>, probe.edits)
            full == SelectSeq(rows, LAMBDA r : \A k \in DOMAIN r : r[k] # "")
            value == List(MapSeq(full, LAMBDA r : Object([k \in DOMAIN r |-> Text(r[k])])))
        IN  /\ Len(rows) >= RowsField.minItems
            /\ full # <<>> => FieldOk(RowsField, value) /\ OptionsOk(RowsField, value, <<>>)

\* A selection does not depend on the order it was clicked together in: it holds what
\* is ticked, each once, in the catalog's order with what the catalog lost at the end
\* (sortResourceSelections).
SelectionIsCanonical ==
    probe.kind = "toggles" =>
        LET final == FoldLeft(LAMBDA s, p : ToggleSelection(s, p, p \notin ToSet(s), Pairs, Unlisted), probe.stored, probe.toggles)
            times(p) == Cardinality({i \in DOMAIN probe.toggles : probe.toggles[i] = p})
            kept == {p \in ToSet(Pairs \o Unlisted) : (p \in ToSet(probe.stored)) # (times(p) % 2 = 1)}
            panels == BuildResourceSelectorPanels(Pairs, final)
        IN  probe.toggles # <<>> =>
                /\ final = SortResourceSelections(SetToSeq(kept), Pairs, Unlisted)
                /\ \A i \in DOMAIN panels : panels[i].selected <=> panels[i].pair \in kept

\* Nothing the bot cannot read is ever added to a selection, whatever the listing was
\* when it was clicked, no id is there twice, and a stored id leaves only by being
\* taken out (buildResourcePickerModel; the API refuses the others).
PickerAddsReadable ==
    probe.kind = "picker" =>
        LET at(i) == FoldLeft(LAMBDA s, j : EditSelection(probe.seen[j], s, probe.edits[j]), probe.stored, [j \in 1..i |-> j])
        IN  \A i \in 1..2 :
               LET before == ToSet(at(i - 1))
                   after == ToSet(at(i))
               IN  /\ IsInjective(at(i))
                   /\ after \ before \subseteq {r \in DOMAIN probe.seen[i] : probe.seen[i][r]}
                   /\ probe.edits[i].do \in {"tick", "all"} => before \subseteq after
                   /\ probe.edits[i].do = "dropUnreadable" =>
                          ResourcesOk(MapSeq(SelectSeq(at(i), LAMBDA r : r \in DOMAIN probe.seen[i]), LAMBDA r : Text(r)),
                                      Connection(probe.seen[i], "active"))

\* A row shows a share exactly when the weight it will send is one the validator takes,
\* and the shares shown add up to the whole (computeWeightShares).
SharesFollowWeights ==
    probe.kind = "weights" =>
        LET shares == ComputeWeightShares(probe.weights)
            sent(w) == SerializedWeight(w)
            shown == SelectSeq(shares, LAMBDA s : s # Undefined)
        IN  /\ \A i \in DOMAIN shares :
                  shares[i] # Undefined <=> NumberOk([required |-> TRUE, above |-> 0], sent(probe.weights[i]))
            /\ \A i \in DOMAIN shown : SumSeq(MapSeq(shown, LAMBDA s : s.of)) = shown[i].total

\* A refused save always says something, every message of its entries is shown, at the
\* very input it is about or above the form, and never at another input
\* (resolveErrorPath, applyFieldErrors).
ErrorsReachTheirInput ==
    probe.kind = "apiError" =>
        LET shown == ApplyApiErrorsToForm(probe.payload, probe.own, probe.values, {"sub_algorithms", "days"})
            entries == ValidationEntries(probe.payload)
        IN  /\ shown.general # {}
            /\ \A i \in DOMAIN entries : \A m \in ToSet(entries[i].messages) :
                  m \in shown.general \/ \E f \in shown.fields : f.error = [field |-> entries[i].field, message |-> m]
            /\ \A f \in shown.fields : f.path.at # 0 =>
                  probe.values[f.path.root].items[f.path.row].o.inputs.list[f.path.at].key = f.error.field.child

=============================================================================
