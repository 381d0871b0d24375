-------------------------- MODULE PresetValidation --------------------------
(***************************************************************************)
(* The checks a preset passes before it is stored: the shared validator    *)
(* (packages/algorithm-validator/src), the storage-backed file checks of   *)
(* apps/api/src/shared/utils/algorithm-input-validation.util.ts and the    *)
(* live community checks of community-input-validation.service.ts.  The    *)
(* laws set them against what a run later does with the stored preset.     *)
(*                                                                         *)
(* A value is [t, ...]: number [n], string [s, n, padded] where n is what  *)
(* Number() and parseFloat() make of it and padded says that trim() would  *)
(* change it, array [items], object [o].  An error is [child, field,       *)
(* source]: the child it was found in, 0 for the preset itself, and the    *)
(* input; the path inside the input is left out.                           *)
(***************************************************************************)
EXTENDS SnapshotInputs

Num(n) == [t |-> "number", n |-> n]
Text(s) == [t |-> "string", s |-> s, n |-> Undefined, padded |-> FALSE]
Digits(s, n) == [Text(s) EXCEPT !.n = n]
Padded(s) == [Text(s) EXCEPT !.padded = TRUE]
List(items) == [t |-> "array", items |-> items]
Object(o) == [t |-> "object", o |-> o]

Opt(f, k) == IF k \in DOMAIN f THEN f[k] ELSE Undefined
Is(v, t) == v # Undefined /\ v.t = t
Trim(v) == [v EXCEPT !.padded = FALSE]
Err(field, source) == [child |-> 0, field |-> field, source |-> source]

-----------------------------------------------------------------------------
(* validatePayload.                                                        *)

\* The preprocess step of a number.
AsNumber(v) ==
    IF Is(v, "string") THEN IF v.n = Undefined THEN Undefined ELSE Num(v.n) ELSE v

NumberOk(field, v) ==
    LET x == AsNumber(v)
        bound(k, Test(_)) == Opt(field, k) = Undefined \/ Test(field[k])
    IN  IF x = Undefined THEN ~field.required
        ELSE /\ x.t = "number"
             /\ bound("min", LAMBDA b : x.n >= b) /\ bound("max", LAMBDA b : x.n <= b)
             /\ bound("above", LAMBDA b : x.n > b)

TextOk(field, v) ==
    IF v = Undefined THEN ~field.required
    ELSE /\ v.t = "string"
         /\ IF Opt(field, "enum") # Undefined THEN v.s \in field.enum /\ ~v.padded
            ELSE field.required => v.s # ""

\* On the server a file input holds its storage key.
FileRefOk(v) == Is(v, "string") /\ v.s # ""

ScalarOk(field, v) ==
    CASE field.type \in {"number", "integer", "slider"} -> NumberOk(field, v)
      [] field.type \in {"csv", "json"} -> FileRefOk(v)
      [] OTHER -> TextOk(field, v)

ScalarData(field, v) ==
    CASE field.type \in {"number", "integer", "slider"} -> AsNumber(v)
      [] field.type \in {"csv", "json"} -> v
      [] OTHER -> IF v = Undefined THEN v ELSE Trim(v)

ItemData(field, item) ==
    Object([k \in {p.key : p \in ToSet(field.item)} |->
        ScalarData(Find(field.item, LAMBDA p : p.key = k, Undefined), Opt(item.o, k))])

\* applyArrayConstraints, over the parsed items.  Uniqueness is asked for only when
\* every uniqueBy key is a property of the items.
ItemsOk(field, v) ==
    LET items == MapSeq(v.items, LAMBDA item : ItemData(field, item))
        asked == field.uniqueBy # {} /\ field.uniqueBy \subseteq {p.key : p \in ToSet(field.item)}
    IN  /\ \A i \in DOMAIN v.items :
               /\ v.items[i].t = "object"
               /\ \A p \in ToSet(field.item) : ScalarOk(p, Opt(v.items[i].o, p.key))
        /\ Len(v.items) >= field.minItems
        /\ asked => IsInjective(MapSeq(items, LAMBDA item : [k \in field.uniqueBy |-> item.o[k]]))

TextsOk(field, v) ==
    /\ \A i \in DOMAIN v.items : Is(v.items[i], "string") /\ v.items[i].s # ""
    /\ Len(v.items) >= field.minItems
    /\ IsInjective(MapSeq(v.items, LAMBDA item : Trim(item)))

\* The largest finite total: beyond it a sum of weights is Infinity.
FiniteMax == 8

Weighable(e) ==
    /\ e.t = "object"
    /\ \A k \in {"algorithm_key", "algorithm_version"} : Is(Opt(e.o, k), "string") /\ e.o[k].s # ""
    /\ NumberOk([required |-> TRUE, above |-> 0], Opt(e.o, "weight"))
    /\ Is(Opt(e.o, "inputs"), "inputs")
    /\ \A i \in DOMAIN e.o.inputs.list : e.o.inputs.list[i].key # "" /\ e.o.inputs.list[i].value # Undefined

\* Mutant: the keys are compared as the user typed them.
EntriesOkVerbatim(field, v) ==
    /\ \A i \in DOMAIN v.items : Weighable(v.items[i])
    /\ Len(v.items) >= field.minItems

EntriesOk(field, v) ==
    /\ \A i \in DOMAIN v.items : Weighable(v.items[i])
    /\ Len(v.items) >= field.minItems
    /\ IsInjective(MapSeq(v.items, LAMBDA e : e.o.algorithm_key.s))
    /\ SumSeq(MapSeq(v.items, LAMBDA e : AsNumber(e.o.weight).n)) <= FiniteMax

EntryData(e) ==
    Object([k \in {"algorithm_key", "algorithm_version", "weight", "inputs"} |->
        IF k = "weight" THEN AsNumber(e.o[k]) ELSE IF k = "inputs" THEN e.o[k] ELSE Trim(e.o[k])])

\* buildFieldSchema.
FieldOk(field, v) ==
    IF field.type \notin {"array", "sub_algorithm"} THEN ScalarOk(field, v)
    ELSE IF v = Undefined THEN ~field.required
    ELSE /\ v.t = "array"
         /\ IF field.type = "sub_algorithm" THEN EntriesOk(field, v)
            ELSE IF Opt(field, "item") = Undefined THEN TextsOk(field, v) ELSE ItemsOk(field, v)

FieldData(field, v) ==
    IF field.type \notin {"array", "sub_algorithm"} THEN ScalarData(field, v)
    ELSE IF v = Undefined THEN v
    ELSE List(MapSeq(v.items, LAMBDA item :
             IF field.type = "sub_algorithm" THEN EntryData(item)
             ELSE IF Opt(field, "item") = Undefined THEN Trim(item) ELSE ItemData(field, item)))

\* optionMatchesContext; an option is [value, filters, filterBy].
OptionMatchesContext(option, field, context) ==
    LET holds(k, v) == Opt(context, k) # Undefined /\ context[k].s = v
    IN  IF option.filters # Undefined THEN \A k \in DOMAIN option.filters : holds(k, option.filters[k])
        ELSE option.filterBy = Undefined \/ holds(Opt(field, "dependsOn"), option.filterBy)

OptionOk(prop, v, context) ==
    LET options == Opt(prop, "options")
    IN  options = Undefined \/ ~Is(v, "string") \/ v.s = ""
        \/ (\A o \in options : o.filters = Undefined /\ o.filterBy = Undefined)
        \/ \E o \in options : OptionMatchesContext(o, prop, context) /\ o.value = v.s

\* validateFieldOptionConstraints: an item's own properties hide the payload's.
OptionsOk(field, v, payload) ==
    IF field.type # "array" THEN OptionOk(field, v, payload)
    ELSE Is(v, "array") /\ Opt(field, "item") # Undefined =>
           \A i \in DOMAIN v.items : \A p \in ToSet(field.item) :
               OptionOk(p, Opt(v.items[i].o, p.key),
                        [k \in DOMAIN payload \cup DOMAIN v.items[i].o |->
                            IF k \in DOMAIN v.items[i].o THEN v.items[i].o[k] ELSE payload[k]])

\* validateResourceSelectorFieldConstraints; the catalog is its pairs of chain and key.
FieldResourceCatalog(field) == Opt(field, "catalog")

SelectorOk(field, v) ==
    FieldResourceCatalog(field) # Undefined /\ Is(v, "array") =>
        \A i \in DOMAIN v.items :
            LET o == v.items[i].o
            IN  \/ "" \in {o.chain.s, o.resource_key.s}
                \/ <<o.chain.s, o.resource_key.s>> \in FieldResourceCatalog(field)

ValidatePayload(def, payload) ==
    LET failed(fields, data) == [errors |-> {Err(f.key, "payload") : f \in fields}, data |-> data]
        data == [k \in {f.key : f \in ToSet(def.inputs)} |->
                    FieldData(Find(def.inputs, LAMBDA f : f.key = k, Undefined), Opt(payload, k))]
        unmet(parsed) == {f \in ToSet(def.inputs) : \/ ~OptionsOk(f, parsed[f.key], parsed)
                                                    \/ ~SelectorOk(f, parsed[f.key])}
        refined(parsed) == failed(unmet(parsed), parsed)
        typed(invalid) == IF invalid # {} THEN failed(invalid, Undefined) ELSE refined(data)
    IN  typed({f \in ToSet(def.inputs) : ~FieldOk(f, Opt(payload, f.key))})

-----------------------------------------------------------------------------
(* Files.  A stored object is [contentType, ext, size, body].  A CSV body  *)
(* is [delimiter, header, rows]: a header cell [col, form], form being how *)
(* it spells its column, a row its answers.  A JSON body is [top, wallets] *)
(* where wallets maps a chain to its addresses or to Undefined.            *)

CsvSample == 5
Delimiters == <<",", ";", "tab", "|">>

\* CsvCells of a line of the file when it is split by delimiter d.
CsvCells(file, line, d) == IF d = file.delimiter THEN Len(line) ELSE 1

DetectDelimiter(file, configured) ==
    IF CsvCells(file, file.header, configured) > 1 THEN configured
    ELSE Find(Delimiters, LAMBDA d : CsvCells(file, file.header, d) > 1, configured)

\* Mutant: only the first row is sampled.
ValidateCSVFirst(file, csv) ==
    IF file.header = <<>> THEN {"header"}
    ELSE {e \in {"missing"} : \E c \in csv.columns : c.required /\ \A i \in DOMAIN file.header : file.header[i].col # c.key}
         \cup {e \in {"empty"} : file.rows = <<>>}

ValidateCSV(file, csv) ==
    LET d == DetectDelimiter(file, csv.delimiter)
        whole == d = file.delimiter \/ Len(file.header) = 1
        found(c) == whole /\ \E i \in DOMAIN file.header : file.header[i].col = c.key
        enumAt(c) == IF ~whole THEN 0
                     ELSE SelectInSeq(file.header, LAMBDA h : h.col = c.key /\ h.form # "spaced")
        sampled == 1..(IF Len(file.rows) < CsvSample THEN Len(file.rows) ELSE CsvSample)
        ragged(i) == CsvCells(file, file.rows[i], d) # CsvCells(file, file.header, d)
        offEnum(i, c) == /\ enumAt(c) \in DOMAIN file.rows[i]
                         /\ file.rows[i][enumAt(c)] \notin c.enum \cup {""}
    IN  IF file.header = <<>> THEN {"header"}
        ELSE {e \in {"rows"} : Len(file.rows) > csv.maxRows}
             \cup {e \in {"missing"} : \E c \in csv.columns : c.required /\ ~found(c)}
             \cup {e \in {"empty"} : file.rows = <<>>}
             \cup {e \in {"ragged"} : \E i \in sampled : ragged(i)}
             \cup {e \in {"enum"} : \E i \in sampled : \E c \in csv.columns : c.enum # {} /\ offEnum(i, c)}

SameAddress(chain, a, b) == IF chain = "ethereum" THEN a.of = b.of ELSE a = b

\* validateChainWalletMap: unsupported chains are errors and are still walked.
ChainErrors(chain, addresses, allowed) ==
    {e \in {"chain"} : chain \notin allowed}
    \cup IF addresses = Undefined THEN {"list"}
         ELSE {e \in {"repeated"} : \E i, j \in DOMAIN addresses : i < j /\ SameAddress(chain, addresses[i], addresses[j])}
              \cup {e \in {"address"} : \E i \in DOMAIN addresses : ~addresses[i].wellFormed}

ValidateJSON(file, json) ==
    IF file.wallets = Undefined THEN {"root"}
    ELSE {e \in {"top"} : file.top # {json.rootKey}}
         \cup UNION {ChainErrors(c, file.wallets[c], json.allowedChains) : c \in DOMAIN file.wallets}
         \cup {e \in {"none"} : \A c \in DOMAIN file.wallets : file.wallets[c] \in {Undefined, <<>>}}

\* validateStorageMetadata.
MetadataOk(object, field, limits) ==
    LET wanted == IF field.type = "csv" THEN "text/csv" ELSE "application/json"
        other == IF field.type = "csv" THEN "application/json" ELSE "text/csv"
    IN  /\ object.contentType \in limits.types /\ object.size <= limits.size
        /\ Opt(field, "maxBytes") # Undefined => object.size <= field.maxBytes
        /\ object.contentType # other
        /\ \/ object.ext = field.type
           \/ object.contentType = wanted
           \/ field.type = "csv" /\ object.contentType = "text/plain"

\* One file input of validateFileBackedInputs: acc.cached are the objects already
\* downloaded in this pass, whose metadata is not looked at again.
CheckFile(acc, field, value, world) ==
    IF value = Undefined THEN acc
    ELSE LET object == Opt(world.objects, value.s)
             known == value.s \in acc.cached
             opened == object # Undefined /\ (known \/ MetadataOk(object, field, world.limits))
             read(problems) ==
                 [cached |-> acc.cached \cup {value.s},
                  errors |-> acc.errors \cup IF problems = {} THEN {} ELSE {Err(field.key, "file")},
                  parsed |-> acc.parsed \cup IF field.type = "json" /\ problems = {} THEN {field.key} ELSE {}]
         IN  IF ~opened THEN [acc EXCEPT !.errors = @ \cup {Err(field.key, "file")}]
             ELSE read(IF field.type = "csv" THEN ValidateCSV(object.body, field.csv)
                       ELSE ValidateJSON(object.body, field.json))

ValidateFiles(def, payload, cached, world) ==
    FoldLeft(LAMBDA acc, f : CheckFile(acc, f, payload[f.key], world),
             [cached |-> cached, errors |-> {}, parsed |-> {}],
             SelectSeq(def.inputs, LAMBDA f : f.type \in {"csv", "json"}))

\* Mutant: an empty list covers its chain.
RunJsonChainCoverageRuleEmpty(rule, payload, parsed, world) ==
    {Err(rule.wallets, "rule") : i \in {i \in DOMAIN payload[rule.selector].items :
        /\ rule.wallets \in parsed
        /\ payload[rule.selector].items[i].o.chain.s \notin DOMAIN world.objects[payload[rule.wallets].s].body.wallets}}

RunJsonChainCoverageRule(rule, payload, parsed, world) ==
    {Err(rule.wallets, "rule") : i \in {i \in DOMAIN payload[rule.selector].items :
        /\ rule.wallets \in parsed
        /\ LET wallets == world.objects[payload[rule.wallets].s].body.wallets
           IN  Opt(wallets, payload[rule.selector].items[i].o.chain.s) \in {Undefined, <<>>}}}

-----------------------------------------------------------------------------
(* validateAlgorithmPreset.  Only a combined preset has children and a     *)
(* combined child is refused, so two levels are all there are.             *)

Payload(inputs) ==
    [k \in {inputs[i].key : i \in DOMAIN inputs} |->
        LET last == CHOOSE i \in DOMAIN inputs : /\ inputs[i].key = k
                                                 /\ \A j \in DOMAIN inputs : inputs[j].key = k => j <= i
        IN  inputs[last].value]

SchemaErrors(preset) ==
    {Err("key", "preset") : x \in {x \in {1} : preset.key = ""}}
    \cup {Err("version", "preset") : x \in {x \in {1} : preset.version = ""}}
    \cup {Err("inputs", "preset") : x \in {x \in {1} : preset.inputs = <<>>
              \/ \E i \in DOMAIN preset.inputs : preset.inputs[i].key = "" \/ preset.inputs[i].value = Undefined}}

DefinitionErrors(def, preset) ==
    {Err("key", "definition") : x \in {x \in {1} : preset.key # def.key}}
    \cup {Err("version", "definition") : x \in {x \in {1} : preset.version # def.version}}
    \cup {Err(preset.inputs[i].key, "preset") : i \in {i \in DOMAIN preset.inputs :
              \E j \in DOMAIN preset.inputs : j < i /\ preset.inputs[j].key = preset.inputs[i].key}}
    \cup {Err(preset.inputs[i].key, "definition") : i \in {i \in DOMAIN preset.inputs :
              \A f \in ToSet(def.inputs) : f.key # preset.inputs[i].key}}

\* One level; Nested(payload, cached) gives the errors of the children.
ValidateLevel(def, preset, cached, world, Nested(_, _)) ==
    LET refused(errors) == [errors |-> errors, cached |-> cached]
        rules(data, files) == UNION {RunJsonChainCoverageRule(r, data, files.parsed, world) : r \in def.rules}
        joined(errors, nested) == [errors |-> errors \cup nested.errors, cached |-> nested.cached]
        opened(data, files) == joined(files.errors \cup rules(data, files), Nested(data, files.cached))
        parsed(checked) ==
            LET early == DefinitionErrors(def, preset) \cup checked.errors
            IN  IF early # {} THEN refused(early)
                ELSE opened(checked.data, ValidateFiles(def, checked.data, cached, world))
        malformed == SchemaErrors(preset)
    IN  IF malformed # {} THEN refused(malformed)
        ELSE parsed(ValidatePayload(def, Payload(preset.inputs)))

NoChildren(payload, cached) == [errors |-> {}, cached |-> cached]

\* Mutant: the child keeps the shared inputs it brought.
ChildPresetOwn(entry, field, inputs) ==
    [key |-> entry.o.algorithm_key.s, version |-> entry.o.algorithm_version.s, inputs |-> entry.o.inputs.list]

ChildPreset(entry, field, inputs) ==
    [key |-> entry.o.algorithm_key.s, version |-> entry.o.algorithm_version.s,
     inputs |-> SelectSeq(entry.o.inputs.list, LAMBDA p : p.key \notin field.shared)
                \o SelectSeq(inputs, LAMBDA p : p.key \in field.shared)]

\* One child of validateNestedSubAlgorithms; its errors carry its index.
CheckChild(acc, i, entry, field, inputs, world) ==
    LET def == Opt(world.definitions, entry.o.algorithm_key.s)
        own == {Err(entry.o.inputs.list[j].key, "definition") :
                    j \in {j \in DOMAIN entry.o.inputs.list : entry.o.inputs.list[j].key \in field.shared}}
        known == def # Undefined /\ def.version = entry.o.algorithm_version.s
        at(errors) == {[e EXCEPT !.child = i] : e \in errors}
        joined(result) == [errors |-> acc.errors \cup at(own \cup result.errors), cached |-> result.cached]
    IN  IF ~known \/ def.kind = "combined"
        THEN [acc EXCEPT !.errors = @ \cup at(own \cup {Err("key", "definition")})]
        ELSE joined(ValidateLevel(def, ChildPreset(entry, field, inputs), acc.cached, world, NoChildren))

ValidateAlgorithmPreset(def, preset, world) ==
    LET nested(payload, cached) ==
            FoldLeft(LAMBDA acc, f :
                         LET entries == payload[f.key].items
                         IN  FoldLeft(LAMBDA a, i : CheckChild(a, i, entries[i], f, preset.inputs, world),
                                      acc, [i \in DOMAIN entries |-> i]),
                     [errors |-> {}, cached |-> cached],
                     SelectSeq(def.inputs, LAMBDA f : f.type = "sub_algorithm" /\ payload[f.key] # Undefined))
    IN  ValidateLevel(def, preset, {}, world, nested).errors

-----------------------------------------------------------------------------
(* CommunityInputValidationService, over the raw inputs.  A connection is  *)
(* [platform, status, listing]: its listing maps the ids it lists to       *)
(* whether the bot can read them, Undefined when the platform fails.       *)

ConnectionOk(field, value, world) ==
    LET row == Opt(world.connections, value.s)
    IN  row # Undefined /\ row.platform = field.platform /\ row.status = "active"

\* Mutant: an outage is taken for an answer.
ResourcesOkOffline(ids, row) ==
    row.listing = Undefined \/ \A i \in DOMAIN ids : ids[i].s \in DOMAIN row.listing /\ row.listing[ids[i].s]

ResourcesOk(ids, row) ==
    /\ row.listing # Undefined
    /\ \A i \in DOMAIN ids : /\ ids[i].t = "string" /\ ~ids[i].padded
                             /\ ids[i].s \in DOMAIN row.listing /\ row.listing[ids[i].s]

CommunityLevel(def, inputs, child, world) ==
    LET values == Payload(inputs)
        asks(f) == Opt(f, "widget") = "connection" /\ Is(Opt(values, f.key), "string") /\ values[f.key].s # ""
        settled == {f.key : f \in {f \in ToSet(def.inputs) : asks(f) /\ ConnectionOk(f, values[f.key], world)}}
        picks(f) == /\ Opt(f, "widget") = "resources" /\ Is(Opt(values, f.key), "array")
                    /\ values[f.key].items # <<>> /\ f.dependsOn \in settled
    IN  {[child |-> child, field |-> f.key, source |-> "community"] : f \in {f \in ToSet(def.inputs) :
            \/ asks(f) /\ f.key \notin settled
            \/ picks(f) /\ ~ResourcesOk(values[f.key].items, world.connections[values[f.dependsOn].s])}}

ValidateCommunity(def, inputs, world) ==
    LET values == Payload(inputs)
        entries == UNION {IF f.type = "sub_algorithm" /\ Is(Opt(values, f.key), "array")
                          THEN {<<i, values[f.key].items[i]>> : i \in DOMAIN values[f.key].items} ELSE {} :
                          f \in ToSet(def.inputs)}
    IN  CommunityLevel(def, inputs, 0, world)
        \cup UNION {CommunityLevel(world.definitions[e[2].o.algorithm_key.s], e[2].o.inputs.list, e[1], world) :
                    e \in {e \in entries : /\ ~e[2].o.algorithm_key.padded
                                            /\ e[2].o.algorithm_key.s \in DOMAIN world.definitions}}

\* validateAlgorithmInputs: what the request is answered with.
ValidateAlgorithmInputs(def, inputs, world) ==
    LET community(errors) ==
            IF errors = {} THEN [answer |-> "stored", errors |-> {}]
            ELSE [answer |-> "badRequest", errors |-> errors]
        preset(errors) ==
            LET request == {e \in errors : e.source \notin {"file", "rule"}}
            IN  IF request # {} THEN [answer |-> "badRequest", errors |-> request]
                ELSE IF errors # {} THEN [answer |-> "badFile", errors |-> errors]
                ELSE community(ValidateCommunity(def, inputs, world))
    IN  preset(ValidateAlgorithmPreset(def, [key |-> def.key, version |-> def.version, inputs |-> inputs], world))

Accepted(def, inputs, world) == ValidateAlgorithmInputs(def, inputs, world).answer = "stored"

-----------------------------------------------------------------------------
(* Laws.  The preset is stored as it was sent, not as the validator parsed *)
(* it: the laws about runs take presets the parsing leaves alone.          *)

\* loadVotes and the first lines of groupVotesByVoter: columns by their exact name,
\* commas only; a column that a row lacks is undefined and trim() throws.
LoadVotes(file, columns) ==
    LET at(c) == IF file.delimiter # "," /\ Len(file.header) > 1 THEN 0
                 ELSE SelectInSeq(file.header, LAMBDA h : h.col = c /\ h.form = "exact")
    IN  IF \E i \in DOMAIN file.rows : \E c \in columns : at(c) \notin DOMAIN file.rows[i] THEN Throws
        ELSE [votes |-> MapSeq(file.rows, LAMBDA row : [c \in columns |-> row[at(c)]])]

Field(key, type) == [key |-> key, type |-> type, required |-> TRUE]
Days == Field("lookback_days", "integer") @@ [min |-> 1, max |-> 183]
CommunityDef(key, platform) ==
    [key |-> key, version |-> "1", kind |-> "standalone", rules |-> {},
     inputs |-> <<Field("connection", "string") @@ [widget |-> "connection", platform |-> platform],
                  Field("resources", "array") @@ [widget |-> "resources", dependsOn |-> "connection", minItems |-> 1],
                  Days>>]
CustomDef(shared) ==
    [key |-> "custom", version |-> "1", kind |-> "combined", rules |-> {},
     inputs |-> <<Field("sub_algorithms", "sub_algorithm") @@ [minItems |-> 1, shared |-> shared]>>
                \o IF shared = {} THEN <<>> ELSE <<Days>>]
TokenDef ==
    [key |-> "token", version |-> "1", kind |-> "standalone",
     rules |-> {[wallets |-> "wallets", selector |-> "selected"]},
     inputs |-> <<Field("selected", "array") @@
                    [minItems |-> 1, uniqueBy |-> {"chain", "resource_key"},
                     item |-> <<Field("chain", "string"), Field("resource_key", "string") @@
                                  [dependsOn |-> "chain",
                                   options |-> {[value |-> "fet", filters |-> Undefined, filterBy |-> "ethereum"],
                                                [value |-> "fet", filters |-> [chain |-> "cardano"], filterBy |-> Undefined]}]>>,
                     catalog |-> {<<"ethereum", "fet">>, <<"cardano", "fet">>}],
                  Field("wallets", "json") @@
                    [json |-> [rootKey |-> "wallets", allowedChains |-> SupportedChains], maxBytes |-> 2]>>]
VotesDef ==
    [key |-> "votes", version |-> "1", kind |-> "standalone", rules |-> {},
     inputs |-> <<Field("votes", "csv") @@
                    [csv |-> [delimiter |-> ",", maxRows |-> 3,
                              columns |-> {[key |-> "answer", required |-> TRUE, enum |-> {"skip"}],
                                           [key |-> "voter", required |-> TRUE, enum |-> {}]}]]>>]

Connection(listing, status) == [platform |-> "discord", status |-> status, listing |-> listing]
Worlds(listing) ==
    [objects |-> <<>>, limits |-> [types |-> {"text/csv", "application/json"}, size |-> 2],
     definitions |-> [discord |-> CommunityDef("discord", "discord"), chat |-> CommunityDef("chat", "discord"),
                      custom |-> CustomDef({})],
     connections |-> [c1 |-> Connection(listing, "active"), c2 |-> Connection([r1 |-> TRUE], "revoked")]]

Input(k, v) == [key |-> k, value |-> v]
Entry(key, weight, inputs) ==
    Object([algorithm_key |-> key, algorithm_version |-> Text("1"), weight |-> weight,
            inputs |-> [t |-> "inputs", list |-> inputs]])
CommunityInputs(connection, ids, days) ==
    <<Input("connection", Text(connection)), Input("resources", List(MapSeq(ids, LAMBDA r : Text(r))))>>
    \o IF days = Undefined THEN <<>> ELSE <<Input("lookback_days", days)>>
GoodInputs == CommunityInputs("c1", <<"r1">>, Num(1))
EntryPool ==
    {Entry(key, weight, GoodInputs) : key \in {Text("discord"), Padded("discord"), Text("chat"), Text("custom"), Text("gone")},
                                      weight \in {Num(0), Num(4), Num(5), Digits("4", 4)}}
    \cup {Entry(Text("discord"), Num(4), CommunityInputs(c, ids, days)) :
            c \in {"c1", "c2", "c3"}, ids \in {<<"r1">>, <<"r2">>, <<"r1", "r3">>, <<"r1", "r1">>},
            days \in {Undefined, Num(0), Num(183), Digits("1", 1)}}

ProbeComposite ==
    /\ Unprobed
    /\ \E entries \in BoundedSeq(EntryPool, 2), shared \in {{}, {"lookback_days"}},
          listing \in {Undefined, [r1 |-> TRUE, r2 |-> FALSE]} :
           probe' = [kind |-> "composite", def |-> CustomDef(shared), world |-> Worlds(listing),
                     inputs |-> <<Input("sub_algorithms", List(entries))>>
                                \o IF shared = {} THEN <<>> ELSE <<Input("lookback_days", Num(2))>>]

FileAddresses == {[of |-> "w", form |-> f, wellFormed |-> TRUE] : f \in {"lower", "mixed"}}
             \cup {[of |-> "x", form |-> "lower", wellFormed |-> FALSE]}
AddressLists == {Undefined, <<>>} \cup {<<a>> : a \in FileAddresses} \cup {<<a, b>> : a, b \in FileAddresses}
WalletFiles ==
    {[top |-> top, wallets |-> w] : top \in {{"wallets"}, {"wallets", "more"}},
        w \in {Undefined} \cup UNION {[S -> AddressLists] : S \in SUBSET {"ethereum", "cardano"}}
              \cup {[bitcoin |-> <<>>]}}
TokenPicks == {Object([chain |-> Text(c), resource_key |-> Text(k)]) : c \in {"ethereum", "cardano", "bitcoin"}, k \in {"fet", "agi"}}

ProbeWalletFile ==
    /\ Unprobed
    /\ \E file \in WalletFiles, size \in {2, 3}, picks \in BoundedSeq(TokenPicks, 2) :
           /\ Len(picks) = 2 => picks[1].o.resource_key.s = "fet" /\ picks[2].o.resource_key.s = "fet"
           /\ probe' = [kind |-> "walletFile", def |-> TokenDef,
                        inputs |-> <<Input("selected", List(picks)), Input("wallets", Text("key"))>>,
                        world |-> [Worlds(Undefined) EXCEPT !.objects =
                                     [key |-> [contentType |-> "application/json", ext |-> "json", size |-> size, body |-> file]]]]

HeaderCells == [col : {"answer", "voter"}, form : {"exact", "case", "spaced"}]

ProbeVotesFile ==
    /\ Unprobed
    /\ \E header \in {<<>>} \cup {<<a>> : a \in HeaderCells} \cup {<<a, b>> : a, b \in HeaderCells},
          rows \in BoundedSeq({<<"skip">>, <<"skip", "skip">>, <<"11", "v">>}, 4), delimiter \in {",", ";"},
          type \in {"text/csv", "application/json"} :
           probe' = [kind |-> "votesFile", def |-> VotesDef, inputs |-> <<Input("votes", Text("key"))>>,
                     world |-> [Worlds(Undefined) EXCEPT !.objects =
                                  [key |-> [contentType |-> type, ext |-> "csv", size |-> 1,
                                            body |-> [delimiter |-> delimiter, header |-> header, rows |-> rows]]]]]

ProbedEntries == probe.inputs[1].value.items
Untouched(v) == v.t = "string" => v.n = Undefined /\ ~v.padded
AsSent(entry) ==
    /\ Untouched(entry.o.algorithm_key) /\ Untouched(entry.o.weight)
    /\ \A i \in DOMAIN entry.o.inputs.list : Untouched(entry.o.inputs.list[i].value)

\* A combined preset that is stored is one a run can start: its children parse (no key
\* twice, positive weights with a finite total) and each child's community fetch can be
\* composed from the inputs stored for it (preset-validation.ts against
\* parseCustomScoreChildren and extractCommunityFetchInput).
StoredPresetRuns ==
    probe.kind = "composite" /\ (\A i \in DOMAIN ProbedEntries : AsSent(ProbedEntries[i]))
    /\ probe.def = CustomDef({}) /\ Accepted(probe.def, probe.inputs, probe.world) =>
        LET value(e, k) == Payload(e.o.inputs.list)[k]
            children == MapSeq(ProbedEntries, LAMBDA e : [key |-> e.o.algorithm_key.s, weight |-> e.o.weight.n])
        IN  /\ ~Threw(ParseCustomScoreChildren([children |-> children]))
            /\ SumSeq(MapSeq(children, LAMBDA c : c.weight)) <= FiniteMax
            /\ \A i \in DOMAIN ProbedEntries :
                  ~Threw(ExtractCommunityFetchInput(
                      [connection |-> value(ProbedEntries[i], "connection").s,
                       lookback |-> value(ProbedEntries[i], "lookback_days").n,
                       resources |-> MapSeq(value(ProbedEntries[i], "resources").items, LAMBDA r : r.s)]))

\* A child is judged in a combined preset as it would be on its own with the shared
\* inputs added, its errors carry its index, and bringing a shared input itself is an
\* error (validateNestedSubAlgorithms).
ChildJudgedAlone ==
    probe.kind = "composite" =>
        LET shared == probe.def.inputs[1].shared
            passes(entry) ==
                LET def == Opt(probe.world.definitions, entry.o.algorithm_key.s)
                    brings == \E j \in DOMAIN entry.o.inputs.list : entry.o.inputs.list[j].key \in shared
                    alone == [key |-> def.key, version |-> "1",
                              inputs |-> entry.o.inputs.list \o IF shared = {} THEN <<>> ELSE <<probe.inputs[2]>>]
                IN  /\ def # Undefined /\ def.kind # "combined" /\ ~brings
                    /\ ValidateAlgorithmPreset(def, alone, probe.world) = {}
            judged(errors) ==
                (\A e \in errors : e.child # 0) =>
                    \A i \in DOMAIN ProbedEntries : (\A e \in errors : e.child # i) <=> passes(ProbedEntries[i])
        IN  judged(ValidateAlgorithmPreset(probe.def, [key |-> "custom", version |-> "1", inputs |-> probe.inputs],
                                           probe.world))

\* A stored preset, its children included, names active connections of the right
\* platform and resources they list and can read: an outage of the platform refuses it
\* (CommunityInputValidationService.validate).
StoredCommunitiesReadable ==
    probe.kind = "composite" /\ (\A i \in DOMAIN ProbedEntries : AsSent(ProbedEntries[i]))
    /\ Accepted(probe.def, probe.inputs, probe.world) =>
        \A i \in DOMAIN ProbedEntries :
            LET values == Payload(ProbedEntries[i].o.inputs.list)
                row == probe.world.connections[values["connection"].s]
                ids == values["resources"].items
            IN  /\ row.status = "active" /\ row.listing # Undefined
                /\ \A j \in DOMAIN ids : row.listing[ids[j].s]

\* An accepted wallet file has an address for every chain the preset selects, no address
\* twice whatever its casing on Ethereum, and only supported chains, and the selection
\* holds catalog entries, each once (json-validation.ts, json_chain_coverage).
AcceptedWalletsCover ==
    probe.kind = "walletFile" /\ Accepted(probe.def, probe.inputs, probe.world) =>
        LET wallets == probe.world.objects["key"].body.wallets
            picks == probe.inputs[1].value.items
        IN  /\ \A i \in DOMAIN picks : /\ wallets[picks[i].o.chain.s] # <<>>
                                        /\ picks[i].o.resource_key.s = "fet"
            /\ IsInjective(picks) /\ DOMAIN wallets \subseteq SupportedChains
            /\ \A c \in DOMAIN wallets : IsInjective(MapSeq(wallets[c], LAMBDA a :
                   IF c = "ethereum" THEN Lower(a) ELSE a))

\* A votes file that is accepted, spells its columns as the definition does, uses commas
\* and is no longer than the sample of the check loads in the run, with answers the
\* definition lists (csv-validation.ts against votes-loader.ts and vote-grouping.ts).
AcceptedVotesLoad ==
    probe.kind = "votesFile" /\ Accepted(probe.def, probe.inputs, probe.world) =>
        LET file == probe.world.objects["key"].body
            loaded == LoadVotes(file, {"answer", "voter"})
        IN  file.delimiter = "," /\ (\A i \in DOMAIN file.header : file.header[i].form = "exact")
            /\ Len(file.rows) <= CsvSample =>
                /\ ~Threw(loaded)
                /\ \A i \in DOMAIN loaded.votes : loaded.votes[i].answer = "skip"

=============================================================================
