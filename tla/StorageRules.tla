---------------------------- MODULE StorageRules ----------------------------
(***************************************************************************)
(* The object store client (packages/storage) and what the API builds on   *)
(* it: keys and their parsing, the upload policy, listings and batch       *)
(* deletes, and the upload keys a preset's inputs refer to.                *)
(*                                                                         *)
(* A key or a filename is a sequence of words with "/" and "." between     *)
(* them.  S3 is external: an answer is an object's head, an error, or a    *)
(* page of a listing.                                                      *)
(***************************************************************************)
EXTENDS Probe, SequencesExt

CONSTANT BatchSize    \* BATCH_SIZE of deleteObjects

-----------------------------------------------------------------------------
(* Keys (shared/utils/keys.ts).                                            *)

GenerateKey(type, id, filename) ==
    <<IF type = "upload" THEN "uploads" ELSE "snapshots", "/">> \o id \o <<"/">> \o filename

\* startsWith('uploads/') and startsWith('snapshots/').
DetectKeyType(key) ==
    CASE Len(key) > 1 /\ key[1] = "uploads" /\ key[2] = "/"   -> "upload"
      [] Len(key) > 1 /\ key[1] = "snapshots" /\ key[2] = "/" -> "snapshot"
      [] OTHER                                                -> Undefined

MarksIn(key, mark) == {i \in DOMAIN key : key[i] = mark}
SecondPlace(places) == CHOOSE i \in places : Cardinality({j \in places : j < i}) = 1
LastPlace(places) == CHOOSE i \in places : \A j \in places : j <= i

\* Mutant: the name ends at its first dot.
ExtractFilenameAndExtFirst(part) ==
    LET dots == MarksIn(part, ".")
        dot == CHOOSE i \in dots : \A j \in dots : i <= j
    IN  IF dots = {} THEN Throws
        ELSE [name |-> SubSeq(part, 1, dot - 1), ext |-> SubSeq(part, Len(part), Len(part))]

ExtractFilenameAndExt(part) ==
    LET dots == MarksIn(part, ".")
        dot == LastPlace(dots)
    IN  IF dots = {} THEN Throws
        ELSE [name |-> SubSeq(part, 1, dot - 1), ext |-> SubSeq(part, dot + 1, Len(part))]

\* parseUploadKey and parseSnapshotKey: at least three segments, the second not empty,
\* the rest is the filename.
ParseStorageKey(key) ==
    LET slashes == MarksIn(key, "/")
        second == SecondPlace(slashes)
        id == SubSeq(key, 3, second - 1)
        file == ExtractFilenameAndExt(SubSeq(key, second + 1, Len(key)))
    IN  IF DetectKeyType(key) = Undefined \/ Cardinality(slashes) < 2 \/ id = <<>> THEN Throws
        ELSE IF Threw(file) THEN Throws
        ELSE [type |-> DetectKeyType(key), id |-> id, ext |-> file.ext,
              filename |-> file.name \o <<".">> \o file.ext]

-----------------------------------------------------------------------------
(* The upload policy (storage.ts).                                         *)

AllowedTypes == {"csv", "json"}
MaxSize == 2

StorageError(error) == [error |-> error]

\* validateContentType.
ValidContentType(type) == type \in AllowedTypes

\* validateFileSize.
ValidFileSize(size) == size <= MaxSize

\* presignPut: the type is checked, the size cannot be.
PresignPut(filename, type) ==
    IF ~ValidContentType(type) THEN StorageError("InvalidContentType") ELSE [key |-> GenerateKey("upload", <<"id">>, filename)]

\* getObjectMetadata, for an object that is there, is not, or cannot be asked for.
GetObjectMetadata(answer) ==
    CASE answer.is = "404"   -> StorageError("ObjectNotFound")
      [] answer.is = "error" -> StorageError("HeadObjectFailed")
      [] OTHER               -> answer

\* Mutant: only uploads are measured, and only their type.
VerifyObjectUnsized(key, answer) ==
    LET head == GetObjectMetadata(answer)
        parsed == ParseStorageKey(key)
    IN  IF "error" \in DOMAIN head THEN head
        ELSE IF DetectKeyType(key) = "upload" /\ ~ValidContentType(head.type) THEN StorageError("InvalidContentType")
        ELSE IF Threw(parsed) THEN StorageError("InvalidStorageKey")
        ELSE [filename |-> parsed.filename, size |-> head.size, type |-> head.type]

\* verify: size of every object, type of uploads only.
VerifyObject(key, answer) ==
    LET head == GetObjectMetadata(answer)
        parsed == ParseStorageKey(key)
    IN  IF "error" \in DOMAIN head THEN head
        ELSE IF ~ValidFileSize(head.size) THEN StorageError("FileTooLarge")
        ELSE IF DetectKeyType(key) = "upload" /\ ~ValidContentType(head.type) THEN StorageError("InvalidContentType")
        ELSE IF Threw(parsed) THEN StorageError("InvalidStorageKey")
        ELSE [filename |-> parsed.filename, size |-> head.size, type |-> head.type]

\* presignGet: no policy, the object only has to be there under a well-formed key.
PresignGet(key, answer) ==
    LET head == GetObjectMetadata(answer)
    IN  IF "error" \in DOMAIN head THEN head
        ELSE IF Threw(ParseStorageKey(key)) THEN StorageError("InvalidStorageKey")
        ELSE [url |-> key]

\* getObject: any error but a missing object is passed on as it is.
GetObject(answer) ==
    CASE answer.is = "404"   -> StorageError("ObjectNotFound")
      [] answer.is = "error" -> StorageError("other")
      [] OTHER               -> [body |-> answer]

\* handleStorageError of the API: the status of what the client threw.
HttpStatus(error) ==
    CASE error \in {"FileTooLarge", "InvalidContentType"} -> 400
      [] error = "ObjectNotFound"                         -> 404
      [] OTHER                                            -> 500

\* sanitizeFilename: control characters and quotes become "_", leading dots go.
SanitizeFilename(name) ==
    LET clean == MapSeq(name, LAMBDA w : IF w = "quote" THEN "_" ELSE w)
        kept == {i \in DOMAIN clean : clean[i] # "."}
        rest == IF kept = {} THEN <<>> ELSE SubSeq(clean, CHOOSE i \in kept : \A j \in kept : i <= j, Len(clean))
    IN  IF rest = <<>> THEN <<"download">> ELSE rest

\* GET storage/stream: the body and verify's metadata, both or the error of one.
StreamObject(key, answer) ==
    LET body == GetObject(answer)
        metadata == VerifyObject(key, answer)
    IN  CASE "error" \in DOMAIN body     -> [status |-> HttpStatus(body.error)]
          [] "error" \in DOMAIN metadata -> [status |-> HttpStatus(metadata.error)]
          [] OTHER                       -> [status |-> 200, filename |-> SanitizeFilename(metadata.filename)]

-----------------------------------------------------------------------------
(* Listings and deletes (storage.ts).                                      *)

\* A page is its keys and whether a continuation token came with it.
ListObjectsByPrefix(pages) ==
    LET ends == {i \in DOMAIN pages : ~pages[i].more}
        end == IF ends = {} THEN Len(pages) ELSE CHOOSE i \in ends : \A j \in ends : i <= j
    IN  FlattenSeq(MapSeq(SubSeq(pages, 1, end), LAMBDA p : p.keys))

DeleteBatches(keys) ==
    LET n == (Len(keys) + BatchSize - 1) \div BatchSize
        end(i) == IF i * BatchSize < Len(keys) THEN i * BatchSize ELSE Len(keys)
    IN  [i \in 1..n |-> SubSeq(keys, (i - 1) * BatchSize + 1, end(i))]

\* Mutant: a failed batch ends the call.
DeleteObjectsStops(keys, failed, denied) ==
    LET batches == DeleteBatches(keys)
        sent == IF failed = {} THEN Len(batches) ELSE (CHOOSE i \in failed : \A j \in failed : i <= j) - 1
        tried == UNION {ToSet(batches[i]) : i \in 1..sent}
    IN  [deleted |-> tried \ denied, errors |-> tried \intersect denied]

\* failed are the batches whose request throws, denied the keys S3 answers an error for.
DeleteObjects(keys, failed, denied) ==
    LET batches == DeleteBatches(keys)
        answered == UNION {ToSet(batches[i]) : i \in DOMAIN batches \ failed}
        lost == UNION {ToSet(batches[i]) : i \in DOMAIN batches \intersect failed}
    IN  [deleted |-> answered \ denied, errors |-> (answered \intersect denied) \cup lost]

-----------------------------------------------------------------------------
(* collectUploadKeys (upload-keys.util.ts).  A value is a string, some     *)
(* other scalar, or an array whose items are sub-algorithm entries or not; *)
(* the inputs of an entry hold values again.                               *)

RECURSIVE CollectFromValue(_)

\* Mutant: the children's inputs are not read.
CollectFromValueFlat(value) == IF value.is = "key" /\ value.upload THEN {value.key} ELSE {}

CollectFromValue(value) ==
    CASE value.is = "key"   -> IF value.upload THEN {value.key} ELSE {}
      [] value.is = "array" -> UNION {UNION {CollectFromValue(v) : v \in ToSet(item.inputs)} :
                                       item \in {e \in ToSet(value.items) : e.is = "entry"}}
      [] OTHER              -> {}

CollectUploadKeys(inputs) == UNION {CollectFromValue(inputs[i]) : i \in DOMAIN inputs}

-----------------------------------------------------------------------------
(* Probes.                                                                 *)

NameWords == {"a", ".", "/", "quote"}
UploadNames == UNION {[1..n -> NameWords] : n \in 1..3}
HeadAnswers == {[is |-> "404"], [is |-> "error"]} \cup [is : {"head"}, size : {1, 3}, type : {"csv", "png"}]

ProbeKey ==
    /\ Unprobed
    /\ \E type \in {"upload", "snapshot"}, id \in {<<>>, <<"id">>}, file \in UploadNames, answer \in HeadAnswers :
         probe' = [kind |-> "key", type |-> type, id |-> id, file |-> file, answer |-> answer]

FirstKeys(n) == [i \in 1..n |-> i]

ProbeBatch ==
    /\ Unprobed
    /\ \E n \in 0..5, failed \in SUBSET (1..3), denied \in SUBSET {2, 5} :
         probe' = [kind |-> "batch", keys |-> FirstKeys(n), failed |-> failed, denied |-> denied]

Scalars == [is : {"key"}, upload : BOOLEAN, key : {"k1", "k2"}]
Item(is, inputs) == [is |-> is, inputs |-> inputs]
Nested(items) == [is |-> "array", items |-> items]
StoredChildren == {<<>>} \cup {<<v>> : v \in Scalars} \cup {<<v, w>> : v, w \in Scalars}
    \cup {<<v, Nested(<<Item("entry", <<w>>)>>)>> : v, w \in Scalars}
StoredValues == Scalars \cup {[is |-> "number"]}
    \cup {Nested(<<Item(e, c)>>) : e \in {"entry", "row"}, c \in StoredChildren}

ProbeInputs ==
    /\ Unprobed
    /\ \E v, w \in StoredValues : probe' = [kind |-> "inputs", inputs |-> <<v, w>>]

-----------------------------------------------------------------------------
(* Laws.                                                                   *)

\* A file that was uploaded under a name with an extension is verified under that same
\* name, folders and dots included, and streamed under one that cannot leave its quotes;
\* one without an extension is refused although presignPut gave out its key.
NamesSurvive ==
    probe.kind = "key" =>
        LET key == GenerateKey(probe.type, probe.id, probe.file)
            parsed == ParseStorageKey(key)
            dotted == \E i \in DOMAIN probe.file : probe.file[i] = "."
        IN  /\ probe.id # <<>> /\ dotted
                 => ~Threw(parsed) /\ parsed.filename = probe.file /\ parsed.type = probe.type /\ parsed.id = probe.id
            /\ LET streamed == StreamObject(key, probe.answer)
               IN  streamed.status = 200 =>
                     /\ streamed.filename # <<>> /\ streamed.filename[1] # "."
                     /\ \A i \in DOMAIN streamed.filename : streamed.filename[i] # "quote"
            /\ "key" \in DOMAIN PresignPut(probe.file, "csv") /\ probe.id # <<>> /\ ~dotted
                 => "error" \in DOMAIN VerifyObject(key, [is |-> "head", size |-> 1, type |-> "csv"])

\* What verify accepts as an upload respects the size and type policy whatever the client
\* put under its signed URL; and every object verify accepts can be downloaded.  The
\* stream endpoint asks verify, so it refuses an object that presignGet hands out when it
\* is larger than an upload may be.
PolicyHolds ==
    probe.kind = "key" =>
        LET key == GenerateKey(probe.type, probe.id, probe.file)
            verified == VerifyObject(key, probe.answer)
            accepted == "error" \notin DOMAIN verified
        IN  /\ accepted => ValidFileSize(verified.size) /\ (probe.type = "upload" => ValidContentType(verified.type))
            /\ accepted => "url" \in DOMAIN PresignGet(key, probe.answer)
            /\ accepted <=> StreamObject(key, probe.answer).status = 200

\* A batch delete answers for every key it was given, once, even when whole requests fail;
\* and what was listed over several pages is what gets deleted.
DeletesAccountForAll ==
    probe.kind = "batch" =>
        LET done == DeleteObjects(probe.keys, probe.failed, probe.denied)
            pages == [i \in 1..Len(DeleteBatches(probe.keys)) |->
                         [keys |-> DeleteBatches(probe.keys)[i], more |-> i < Len(DeleteBatches(probe.keys))]]
        IN  /\ done.deleted \cup done.errors = ToSet(probe.keys)
            /\ done.deleted \intersect done.errors = {}
            /\ probe.keys # <<>> => ListObjectsByPrefix(pages) = probe.keys

\* The keys collected before a delete are all those the inputs hold, in children too, and
\* nothing outside uploads/.
UploadKeysAreAll ==
    probe.kind = "inputs" =>
        LET Entries(values) == {e \in UNION {ToSet(v.items) : v \in {w \in values : w.is = "array"}} : e.is = "entry"}
            Below(values) == UNION {ToSet(e.inputs) : e \in Entries(values)}
            top == ToSet(probe.inputs)
            all == top \cup Below(top) \cup Below(Below(top))
        IN  CollectUploadKeys(probe.inputs) = {v.key : v \in {w \in all : w.is = "key" /\ w.upload}}
=============================================================================
