------------------------------ MODULE Labelling ------------------------------
(***************************************************************************)
(* The rules a project's data passes through besides segmentation: label   *)
(* schemas, upload checks, the batching of segments into tasks, the        *)
(* reading of a labeller's reply, the merge into an export and its quality *)
(* report.                                                                 *)
(*                                                                         *)
(* A schema is a function on some of "type", "properties" (a function from *)
(* field to type) and "required" (a set of fields); a value of the wrong   *)
(* JSON type is one no rule accepts, such as a required field nobody       *)
(* declares.  Confidences are counted in ten-thousandths.                  *)
(***************************************************************************)
EXTENDS Segmentation

NOTEMPLATE == "none"

-----------------------------------------------------------------------------
(* Templates and schemas                                                   *)

StringFields(fields) ==
    [type |-> "object", properties |-> [f \in fields |-> "string"], required |-> fields]

CallSchema == StringFields({"emotion", "intent", "topic", "resolution_status"})
DocumentSchema == StringFields({"category", "summary", "sensitivity_flag"})
Templates == {"support_call", "support_call_audio", "document_classification"}

TemplateSchema(template) ==
    IF template = "document_classification" THEN DocumentSchema ELSE CallSchema

SchemaResolves(template, override) ==
    /\ template # NOTEMPLATE => template \in Templates
    /\ template # NOTEMPLATE \/ DOMAIN override # {}

(* Keys of the override replace those of the template.                     *)
ResolveSchema(template, override) ==
    IF template = NOTEMPLATE THEN override ELSE override @@ TemplateSchema(template)

(* validate_label_schema, which planning, every task and the export call.  *)
SchemaValid(schema, template) ==
    /\ {"type", "properties"} \subseteq DOMAIN schema
    /\ schema["type"] = "object"
    /\ LET properties == schema["properties"] IN
        /\ DOMAIN properties # {}
        /\ \A f \in DOMAIN properties : properties[f] = "string"
        /\ "required" \in DOMAIN schema => schema["required"] \subseteq DOMAIN properties
        /\ template # NOTEMPLATE => TemplateSchema(template)["required"] \subseteq DOMAIN properties

RequiredFields(schema) ==
    IF "required" \in DOMAIN schema /\ schema["required"] # {}
    THEN schema["required"] ELSE DOMAIN schema["properties"]

-----------------------------------------------------------------------------
(* Uploads: [ext, size, seconds, ...], seconds < 0 when the content is no  *)
(* WAV a decoder opens.                                                    *)

DomainOf(template) ==
    CASE template = "support_call_audio" -> "audio"
      [] template = "support_call" -> "support_calls"
      [] OTHER -> "documents"

AllowedExtensions(template) ==
    CASE template = "support_call" -> {".txt", ".md"}
      [] template = "support_call_audio" -> {".wav"}
      [] template = "document_classification" -> {".txt", ".md", ".pdf"}
      [] OTHER -> {".txt", ".md", ".pdf", ".wav"}

(* The type is guessed from the name, so it never contradicts the          *)
(* extension and the check of .pdf and .wav types refuses nothing.         *)
UploadValid(upload, template, maxBytes, maxSeconds) ==
    /\ upload.ext \in AllowedExtensions(template)
    /\ upload.size \in 1..maxBytes
    /\ upload.ext = ".wav" => upload.seconds \in 0..maxSeconds

IsAudio(asset) == asset.ext = ".wav"
SourceKind(asset) == IF asset.ext \in {".pdf", ".md"} THEN "markdown" ELSE "plain"

-----------------------------------------------------------------------------
(* Planning                                                                *)

(* Segments are ordered by asset id, then by index.                        *)
Before(s, t) == s.asset < t.asset \/ (s.asset = t.asset /\ s.index < t.index)
InOrder(segments) ==
    [i \in 1..Cardinality(segments) |->
        CHOOSE s \in segments : Cardinality({t \in segments : Before(t, s)}) = i - 1]
SegmentId(s) == <<s.asset, s.index>>

SegmentsPerTask(template) ==
    CASE template = "support_call" -> 1
      [] template \in {"support_call_audio", "document_classification"} -> 5
      [] OTHER -> 3

MutBuildTasks(segments, size) ==
    LET rows == InOrder(segments)
        ordered == [i \in DOMAIN rows |-> SegmentId(rows[i])]
    IN  [n \in 1..(Len(ordered) \div size) |-> SubSeq(ordered, (n - 1) * size + 1, n * size)]

BuildTasks(segments, size) ==
    LET rows == InOrder(segments)
        ordered == [i \in DOMAIN rows |-> SegmentId(rows[i])]
        count == (Len(ordered) + size - 1) \div size
        stop(n) == IF n = count THEN Len(ordered) ELSE n * size
    IN  [n \in 1..count |-> SubSeq(ordered, (n - 1) * size + 1, stop(n))]

-----------------------------------------------------------------------------
(* A labeller's reply is a sequence of items [index, fields, said,         *)
(* confidence]: the fields with a text that is not blank, and whether the  *)
(* confidence is a "number", "nan", or something else ("text").  A reply   *)
(* that is not of the agreed shape is UNREADABLE.                          *)

DEFAULT_CONFIDENCE == 8500
LOW_CONFIDENCE == 3000
LOW_CONFIDENCE_THRESHOLD == 5000
UNREADABLE == <<[index |-> 0, fields |-> {}, said |-> "text", confidence |-> 0]>>

(* Where the items are that count: one that names no segment, or leaves a  *)
(* required field out, is skipped.                                         *)
Usable(reply, count, required) ==
    {j \in DOMAIN reply : /\ reply[j].index \in 0..(count - 1)
                          /\ required \subseteq reply[j].fields}

(* Comparing a NaN raises an error the labeller does not catch.            *)
ReplyRaises(reply, count, required) ==
    \E j \in Usable(reply, count, required) : reply[j].said = "nan"

ParseConfidence(item) ==
    CASE item.said = "text" -> DEFAULT_CONFIDENCE
      [] item.confidence < 0 -> 0
      [] item.confidence > 10000 -> 10000
      [] OTHER -> item.confidence

(* The labels and confidence of each position; of two usable items for one *)
(* position the later counts, and a position without any turns the whole   *)
(* reply into a low-confidence fallback.                                   *)
ParseReply(reply, count, required) ==
    LET items(i) == {j \in Usable(reply, count, required) : reply[j].index = i - 1}
        entry(text, confidence) ==
            [labels |-> [f \in required |-> text], confidence |-> confidence]
    IN  IF \E i \in 1..count : items(i) = {}
        THEN [i \in 1..count |-> entry("unknown", LOW_CONFIDENCE)]
        ELSE [i \in 1..count |-> entry("given", ParseConfidence(reply[Max(items(i))]))]

MutLabelBatch(task, reply, required) ==
    LET parsed == ParseReply(reply, Len(task), required)
    IN  [labels |-> [id \in ToSet(task) |-> parsed[CHOOSE i \in DOMAIN task : task[i] = id].labels],
         confidence |-> parsed[Len(task)].confidence]

(* A batch has one confidence, the least of its segments.                  *)
LabelBatch(task, reply, required) ==
    LET parsed == ParseReply(reply, Len(task), required)
    IN  [labels |-> [id \in ToSet(task) |-> parsed[CHOOSE i \in DOMAIN task : task[i] = id].labels],
         confidence |-> Min({parsed[i].confidence : i \in DOMAIN parsed})]

-----------------------------------------------------------------------------
(* Export                                                                  *)

BatchesOf(batches, s) == {n \in DOMAIN batches : SegmentId(s) \in DOMAIN batches[n].labels}

(* One record for each labelled segment, in order; times and speaker only  *)
(* for a project in the audio domain.                                      *)
Merge(segments, batches, domain) ==
    LET labelled == {s \in segments : BatchesOf(batches, s) # {}}
        record(s) ==
            LET batch == batches[Max(BatchesOf(batches, s))] IN
            [segment |-> SegmentId(s), content |-> s.content,
             labels |-> batch.labels[SegmentId(s)], confidence |-> batch.confidence,
             ms |-> IF domain = "audio" THEN <<s.start, s.end>> ELSE <<>>,
             speaker |-> IF domain = "audio" THEN s.speaker ELSE "none"]
        rows == InOrder(labelled)
    IN  [i \in DOMAIN rows |-> record(rows[i])]

(* A share in hundredths of a percent, rounded.                            *)
Percent(part, whole) == IF whole = 0 THEN 10000 ELSE (20000 * part + whole) \div (2 * whole)

LabelsComplete(record, required) == required \subseteq DOMAIN record.labels

(* A transcript is a sequence of words: empty when it has none.            *)
QcReport(records, segments, required, domain) ==
    LET compliant == {i \in DOMAIN records : LabelsComplete(records[i], required)}
        low == {records[i].segment : i \in {j \in DOMAIN records :
                    records[j].confidence < LOW_CONFIDENCE_THRESHOLD}}
        coverage == Percent(Len(records), Cardinality(segments))
        compliance == Percent(Cardinality(compliant), Len(records))
        empty == {s \in segments : domain = "audio" /\ s.content = <<>>}
    IN  [coverage |-> coverage, compliance |-> compliance, low |-> low,
         flags |-> {flag \in {"incomplete_coverage", "schema_noncompliance",
                              "low_confidence_segments", "empty_transcripts"} :
                      \/ flag = "incomplete_coverage" /\ coverage < 10000
                      \/ flag = "schema_noncompliance" /\ compliance < 10000
                      \/ flag = "low_confidence_segments" /\ low # {}
                      \/ flag = "empty_transcripts" /\ empty # {}}]
=============================================================================
