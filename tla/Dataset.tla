------------------------------- MODULE Dataset -------------------------------
(***************************************************************************)
(* The data of one project on its way from upload to export.  The messages *)
(* between the stages, their retries and their faults are the subject of   *)
(* StageRun and Pipeline: here each stage either does its work or fails    *)
(* the project for good.                                                   *)
(***************************************************************************)
EXTENDS Labelling

CONSTANTS
    Overrides,   \* the schema_json of a submission; the empty function for none
    UploadLists, \* lists of uploads [ext, size, seconds, text, utterances]
    MaxBytes, MaxSeconds,
    ChunkSize, Overlap, MaxTurn,
    TaskSizes,   \* planning_segments_per_task, 0 where it is not set
    MaxUtterances,
    Replies      \* what the labeller may answer

(* What comes in: uploads, with the text that is extracted from them or    *)
(* the utterances that are recognised, and the items of a reply.           *)
Utterances == [words : Seq(STRING), start : Int, end : Int]
Uploads == [ext : STRING, size : Nat, seconds : Int, text : Seq(STRING),
            utterances : Seq(Utterances)]
Items == [index : Int, fields : SUBSET STRING, said : {"number", "nan", "text"}, confidence : Int]

ASSUME UploadsAreLists == UploadLists \subseteq Seq(Uploads)
ASSUME RepliesAreLists == Replies \subseteq Seq(Items)
ASSUME WindowsAdvance == Overlap \in Nat /\ ChunkSize \in Nat /\ Overlap < ChunkSize
ASSUME TurnsLast == MaxTurn \in Nat \ {0}
ASSUME TaskSizesFit == TaskSizes \subseteq Nat

VARIABLES
    phase,     \* "new", "refused", "submitted", "segmented", "planned", "exported" or "failed"
    project,   \* [template, schema, domain]
    assets,    \* the stored uploads, numbered in the order of their random ids
    roles,     \* the speaker of each utterance, as the model classified it
    segments,  \* segment rows
    tasks,     \* annotation_task_segments: a sequence of segment ids for each task
    answers,   \* the reply each task was labelled with
    batches,   \* annotation batches, by task
    export     \* records and quality report

vars == <<phase, project, assets, roles, segments, tasks, answers, batches, export>>

NoProject == [template |-> NOTEMPLATE, schema |-> <<>>, domain |-> "none"]
NoExport == [records |-> <<>>, report |-> QcReport(<<>>, {}, {}, "none")]

-----------------------------------------------------------------------------
Init ==
    /\ phase = "new" /\ project = NoProject /\ assets = <<>> /\ roles = <<>>
    /\ segments = {} /\ tasks = <<>> /\ answers = <<>> /\ batches = <<>>
    /\ export = NoExport

Acceptable(template, override, uploads) ==
    /\ uploads # <<>>
    /\ SchemaResolves(template, override)
    /\ \A n \in DOMAIN uploads : UploadValid(uploads[n], template, MaxBytes, MaxSeconds)

Submit ==
    /\ phase = "new"
    /\ \E template \in Templates \union {NOTEMPLATE, "unheard_of"},
          override \in Overrides, uploads \in UploadLists :
        IF Acceptable(template, override, uploads)
        THEN /\ phase' = "submitted"
             /\ project' = [template |-> template, schema |-> ResolveSchema(template, override),
                            domain |-> DomainOf(template)]
             /\ assets' = uploads
        ELSE phase' = "refused" /\ UNCHANGED <<project, assets>>
    /\ UNCHANGED <<roles, segments, tasks, answers, batches, export>>

(* Whether an asset can be segmented at all: a recording needs utterances  *)
(* and valid roles, a PDF some text.                                       *)
Extractable(asset, speakers) ==
    IF IsAudio(asset)
    THEN /\ asset.utterances # <<>>
         /\ RolesValid(speakers, asset.utterances)
         /\ BuildSpeakerTurns(asset.utterances, speakers, MaxTurn) # <<>>
    ELSE asset.ext = ".pdf" => Strip(asset.text) # <<>>

SegmentsOf(n, asset, speakers) ==
    IF IsAudio(asset)
    THEN LET turns == BuildSpeakerTurns(asset.utterances, speakers, MaxTurn) IN
         {[asset |-> n, index |-> i, content |-> WordsOf(turns[i]),
           start |-> turns[i].start, end |-> turns[i].end,
           speaker |-> turns[i].speaker, utterances |-> Len(turns[i].parts)] : i \in DOMAIN turns}
    ELSE LET pieces == SegmentText(asset.text, SourceKind(asset), ChunkSize, Overlap) IN
         {[asset |-> n, index |-> i, content |-> pieces[i].content,
           start |-> pieces[i].start, end |-> pieces[i].end,
           speaker |-> "none", utterances |-> 0] : i \in DOMAIN pieces}

Preprocess ==
    /\ phase = "submitted"
    /\ \E chosen \in [{n \in DOMAIN assets : IsAudio(assets[n])} ->
                        [1..MaxUtterances -> {"agent", "customer", "neither"}]] :
        LET speakers(n) ==
                IF IsAudio(assets[n]) THEN SubSeq(chosen[n], 1, Len(assets[n].utterances)) ELSE <<>>
            rows == UNION {SegmentsOf(n, assets[n], speakers(n)) : n \in DOMAIN assets}
        IN  IF /\ \A n \in DOMAIN assets : Extractable(assets[n], speakers(n))
               /\ rows # {}
            THEN phase' = "segmented" /\ segments' = rows /\ roles' = [n \in DOMAIN assets |-> speakers(n)]
            ELSE phase' = "failed" /\ UNCHANGED <<segments, roles>>
    /\ UNCHANGED <<project, assets, tasks, answers, batches, export>>

Plan ==
    /\ phase = "segmented"
    /\ IF SchemaValid(project.schema, project.template)
       THEN \E setting \in TaskSizes :
                LET size == IF setting = 0 THEN SegmentsPerTask(project.template) ELSE setting
                IN  phase' = "planned" /\ tasks' = BuildTasks(segments, size)
       ELSE phase' = "failed" /\ UNCHANGED tasks
    /\ UNCHANGED <<project, assets, roles, segments, answers, batches, export>>

With(f, t, x) == [u \in DOMAIN f \union {t} |-> IF u = t THEN x ELSE f[u]]

(* The tasks are labelled in any order.  A reply that raises is asked for  *)
(* again with each delivery of the task; here it raises at all of them.    *)
Label(t) ==
    /\ phase = "planned" /\ t \notin DOMAIN batches
    /\ LET required == RequiredFields(project.schema) IN
        \E reply \in Replies :
            IF ReplyRaises(reply, Len(tasks[t]), required)
            THEN phase' = "failed" /\ UNCHANGED <<answers, batches>>
            ELSE /\ batches' = With(batches, t, LabelBatch(tasks[t], reply, required))
                 /\ answers' = With(answers, t, reply)
                 /\ UNCHANGED phase
    /\ UNCHANGED <<project, assets, roles, segments, tasks, export>>

(* The export refuses to run with fewer batches than tasks.                *)
Export ==
    /\ phase = "planned" /\ DOMAIN batches = DOMAIN tasks
    /\ phase' = "exported"
    /\ LET records == Merge(segments, batches, project.domain) IN
        export' = [records |-> records,
                   report |-> QcReport(records, segments, RequiredFields(project.schema),
                                      project.domain)]
    /\ UNCHANGED <<project, assets, roles, segments, tasks, answers, batches>>

Next == Submit \/ Preprocess \/ Plan \/ (\E t \in DOMAIN tasks : Label(t)) \/ Export
Spec == Init /\ [][Next]_vars

-----------------------------------------------------------------------------
SegmentsOfAsset(n) == InOrder({s \in segments : s.asset = n})
ContentOf(rows) == FlattenSeq([i \in DOMAIN rows |-> rows[i].content])

(* How much of a sequence another one contains in its order.               *)
Matched(seq, in) ==
    LET n[i \in 0..Len(in)] ==
            IF i = 0 THEN 0
            ELSE IF n[i - 1] < Len(seq) /\ seq[n[i - 1] + 1] = in[i] THEN n[i - 1] + 1 ELSE n[i - 1]
    IN  n[Len(in)]

Inked(text) == FlattenSeq([i \in DOMAIN text |-> IF text[i] = NL THEN <<>> ELSE <<text[i]>>])

(* Nothing of a text is lost, as long as the overlap of two windows is no  *)
(* less than the tokens of any symbol but one: the segments of an asset    *)
(* contain its symbols in order, also where a window ends inside a symbol, *)
(* because the next window then starts at or before it (_token_windows).   *)
OverlapSuffices == \A symbol \in DOMAIN Wide : Wide[symbol] - 1 <= Overlap

NothingLost ==
    phase = "segmented" /\ OverlapSuffices =>
        \A n \in {m \in DOMAIN assets : ~IsAudio(assets[m])} :
            LET inked == Inked(assets[n].text)
            IN  Matched(inked, ContentOf(SegmentsOfAsset(n))) = Len(inked)

(* The offsets of a segment, when it has any, delimit its content in the   *)
(* stripped text of its asset (segment_text): repeated blocks and windows  *)
(* included.                                                               *)
OffsetsFaithful ==
    phase = "segmented" =>
        \A s \in segments : ~IsAudio(assets[s.asset]) /\ s.start # NONE =>
            SubSeq(Strip(assets[s.asset].text), s.start + 1, s.end) = s.content

(* What was said and who said it survive the merging and cutting of turns: *)
(* the segments of a recording hold the words of its utterances in order,  *)
(* each with its speaker (build_speaker_turns).  And a turn that joins     *)
(* several parts keeps to asr_max_turn_ms: one that does not is a single   *)
(* utterance or a single chunk, be it the first or the last, of one that   *)
(* was cut (_split_long_turns, _expand_oversized_utterances).              *)
TurnBounded ==
    \A s \in segments : s.utterances > 1 => s.end - s.start <= MaxTurn

TranscriptKept ==
    phase = "segmented" =>
        /\ TurnBounded
        /\ \A n \in {m \in DOMAIN assets : IsAudio(assets[m])} :
            LET rows == SegmentsOfAsset(n)
                said == assets[n].utterances
                tagged(words, speaker) == [i \in DOMAIN words |-> <<words[i], speaker>>]
            IN  FlattenSeq([i \in DOMAIN rows |-> tagged(rows[i].content, rows[i].speaker)])
                = FlattenSeq([i \in DOMAIN said |-> tagged(said[i].words, roles[n][i])])

(* What the export presents as milliseconds and speaker comes from a       *)
(* recording, never from a text whose offsets count characters: the domain *)
(* decides in merge.py, the file type in preprocessing.                    *)
TimingsTrue ==
    \A i \in DOMAIN export.records :
        export.records[i].ms # <<>> =>
            IsAudio(assets[export.records[i].segment[1]]) /\ export.records[i].speaker # "none"

(* The export holds every segment once, in order, with all the labels its  *)
(* schema requires and the times and speaker that are its own, and the     *)
(* report says so: however the segments were shared out into tasks and     *)
(* whatever the labeller answered (export.py, merge.py, task_builder.py,   *)
(* labeler.py).                                                            *)
ExportComplete ==
    phase = "exported" =>
        /\ [i \in DOMAIN export.records |-> export.records[i].segment] =
               [i \in DOMAIN InOrder(segments) |-> SegmentId(InOrder(segments)[i])]
        /\ \A i \in DOMAIN export.records :
               RequiredFields(project.schema) \subseteq DOMAIN export.records[i].labels
        /\ TimingsTrue
        /\ export.report.flags \subseteq {"low_confidence_segments"}

(* A segment the labeller left out, or was not sure of, does not pass for  *)
(* a good one: the report lists it, although only one confidence of its    *)
(* batch is stored (batch_confidence, build_qc_report).                    *)
SuspectsFlagged ==
    phase = "exported" =>
        \A t \in DOMAIN tasks :
            LET parsed == ParseReply(answers[t], Len(tasks[t]), RequiredFields(project.schema))
            IN  \A i \in DOMAIN tasks[t] :
                    parsed[i].confidence < LOW_CONFIDENCE_THRESHOLD => tasks[t][i] \in export.report.low
=============================================================================
