------------------------------ MODULE MCDataset ------------------------------
EXTENDS Dataset

MCOverrides == {
    <<>>,
    [required |-> {"topic"}],
    [type |-> "object", properties |-> [f \in {"topic", "mood"} |-> "string"], required |-> {}],
    [properties |-> [f \in {"topic"} |-> "string"]]}

Upload(ext, text, utterances) ==
    [ext |-> ext, size |-> 1, seconds |-> IF ext = ".wav" THEN 60 ELSE -1,
     text |-> text, utterances |-> utterances]

Utterance(words, start, end) == [words |-> words, start |-> start, end |-> end]

MCWide == [s \in {"W", "E"} |-> IF s = "E" THEN 3 ELSE 2]

\* The windows of four tokens end inside "E" here, inside "W" and "E" in Report.
Note == Upload(".txt", <<"a", "b", "E", "c", NL, NL, "a", "b", NL, "d", NL, NL, NL, "a">>, <<>>)
Lines == Upload(".txt", <<NL, "a", "b", NL, "c", NL, "a", "b">>, <<>>)
Short == Upload(".txt", <<"e">>, <<>>)
Guide == Upload(".md", <<HEADER, "a", NL, "b", "c", NL, HEADER, "d", NL, NL, "a">>, <<>>)
Report == Upload(".pdf", <<"a", "b", "c", "W", "E", "a", "c">>, <<>>)
Scan == Upload(".pdf", <<NL>>, <<>>)
Blank == Upload(".txt", <<NL, NL>>, <<>>)

\* One utterance is longer than a turn may be, and two together are.
Call == Upload(".wav", <<>>, <<Utterance(<<"hello", "this", "is", "support", "speaking">>, 0, 23),
                               Utterance(<<"hi">>, 23, 29), Utterance(<<"bye">>, 30, 36)>>)
Greeting == Upload(".wav", <<>>, <<Utterance(<<"hello">>, 0, 4), Utterance(<<"hi", "there">>, 5, 40)>>)
Silence == Upload(".wav", <<>>, <<>>)

MCUploadLists == {
    <<>>, <<Note>>, <<Lines>>, <<Short, Guide>>, <<Guide, Short>>, <<Report>>, <<Scan>>, <<Blank>>,
    <<Call>>, <<Greeting>>, <<Silence>>, <<Call, Blank>>,
    <<[Note EXCEPT !.size = 0]>>, <<[Call EXCEPT !.seconds = 301]>>, <<[Call EXCEPT !.seconds = -1]>>,
    <<[Note EXCEPT !.ext = ".csv"]>>}

AllFields == DOMAIN CallSchema.properties \union DOMAIN DocumentSchema.properties \union {"mood"}
Item(index, fields, said, confidence) ==
    [index |-> index, fields |-> fields, said |-> said, confidence |-> confidence]
Sure(index) == Item(index, AllFields, "number", 9000)

MCReplies == {
    UNREADABLE,
    [i \in 1..5 |-> Sure(i - 1)],
    <<Item(0, AllFields, "number", 4000), Item(1, AllFields, "text", 0), Sure(2), Sure(3), Sure(4)>>,
    \* The second answer for segment 0 is unsure, and segment 1 lacks a field everywhere.
    <<Sure(0), Item(1, AllFields \ {"topic"}, "number", 20000), Item(0, AllFields, "number", -1)>>,
    <<Item(0, AllFields, "nan", 0), Sure(1)>>}
=============================================================================
