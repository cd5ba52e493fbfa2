---------------------------- MODULE Segmentation ----------------------------
(***************************************************************************)
(* What preprocessing makes of an asset: text is cut into blocks and token *)
(* windows, the utterances of a recording are merged into speaker turns.   *)
(*                                                                         *)
(* A text is a sequence of symbols: words, newlines, and HEADER, the mark  *)
(* that opens a heading.  Offsets count symbols.  A token is <<symbol, k>>,*)
(* the k-th of those that make up one symbol: one for most, as many as     *)
(* Wide says for the others (cl100k_base takes three for many an emoji).   *)
(***************************************************************************)
EXTENDS Integers, Sequences, SequencesExt

CONSTANTS Wide  \* the symbols of several tokens, with how many each takes

ASSUME WideTakeSome == \A s \in DOMAIN Wide : Wide[s] \in Nat \ {0}

NL == "newline"
HEADER == "header"
BROKEN == "broken"  \* what part of a wide symbol decodes to
NONE == -1

-----------------------------------------------------------------------------
(* segment_text                                                            *)

Strip(text) ==
    LET inked == {i \in DOMAIN text : text[i] # NL} IN
    IF inked = {} THEN <<>> ELSE SubSeq(text, Min(inked), Max(inked))

HasBlankLine(text) == \E i \in 1..(Len(text) - 1) : text[i] = NL /\ text[i + 1] = NL

(* Where a block of a stripped text starts: plain text is split at blank   *)
(* lines or, without any, at every line; Markdown at blank lines and       *)
(* before headings.                                                        *)
StartsBlock(text, kind, i) ==
    /\ text[i] # NL
    /\ i > 1 =>
        /\ text[i - 1] = NL
        /\ \/ text[i - 2] = NL
           \/ kind = "plain" /\ ~HasBlankLine(text)
           \/ kind = "markdown" /\ text[i] = HEADER

Blocks(text, kind) ==
    LET starts == {i \in DOMAIN text : StartsBlock(text, kind, i)}
        start(n) == CHOOSE i \in starts : Cardinality({j \in starts : j < i}) = n - 1
        stop(n) == IF n = Cardinality(starts) THEN Len(text) ELSE start(n + 1) - 1
    IN  [n \in 1..Cardinality(starts) |-> Strip(SubSeq(text, start(n), stop(n)))]

(* str.find: the offset of the first occurrence.                           *)
Find(text, part) ==
    LET at == {i \in 0..(Len(text) - Len(part)) : SubSeq(text, i + 1, i + Len(part)) = part}
    IN  IF at = {} THEN NONE ELSE Min(at)

Tokens(symbol) == IF symbol \in DOMAIN Wide THEN Wide[symbol] ELSE 1

Encode(text) ==
    FlattenSeq([i \in DOMAIN text |-> [k \in 1..Tokens(text[i]) |-> <<text[i], k>>]])

(* Of a stretch of an encoded text.  A symbol the stretch ends in decodes  *)
(* to one replacement character, one it starts in to one for each token.   *)
Decode(tokens) ==
    LET symbol(i) ==
            LET x == tokens[i][1]
                k == tokens[i][2]
            IN  CASE k = 1 -> IF i + Tokens(x) - 1 <= Len(tokens) THEN <<x>> ELSE <<BROKEN>>
                  [] k > 1 -> IF k <= i THEN <<>> ELSE <<BROKEN>>
    IN  FlattenSeq([i \in DOMAIN tokens |-> symbol(i)])

MutTokenWindows(tokens, size, overlap) ==
    LET from[start \in Nat] ==
            IF start + size >= Len(tokens)
            THEN <<SubSeq(tokens, start + 1, Len(tokens))>>
            ELSE <<SubSeq(tokens, start + 1, start + size)>> \o from[start + size]
    IN  from[0]

(* Windows of size tokens, each starting overlap tokens before the end of  *)
(* the one before.                                                         *)
TokenWindows(tokens, size, overlap) ==
    LET from[start \in Nat] ==
            IF start + size >= Len(tokens)
            THEN <<SubSeq(tokens, start + 1, Len(tokens))>>
            ELSE <<SubSeq(tokens, start + 1, start + size)>> \o from[start + size - overlap]
    IN  from[0]

Piece(content, start) ==
    [content |-> content, start |-> start,
     end |-> IF start = NONE THEN NONE ELSE start + Len(content)]

MutPiecesOfBlock(text, block, size, overlap) ==
    LET windows == TokenWindows(Encode(block), size, overlap)
    IN  [i \in DOMAIN windows |-> Piece(Decode(windows[i]), Find(text, block))]

(* A block that fits is one piece; the offset of a window is that of its   *)
(* first occurrence in the block, if it occurs at all.                     *)
PiecesOfBlock(text, block, size, overlap) ==
    LET start == Find(text, block)
        windows == TokenWindows(Encode(block), size, overlap)
        offset(sub) == LET at == Find(block, sub) IN IF at = NONE THEN NONE ELSE start + at
    IN  IF Len(Encode(block)) <= size
        THEN <<Piece(block, start)>>
        ELSE [i \in DOMAIN windows |-> Piece(Decode(windows[i]), offset(Decode(windows[i])))]

(* Only with overlap < size; the code raises ValueError otherwise.         *)
SegmentText(raw, kind, size, overlap) ==
    LET text == Strip(raw)
        blocks == Blocks(text, kind)
    IN  FlattenSeq([n \in DOMAIN blocks |-> PiecesOfBlock(text, blocks[n], size, overlap)])

-----------------------------------------------------------------------------
(* build_speaker_turns.  An utterance is [words, start, end].              *)

(* Parsed roles: one of the two for every line, or a ValueError.           *)
RolesValid(roles, utterances) ==
    \A i \in DOMAIN utterances : i \in DOMAIN roles /\ roles[i] \in {"agent", "customer"}

Turn(part, role) == [parts |-> <<part>>, speaker |-> role, start |-> part.start, end |-> part.end]
Extend(turn, part) == [turn EXCEPT !.parts = Append(@, part), !.end = part.end]

(* Blank utterances are dropped, neighbours of one speaker merged.         *)
AddUtterance(turns, u, role) ==
    IF u.words = <<>> THEN turns
    ELSE IF turns # <<>> /\ Last(turns).speaker = role
    THEN Append(Front(turns), Extend(Last(turns), u))
    ELSE Append(turns, Turn(u, role))

GroupBySpeaker(utterances, roles) ==
    LET turns[i \in 0..Len(utterances)] ==
            IF i = 0 THEN <<>> ELSE AddUtterance(turns[i - 1], utterances[i], roles[i])
    IN  turns[Len(utterances)]

MutExpand(u, max) ==
    LET duration == u.end - u.start
        count == Max({2, (duration + max - 1) \div max})
        perChunk == Max({1, Len(u.words) \div count})
        cut(n) == Min({n * perChunk, Len(u.words)})
        time(n) == u.start + (duration * n) \div Len(u.words)
        chunk(n) == [words |-> SubSeq(u.words, cut(n) + 1, cut(n + 1)),
                     start |-> time(cut(n)), end |-> Max({time(cut(n + 1)), time(cut(n)) + 1})]
    IN  IF duration <= max \/ Len(u.words) < 2 THEN <<u>>
        ELSE FlattenSeq([n \in 1..count |-> IF chunk(n - 1).words = <<>> THEN <<>> ELSE <<chunk(n - 1)>>])

(* An utterance longer than the limit is cut into as many chunks as the    *)
(* limit asks for, the words shared out evenly and the rest in the last.   *)
(* (The code scales times in floating point: up to 1 ms less.)             *)
Expand(u, max) ==
    LET duration == u.end - u.start
        count == Max({2, (duration + max - 1) \div max})
        perChunk == Max({1, Len(u.words) \div count})
        cut(n) == IF n = count THEN Len(u.words) ELSE Min({n * perChunk, Len(u.words)})
        time(n) == u.start + (duration * n) \div Len(u.words)
        chunk(n) == [words |-> SubSeq(u.words, cut(n) + 1, cut(n + 1)),
                     start |-> time(cut(n)), end |-> Max({time(cut(n + 1)), time(cut(n)) + 1})]
    IN  IF duration <= max \/ Len(u.words) < 2 THEN <<u>>
        ELSE FlattenSeq([n \in 1..count |-> IF chunk(n - 1).words = <<>> THEN <<>> ELSE <<chunk(n - 1)>>])

(* A turn longer than the limit is cut between parts.                      *)
AddPart(turns, part, role, max) ==
    IF turns # <<>> /\ part.end - Last(turns).start <= max
    THEN Append(Front(turns), Extend(Last(turns), part))
    ELSE Append(turns, Turn(part, role))

SplitTurn(turn, max) ==
    LET parts == FlattenSeq([i \in DOMAIN turn.parts |-> Expand(turn.parts[i], max)])
        turns[i \in 0..Len(parts)] ==
            IF i = 0 THEN <<>> ELSE AddPart(turns[i - 1], parts[i], turn.speaker, max)
    IN  IF turn.end - turn.start <= max THEN <<turn>> ELSE turns[Len(parts)]

BuildSpeakerTurns(utterances, roles, max) ==
    LET turns == GroupBySpeaker(utterances, roles)
    IN  FlattenSeq([i \in DOMAIN turns |-> SplitTurn(turns[i], max)])

WordsOf(turn) == FlattenSeq([i \in DOMAIN turn.parts |-> turn.parts[i].words])
=============================================================================
