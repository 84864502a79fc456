------------------------------ MODULE ChunkSpans ------------------------------
(***************************************************************************)
(* _chunk_text_spans: the spans of a text that become its chunks.          *)
(*                                                                         *)
(* The loop takes at most max_chars characters from the next one that is   *)
(* not white space, cuts back to a paragraph break, else to a blank or a   *)
(* line break, and goes on overlap_chars before the cut.  Of a character   *)
(* only what the loop asks is kept: is it white space, and does it break   *)
(* a line or a chunk.  Offsets count from 0 as in the code.                *)
(*                                                                         *)
(* The specification is named SplitSpec, with SplitInit, SplitNext and so  *)
(* on: ingestion runs the loop on what IngestionJob has extracted, and the *)
(* proofs about ingestion extend both modules.                             *)
(***************************************************************************)
EXTENDS Integers, Sequences

CONSTANTS
    Lengths,      \* lengths of texts
    MaxChars,     \* values of max_chars callers pass
    OverlapChars  \* values of overlap_chars callers pass

ASSUME SplitAssumption ==
    Lengths \subseteq Nat /\ MaxChars \subseteq Int /\ OverlapChars \subseteq Int

(* blank is any other white space, as the tabs in a cell of a CSV file     *)
Kinds == {"word", "space", "newline", "blank"}
IsSpace(kind) == kind # "word"

VARIABLES
    text,          \* [0..length - 1 -> Kinds]
    length,        \* len(text)
    max_chars,
    overlap_chars,
    stage,         \* called, looping, returned, rejected
    start,
    spans          \* the list of pairs, begin and end

splitVars == <<text, length, max_chars, overlap_chars, stage, start, spans>>
parameters == <<text, length, max_chars, overlap_chars>>

SplitInit ==
    /\ length \in Lengths
    /\ text \in [0..(length - 1) -> Kinds]
    /\ max_chars \in MaxChars
    /\ overlap_chars \in OverlapChars
    /\ stage = "called"
    /\ start = 0
    /\ spans = <<>>

-----------------------------------------------------------------------------
Least(S) == CHOOSE i \in S : \A j \in S : i <= j
Greatest(S) == CHOOSE i \in S : \A j \in S : j <= i

Valid == 0 < max_chars /\ 0 <= overlap_chars /\ overlap_chars < max_chars

(* _next_non_whitespace                                                    *)
NextNonWhitespace(from) ==
    Least({i \in from..length : i = length \/ ~IsSpace(text[i])})

(* len(text.rstrip())                                                      *)
StrippedLength == Greatest({0} \cup {i + 1 : i \in {j \in 0..(length - 1) : ~IsSpace(text[j])}})

ParagraphBreaks(from, to) ==
    {i \in from..(to - 2) : text[i] = "newline" /\ text[i + 1] = "newline"}

(* Wrong: a line break is no place to cut.                                 *)
BlanksOnly(from, to) == {i \in from..(to - 1) : text[i] = "space"}

WhitespaceBreaks(from, to) == {i \in from..(to - 1) : text[i] \in {"space", "newline"}}

(* Wrong: the character at the limit is taken too.                         *)
OneMoreChar(from) == IF length < from + max_chars + 1 THEN length ELSE from + max_chars + 1

(* min(len(text), start + max_chars)                                       *)
HardEnd(from) == IF length < from + max_chars THEN length ELSE from + max_chars

(* Wrong: the last chunk is not cut to the text.                           *)
EndUnclipped(from) ==
    LET breaks == WhitespaceBreaks(from + 1, HardEnd(from))
    IN IF from + max_chars < length /\ breaks # {} THEN Greatest(breaks) ELSE from + max_chars

(* _chunk_end                                                              *)
ChunkEnd(from) ==
    LET hard_end == HardEnd(from)
        paragraphs == ParagraphBreaks(from + 1, hard_end)
        breaks == WhitespaceBreaks(from + 1, hard_end)
    IN IF hard_end = length THEN StrippedLength
       ELSE IF paragraphs # {} THEN Greatest(paragraphs)
       ELSE IF breaks # {} THEN Greatest(breaks)
       ELSE hard_end

(* Wrong: the cut itself is skipped, as if it were always a blank.         *)
PastTheCut(from, end) ==
    IF from + 1 < end + 1 - overlap_chars THEN end + 1 - overlap_chars ELSE from + 1

(* Wrong: the overlap is counted from the character behind the cut.        *)
OverlapOneMore(from, end) ==
    IF from + 1 < end - overlap_chars - 1 THEN end - overlap_chars - 1 ELSE from + 1

(* Wrong: the next chunk may begin where this one did.                     *)
MayStay(from, end) == IF from < end - overlap_chars THEN end - overlap_chars ELSE from

(* max(start + 1, end - overlap_chars)                                     *)
NextStart(from, end) == IF from + 1 < end - overlap_chars THEN end - overlap_chars ELSE from + 1

-----------------------------------------------------------------------------
Reject ==
    /\ stage = "called"
    /\ ~Valid
    /\ stage' = "rejected"
    /\ UNCHANGED <<parameters, start, spans>>

Begin ==
    /\ stage = "called"
    /\ Valid
    /\ start' = NextNonWhitespace(0)
    /\ stage' = "looping"
    /\ UNCHANGED <<parameters, spans>>

(* One turn of the loop.                                                   *)
AddSpan ==
    /\ stage = "looping"
    /\ start < length
    /\ LET end == ChunkEnd(start) IN
       /\ spans' = Append(spans, <<start, end>>)
       /\ IF end >= length
          THEN stage' = "returned" /\ UNCHANGED start
          ELSE start' = NextNonWhitespace(NextStart(start, end)) /\ UNCHANGED stage
    /\ UNCHANGED parameters

Return ==
    /\ stage = "looping"
    /\ start >= length
    /\ stage' = "returned"
    /\ UNCHANGED <<parameters, start, spans>>

SplitDone == stage \in {"returned", "rejected"} /\ UNCHANGED splitVars

SplitNext == Reject \/ Begin \/ AddSpan \/ Return \/ SplitDone

SplitSpec == SplitInit /\ [][SplitNext]_splitVars

-----------------------------------------------------------------------------
(* Properties.                                                             *)

(* The types of the state; a span is within the text.                      *)
SplitTypeOK ==
    /\ length \in Lengths
    /\ text \in [0..(length - 1) -> Kinds]
    /\ max_chars \in MaxChars
    /\ overlap_chars \in OverlapChars
    /\ stage \in {"called", "looping", "returned", "rejected"}
    /\ start \in 0..length
    /\ spans \in Seq((0..length) \X (0..length))

(* Nothing is lost between two chunks: when the loop ends, every character *)
(* that is not white space is in a chunk.                                  *)
TextIsCovered ==
    stage = "returned" =>
        \A i \in 0..(length - 1) :
            IsSpace(text[i]) \/ \E k \in 1..Len(spans) : spans[k][1] <= i /\ i < spans[k][2]

(* A chunk begins with a character, holds no more than max_chars of them,  *)
(* and each begins after the one before it.                                *)
SpansFit ==
    \A k \in 1..Len(spans) :
        /\ ~IsSpace(text[spans[k][1]])
        /\ spans[k][1] < spans[k][2] /\ spans[k][2] <= spans[k][1] + max_chars
        /\ k < Len(spans) => spans[k][1] < spans[k + 1][1]

(* A chunk ends inside a word only where the word, up to the cut, is all   *)
(* of it: there was no blank and no line break to cut at.                  *)
WordsStayWhole ==
    \A k \in 1..Len(spans) :
        LET end == spans[k][2] IN
        end < length /\ ~IsSpace(text[end]) =>
            \A i \in (spans[k][1] + 1)..(end - 1) : text[i] \notin {"space", "newline"}

(* Neighbours share no more than overlap_chars, so none if that is 0.      *)
OverlapIsBounded ==
    \A k \in 1..Len(spans) :
        k < Len(spans) => spans[k][2] - spans[k + 1][1] <= overlap_chars

(* Every turn of the loop comes closer to the end of the text.             *)
TurnsAdvance == [][stage = "looping" /\ stage' = "looping" => start < start']_splitVars
=============================================================================
