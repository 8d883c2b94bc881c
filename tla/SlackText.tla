----------------------------- MODULE SlackText -----------------------------
(***************************************************************************)
(* How a long message is cut for Slack (split_long_text() and its helpers   *)
(* in mapchete_hub/observers/slack_messenger.py): at newlines, where a line *)
(* is too long at spaces, and where a word is too long anywhere.  A text is *)
(* a sequence of characters, of which only the separators matter.           *)
(***************************************************************************)
EXTENDS Naturals, Sequences, SequencesExt

Newline == "newline"
Space == "space"

\* text.split(split_by)
Elements(text, split_by) ==
    LET elements[n \in 0..Len(text)] ==   \* of the first n characters
          IF n = 0 THEN << <<>> >>
          ELSE IF text[n] = split_by THEN Append(elements[n - 1], <<>>)
          ELSE [elements[n - 1] EXCEPT ![Len(elements[n - 1])] = Append(@, text[n])]
    IN  elements[Len(text)]

\* Mutant: what was collected before a long element is forgotten.
AddElementForgets(max_length, split_by, split, element) ==
    LET piece == Append(element, split_by) IN
    IF Len(split.chunk) + Len(piece) <= max_length
    THEN [split EXCEPT !.chunk = @ \o piece]
    ELSE IF Len(piece) > max_length
    THEN [chunks |-> Append(split.chunks, piece), chunk |-> <<>>]
    ELSE [chunks |-> Append(split.chunks, split.chunk), chunk |-> piece]

\* One turn of the loop in _split(): the chunk grows as long as it fits; an
\* element that is too long becomes a chunk of its own.
AddElement(max_length, split_by, split, element) ==
    LET piece == Append(element, split_by) IN
    IF Len(split.chunk) + Len(piece) <= max_length
    THEN [split EXCEPT !.chunk = @ \o piece]
    ELSE IF Len(piece) > max_length
    THEN [chunks |-> split.chunks \o <<split.chunk, piece>>, chunk |-> <<>>]
    ELSE [chunks |-> Append(split.chunks, split.chunk), chunk |-> piece]

Split(text, max_length, split_by) ==
    LET elements == Elements(text, split_by)
        split[n \in 0..Len(elements)] ==   \* after n turns
          IF n = 0 THEN [chunks |-> <<>>, chunk |-> <<>>]
          ELSE AddElement(max_length, split_by, split[n - 1], elements[n])
        last == split[Len(elements)]
    IN  Append(last.chunks, last.chunk)

\* Mutant: the slices include their end.
ChunkByLengthOverlong(text, max_length) ==
    [i \in 1..((Len(text) + max_length - 1) \div max_length) |->
        SubSeq(text, (i - 1) * max_length + 1,
               IF i * max_length < Len(text) THEN i * max_length + 1 ELSE Len(text))]

ChunkByLength(text, max_length) ==
    [i \in 1..((Len(text) + max_length - 1) \div max_length) |->
        SubSeq(text, (i - 1) * max_length + 1,
               IF i * max_length <= Len(text) THEN i * max_length ELSE Len(text))]

CutWhereLong(chunks, max_length, Cut(_)) ==
    FlattenSeq([i \in DOMAIN chunks |->
                  IF Len(chunks[i]) > max_length THEN Cut(chunks[i]) ELSE <<chunks[i]>>])

SplitLongText(text, max_length) ==
    CutWhereLong(Split(text, max_length, Newline), max_length,
        LAMBDA line : CutWhereLong(Split(line, max_length, Space), max_length,
            LAMBDA word : ChunkByLength(word, max_length)))

(***************************************************************************)
(* No chunk is longer than Slack accepts.                                   *)
(***************************************************************************)
EveryChunkFits(text, max_length) ==
    \A i \in DOMAIN SplitLongText(text, max_length) :
        Len(SplitLongText(text, max_length)[i]) <= max_length

\* What is read: everything but the separators.
Readable(text) ==
    FlattenSeq([i \in DOMAIN text |->
                  IF text[i] \in {Newline, Space} THEN <<>> ELSE << text[i] >>])

(***************************************************************************)
(* The chunks put together read as the text: nothing is lost, repeated or   *)
(* moved, only separators are added.                                        *)
(***************************************************************************)
NothingLost(text, max_length) ==
    Readable(FlattenSeq(SplitLongText(text, max_length))) = Readable(text)

=============================================================================
