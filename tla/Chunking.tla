------------------------------- MODULE Chunking -------------------------------
(***************************************************************************)
(* Splitting the extracted segments of a document into chunks: the Node    *)
(* ChunkService (app/src/modules/ai/chunk.service.ts) and the Go ChunkText *)
(* (worker/internal/processing/chunk.go), side by side.  Both walk each    *)
(* segment from `start`, choose an end near a target length, step back by  *)
(* an overlap and stop at two resource limits; they differ in the unit     *)
(* (grapheme boundaries of UTF-16 text, bytes of UTF-8 text), in which     *)
(* space they break at and in how they compute a locator.                  *)
(*                                                                         *)
(* A text is a sequence of storage units: "s" a space, "a" a one-unit      *)
(* character, "h" and "t" the first and a further unit of a wider one.     *)
(* Offsets count from 0 as in the code: unit i of text is text[i + 1].     *)
(***************************************************************************)
EXTENDS Integers, Sequences, FiniteSetsExt, Functions

CONSTANTS
    Inputs,      \* the documents: sequences of segment texts
    Settings     \* the chunk lengths and limits to try

\* The configuration service refuses other settings, the Go constants obey them.
ASSUME SettingsAssumption ==
    \A c \in Settings :
        /\ c.max \in Nat /\ c.target \in 1..c.max /\ c.overlap \in 1..(c.max - 1)
        /\ c.maxChunks \in Nat \ {0} /\ c.maxTotal \in Nat \ {0}

Units == {"s", "a", "h", "t"}

\* No text begins with the further unit of a character or has one after a space.
WellFormed(text) ==
    /\ text \in Seq(Units)
    /\ \A i \in DOMAIN text : text[i] = "t" => i > 1 /\ text[i - 1] \in {"h", "t"}

\* What is extracted are strings.
ASSUME InputsAssumption ==
    /\ Inputs \subseteq Seq(Seq(Units))
    /\ \A texts \in Inputs : \A s \in DOMAIN texts : WellFormed(texts[s])

VARIABLES
    chunker,     \* which implementation runs, with which settings
    document,    \* the segments
    segment,     \* index of the segment being split
    start,       \* offset in its trimmed text
    chunks,      \* the chunks so far
    result       \* waiting for a text, running, done, or the resource limit error

chunkVars == <<chunker, document, segment, start, chunks, result>>

ChunkInit ==
    /\ chunker \in [language : {"node", "go"}, settings : Settings]
    /\ chunker.language = "go" => chunker.settings.overlap < chunker.settings.target
    /\ document \in Inputs
    /\ segment = 1
    /\ start = 0
    /\ chunks = <<>>
    /\ result = "running"

----------------------------------------------------------------------------
IsSpace(text, i) == text[i + 1] = "s"

\* What is left of text[from..to) without the space around it.
TrimBounds(text, from, to) ==
    LET ink == {i \in from..(to - 1) : ~IsSpace(text, i)} IN
    IF ink = {} THEN [from |-> to, to |-> to]
    ELSE [from |-> Min(ink), to |-> Max(ink) + 1]

Bounds == TrimBounds(document[segment], 0, Len(document[segment]))

\* The trimmed text of the segment.
Text == SubSeq(document[segment], Bounds.from + 1, Bounds.to)

GraphemeBoundaries(text) == {i \in 0..(Len(text) - 1) : text[i + 1] # "t"} \cup {Len(text)}

PreviousBoundary(boundaries, candidate, minimum) ==
    LET below == {b \in boundaries : b <= candidate /\ b > minimum} IN
    IF below = {} THEN minimum ELSE Max(below)

NextBoundary(boundaries, from) == Min({b \in boundaries : b > from})

\* Node: the last space up to the target, else the last boundary up to the
\* maximum, else one grapheme, however wide.
SelectChunkEnd(text, from, c) ==
    LET boundaries == GraphemeBoundaries(text)
        maxEnd == PreviousBoundary(boundaries, from + c.max, from)
        preferredEnd == PreviousBoundary(boundaries, from + c.target, from)
        spaces == {b \in boundaries : b > from /\ b <= preferredEnd /\ IsSpace(text, b)}
    IN
    IF maxEnd >= Len(text) THEN Len(text)
    ELSE IF spaces # {} THEN Max(spaces)
    ELSE IF maxEnd > from THEN maxEnd
    ELSE NextBoundary(boundaries, from)

\* Go: just after the first space from the target on, else the maximum.
EndOf(text, from, c) ==
    LET end == from + c.target
        limit == Min({from + c.max, Len(text)})
        spaces == {i \in end..(limit - 1) : IsSpace(text, i)}
    IN
    IF end >= Len(text) THEN Len(text)
    ELSE IF spaces # {} THEN Min(spaces) + 1
    ELSE limit

ChunkEnd ==
    IF chunker.language = "node" THEN SelectChunkEnd(Text, start, chunker.settings)
    ELSE EndOf(Text, start, chunker.settings)

\* Mutant of NextStart: the step back may undo the step forward.
NextStartUnchecked(end) ==
    LET c == chunker.settings IN
    IF chunker.language = "node"
      THEN PreviousBoundary(GraphemeBoundaries(Text), Max({end - c.overlap, 0}), 0)
      ELSE end - c.overlap

\* The step back by the overlap, which must not undo the step forward.
NextStart(end) ==
    LET c == chunker.settings
        back == IF chunker.language = "node"
                  THEN PreviousBoundary(GraphemeBoundaries(Text), Max({end - c.overlap, start + 1}), start)
                  ELSE end - c.overlap
    IN
    IF back > start THEN back ELSE end

\* Mutant of ChunkOf: trailing units beyond the target are dropped.
ChunkOfTarget(part) ==
    LET to == Min({part.to, start + chunker.settings.target}) IN
    [segment |-> segment, from |-> Bounds.from + part.from, to |-> Bounds.from + to,
     locator |-> [start |-> Bounds.from + part.from, end |-> Bounds.from + to]]

\* A chunk: the units of its text and its text-range locator.  The Go locator
\* begins at `start`, before the space that the text is trimmed of.
ChunkOf(part) ==
    LET locatorStart == Bounds.from + (IF chunker.language = "node" THEN part.from ELSE start) IN
    [segment |-> segment, from |-> Bounds.from + part.from, to |-> Bounds.from + part.to,
     locator |-> [start |-> locatorStart, end |-> locatorStart + (part.to - part.from)]]

Size(chunk) == chunk.to - chunk.from

TotalChars == FoldFunction(+, 0, [i \in DOMAIN chunks |-> Size(chunks[i])])

\* One turn of the loop over a segment.
Split ==
    LET end == ChunkEnd
        part == TrimBounds(Text, start, end)
        chunk == ChunkOf(part)
        isEmpty == part.from = part.to
        overLimit == \/ Len(chunks) >= chunker.settings.maxChunks
                     \/ TotalChars + Size(chunk) > chunker.settings.maxTotal
    IN
    /\ result = "running"
    /\ segment <= Len(document)
    /\ start < Len(Text)
    /\ IF ~isEmpty /\ overLimit
         THEN result' = "limit" /\ UNCHANGED <<chunks, start>>
         ELSE /\ chunks' = IF isEmpty THEN chunks ELSE Append(chunks, chunk)
              /\ start' = IF end = Len(Text) THEN end ELSE NextStart(end)
              /\ UNCHANGED result
    /\ UNCHANGED <<chunker, document, segment>>

\* The segment is used up, or was blank.
NextSegment ==
    /\ result = "running"
    /\ segment <= Len(document)
    /\ start >= Len(Text)
    /\ segment' = segment + 1
    /\ start' = 0
    /\ UNCHANGED <<chunker, document, chunks, result>>

Return ==
    /\ result = "running"
    /\ segment > Len(document)
    /\ result' = "done"
    /\ UNCHANGED <<chunker, document, segment, start, chunks>>

ChunkStep == Split \/ NextSegment \/ Return

----------------------------------------------------------------------------
\* Is there a chunk that holds unit i of segment s?
Covered(s, i) ==
    \E n \in DOMAIN chunks :
        chunks[n].segment = s /\ chunks[n].from <= i /\ i < chunks[n].to

\* Is [from, to) of text cut between characters, not inside one?
Whole(text, from, to) ==
    {from, to} \subseteq GraphemeBoundaries(text)

\* Nothing but space is lost at a cut, and no cut makes a chunk too long: of what
\* has been walked every character is in a chunk, in order; a chunk is never
\* blank and exceeds the maximum only as a single wide grapheme; and a Node
\* chunk is cut at graphemes and found again through its locator.
ChunksCoverText ==
    /\ \A s \in DOMAIN document : \A i \in 0..(Len(document[s]) - 1) :
           (/\ ~IsSpace(document[s], i)
            /\ \/ s < segment
               \/ s = segment /\ i < Bounds.from + start) => Covered(s, i)
    /\ \A n \in DOMAIN chunks :
           LET k == chunks[n]
               text == document[k.segment]
           IN
           /\ Size(k) > 0
           /\ \/ Size(k) <= chunker.settings.max
              \/ /\ chunker.language = "node"
                 /\ {b \in GraphemeBoundaries(text) : k.from < b /\ b < k.to} = {}
           /\ n > 1 => \/ chunks[n - 1].segment < k.segment
                       \/ chunks[n - 1].from <= k.from
           /\ chunker.language = "node" =>
                  /\ Whole(text, k.from, k.to)
                  /\ k.locator = [start |-> k.from, end |-> k.to]

\* Every turn of the loop moves on within its segment, whatever the text and
\* the overlap: the loop ends, and the chunk limit is met only by long documents.
SplittingAdvances ==
    [][(segment' = segment /\ result = "running" /\ result' = "running") => start' > start]_chunkVars
=============================================================================
