------------------------------ MODULE SourceText ------------------------------
(***************************************************************************)
(* From the uploaded object to its text: the check at confirm, the read of *)
(* the object and the extraction, in the Go worker (adapters.go) and in    *)
(* the retained Node path (extraction-job-processor.service.ts), up to the *)
(* chunks of module Chunking; and how a failure on the way ends.           *)
(***************************************************************************)
EXTENDS Chunking, SequencesExt

CONSTANTS
    Objects,          \* uploads: type and bytes, the text of each page, too large or not
    HeadUnits,        \* units read to check the kind of an object
    TechnicalRetries, \* delays of Retry
    MaxFaults         \* bound: faults of the storage and of the file system

ASSUME HeadAssumption == HeadUnits \in Nat \ {0}

\* A plain text has one page, a PDF any number.
ASSUME ObjectsAssumption ==
    \A o \in Objects :
        /\ o.texts \in Seq(Seq(Units)) /\ \A i \in DOMAIN o.texts : WellFormed(o.texts[i])
        /\ o.type = "TEXT" => Len(o.texts) = 1

VARIABLES
    object,    \* the object under the document's key
    pages,     \* page of each extracted segment, 0 in a plain text
    work,      \* stage, technical retries, faults met, next chunk to generate from
    questions, \* question candidates generated so far
    event,     \* the DocumentProcessingResult in ai.outbox; its questions: none or one list
    row        \* status and error code of course.documents

sourceVars == <<object, pages, work, questions, event, row>>

NoObject == [bytes |-> "none"]
Null == "null"
NoEvent == [status |-> "none", code |-> Null, questions |-> {}, published |-> FALSE]

\* No object: the chunker alone, on a text of Inputs.
SourceInit ==
    /\ pages = <<>> /\ questions = <<>> /\ event = NoEvent
    /\ row = [status |-> "UPLOADED", code |-> Null]
    /\ \/ ChunkInit /\ object = NoObject /\ work = [stage |-> "none", retries |-> 0, faults |-> 0, next |-> 1]
       \/ /\ object \in Objects
          /\ chunker \in [language : {"node", "go"}, settings : {c \in Settings : c.overlap < c.target}]
          /\ document = <<>> /\ segment = 1 /\ start = 0 /\ chunks = <<>> /\ result = "waiting"
          /\ work = [stage |-> "uploaded", retries |-> 0, faults |-> 0, next |-> 1]

-----------------------------------------------------------------------------
(* Confirm: the object is checked before it is accepted.                   *)

ReadHead(o) == Min({HeadUnits, Len(o.texts[1])})

\* Node's isUtf8 refuses a head that ends inside a character.
CheckMagic(o) ==
    IF o.type = "TEXT" THEN o.bytes = "text" /\ Whole(o.texts[1], 0, ReadHead(o))
    ELSE o.bytes \in {"pdf", "damaged"}

Verified == object # NoObject /\ CheckMagic(object)

\* Refused: 400, and nothing is written.
Confirm ==
    /\ work.stage \in {"uploaded", "refused"}
    /\ work' = [work EXCEPT !.stage = IF Verified THEN "queued" ELSE "refused"]
    /\ row' = IF Verified THEN [row EXCEPT !.status = "PROCESSING"] ELSE row
    /\ UNCHANGED <<chunkVars, object, pages, questions, event>>

\* The check is not part of the transaction that confirms.
ObjectRemoved ==
    /\ work.stage \in {"uploaded", "refused", "queued"} /\ object # NoObject
    /\ object' = NoObject
    /\ UNCHANGED <<chunkVars, pages, work, questions, event, row>>

-----------------------------------------------------------------------------
(* How an attempt ends.                                                    *)

Final(code) == [code |-> code, technical |-> FALSE]
Technical(code) == [code |-> code, technical |-> TRUE]
NoFailure == Final(Null)

Publish(status, code, asked) ==
    event' = [status |-> status, code |-> code, questions |-> asked, published |-> FALSE]

Forgotten ==
    /\ document' = <<>> /\ segment' = 1 /\ start' = 0 /\ chunks' = <<>> /\ result' = "waiting"
    /\ pages' = <<>> /\ questions' = <<>>
    /\ UNCHANGED chunker

\* finish: a technical failure is tried again from the start until its retries
\* are used up; every other failure is the result.  Node retries nothing.
Finish(failure, faults) ==
    /\ Forgotten
    /\ IF /\ failure.technical /\ chunker.language = "go"
          /\ work.retries < TechnicalRetries
         THEN /\ work' = [stage |-> "queued", retries |-> work.retries + 1, faults |-> faults, next |-> 1]
              /\ UNCHANGED event
         ELSE /\ work' = [work EXCEPT !.stage = "ended", !.faults = faults]
              /\ Publish("FAILED", failure.code, {})
    /\ UNCHANGED <<object, row>>

-----------------------------------------------------------------------------
(* Read and extract.                                                       *)

\* Go tells a missing object from an unreachable storage, Node does not.
ClassifyObjectReadError ==
    IF chunker.language = "go" THEN Technical("PROCESSING_FAILED")
    ELSE Final("EXTRACTION_OBJECT_NOT_FOUND")

Read ==
    /\ work.stage = "queued"
    /\ \/ object = NoObject /\ Finish(Final("EXTRACTION_OBJECT_NOT_FOUND"), work.faults)
       \/ /\ object # NoObject /\ object.large
          /\ Finish(Final("EXTRACTION_OBJECT_TOO_LARGE"), work.faults)
       \/ /\ work.faults < MaxFaults
          /\ Finish(ClassifyObjectReadError, work.faults + 1)
       \/ /\ object # NoObject /\ ~object.large
          /\ work' = [work EXCEPT !.stage = "extract"]
          /\ UNCHANGED <<chunkVars, object, pages, questions, event, row>>

TrimSpace(text) ==
    LET b == TrimBounds(text, 0, Len(text)) IN SubSeq(text, b.from + 1, b.to)

\* Go trims a plain text, Node takes it as it is; both drop pages without text.
Segments ==
    IF object.type = "TEXT"
      THEN IF chunker.language = "go" THEN <<TrimSpace(object.texts[1])>> ELSE object.texts
      ELSE [i \in DOMAIN object.texts |-> TrimSpace(object.texts[i])]

HaveText == {i \in DOMAIN Segments : Segments[i] # <<>>}

\* The n-th of them.
PageWithText(n) == CHOOSE i \in HaveText : Cardinality({j \in HaveText : j <= i}) = n

Extracted == [n \in 1..Cardinality(HaveText) |->
                 [text |-> Segments[PageWithText(n)], page |-> PageWithText(n)]]

Extract ==
    /\ work.stage = "extract"
    /\ \/ object.bytes = "damaged" /\ Finish(Final("PDF_INVALID"), work.faults)
       \/ /\ object.bytes # "damaged" /\ Extracted = <<>>
          /\ object.type = "PDF" \/ chunker.language = "go"
          /\ Finish(Final("PDF_TEXT_NOT_FOUND"), work.faults)
       \/ /\ object.type = "PDF" /\ chunker.language = "go" \* the temporary file
          /\ work.faults < MaxFaults
          /\ Finish(Technical("PROCESSING_FAILED"), work.faults + 1)
       \/ /\ object.bytes # "damaged"
          /\ Extracted # <<>> \/ (object.type = "TEXT" /\ chunker.language = "node")
          /\ document' = [i \in DOMAIN Extracted |-> Extracted[i].text]
          /\ pages' = [i \in DOMAIN Extracted |-> IF object.type = "PDF" THEN Extracted[i].page ELSE 0]
          /\ result' = "running"
          /\ work' = [work EXCEPT !.stage = "split"]
          /\ UNCHANGED <<chunker, segment, start, chunks, object, questions, event, row>>

\* The chunker has returned: Node stores the chunks now, Go with the result.
Chunked ==
    /\ work.stage = "split"
    /\ \/ result = "limit" /\ Finish(Final("CHUNK_RESOURCE_LIMIT_EXCEEDED"), work.faults)
       \/ /\ result = "done"
          /\ work' = [work EXCEPT !.stage = IF chunker.language = "go" THEN "generate" ELSE "store"]
          /\ UNCHANGED <<chunkVars, object, pages, questions, event, row>>

LocatorOf(chunk) ==
    IF pages[chunk.segment] > 0 THEN [kind |-> "page", page |-> pages[chunk.segment]]
    ELSE [kind |-> "text-range", start |-> chunk.locator.start, end |-> chunk.locator.end]

\* A text column takes whole characters only.
StoresText(chunk) == Whole(document[chunk.segment], chunk.from, chunk.to)

ReplaceForDocument ==
    /\ work.stage = "store"
    /\ IF \A i \in DOMAIN chunks : StoresText(chunks[i])
         THEN /\ work' = [work EXCEPT !.stage = "generate"]
              /\ UNCHANGED <<chunkVars, object, pages, questions, event, row>>
         ELSE Finish(Final("PROCESSING_FAILED"), work.faults)

SourceStep ==
    \/ ChunkStep /\ UNCHANGED sourceVars
    \/ Confirm \/ ObjectRemoved \/ Extract \/ Chunked \/ ReplaceForDocument
=============================================================================
