---------------------------- MODULE MCQuizContent ----------------------------
(***************************************************************************)
(* Short texts for the chunkers; a few objects, and answers that each      *)
(* differ from a good one in one respect, for what follows.                *)
(***************************************************************************)
EXTENDS QuizContent

\* No character is cut off either.
Complete(t) == \A i \in DOMAIN t : t[i] = "h" => i < Len(t) /\ t[i + 1] = "t"

TextsOf(n) == {t \in [1..n -> Units] : WellFormed(t) /\ Complete(t)}

MCInputs ==
    {<<t>> : t \in UNION {TextsOf(n) : n \in 0..8}}
      \cup {<<t, u>> : t, u \in UNION {TextsOf(n) : n \in 0..2}}

Setting(target, max, overlap, maxChunks, maxTotal) ==
    [target |-> target, max |-> max, overlap |-> overlap,
     maxChunks |-> maxChunks, maxTotal |-> maxTotal]

MCSettings ==
    {Setting(2, 3, 1, 20, 50), Setting(3, 4, 2, 20, 50), Setting(1, 4, 3, 20, 50),
     Setting(2, 2, 1, 2, 50), Setting(2, 3, 1, 20, 3)}

Upload(type, bytes, texts, large) ==
    [type |-> type, bytes |-> bytes, texts |-> texts, large |-> large]

Plain(text) == Upload("TEXT", "text", <<text>>, FALSE)

MCObjects ==
    {Plain(<<"s", "a">>), Plain(<<"s">>), Plain(<<"a", "h", "t", "a", "a">>),
     Plain(<<"a", "h", "t">>),
     Upload("TEXT", "text", <<<<"a">>>>, TRUE), Upload("TEXT", "pdf", <<<<"a">>>>, FALSE),
     Upload("PDF", "pdf", <<<<"s">>, <<"a", "a">>, <<"a", "s">>>>, FALSE),
     Upload("PDF", "pdf", <<<<"s">>>>, FALSE), Upload("PDF", "damaged", <<<<"a">>>>, FALSE)}

Options(contents, correct) ==
    [i \in DOMAIN contents |-> [content |-> contents[i], isCorrect |-> i \in correct]]

Asks(stem, options) == [stem |-> stem, explanation |-> "a", options |-> options]

Four == Options(<<"a", "b", "c", "d">>, {1})

\* Words, two of them short, one with a letter that English has not.
Word(value, length, english) == [value |-> value, length |-> length, english |-> english]
A1 == Word("a", 1, TRUE)
B == Word("b", 1, TRUE)
C == Word("c", 3, TRUE)
D == Word("d", 3, TRUE)
X == Word("x", 3, FALSE)

MCSourceWords == <<A1, B, A1, B, C, D, X, D>>

Good == [call |-> "ok", count |-> 1, ending |-> "stop", fence |-> "none", json |-> "valid",
         words |-> <<>>, questions |-> <<Asks("a", Four)>>]

With(question) == [Good EXCEPT !.questions = <<question>>]

MCAnswers ==
    {Good, With(Asks("A", Four)), With(Asks("b", Options(<<"d", "c", "b", "a">>, {2}))),
     [Good EXCEPT !.call = "down"], [Good EXCEPT !.call = "refused"],
     [Good EXCEPT !.count = 0], [Good EXCEPT !.count = 2],
     [Good EXCEPT !.ending = "length"], [Good EXCEPT !.ending = "max_tokens"],
     [Good EXCEPT !.fence = "json"], [Good EXCEPT !.fence = "other"],
     [Good EXCEPT !.json = "extraKeys"], [Good EXCEPT !.json = "broken"], 
     [Good EXCEPT !.words = <<B, C, D>>], [Good EXCEPT !.words = <<A1, B, A1>>],
     [Good EXCEPT !.questions = <<Asks("a", Four), Asks("A", Four), Asks("b", Four)>>],
     [Good EXCEPT !.questions = <<>>],
     With(Asks("blank", Four)), With(Asks("bom", Four)),
     With(Asks("a", Options(<<"a", "b">>, {2}))), With(Asks("a", Options(<<"a", "A", "b", "c">>, {1}))),
     With(Asks("a", Options(<<"a", "aBom", "b", "c">>, {1}))), With(Asks("a", Options(<<"a", "b", "c", "d">>, {1, 2})))}

\* An option that no question has, too.
MCOptionIds == {1, 2, 9}

MCProfiles == [transport : {"chat-completions", "responses"}, mode : {"json-object", "json-schema-strict"}]
=============================================================================
