--------------------------- MODULE MCTranscriptText ---------------------------
(* An instance of TranscriptText for TLC. *)
EXTENDS TranscriptText, TLC

\* One who speaks on two tracks and one who speaks on one.
SomeVoices == {<<"ana", "t1">>, <<"ana", "t2">>, <<"bo", "t1">>}

\* A word, the same in capitals with a laugh; a file also says two words at once.
Says == {<<"go">>, <<"GO", "laughs">>, <<"you">>}
Writes == {<<"go">>, <<"go", "on">>}
InCapitals == ("go" :> "go") @@ ("GO" :> "go") @@ ("on" :> "on") @@ ("you" :> "you") @@ ("laughs" :> "laughs")
\* As it stands it is no line; folded it is one, and as a pattern it matches two.
InventedPhrases == {<<"GO">>}
MatchedTexts == {<<"go">>, <<"you">>}

Set(match, min, duplicates, window, merge) ==
    [hallucinations |-> TRUE, match |-> match, min |-> min, duplicates |-> duplicates,
     window |-> window, merge |-> merge]
SomeSettings ==
    {Set("exact", 0, TRUE, 1, TRUE), Set("normalized", 2, TRUE, 0, FALSE),
     Set("regex", 0, FALSE, 1, FALSE)}
=============================================================================
