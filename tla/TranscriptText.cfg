\* Three lines, spoken or in a file; two speakers, one of them in two tracks.
CONSTANTS
    People = {"ana", "bo"}
    Tracks = {"t1", "t2"}
    Absent = Absent
    Voices <- SomeVoices
    Texts <- Says
    Written <- Writes
    Noise = {"laughs"}
    Folded <- InCapitals
    Phrases <- InventedPhrases
    Matched <- MatchedTexts
    Starts = {0, 1, 3}
    Lasts = {1, 2}
    Settings <- SomeSettings
    Windows = {3, 7, 12}
    Reserved = 3
    Least = 2
    MaxLines = 3
SPECIFICATION TextSpec
INVARIANTS
    TextIsKept
    ChunksFit
\* A transcript is cleaned once.
CHECK_DEADLOCK FALSE
