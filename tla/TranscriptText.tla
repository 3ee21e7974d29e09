---------------------------- MODULE TranscriptText ----------------------------
(***************************************************************************)
(* What becomes of the text of a transcript: the importer that reads turns *)
(* from a file (processing/importers.py), the rules of a clean in their    *)
(* order (cleaners.py), and the chunks a summary is made from              *)
(* (summarizer.py).                                                        *)
(*                                                                         *)
(* A text is a sequence of words, a word takes one character, and times    *)
(* are in half seconds.  White space is not there, so what collapses it    *)
(* has nothing to do; punctuation is not told apart.                       *)
(***************************************************************************)
EXTENDS Integers, Sequences, SequencesExt, FiniteSets, FiniteSetsExt

CONSTANTS
    People, Tracks,
    Absent,         \* Python's None
    Voices,         \* the speakers with the tracks they speak on
    Texts,          \* what a segment may say
    Written,        \* what a row of a file may say
    Noise,          \* the words strip_patterns match
    Folded,         \* of each word: the word, casefolded
    Phrases,        \* hallucination_phrases, as they are written in the settings
    Matched,        \* of the casefolded texts: those one of Phrases, read as a pattern, matches
    Starts,         \* bound: how long after the one before a segment or a turn may begin
    Lasts,          \* bound: how long a segment may be
    Settings,       \* the CleaningSettings a clean may run with
    Windows,        \* the context windows a model may have
    Reserved,       \* of those: what the prompt and the answer take
    Least,          \* what is left in any case
    MaxLines        \* bound: segments heard and rows of the file together

Words == DOMAIN Folded
Matches == {"exact", "normalized", "regex"}
CleaningSettings ==
    [hallucinations : BOOLEAN, match : Matches, min : Nat, duplicates : BOOLEAN, window : Nat,
     merge : BOOLEAN]

ASSUME TextAssumption ==
    /\ Voices \subseteq People \X Tracks
    /\ Texts \cup Written \cup Phrases \cup Matched \subseteq Seq(Words)
    /\ Settings \subseteq CleaningSettings
    /\ Absent \notin People \cup Tracks
    /\ Starts \cup Lasts \cup Windows \cup {Reserved} \subseteq Nat
    /\ Least \in Nat \ {0}
    /\ MaxLines \in Nat

VARIABLES
    transcript, \* its lines
    rows,       \* history: the rows of the file that was imported
    before,     \* history: the transcript before the import, or before the clean
    stage,      \* "told", "imported" or "cleaned"
    settings    \* history: those of the clean

textVars == <<transcript, rows, before, stage, settings>>

TextLine(who, track, text, from, to) ==
    [who |-> who, track |-> track, text |-> text, from |-> from, to |-> to]

\* A row of a file begins a turn, by somebody or by a name that is blank, or goes on with one.
TurnRows == [who : People \cup {Absent}, text : Written, at : Starts]
Rows == [turn : {TRUE}, is : TurnRows] \cup [turn : {FALSE}, is : Written]

TextInit ==
    /\ transcript = <<>>
    /\ rows = <<>>
    /\ before = <<>>
    /\ stage = "told"
    /\ settings = Absent
-----------------------------------------------------------------------------
(* Importing a file *)

\* A turn under a blank name is not kept, and neither is what goes on with it.
Flush(reading) ==
    IF reading.who = Absent THEN reading.turns
    ELSE Append(reading.turns, TextLine(reading.who, Absent, reading.text, reading.at, reading.at))

Collected(file, offset, timed) ==
    FoldLeft(LAMBDA reading, row :
               IF row.turn
               THEN [turns |-> Flush(reading), who |-> row.is.who, text |-> row.is.text,
                     at |-> IF timed THEN offset + row.is.at ELSE reading.at]
               ELSE [reading EXCEPT !.text = @ \o row.is],
             [turns |-> <<>>, who |-> Absent, text |-> <<>>, at |-> offset],
             file)

\* _collect_turns
CollectTurns(file, offset, timed) == Flush(Collected(file, offset, timed))

\* _assign_times: a turn runs until the next one; without times each is given a second.
AssignTimes(turns, offset, timed) ==
    [i \in DOMAIN turns |->
        IF ~timed THEN [turns[i] EXCEPT !.from = offset + 2 * (i - 1), !.to = offset + 2 * i]
        ELSE IF i < Len(turns) THEN [turns[i] EXCEPT !.to = turns[i + 1].from]
        ELSE turns[i]]

\* An import that appends begins where the transcript ends.
StartOffset(existing) == IF existing = <<>> THEN 0 ELSE Max({existing[i].to : i \in DOMAIN existing})

\* handle_import
Import(file, timed, append) ==
    /\ rows' = file
    /\ before' = IF append THEN transcript ELSE <<>>
    /\ LET offset == StartOffset(before')
       IN  transcript' = before' \o AssignTimes(CollectTurns(file, offset, timed), offset, timed)
    /\ stage' = "imported"
    /\ UNCHANGED settings

\* A transcriber hears a segment: external.
Hear(who, track, text, start, last) ==
    /\ Len(transcript) < MaxLines
    /\ LET from == start + (IF transcript = <<>> THEN 0 ELSE Last(transcript).from)
       IN  transcript' = Append(transcript, TextLine(who, track, text, from, from + last))
    /\ UNCHANGED <<rows, before, stage, settings>>
-----------------------------------------------------------------------------
(* The rules of a clean: each takes the settings and all lines *)

\* normalize_for_comparison
Normalized(text) == [i \in DOMAIN text |-> Folded[text[i]]]

\* The elements that stay, given those kept before them.
Kept(Stays(_, _), all) ==
    FoldLeft(LAMBDA kept, one : IF Stays(kept, one) THEN Append(kept, one) ELSE kept, <<>>, all)

WithoutNoise(text) == Kept(LAMBDA kept, word : word \notin Noise, text)

StripPatterns(all) == [i \in DOMAIN all |-> [all[i] EXCEPT !.text = WithoutNoise(@)]]

DropEmpty(all) == Kept(LAMBDA kept, line : line.text # <<>>, all)

\* _is_hallucination, in the three ways of hallucination_match; a pattern ignores case.
IsHallucination(match, text) ==
    \/ match = "exact" /\ text \in Phrases
    \/ match = "normalized" /\ Normalized(text) \in {Normalized(phrase) : phrase \in Phrases}
    \/ match = "regex" /\ Normalized(text) \in Matched

DropHallucinations(set, all) ==
    Kept(LAMBDA kept, line : set.hallucinations => ~IsHallucination(set.match, line.text), all)

DropShortLines(set, all) == Kept(LAMBDA kept, line : Len(line.text) >= set.min, all)

\* round: a half goes to the even second
Round(half) == LET down == half \div 2
               IN  IF half % 2 = 0 \/ down % 2 = 0 THEN down ELSE down + 1

SameWords(a, b) == a.who = b.who /\ Normalized(a.text) = Normalized(b.text)

SameSegment(a, b) ==
    SameWords(a, b) /\ Round(a.from) = Round(b.from) /\ Round(a.to) = Round(b.to)

DropDuplicateSegments(set, all) ==
    Kept(LAMBDA kept, line :
           set.duplicates => \A i \in DOMAIN kept : ~SameSegment(kept[i], line), all)

\* The lines kept that say the same, and whether one of them is too close.
Said(kept, line) == {i \in DOMAIN kept : SameWords(kept[i], line)}
Within(window, earlier, line) == line.from - earlier.from <= window

\* Mutant: the window counts from the first line that said so.
DropRepeatsOfFirst(set, all) ==
    Kept(LAMBDA kept, line :
           set.window > 0 /\ Said(kept, line) # {} =>
               ~Within(set.window, kept[Min(Said(kept, line))], line), all)

\* The window counts from the line that was kept last.
DropRepeats(set, all) ==
    Kept(LAMBDA kept, line :
           set.window > 0 /\ Said(kept, line) # {} =>
               ~Within(set.window, kept[Max(Said(kept, line))], line), all)

SameVoice(a, b) == a.who = b.who /\ a.track = b.track

MergeSameSpeaker(set, all) ==
    FoldLeft(LAMBDA merged, line :
               IF set.merge /\ merged # <<>> /\ SameVoice(Last(merged), line)
               THEN Append(Front(merged), [Last(merged) EXCEPT !.text = @ \o line.text,
                                                               !.to = line.to])
               ELSE Append(merged, line),
             <<>>, all)

\* build_pipeline and TranscriptCleaner.clean: the rules in their order
CleanedLines(set, all) ==
    LET told     == DropShortLines(set, DropHallucinations(set, DropEmpty(StripPatterns(all))))
        distinct == DropRepeats(set, DropDuplicateSegments(set, told))
    IN  MergeSameSpeaker(set, distinct)

\* get_lines: in the order of their starts, whatever the order of those that start together
Orders == {order \in SetToSeqs(DOMAIN transcript) :
             \A i, j \in DOMAIN order : i < j => transcript[order[i]].from <= transcript[order[j]].from}

Clean(order, set) ==
    LET read == [i \in DOMAIN order |-> transcript[order[i]]]
    IN  /\ before' = read
        /\ transcript' = CleanedLines(set, read)
    /\ settings' = set
    /\ stage' = "cleaned"
    /\ UNCHANGED rows
-----------------------------------------------------------------------------
(* The chunks of a summary *)

\* budget_characters
BudgetCharacters(window) == Max({window - Reserved, Least})

\* The name and the colon count as a character.
TurnLength(line) == Len(line.text) + 1

\* Mutant: the newline between two turns is not counted.
FitsBarely(chunk, line, budget) == chunk.length + TurnLength(line) <= budget

Fits(chunk, line, budget) == chunk.length + TurnLength(line) + 1 <= budget

\* chunk_transcript
Chunks(budget) ==
    LET Add(made, line) ==
            IF made.now # <<>> /\ ~Fits(made, line, budget)
            THEN [chunks |-> Append(made.chunks, made.now), now |-> <<line>>,
                  length |-> TurnLength(line) + 1]
            ELSE [chunks |-> made.chunks, now |-> Append(made.now, line),
                  length |-> made.length + TurnLength(line) + 1]
        made == FoldLeft(Add, [chunks |-> <<>>, now |-> <<>>, length |-> 0], DropEmpty(transcript))
    IN  IF made.now = <<>> THEN made.chunks ELSE Append(made.chunks, made.now)
-----------------------------------------------------------------------------
TextNext ==
    \/ /\ stage = "told"
       /\ \/ \E voice \in Voices, text \in Texts, start \in Starts, last \in Lasts :
                Hear(voice[1], voice[2], text, start, last)
          \/ \E file \in BoundedSeq(Rows, MaxLines - Len(transcript)), timed, append \in BOOLEAN :
                Import(file, timed, append)
    \/ /\ stage \in {"told", "imported"}
       /\ \E order \in Orders, set \in Settings : Clean(order, set)

TextSpec == TextInit /\ [][TextNext]_textVars
-----------------------------------------------------------------------------
(* An import has one turn for each row of the file that names a speaker, with the rows  *)
(* that go on with it, after everything that was there, each until the next.  It has    *)
(* nothing of the rest: rows before the first turn, a turn under a blank name and the   *)
(* rows that go on with that are dropped, the first and the last with a warning.        *)
AsWritten(file, old, now) ==
    LET named == {i \in DOMAIN file : file[i].turn /\ file[i].is.who # Absent}
        Says(k) == IF file[k].turn THEN file[k].is.text ELSE file[k].is
        Under(i, k) == i <= k /\ \A j \in i + 1 .. k : ~file[j].turn
        Whole(i) == FlattenSeq([k \in DOMAIN file |-> IF Under(i, k) THEN Says(k) ELSE <<>>])
        new == DOMAIN now \ DOMAIN old
    IN  /\ DOMAIN old \subseteq DOMAIN now
        /\ \A n \in DOMAIN old : now[n] = old[n]
        /\ \E row \in [new -> named] :
              /\ \A n, m \in new : n < m => row[n] < row[m]
              /\ \A i \in named : \E n \in new : row[n] = i
              /\ \A n \in new : now[n].who = file[row[n]].is.who /\ now[n].text = Whole(row[n])
        /\ \A n \in new :
              /\ \A i \in DOMAIN old : old[i].to <= now[n].from
              /\ n - 1 \in new => now[n - 1].to = now[n].from
ImportedAsWritten == stage = "imported" => AsWritten(rows, before, transcript)

(* A clean leaves the lines its rules are meant to leave, by what they are for: a line  *)
(* that still says something, is long enough and no hallucination, is not the segment   *)
(* of an earlier one, and is no repeat within the window of one that was kept.  Nothing *)
(* else is lost, and only neighbours of one speaker and one track are joined.           *)
Listed(set, all, cleaned) ==
    LET Left(i) == [all[i] EXCEPT !.text = WithoutNoise(@)]
        sound == {i \in DOMAIN all : /\ Left(i).text # <<>> /\ Len(Left(i).text) >= set.min
                                     /\ set.hallucinations => ~IsHallucination(set.match, Left(i).text)}
        first == {i \in sound : set.duplicates =>
                    \A j \in sound : j < i => ~SameSegment(Left(j), Left(i))}
        Repeats(i, j) == /\ j < i /\ SameWords(Left(j), Left(i))
                         /\ Left(i).from - Left(j).from <= set.window
    IN  \E kept \in SUBSET first :
          /\ \A i \in first : i \in kept <=> (set.window > 0 => \A j \in kept : ~Repeats(i, j))
          /\ \E turn \in [kept -> DOMAIN cleaned] :
                LET In(m) == {i \in kept : turn[i] = m}
                    Adjacent(i, j) == i < j /\ \A k \in kept : k <= i \/ k >= j
                IN  /\ \A i, j \in kept : Adjacent(i, j) =>
                          turn[j] = IF set.merge /\ SameVoice(Left(i), Left(j))
                                    THEN turn[i] ELSE turn[i] + 1
                    /\ \A m \in DOMAIN cleaned :
                          /\ In(m) # {}
                          /\ cleaned[m] =
                               [Left(Min(In(m))) EXCEPT
                                  !.text = FlattenSeq([i \in DOMAIN all |->
                                             IF i \in In(m) THEN Left(i).text ELSE <<>>]),
                                  !.to = Left(Max(In(m))).to]
CleanedAsListed == stage = "cleaned" => Listed(settings, before, transcript)

(* An import and a clean keep what they do not drop by a rule that can be named: no turn *)
(* under a name and no line a rule spares goes missing, is doubled or goes to another.   *)
TextIsKept == ImportedAsWritten /\ CleanedAsListed

(* Only a line that says what that speaker's line before it says is dropped as a repeat: *)
(* DropRepeats "removes a line repeating that speaker's previous line within the time    *)
(* window" (cleaners.py:125).                                                            *)
OnlyPreviousIsRepeated ==
    stage = "cleaned" =>
        LET long == DropShortLines(settings,
                        DropHallucinations(settings, DropEmpty(StripPatterns(before))))
            told == DropDuplicateSegments(settings, long)
        IN  \A i \in DOMAIN told :
               LET spoken == {j \in 1 .. i - 1 : told[j].who = told[i].who}
               IN  \/ told[i] \in Range(DropRepeats(settings, told))
                   \/ spoken # {} /\ SameWords(told[Max(spoken)], told[i])

(* The chunks of a summary are the turns in their order, never cut; each is under the    *)
(* budget unless it is one turn that is over it by itself; and none is cut short while   *)
(* the next turn would have fitted.                                                      *)
Length(chunk) == FoldLeft(LAMBDA sum, line : sum + TurnLength(line), Len(chunk) - 1, chunk)
ChunksFit ==
    \A window \in Windows :
        LET budget == BudgetCharacters(window)
            chunks == Chunks(budget)
        IN  /\ FlattenSeq(chunks) = DropEmpty(transcript)
            /\ \A n \in DOMAIN chunks :
                  /\ chunks[n] # <<>>
                  /\ Length(chunks[n]) < budget \/ Len(chunks[n]) = 1
                  /\ n < Len(chunks) =>
                        Length(chunks[n]) + 1 + TurnLength(Head(chunks[n + 1])) >= budget
=============================================================================
