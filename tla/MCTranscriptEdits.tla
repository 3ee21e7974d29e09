-------------------------- MODULE MCTranscriptEdits --------------------------
(* Instances of TranscriptEdits for TLC. *)
EXTENDS TranscriptEdits, TLC

CONSTANTS t1, t2, t3, t4, ana, bo

\* An import that overwrites, one that appends, a clean and a summary.
OneOfEach ==
    (t1 :> "IMPORT") @@ (t2 :> "IMPORT") @@ (t3 :> "CLEAN") @@ (t4 :> "SUMMARIZE")
AllTypes == {"IMPORT", "CLEAN", "SUMMARIZE"}

\* The first file has a line to drop, the second one line.
Files == (t1 :> <<"speech", "junk">>) @@ (t2 :> <<"speech">>) @@ (t3 :> <<>>) @@ (t4 :> <<>>)
OneSpeaker == (t1 :> ana) @@ (t2 :> ana) @@ (t3 :> ana) @@ (t4 :> ana)
=============================================================================
