---------------------------- MODULE MCAudioTracks ----------------------------
(* Instances of AudioTracks for TLC. *)
EXTENDS AudioTracks, TLC

CONSTANTS t1, t2, f1, f2, take1, take2

\* A transcription that normalizes first, and a normalization.
BothTypes == (t1 :> "TRANSCRIBE") @@ (t2 :> "NORMALIZE")
AllTypes == {"TRANSCRIBE", "NORMALIZE"}
SameFile == (t1 :> f1) @@ (t2 :> f1)
OwnFile == (t1 :> f1) @@ (t2 :> f2)

\* talk.mp3 and chat.mp3 have a copy each, talk.mp3 and talk.wav share one.
OwnCopy == (f1 :> "talk.normalized.wav") @@ (f2 :> "chat.normalized.wav")
OneCopy == (f1 :> "talk.normalized.wav") @@ (f2 :> "talk.normalized.wav")

Faults(down, error) == ("down" :> down) @@ ("error" :> error)
NoFaults == Faults(0, 0)
TwoDown == Faults(2, 1)

TakeSymmetry == Permutations({take1, take2})
=============================================================================
