------------------------------ MODULE TakeFile ------------------------------
(***************************************************************************)
(* What the file of a recording is: what the microphone delivered, in      *)
(* order and without a gap, and with everything that was delivered before  *)
(* stop was asked for; what comes between that and the end of the stream   *)
(* may be in it or not.  Once handed over it does not change.  A recording *)
(* that fails or is given up keeps the order only.                         *)
(***************************************************************************)
EXTENDS Naturals, Sequences

CONSTANT Blocks     \* what a block of audio may be

VARIABLES
    heard,      \* what the microphone delivered
    kept,       \* what is in the file
    state,      \* where the recording is
    due         \* how much of heard the file must have in the end

take == <<heard, kept, state, due>>

TInit == heard = <<>> /\ kept = <<>> /\ state = "new" /\ due = 0

Begin == state = "new" /\ state' = "on" /\ UNCHANGED <<heard, kept, due>>

Hear ==
    /\ state # "new"
    /\ \E b \in Blocks : heard' = Append(heard, b)
    /\ UNCHANGED <<kept, state, due>>

Keep ==
    /\ state \notin {"new", "whole"}
    /\ Len(kept) < Len(heard)
    /\ kept' = Append(kept, heard[Len(kept) + 1])
    /\ UNCHANGED <<heard, state, due>>

AskStop ==
    /\ state = "on"
    /\ state' = "stopping"
    /\ due' = Len(heard)
    /\ UNCHANGED <<heard, kept>>

HandOver ==
    /\ state = "stopping"
    /\ Len(kept) >= due
    /\ state' = "whole"
    /\ UNCHANGED <<heard, kept, due>>

GiveUp ==
    /\ state = "stopping"
    /\ state' \in {"raised", "late"}
    /\ UNCHANGED <<heard, kept, due>>

TNext == Begin \/ Hear \/ Keep \/ AskStop \/ HandOver \/ GiveUp

TSpec == TInit /\ [][TNext]_take
=============================================================================
