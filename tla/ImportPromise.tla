---------------------------- MODULE ImportPromise ----------------------------
(***************************************************************************)
(* What an import promises to whoever clicks it, wherever the services     *)
(* run: the file that was picked is stored at most once, what is stored    *)
(* stays as it is, and the user is told that it is done only when it is    *)
(* stored as it was picked.  A click that is told to have failed may have  *)
(* stored the file, or a part of it, all the same - and may still do so.   *)
(***************************************************************************)
CONSTANT Clicks

VARIABLES
    told,       \* what the user knows: nothing was clicked, it runs, or how it ended
    stored      \* what the chronicles hold because of the click

vars == <<told, stored>>

Init ==
    /\ told = [c \in Clicks |-> "idle"]
    /\ stored = [c \in Clicks |-> "nothing"]

Begin(c) ==
    /\ told[c] = "idle"
    /\ told' = [told EXCEPT ![c] = "waiting"]
    /\ UNCHANGED stored

Store(c) ==
    /\ told[c] # "idle" /\ told[c] # "done"
    /\ stored[c] = "nothing"
    /\ \E what \in {"picked", "half"} : stored' = [stored EXCEPT ![c] = what]
    /\ UNCHANGED told

End(c) ==
    /\ told[c] = "waiting"
    /\ \/ stored[c] = "picked" /\ told' = [told EXCEPT ![c] = "done"]
       \/ told' = [told EXCEPT ![c] = "failed"]
    /\ UNCHANGED stored

Next == \E c \in Clicks : Begin(c) \/ Store(c) \/ End(c)

Spec == Init /\ [][Next]_vars
=============================================================================
