------------------------------ MODULE VarStore ------------------------------
(***************************************************************************)
(* What the configuration variables of src/bluetooth/vars.c promise to     *)
(* whoever sets them: a shown value per variable, a kept copy of the saved *)
(* ones that survives a restart, and a word of confirmation that is given  *)
(* only while the copy and the shown values agree.  How a save walks the   *)
(* table and what the flash does under it is left to Vars.                 *)
(***************************************************************************)
CONSTANTS
    Keys,       \* the variables
    SavedKeys,  \* those of them that a save writes
    Meaning,    \* Meaning[<<k, text>>]: the value text gives k, where k accepts it
    None,       \* no copy is kept
    Default     \* the values the image is linked with

VARIABLES shown, kept, confirmed
store == <<shown, kept, confirmed>>

Init == /\ shown = Default
        /\ kept = [k \in SavedKeys |-> None]
        /\ confirmed = FALSE

(* The kept copies of the variables in read, over some other values.       *)
Overlay(read, under) ==
    [k \in Keys |-> IF k \in SavedKeys \cap read /\ kept[k] # None
                    THEN kept[k] ELSE under[k]]

(* A variable takes the value of a text that it accepts; a text it does    *)
(* not accept changes nothing.                                             *)
Change == /\ \E kt \in DOMAIN Meaning :
                shown' = [shown EXCEPT ![kt[1]] = Meaning[kt]]
          /\ UNCHANGED <<kept, confirmed>>

(* A confirmed copy is not touched: a save first withdraws the word.       *)
Keep == /\ ~confirmed
        /\ \E k \in SavedKeys : kept' = [kept EXCEPT ![k] = shown[k]]
        /\ UNCHANGED <<shown, confirmed>>

Confirm == /\ \A k \in SavedKeys : kept[k] = shown[k]
           /\ confirmed' = TRUE
           /\ UNCHANGED <<shown, kept>>

Doubt == confirmed' = FALSE /\ UNCHANGED <<shown, kept>>

Erase == /\ \E gone \in SUBSET SavedKeys :
                kept' = [k \in SavedKeys |-> IF k \in gone THEN None ELSE kept[k]]
         /\ confirmed' = FALSE
         /\ UNCHANGED shown

Reload == /\ \E read \in SUBSET SavedKeys : shown' = Overlay(read, shown)
          /\ UNCHANGED <<kept, confirmed>>

Restart == /\ \E read \in SUBSET SavedKeys : shown' = Overlay(read, Default)
           /\ UNCHANGED <<kept, confirmed>>

Next == \/ Change \/ Keep \/ Confirm \/ Doubt \/ Erase \/ Reload \/ Restart

Spec == Init /\ [][Next]_store
=============================================================================
