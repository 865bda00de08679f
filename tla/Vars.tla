-------------------------------- MODULE Vars --------------------------------
(***************************************************************************)
(* src/bluetooth/vars.c: the configuration variables, their copies in the  *)
(* flash, and the commands that set, save, load and clear them.  One       *)
(* caller runs the commands one after the other; the power may fail        *)
(* between any two of its steps, and any access to the flash may fail.     *)
(*                                                                         *)
(* A value is a number: a string or a binary key stands for itself, and a  *)
(* text sent to a numeric key stands for what atoi reads in it.  Strings   *)
(* sent to a string key fit its buffer.                                    *)
(***************************************************************************)
EXTENDS Integers, Sequences

CONSTANTS
    Saved,       \* the keys with a save_id, in the order of the table
    Volatile,    \* the other keys that have a variable
    Kind,        \* "boolean", "uint", "str" or "binary", per key
    ReadOnly,    \* the keys of direction vdir_read
    Default,     \* the values the image is linked with
    Texts,       \* what callers send: numbers, as said above
    Garbled,     \* those that are not 0x and hex digits of the right number
    Modulus,     \* the uint kinds wrap here
    Unknown,     \* a name that is no key
    None         \* no entry, no confirmed save

SavedKeys == {Saved[i] : i \in DOMAIN Saved}
Keys == SavedKeys \cup Volatile

(* The values a variable of key k can hold.                                *)
Holds(k) == CASE Kind[k] = "boolean" -> {0, 1}
              [] Kind[k] = "uint" -> 0 .. Modulus - 1
              [] Kind[k] = "binary" -> Texts \ Garbled
              [] OTHER -> Texts

ASSUME VarsConstants ==
    /\ Saved \in Seq(SavedKeys) /\ Saved # <<>>
    /\ Texts \subseteq Nat /\ Garbled \subseteq Texts
    /\ Modulus \in Nat \ {0}
    /\ None \notin Nat
    /\ Unknown \notin Keys
    /\ Default \in [Keys -> Nat]
    /\ \A k \in Keys : Default[k] \in Holds(k)

VARIABLES
    ram,        \* the variables
    flash,      \* the entry under each save_id
    mounted,    \* the flash file system accepts calls
    mode,       \* "off", "ready" for a command, "saving" in flash_save
    hindex, rc, \* flash_save's locals; hindex counts the saved keys only
    answer,     \* verr code or answer of the last command
    confirmed   \* history: what the last save answered "1" for; a new save
                \* and a flashclear forget it

vars == <<ram, flash, mounted, mode, hindex, rc, answer, confirmed>>

-----------------------------------------------------------------------------
Init == /\ ram = Default
        /\ flash = [k \in SavedKeys |-> None]
        /\ mounted = FALSE
        /\ mode = "off"
        /\ hindex = 1 /\ rc = 0
        /\ answer = ""
        /\ confirmed = None

\* Reads of half the size.
flash_load_Narrow(failed) ==
    [k \in Keys |-> IF k \in SavedKeys \ failed /\ flash[k] # None
                    THEN flash[k] % 2 ELSE ram[k]]

(* A key whose read fails, or that has no entry, keeps the value it has.   *)
flash_load(failed) ==
    [k \in Keys |-> IF k \in SavedKeys \ failed /\ flash[k] # None
                    THEN flash[k] ELSE ram[k]]

\* A start that takes a mount that succeeded for one that failed.
vars_init_NeverLoads(failed) ==
    /\ mode = "off"
    /\ mode' = "ready"
    /\ mounted' \in BOOLEAN
    /\ answer' = ""
    /\ UNCHANGED <<ram, flash, hindex, rc, confirmed>>

(* The mount may fail: vars_init then reads nothing and the linked values  *)
(* stay in place.  After a mount any read may still fail; failed are the   *)
(* keys that could not be read.                                            *)
vars_init(failed) == /\ mode = "off"
                     /\ mode' = "ready"
                     /\ mounted' \in BOOLEAN
                     /\ mounted' \/ failed = SavedKeys
                     /\ ram' = flash_load(failed)
                     /\ answer' = ""
                     /\ UNCHANGED <<flash, hindex, rc, confirmed>>

(* The power fails, or the key "reboot" is set: RAM starts over.           *)
Restart == /\ mode # "off"
           /\ mode' = "off"
           /\ ram' = Default
           /\ mounted' = FALSE
           /\ hindex' = 1 /\ rc' = 0 /\ answer' = ""
           /\ UNCHANGED <<flash, confirmed>>

-----------------------------------------------------------------------------
\* Stores that would keep what atoi returns.
Stored_AsRead(k, text) == text

(* What storing a text in the variable of key k makes of it.               *)
Stored(k, text) == CASE Kind[k] = "boolean" -> IF text = 0 THEN 0 ELSE 1
                     [] Kind[k] = "uint" -> text % Modulus
                     [] OTHER -> text

verr_code(k, text) ==
    CASE k \notin Keys -> "inv_key"
      [] text = None -> "inv_value"      \* no value, or an empty one
      [] k \in ReadOnly -> "inv_access"
      [] Kind[k] = "binary" /\ text \in Garbled -> "inv_value"
      [] OTHER -> "success"

\* A binary value written in place, digit by digit, up to the bad one.
vars_set_InPlace(k, text) ==
    /\ mode = "ready"
    /\ answer' = verr_code(k, text)
    /\ ram' = IF answer' = "success" \/ (k \in Keys \ ReadOnly /\ text \in Garbled)
              THEN [ram EXCEPT ![k] = Stored(k, text)] ELSE ram
    /\ UNCHANGED <<flash, mounted, mode, hindex, rc, confirmed>>

vars_set(k, text) ==
    /\ mode = "ready"
    /\ answer' = verr_code(k, text)
    /\ ram' = IF answer' = "success" THEN [ram EXCEPT ![k] = Stored(k, text)]
              ELSE ram
    /\ UNCHANGED <<flash, mounted, mode, hindex, rc, confirmed>>

(* Getting "save" loads; vars_get turns both of its answers into "1".      *)
GetSave(failed) == /\ mode = "ready"
                   /\ mounted \/ failed = SavedKeys
                   /\ ram' = flash_load(failed)
                   /\ answer' = "1"
                   /\ UNCHANGED <<flash, mounted, mode, hindex, rc, confirmed>>

(* nvs_clear erases sector by sector and may fail on the way; once it has  *)
(* erased them all the file system may want to be mounted again.  The code *)
(* ignores its result.                                                     *)
flash_clear ==
    /\ mode = "ready"
    /\ \E gone \in IF mounted THEN SUBSET SavedKeys ELSE {{}} :
          /\ flash' = [k \in SavedKeys |-> IF k \in gone THEN None ELSE flash[k]]
          /\ mounted' \in IF gone = SavedKeys THEN {mounted, FALSE} ELSE {mounted}
    /\ answer' = "1"
    /\ confirmed' = None
    /\ UNCHANGED <<ram, mode, hindex, rc>>

-----------------------------------------------------------------------------
\* A write whose result is thrown away.
vars_flash_write_Ignored(k) ==
    {[rc |-> 0, entry |-> e] : e \in {flash[k], ram[k]}}

(* The outcomes of writing key k: done, failed twice, or done by the retry *)
(* -- whose result, the number of bytes written, the code takes for an     *)
(* error unless it is 0, which it is when the entry was the same already.  *)
vars_flash_write(k) ==
    LET done(code) == [rc |-> code, entry |-> ram[k]]
    IN  {[rc |-> -1, entry |-> flash[k]]}
          \cup IF mounted THEN {done(0), done(IF flash[k] = ram[k] THEN 0 ELSE -1)}
               ELSE {}

(* Setting "save" to anything, or save_vars_config().                      *)
flash_save == /\ mode = "ready"
              /\ mode' = "saving"
              /\ hindex' = 1 /\ rc' = 0
              /\ confirmed' = None
              /\ UNCHANGED <<ram, flash, mounted, answer>>

\* A loop that would not look at the result of the write before.
SaveEntry_CarriesOn ==
    /\ mode = "saving"
    /\ hindex <= Len(Saved)
    /\ LET k == Saved[hindex]
       IN  \E outcome \in vars_flash_write(k) :
              /\ flash' = [flash EXCEPT ![k] = outcome.entry]
              /\ rc' = outcome.rc
    /\ hindex' = hindex + 1
    /\ UNCHANGED <<ram, mounted, mode, answer, confirmed>>

SaveEntry ==
    /\ mode = "saving"
    /\ hindex <= Len(Saved) /\ rc >= 0
    /\ LET k == Saved[hindex]
       IN  \E outcome \in vars_flash_write(k) :
              /\ flash' = [flash EXCEPT ![k] = outcome.entry]
              /\ rc' = outcome.rc
    /\ hindex' = hindex + 1
    /\ UNCHANGED <<ram, mounted, mode, answer, confirmed>>

SaveEnds == /\ mode = "saving"
            /\ hindex > Len(Saved) \/ rc < 0
            /\ mode' = "ready"
            /\ answer' = IF rc < 0 THEN "-1" ELSE "1"
            /\ confirmed' = IF rc < 0 THEN None ELSE [k \in SavedKeys |-> ram[k]]
            /\ hindex' = 1 /\ rc' = 0
            /\ UNCHANGED <<ram, flash, mounted>>

Next == \/ \E failed \in SUBSET SavedKeys : vars_init(failed)
        \/ Restart
        \/ \E k \in Keys \cup {Unknown}, text \in Texts \cup {None} : vars_set(k, text)
        \/ \E failed \in SUBSET SavedKeys : GetSave(failed)
        \/ flash_clear
        \/ flash_save
        \/ SaveEntry
        \/ SaveEnds

Spec == Init /\ [][Next]_vars

-----------------------------------------------------------------------------
(* Every variable, and every entry, holds a value its type can hold.       *)
TypeOK ==
    /\ ram \in [Keys -> Nat]
    /\ \A k \in Keys : ram[k] \in Holds(k)
    /\ flash \in [SavedKeys -> Nat \cup {None}]
    /\ \A k \in SavedKeys : flash[k] \in Holds(k) \cup {None}
    /\ mounted \in BOOLEAN
    /\ mode \in {"off", "ready", "saving"}
    /\ hindex \in 1 .. Len(Saved) + 1
    /\ rc \in {0, -1}
    /\ answer \in {"", "1", "-1", "success", "inv_key", "inv_value", "inv_access"}
    /\ confirmed \in [SavedKeys -> Nat] \cup {None}

(* What a save has answered "1" for is in the flash, whole, until the next *)
(* save or flashclear -- through sets, loads and restarts, and although a  *)
(* save stops at the first write it takes for failed (flash_save).         *)
ConfirmedIsKept == confirmed # None => flash = confirmed

(* And it comes back: every start, and every load that is asked for, shows *)
(* the confirmed value of each saved key but those that could not be read, *)
(* and leaves every other variable alone (vars_init, flash_load).          *)
ConfirmedComesBack ==
    [][\A failed \in SUBSET SavedKeys :
          (vars_init(failed) \/ GetSave(failed)) /\ confirmed # None =>
             \A k \in Keys : ram'[k] = IF k \in SavedKeys \ failed THEN confirmed[k]
                                       ELSE ram[k]]_vars

(* What the texts say that a variable accepts: its kind decides, a binary  *)
(* value with a bad digit says nothing, a number keeps its low bits.       *)
Accepted == {kt \in (Keys \ ReadOnly) \X Texts :
                Kind[kt[1]] = "binary" => kt[2] \notin Garbled}
Meaning == [kt \in Accepted |-> IF Kind[kt[1]] = "boolean" /\ kt[2] # 0 THEN 1
                                ELSE IF Kind[kt[1]] = "uint" THEN kt[2] % Modulus
                                ELSE kt[2]]

(* The commands keep the promise of VarStore: a variable takes only values *)
(* of texts it accepts, a copy only ever takes the value shown at that     *)
(* moment, and no confirmation is given over a copy that differs from what *)
(* is shown.                                                               *)
Store == INSTANCE VarStore WITH shown <- ram, kept <- flash,
                                confirmed <- confirmed # None
ImplementsStore == Store!Spec
=============================================================================
