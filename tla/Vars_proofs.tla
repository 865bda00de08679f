---------------------------- MODULE Vars_proofs ----------------------------
(***************************************************************************)
(* Proofs about Vars, for every table of keys.                             *)
(***************************************************************************)
EXTENDS Vars, TLAPS

(* What a save in progress has behind it: as long as no write failed, the  *)
(* entries it has passed are the variables.  Before a start RAM is linked. *)
SaveInProgress ==
    mode = "saving" =>
        /\ confirmed = None
        /\ rc >= 0 => \A i \in 1 .. hindex - 1 : flash[Saved[i]] = ram[Saved[i]]

IInv == /\ TypeOK
        /\ ConfirmedIsKept
        /\ SaveInProgress
        /\ mode = "off" => ram = Default

(* The keys of the table, one by one.                                      *)
LEMMA SavedKey == ASSUME VarsConstants
                  PROVE  /\ \A i \in 1 .. Len(Saved) : Saved[i] \in SavedKeys
                         /\ SavedKeys \subseteq Keys
  BY DEF VarsConstants, SavedKeys, Keys

(* The table has a length, and a save starts inside it.                    *)
LEMMA TableLength == ASSUME VarsConstants
                     PROVE  Len(Saved) \in Nat /\ 1 \in 1 .. Len(Saved) + 1
<1>1. Len(Saved) \in Nat
  BY DEF VarsConstants
<1> QED BY <1>1

(* Where a save that has not ended stands in the table.                    *)
LEMMA SaveAt ==
    ASSUME VarsConstants, TypeOK, SaveEntry
    PROVE  /\ hindex \in 1 .. Len(Saved) /\ hindex' = hindex + 1
           /\ hindex' \in 1 .. Len(Saved) + 1
           /\ Saved[hindex] \in SavedKeys /\ Saved[hindex] \in Keys
<1>1. hindex \in 1 .. Len(Saved) + 1 /\ hindex <= Len(Saved) /\ hindex' = hindex + 1
  BY DEF TypeOK, SaveEntry
<1>2. hindex \in 1 .. Len(Saved) /\ hindex' \in 1 .. Len(Saved) + 1
  BY <1>1, TableLength
<1> QED BY <1>1, <1>2, SavedKey

(* Every value is a number, and storing a text leaves one of its type.     *)
LEMMA StoredHolds ==
    ASSUME VarsConstants, NEW k \in Keys, NEW text \in Texts \cup {None},
           verr_code(k, text) = "success"
    PROVE  Stored(k, text) \in Holds(k) /\ Stored(k, text) \in Nat
<1>1. text \in Texts /\ text \in Nat
  BY DEF verr_code, VarsConstants
<1>2. Kind[k] = "binary" => text \notin Garbled
  BY <1>1 DEF verr_code, VarsConstants
<1>3. text % Modulus \in 0 .. Modulus - 1
  BY <1>1 DEF VarsConstants
<1>4. CASE Kind[k] = "boolean"
  BY <1>4 DEF Stored, Holds
<1>5. CASE Kind[k] = "uint"
  BY <1>3, <1>5 DEF Stored, Holds, VarsConstants
<1>6. CASE Kind[k] \notin {"boolean", "uint"}
  BY <1>1, <1>2, <1>6 DEF Stored, Holds
<1> QED BY <1>4, <1>5, <1>6

(* What vars_set stores is what the text means, and it stores nothing that *)
(* the variable does not accept.                                           *)
LEMMA AcceptedIsStored ==
    ASSUME VarsConstants, NEW k, NEW text \in Texts \cup {None},
           verr_code(k, text) = "success"
    PROVE  <<k, text>> \in Accepted /\ Meaning[<<k, text>>] = Stored(k, text)
<1>1. k \in Keys \ ReadOnly /\ text \in Texts
  BY DEF verr_code
<1>2. Kind[k] = "binary" => text \notin Garbled
  BY <1>1 DEF verr_code, VarsConstants
<1>3. <<k, text>> \in Accepted
  BY <1>1, <1>2 DEF Accepted
<1>4. Meaning[<<k, text>>] = IF Kind[k] = "boolean" /\ text # 0 THEN 1
                             ELSE IF Kind[k] = "uint" THEN text % Modulus
                             ELSE text
  BY <1>3 DEF Meaning
<1> QED BY <1>3, <1>4 DEF Stored

(* A load leaves values of their types.                                    *)
LEMMA LoadHolds ==
    ASSUME VarsConstants, TypeOK, NEW failed
    PROVE  /\ flash_load(failed) \in [Keys -> Nat]
           /\ \A k \in Keys : flash_load(failed)[k] \in Holds(k)
  BY SavedKey DEF flash_load, TypeOK, VarsConstants

(* The inductive invariant holds in the factory state.                      *)
LEMMA InitIInv == ASSUME VarsConstants, Init PROVE IInv
<1>1. hindex \in 1 .. Len(Saved) + 1
  BY TableLength DEF Init
<1>2. TypeOK
  BY <1>1, SavedKey DEF VarsConstants, Init, TypeOK
<1> QED BY <1>2 DEF Init, IInv, ConfirmedIsKept, SaveInProgress

(* A start and a load that is asked for.                                   *)
Loads == \E failed \in SUBSET SavedKeys : vars_init(failed) \/ GetSave(failed)

(* Every step preserves the types.                                         *)
LEMMA StepTypeOK == ASSUME VarsConstants, IInv, [Next]_vars PROVE TypeOK'
<1> USE DEF IInv
<1>1. ASSUME NEW failed \in SUBSET SavedKeys, vars_init(failed) PROVE TypeOK'
  <2>1. ram' \in [Keys -> Nat] /\ \A k \in Keys : ram'[k] \in Holds(k)
    BY <1>1, LoadHolds DEF vars_init
  <2> QED BY <1>1, <2>1 DEF vars_init, TypeOK
<1>2. CASE Restart
  <2>1. hindex' \in 1 .. Len(Saved) + 1
    BY <1>2, TableLength DEF Restart
  <2>2. ram' \in [Keys -> Nat] /\ \A k \in Keys : ram'[k] \in Holds(k)
    BY <1>2 DEF Restart, VarsConstants
  <2> QED BY <1>2, <2>1, <2>2 DEF Restart, TypeOK
<1>3. ASSUME NEW k \in Keys \cup {Unknown}, NEW text \in Texts \cup {None},
             vars_set(k, text)
      PROVE  TypeOK'
  <2>1. CASE verr_code(k, text) = "success"
    <3>1. k \in Keys
      BY <2>1 DEF verr_code
    <3>2. Stored(k, text) \in Holds(k) /\ Stored(k, text) \in Nat
      BY <2>1, <3>1, StoredHolds
    <3>3. ram' = [ram EXCEPT ![k] = Stored(k, text)]
      BY <1>3, <2>1 DEF vars_set
    <3> QED BY <1>3, <2>1, <3>1, <3>2, <3>3 DEF vars_set, TypeOK
  <2>2. CASE verr_code(k, text) # "success"
    <3>1. verr_code(k, text) \in {"inv_key", "inv_value", "inv_access"}
      BY <2>2 DEF verr_code
    <3> QED BY <1>3, <2>2, <3>1 DEF vars_set, TypeOK
  <2> QED BY <2>1, <2>2
<1>4. ASSUME NEW failed \in SUBSET SavedKeys, GetSave(failed) PROVE TypeOK'
  <2>1. ram' \in [Keys -> Nat] /\ \A k \in Keys : ram'[k] \in Holds(k)
    BY <1>4, LoadHolds DEF GetSave
  <2> QED BY <1>4, <2>1 DEF GetSave, TypeOK
<1>5. CASE flash_clear
  BY <1>5 DEF flash_clear, TypeOK
<1>6. CASE flash_save
  <2>1. hindex' \in 1 .. Len(Saved) + 1
    BY <1>6, TableLength DEF flash_save
  <2> QED BY <1>6, <2>1 DEF flash_save, TypeOK
<1>7. CASE SaveEntry
  <2> DEFINE k == Saved[hindex]
  <2>1. k \in SavedKeys /\ k \in Keys /\ hindex' \in 1 .. Len(Saved) + 1
    BY <1>7, SaveAt
  <2>2. PICK outcome \in vars_flash_write(k) :
             /\ flash' = [flash EXCEPT ![k] = outcome.entry]
             /\ rc' = outcome.rc
    BY <1>7 DEF SaveEntry
  <2>3. outcome.rc \in {0, -1} /\ outcome.entry \in {flash[k], ram[k]}
    BY <2>2 DEF vars_flash_write
  <2>4. /\ flash' \in [SavedKeys -> Nat \cup {None}]
        /\ \A key \in SavedKeys : flash'[key] \in Holds(key) \cup {None}
    BY <2>1, <2>2, <2>3 DEF TypeOK
  <2>5. rc' \in {0, -1}
    BY <2>2, <2>3
  <2> QED BY <1>7, <2>1, <2>4, <2>5 DEF SaveEntry, TypeOK
<1>8. CASE SaveEnds
  <2>1. hindex' \in 1 .. Len(Saved) + 1 /\ rc' \in {0, -1}
    BY <1>8, TableLength DEF SaveEnds
  <2>2. confirmed' \in [SavedKeys -> Nat] \cup {None}
    BY <1>8, SavedKey DEF SaveEnds, TypeOK
  <2> QED BY <1>8, <2>1, <2>2 DEF SaveEnds, TypeOK
<1>9. CASE UNCHANGED vars
  BY <1>9 DEF vars, TypeOK
<1> QED BY <1>1, <1>2, <1>3, <1>4, <1>5, <1>6, <1>7, <1>8, <1>9 DEF Next

(* One more entry behind a save.                                           *)
LEMMA EntrySaved ==
    ASSUME VarsConstants, IInv, SaveEntry, rc' >= 0
    PROVE  \A i \in 1 .. hindex' - 1 : flash'[Saved[i]] = ram'[Saved[i]]
<1> DEFINE k == Saved[hindex]
<1>1. k \in SavedKeys /\ flash \in [SavedKeys -> Nat \cup {None}] /\ hindex \in Nat
  <2>1. hindex \in 1 .. Len(Saved) /\ k \in SavedKeys
    BY SaveAt DEF IInv
  <2>2. hindex \in Nat
    BY <2>1, TableLength
  <2> QED BY <2>1, <2>2 DEF IInv, TypeOK
<1>2. PICK outcome \in vars_flash_write(k) :
           /\ flash' = [flash EXCEPT ![k] = outcome.entry]
           /\ rc' = outcome.rc
  BY DEF SaveEntry
<1>3. outcome.entry = ram[k]
  BY <1>2 DEF vars_flash_write
<1>4. flash'[k] = ram[k] /\ \A other \in SavedKeys \ {k} : flash'[other] = flash[other]
  BY <1>1, <1>2, <1>3
<1>5. ASSUME NEW i \in 1 .. hindex - 1 PROVE flash'[Saved[i]] = ram[Saved[i]]
  <2>1. flash[Saved[i]] = ram[Saved[i]]
    BY DEF IInv, SaveInProgress, SaveEntry
  <2>2. Saved[i] \in SavedKeys
    BY <1>1, SavedKey DEF SaveEntry
  <2> QED BY <1>4, <2>1, <2>2
<1> QED BY <1>1, <1>4, <1>5 DEF SaveEntry

(* A save that ends without an error has every entry behind it.            *)
LEMMA WholeSave ==
    ASSUME VarsConstants, IInv, SaveEnds, rc = 0
    PROVE  \A k \in SavedKeys : flash[k] = ram[k]
<1>0. ~(rc < 0)
  OBVIOUS
<1>1. hindex \in 1 .. Len(Saved) + 1 /\ hindex > Len(Saved)
  BY <1>0 DEF SaveEnds, IInv, TypeOK
<1>2. hindex = Len(Saved) + 1
  BY <1>1, TableLength
<1>3. \A i \in 1 .. Len(Saved) : flash[Saved[i]] = ram[Saved[i]]
  BY <1>2, TableLength DEF SaveEnds, IInv, SaveInProgress
<1> QED BY <1>3 DEF SavedKeys, VarsConstants

(* Every step keeps the inductive invariant.                               *)
LEMMA StepIInv == ASSUME VarsConstants, IInv, [Next]_vars PROVE IInv'
<1>1. TypeOK'
  BY StepTypeOK
<1>2. ConfirmedIsKept'
  <2>1. CASE Loads \/ Restart \/ UNCHANGED vars
    BY <2>1 DEF IInv, ConfirmedIsKept, Loads, vars_init, Restart, GetSave, vars
  <2>2. ASSUME NEW k \in Keys \cup {Unknown}, NEW text \in Texts \cup {None},
               vars_set(k, text)
        PROVE  ConfirmedIsKept'
    BY <2>2 DEF IInv, ConfirmedIsKept, vars_set
  <2>3. CASE flash_clear \/ flash_save
    BY <2>3 DEF ConfirmedIsKept, flash_clear, flash_save
  <2>4. CASE SaveEntry
    BY <2>4 DEF IInv, ConfirmedIsKept, SaveInProgress, SaveEntry
  <2>5. CASE SaveEnds
    <3>0. rc = 0 \/ rc = -1
      BY DEF IInv, TypeOK
    <3>1. CASE rc = -1
      BY <2>5, <3>1 DEF SaveEnds, ConfirmedIsKept
    <3>2. CASE rc = 0
      <4>0. \A k \in SavedKeys : flash[k] = ram[k]
        BY <2>5, <3>2, WholeSave
      <4>1. flash = [k \in SavedKeys |-> ram[k]]
        BY <4>0 DEF IInv, TypeOK
      <4>2. flash' = flash /\ confirmed' = [k \in SavedKeys |-> ram[k]]
        BY <2>5, <3>2 DEF SaveEnds
      <4> QED BY <4>1, <4>2 DEF ConfirmedIsKept
    <3> QED BY <3>0, <3>1, <3>2
  <2> QED BY <2>1, <2>2, <2>3, <2>4, <2>5 DEF Next, Loads
<1>3. SaveInProgress'
  <2>1. CASE SaveEntry
    BY <2>1, EntrySaved DEF SaveEntry, SaveInProgress, IInv
  <2>2. CASE flash_save
    BY <2>2 DEF flash_save, SaveInProgress
  <2>3. ASSUME NEW k \in Keys \cup {Unknown}, NEW text \in Texts \cup {None},
               vars_set(k, text)
        PROVE  SaveInProgress'
    BY <2>3 DEF vars_set, SaveInProgress
  <2>4. CASE Loads \/ Restart \/ flash_clear \/ SaveEnds
    BY <2>4 DEF Loads, vars_init, Restart, GetSave, flash_clear, SaveEnds, SaveInProgress
  <2>5. CASE UNCHANGED vars
    BY <2>5 DEF vars, SaveInProgress, IInv
  <2> QED BY <2>1, <2>2, <2>3, <2>4, <2>5 DEF Next, Loads
<1>4. (mode = "off" => ram = Default)'
  BY DEF Next, IInv, vars_init, Restart, vars_set, GetSave, flash_clear,
         flash_save, SaveEntry, SaveEnds, vars
<1> QED BY <1>1, <1>2, <1>3, <1>4 DEF IInv

(* The inductive invariant holds throughout.                               *)
THEOREM IInvHolds == ASSUME VarsConstants PROVE Spec => []IInv
<1>1. Init => IInv
  BY InitIInv
<1>2. IInv /\ [Next]_vars => IInv'
  BY StepIInv
<1> QED BY <1>1, <1>2, PTL DEF Spec

(* Every variable and every flash entry holds a value its type can hold,   *)
(* whatever text is set (the conversions of vars_set, flash_load).         *)
THEOREM TypeCorrect == ASSUME VarsConstants PROVE Spec => []TypeOK
<1>1. IInv => TypeOK
  BY DEF IInv
<1> QED BY <1>1, IInvHolds, PTL

(* What flash_save answers "1" for stays whole in the flash until the next *)
(* save or flashclear, whatever fails in between.                          *)
THEOREM ConfirmedStays == ASSUME VarsConstants PROVE Spec => []ConfirmedIsKept
<1>1. IInv => ConfirmedIsKept
  BY DEF IInv
<1> QED BY <1>1, IInvHolds, PTL

(* Every start and every load shows the confirmed values of all the saved  *)
(* keys that could be read, and changes nothing else (vars_init, vars_get, *)
(* flash_load), for every table and whatever has failed before.            *)
THEOREM ConfirmedReturns == ASSUME VarsConstants PROVE Spec => ConfirmedComesBack
<1> DEFINE Back(failed) ==
      (vars_init(failed) \/ GetSave(failed)) /\ confirmed # None =>
         \A k \in Keys : ram'[k] = IF k \in SavedKeys \ failed THEN confirmed[k]
                                   ELSE ram[k]
<1>1. ASSUME IInv PROVE [\A failed \in SUBSET SavedKeys : Back(failed)]_vars
  <2> SUFFICES ASSUME NEW failed \in SUBSET SavedKeys, confirmed # None,
                      vars_init(failed) \/ GetSave(failed), NEW k \in Keys
               PROVE  ram'[k] = IF k \in SavedKeys \ failed THEN confirmed[k] ELSE ram[k]
    OBVIOUS
  <2>1. ram' = flash_load(failed)
    BY DEF vars_init, GetSave
  <2>2. flash = confirmed /\ confirmed \in [SavedKeys -> Nat]
    BY <1>1 DEF IInv, ConfirmedIsKept, TypeOK
  <2>3. \A key \in SavedKeys : flash[key] # None
    BY <2>2 DEF VarsConstants
  <2> QED BY <2>1, <2>2, <2>3 DEF flash_load
<1> QED BY <1>1, IInvHolds, PTL DEF Spec, ConfirmedComesBack

(* Every start and every step of the commands is one the abstract store    *)
(* allows: the code of vars.c implements VarStore.                         *)
THEOREM Refinement == ASSUME VarsConstants PROVE Spec => ImplementsStore
<1>1. Init => Store!Init
  BY DEF Init, Store!Init
<1>2. IInv /\ [Next]_vars => [Store!Next]_(Store!store)
  <2> SUFFICES ASSUME IInv, [Next]_vars PROVE [Store!Next]_(Store!store)
    OBVIOUS
  <2>1. ASSUME NEW failed \in SUBSET SavedKeys, vars_init(failed)
        PROVE  [Store!Next]_(Store!store)
    <3> DEFINE read == SavedKeys \ failed
    <3>1. ram' = Store!Overlay(read, Default) /\ read \in SUBSET SavedKeys
      BY <2>1 DEF vars_init, IInv, flash_load, Store!Overlay
    <3>2. Store!Restart
      BY <2>1, <3>1 DEF Store!Restart, vars_init
    <3> QED BY <3>2 DEF Store!Next
  <2>2. CASE Restart
    <3>1. ram' = Store!Overlay({}, Default)
      BY <2>2 DEF Restart, Store!Overlay, VarsConstants
    <3>2. Store!Restart
      BY <2>2, <3>1 DEF Store!Restart, Restart
    <3> QED BY <3>2 DEF Store!Next
  <2>3. ASSUME NEW k \in Keys \cup {Unknown}, NEW text \in Texts \cup {None},
               vars_set(k, text)
        PROVE  [Store!Next]_(Store!store)
    <3>1. CASE verr_code(k, text) = "success"
      <4>1. <<k, text>> \in DOMAIN Meaning /\ Meaning[<<k, text>>] = Stored(k, text)
        BY <3>1, AcceptedIsStored DEF Meaning
      <4>2. ram' = [ram EXCEPT ![k] = Stored(k, text)] /\ UNCHANGED <<flash, confirmed>>
        BY <2>3, <3>1 DEF vars_set
      <4>3. Store!Change
        BY <4>1, <4>2 DEF Store!Change
      <4> QED BY <4>3 DEF Store!Next
    <3>2. CASE verr_code(k, text) # "success"
      BY <2>3, <3>2 DEF vars_set, Store!store
    <3> QED BY <3>1, <3>2
  <2>4. ASSUME NEW failed \in SUBSET SavedKeys, GetSave(failed)
        PROVE  [Store!Next]_(Store!store)
    <3> DEFINE read == SavedKeys \ failed
    <3>1. ram' = Store!Overlay(read, ram) /\ read \in SUBSET SavedKeys
      BY <2>4 DEF GetSave, flash_load, Store!Overlay
    <3>2. Store!Reload
      BY <2>4, <3>1 DEF Store!Reload, GetSave
    <3> QED BY <3>2 DEF Store!Next
  <2>5. CASE flash_clear
    <3>1. Store!Erase
      BY <2>5 DEF flash_clear, Store!Erase
    <3> QED BY <3>1 DEF Store!Next
  <2>6. CASE flash_save
    <3>1. Store!Doubt
      BY <2>6 DEF flash_save, Store!Doubt
    <3> QED BY <3>1 DEF Store!Next
  <2>7. CASE SaveEntry
    <3> DEFINE k == Saved[hindex]
    <3>1. k \in SavedKeys /\ flash \in [SavedKeys -> Nat \cup {None}]
      BY <2>7, SaveAt DEF IInv, TypeOK
    <3>2. PICK outcome \in vars_flash_write(k) :
               flash' = [flash EXCEPT ![k] = outcome.entry]
      BY <2>7 DEF SaveEntry
    <3>3. confirmed = None /\ confirmed' = None /\ ram' = ram
      BY <2>7 DEF SaveEntry, IInv, SaveInProgress
    <3>4. CASE outcome.entry = ram[k]
      <4>1. Store!Keep
        BY <3>1, <3>2, <3>3, <3>4 DEF Store!Keep
      <4> QED BY <4>1 DEF Store!Next
    <3>5. CASE outcome.entry = flash[k]
      BY <3>1, <3>2, <3>3, <3>5 DEF Store!store
    <3> QED BY <3>2, <3>4, <3>5 DEF vars_flash_write
  <2>8. CASE SaveEnds
    <3>0. rc = 0 \/ rc = -1
      BY DEF IInv, TypeOK
    <3>1. CASE rc = 0 /\ confirmed' # None
      <4>1. Store!Confirm
        BY <2>8, <3>1, WholeSave DEF Store!Confirm, SaveEnds
      <4> QED BY <4>1 DEF Store!Next
    <3>2. CASE rc = -1 \/ confirmed' = None
      <4>1. confirmed' = None
        BY <2>8, <3>2 DEF SaveEnds
      <4>2. Store!Doubt
        BY <2>8, <4>1 DEF Store!Doubt, SaveEnds
      <4> QED BY <4>2 DEF Store!Next
    <3> QED BY <3>0, <3>1, <3>2
  <2>9. CASE UNCHANGED vars
    BY <2>9 DEF vars, Store!store
  <2> QED BY <2>1, <2>2, <2>3, <2>4, <2>5, <2>6, <2>7, <2>8, <2>9 DEF Next
<1> QED BY <1>1, <1>2, IInvHolds, PTL DEF Spec, ImplementsStore, Store!Spec
=============================================================================
