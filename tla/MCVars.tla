------------------------------- MODULE MCVars -------------------------------
(***************************************************************************)
(* A table for TLC with one saved key of each kind, in the order of the    *)
(* table of src/bluetooth/vars.c, and a read-only variable that is not     *)
(* saved.                                                                  *)
(***************************************************************************)
EXTENDS Vars, TLC

CONSTANTS auto_connect, auth, chanmask, datarate, battery

MCSaved == <<auto_connect, auth, chanmask, datarate>>

MCKind == auto_connect :> "boolean" @@ auth :> "str" @@ chanmask :> "binary"
              @@ datarate :> "uint" @@ battery :> "uint"

MCDefault == auto_connect :> 1 @@ auth :> 0 @@ chanmask :> 1
                 @@ datarate :> 1 @@ battery :> 0
=============================================================================
