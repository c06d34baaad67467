----------------------------- MODULE SealedBox -----------------------------
(***************************************************************************)
(* What the out-of-sample vault promises for one partition: its contents   *)
(* are sealed once, opened once by one authorization, and shown to nobody  *)
(* before that.  OosVault implements it.                                   *)
(***************************************************************************)
CONSTANTS
    Contents,        \* what can be sealed
    Authorizations,  \* what can open the box
    Nothing          \* not sealed, not opened

VARIABLES
    sealed,   \* what is sealed, or Nothing
    opener,   \* the authorization that opened the box, or Nothing
    shown     \* the contents that were shown to somebody

vars == <<sealed, opener, shown>>

Init == sealed = Nothing /\ opener = Nothing /\ shown = {}

Seal ==
    /\ sealed = Nothing
    /\ sealed' \in Contents
    /\ UNCHANGED <<opener, shown>>

Open ==
    /\ sealed # Nothing
    /\ opener = Nothing
    /\ opener' \in Authorizations
    /\ UNCHANGED <<sealed, shown>>

Show ==
    /\ opener # Nothing
    /\ shown' = shown \cup {sealed}
    /\ UNCHANGED <<sealed, opener>>

Next == Seal \/ Open \/ Show

Spec == Init /\ [][Next]_vars

=============================================================================
