-------------------------------- MODULE Once --------------------------------
(***************************************************************************)
(* What the command bus promises a client that retries: while a call is    *)
(* remembered it is not performed again, success is answered only for what *)
(* was performed, and the calls in Lasting are never forgotten.            *)
(***************************************************************************)

CONSTANTS Calls, Lasting

VARIABLES
  performed,    \* the calls whose effect was committed
  remembered,   \* those a retry would be recognised as
  answered      \* the calls a success was returned for

ovars == <<performed, remembered, answered>>

OnceInit ==
  /\ performed = {}
  /\ remembered = {}
  /\ answered = {}

Perform ==
  \E c \in Calls \ remembered :
    /\ performed' = performed \cup {c}
    /\ remembered' = remembered \cup {c}
    /\ answered' \in {answered, answered \cup {c}}

Answer ==
  /\ \E c \in performed : answered' = answered \cup {c}
  /\ UNCHANGED <<performed, remembered>>

Forget ==
  /\ \E C \in SUBSET (remembered \ Lasting) : remembered' = remembered \ C
  /\ UNCHANGED <<performed, answered>>

OnceNext == Perform \/ Answer \/ Forget

OnceSpec == OnceInit /\ [][OnceNext]_ovars
=============================================================================
