------------------------------ MODULE Registry ------------------------------
(***************************************************************************)
(* What authentication promises about accounts, with no database: an       *)
(* address is given once, the account and its empty wallet come into being *)
(* in one step, and neither is ever replaced or taken back; an operator    *)
(* may close an account for good.                                          *)
(***************************************************************************)
CONSTANTS
    Address,        \* e-mail addresses
    Holder,         \* those who may be given one
    Vacant          \* an address that nobody has

VARIABLES
    account,        \* account[e]: Vacant, or the account under address e
    purses          \* holders with a wallet

registryVars == <<account, purses>>

RegistryInit ==
    /\ account = [e \in Address |-> Vacant]
    /\ purses = {}

Open(e, h) ==
    /\ account[e] = Vacant
    /\ h \notin purses
    /\ account'[e] # Vacant
    /\ account'[e].id = h
    /\ account'[e].active
    /\ account' = [account EXCEPT ![e] = account'[e]]
    /\ purses' = purses \cup {h}

Close(e) ==
    /\ account[e] # Vacant
    /\ account' = [account EXCEPT ![e].active = FALSE]
    /\ UNCHANGED purses

RegistryNext ==
    \/ \E e \in Address, h \in Holder : Open(e, h)
    \/ \E e \in Address : Close(e)

RegistrySpec == RegistryInit /\ [][RegistryNext]_registryVars
=============================================================================
