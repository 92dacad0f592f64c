----------------------------- MODULE MCAccounts -----------------------------
(***************************************************************************)
(* Instances of the accounts for TLC: three registrations for two          *)
(* addresses, a login, a refresh and a call that follow any of them.       *)
(***************************************************************************)
EXTENDS Accounts, TLC

CONSTANTS t1, t2, t3, t4,  \* requests
          a, b             \* addresses

MCInitialDb == [r \in Row |-> Absent]

Join(e, password, role) ==
    [op |-> "register", email |-> e, password |-> password, role |-> role]

LogIn(e, password) == [op |-> "login", email |-> e, password |-> password]

MCArrivals ==
    [t \in Tx |->
        CASE t = t1 -> {Join(a, "one", "USER")}
          [] t = t2 -> {Join(a, "two", "MERCHANT"), Join(b, "two", "USER")}
          [] t = t3 -> {LogIn(a, "one"), [op |-> "refresh", sub |-> t1],
                        Join(a, "one", "USER")}
          [] t = t4 -> [op : {"call"}, sub : {t1, t2}, roles : {Role, {"MERCHANT"}}]]
=============================================================================
