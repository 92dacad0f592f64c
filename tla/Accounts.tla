------------------------------ MODULE Accounts ------------------------------
(***************************************************************************)
(* auth.service.ts, jwt.strategy.ts and the two guards: accounts, the      *)
(* tokens that stand for them, and the check of every other request.  The  *)
(* row of a user is keyed by the e-mail address (the unique index), the    *)
(* wallet by the id of the user, which is that of the registration.        *)
(*                                                                         *)
(*   register   findUser -> insertUser -> insertWallet -> commit           *)
(*   login      findUser -> stampLogin                                     *)
(*   any call   validate -> serve                                          *)
(***************************************************************************)
EXTENDS Requests

CONSTANT Email  \* e-mail addresses

\* No row under that key.
Absent == [present |-> FALSE]

EmptyWallet == [balance |-> 0]

Role == {"USER", "MERCHANT"}

ASSUME AccountAssumption ==
    /\ Row = Email \cup Tx
    /\ Email \cap Tx = {}
    /\ \A r \in Row : InitialDb[r] = Absent
    /\ \A t \in Tx : \A r \in Arrivals[t] :
          /\ r.op \in {"register", "login"} => r.email \in Email
          /\ r.op = "register" => r.role \in Role
          /\ r.op \in {"refresh", "call"} => r.sub \in Tx

VARIABLES
    tokens,    \* tokens that have been issued and have not expired
    late       \* history: calls that arrived when their account was closed

accountVars == <<dbVars, requestVars, tokens, late>>

AccountInit ==
    /\ DbInit
    /\ RequestInit
    /\ tokens = {}
    /\ late = {}

Token(kind, sub) == [kind |-> kind, sub |-> sub]

\* generateTokens
Issue(sub) == tokens' = tokens \cup {Token("access", sub), Token("refresh", sub)}

User(t, password, role) ==
    [id |-> t, password |-> password, role |-> role, active |-> TRUE]

\* The addresses whose account has that id.
AddressesOf(id) == {e \in Email : db[e] # Absent /\ db[e].id = id}

-----------------------------------------------------------------------------
(* register and login                                                      *)

Enter(t) ==
    /\ \E r \in Arrivals[t] : r.op \in {"register", "login"} /\ Arrive(t, r, "findUser")
    /\ UNCHANGED <<dbVars, tokens, late>>

CanLogIn(r, row) == row # Absent /\ row.active /\ row.password = r.password

\* findUnique by address, and what is checked before the next statement; the
\* password is hashed or compared on the way to it.
FindUser(t) ==
    /\ pc[t] = "findUser"
    /\ LET row == db[req[t].email]
       IN  IF req[t].op = "register"
           THEN IF row = Absent THEN Goto(t, "insertUser") ELSE Answer(t, "rejected")
           ELSE IF CanLogIn(req[t], row) THEN Goto(t, "stampLogin")
                                         ELSE Answer(t, "rejected")
    /\ UNCHANGED <<dbVars, tokens, late>>

\* Mutant of InsertUser: the check before the transaction is trusted.
InsertUnchecked(t) ==
    /\ pc[t] = "insertUser"
    /\ Write(t, req[t].email, User(t, req[t].password, req[t].role))
    /\ Goto(t, "insertWallet")
    /\ UNCHANGED <<tokens, late>>

\* Mutant of InsertUser: the unique index is not waited for.
ConflictEarly(t) ==
    /\ pc[t] = "insertUser"
    /\ IF db[req[t].email] # Absent \/ ~Free(t, req[t].email)
       THEN Reject(t)
       ELSE /\ Write(t, req[t].email, User(t, req[t].password, req[t].role))
            /\ Goto(t, "insertWallet")
    /\ UNCHANGED <<tokens, late>>

\* INSERT into users.  The unique index makes it wait for another INSERT of
\* the address that has not ended; if that one committed, P2002, which the
\* filter answers with 409.
InsertUser(t) ==
    /\ pc[t] = "insertUser"
    /\ Free(t, req[t].email)
    /\ IF db[req[t].email] # Absent
       THEN Reject(t)
       ELSE /\ Write(t, req[t].email, User(t, req[t].password, req[t].role))
            /\ Goto(t, "insertWallet")
    /\ UNCHANGED <<tokens, late>>

\* Mutant of InsertWallet: the wallet is created outside the transaction.
InsertWalletAside(t) ==
    /\ pc[t] = "insertWallet"
    /\ AutoCommit(t, EmptyWallet)
    /\ Goto(t, "commit")
    /\ UNCHANGED <<tokens, late>>

InsertWallet(t) ==
    /\ pc[t] = "insertWallet"
    /\ Write(t, t, EmptyWallet)
    /\ Goto(t, "commit")
    /\ UNCHANGED <<tokens, late>>

\* The transaction is over and the tokens are signed.
Registered(t) ==
    /\ CommitRequest(t)
    /\ Issue(t)
    /\ UNCHANGED late

\* UPDATE of lastLogin, which nothing reads, and the tokens.
StampLogin(t) ==
    /\ pc[t] = "stampLogin"
    /\ AutoCommit(req[t].email, db[req[t].email])
    /\ Issue(db[req[t].email].id)
    /\ Answer(t, "done")
    /\ UNCHANGED late

-----------------------------------------------------------------------------
(* Tokens.                                                                 *)

\* refreshTokens: the token is verified and the payload signed again; the
\* account is not looked at.
Refresh(t) ==
    /\ \E r \in Arrivals[t] :
          /\ r.op = "refresh"
          /\ IF Token("refresh", r.sub) \in tokens
             THEN Arrive(t, r, "done") /\ Issue(r.sub)
             ELSE Arrive(t, r, "rejected") /\ UNCHANGED tokens
    /\ UNCHANGED <<dbVars, late>>

ExpireToken(token) ==
    /\ token \in tokens
    /\ tokens' = tokens \ {token}
    /\ UNCHANGED <<dbVars, requestVars, late>>

\* JwtAuthGuard in front of a route that is not @Public: the signature and
\* the age of the token.
CallRoute(t) ==
    /\ \E r \in Arrivals[t] :
          /\ r.op = "call"
          /\ Arrive(t, r, IF Token("access", r.sub) \in tokens THEN "validate"
                                                               ELSE "rejected")
          /\ late' = IF \E e \in AddressesOf(r.sub) : db[e].active
                     THEN late ELSE late \cup {t}
    /\ UNCHANGED <<dbVars, tokens>>

\* Mutant of Validate: the payload is trusted.
TrustPayload(t) ==
    /\ pc[t] = "validate"
    /\ Goto(t, "serve")
    /\ UNCHANGED <<dbVars, tokens, late>>

\* RolesGuard: the route asks for one of some roles, or for none of them.
HasRole(row, roles) == row.role \in roles

\* JwtStrategy.validate reads the user, and RolesGuard compares the role of the
\* row, not that of the token.
Validate(t) ==
    /\ pc[t] = "validate"
    /\ IF \E e \in AddressesOf(req[t].sub) :
             db[e].active /\ HasRole(db[e], req[t].roles)
       THEN Goto(t, "serve")
       ELSE Answer(t, "rejected")
    /\ UNCHANGED <<dbVars, tokens, late>>

\* The handler of the route, whatever it does.
Serve(t) ==
    /\ pc[t] = "serve"
    /\ Answer(t, "done")
    /\ UNCHANGED <<dbVars, tokens, late>>

\* An operator closes the account; the code only ever reads isActive.
Deactivate(e) ==
    /\ db[e] # Absent
    /\ db[e].active
    /\ AutoCommit(e, [db[e] EXCEPT !.active = FALSE])
    /\ UNCHANGED <<requestVars, tokens, late>>

-----------------------------------------------------------------------------

AccountStep(t) ==
    \/ FindUser(t) \/ InsertUser(t) \/ InsertWallet(t) \/ Registered(t)
    \/ StampLogin(t) \/ Validate(t) \/ Serve(t)

AccountLoss(t) == (Abort(t) \/ LoseAnswer(t)) /\ UNCHANGED <<tokens, late>>

AccountIdle == (\A t \in Tx : ~Running(t)) /\ UNCHANGED accountVars

AccountNext ==
    \/ \E t \in Tx :
          Enter(t) \/ Refresh(t) \/ CallRoute(t) \/ AccountStep(t) \/ AccountLoss(t)
    \/ \E token \in tokens : ExpireToken(token)
    \/ \E e \in Email : Deactivate(e)
    \/ AccountIdle

AccountSpec == AccountInit /\ [][AccountNext]_accountVars

\* Handlers go on and PostgreSQL ends the wait for a lock that is free.
AccountFairSpec == AccountSpec /\ \A t \in Tx : WF_accountVars(AccountStep(t))

-----------------------------------------------------------------------------
(* Properties.                                                             *)

Registering(t) == req[t].op = "register"

\* Who is told that the registration is done has the account: it is the one
\* under the address, with the password that was asked for, although the
\* check of the address is a statement, a hash and a transaction earlier
\* (auth.service.ts:33-47).
RegisteredOwnsAccount ==
    \A t \in Tx : Registering(t) /\ pc[t] = "done" =>
        /\ db[req[t].email].id = t
        /\ db[req[t].email].password = req[t].password

\* Nobody is turned away from an address that is free: a registration that
\* waits for another one to end goes ahead if that one is rolled back
\* (auth.service.ts:37, and P2002 in prisma-exception.filter.ts:22).
RefusedMeansTaken ==
    \A t \in Tx : Registering(t) /\ pc[t] = "rejected" => db[req[t].email] # Absent

\* A call that comes after its account was closed is served nothing, although
\* the tokens that are out go on and are refreshed for ever
\* (jwt.strategy.ts:43; refreshTokens does not look at the account).
ClosedAccountsAreNotServed == \A t \in late : pc[t] \notin {"serve", "done"}

\* What accounts promise: the abstract specification Registry, read off the
\* committed rows.
Directory == INSTANCE Registry WITH
    Address <- Email, Holder <- Tx, Vacant <- Absent,
    account <- [e \in Email |-> db[e]],
    purses <- {t \in Tx : db[t] # Absent}

\* "Create user and wallet in transaction" (auth.service.ts:27): both appear in
\* one step, for an address that was free, and stay, through every race, abort
\* and lost answer.
OpensAtomically == Directory!RegistrySpec

\* Somebody gets the address: a registration ends with an account under it, its
\* own or another's, unless it was lost.
AddressIsGiven ==
    \A t \in Tx : Registering(t) /\ Running(t) ~>
        \/ pc[t] = "failed"
        \/ Registering(t) /\ db[req[t].email] # Absent

-----------------------------------------------------------------------------
(* The inductive invariant behind the safety properties.                   *)

AccountSteps ==
    {"findUser", "insertUser", "insertWallet", "commit", "stampLogin", "validate",
     "serve"}

\* A step belongs to one kind of request.
StepFits(t) ==
    /\ pc[t] = "idle" <=> req[t] = NoRequest
    /\ pc[t] = "findUser" => req[t].op \in {"register", "login"}
    /\ pc[t] \in {"insertUser", "insertWallet", "commit"} => Registering(t)
    /\ pc[t] = "stampLogin" => req[t].op = "login" /\ db[req[t].email] # Absent
    /\ pc[t] \in {"validate", "serve"} => req[t].op = "call"

\* The row that the registration t inserts, as it is while active = b.
AccountOf(t, b) ==
    [id |-> t, password |-> req[t].password, role |-> req[t].role, active |-> b]

\* A registration under way holds the address, which is free until it commits,
\* and has written there and in its wallet what it is going to commit.
HoldsAddress(t) ==
    /\ locks[t] = wrote[t]
    /\ wrote[t] = CASE pc[t] = "insertWallet" -> {req[t].email}
                    [] pc[t] = "commit"       -> {req[t].email, t}
                    [] OTHER                  -> {}
    /\ pc[t] \in {"insertWallet", "commit"} =>
          /\ db[req[t].email] = Absent
          /\ view[t][req[t].email] = AccountOf(t, TRUE)
    /\ pc[t] = "commit" => view[t][t] = EmptyWallet

\* t is a registration that has committed, and has the address e.
Owns(t, e) ==
    /\ Registering(t) /\ req[t].email = e
    /\ pc[t] \in {"done", "failed"}
    /\ db[t] = EmptyWallet
    /\ \E b \in BOOLEAN : db[e] = AccountOf(t, b)

\* Every account is that of a registration, and every wallet has an account.
RowsOwned ==
    /\ \A e \in Email : db[e] # Absent => \E t \in Tx : Owns(t, e)
    /\ \A t \in Tx : db[t] # Absent => Registering(t) /\ Owns(t, req[t].email)
    /\ \A t \in Tx : Registering(t) /\ pc[t] = "done" => Owns(t, req[t].email)

\* A token stands for an account, closed or not.
TokensBacked ==
    \A token \in tokens : token.sub \in Tx /\ \E e \in Email : Owns(token.sub, e)

\* The account of a late call stays closed until it is looked at.
LateStaysClosed ==
    \A t \in late :
        /\ t \in Tx /\ req[t].op = "call"
        /\ pc[t] \in {"validate", "rejected", "failed"}
        /\ pc[t] = "validate" =>
              \E e \in Email : Owns(req[t].sub, e) /\ ~db[e].active

\* A registration holds its address from the INSERT on, each row is the work of
\* one registration, each token stands for an account, and whoever is refused
\* is refused for an account (auth.service.ts:29-85).
AccountInv ==
    /\ EngineTypeOK /\ EngineInv /\ serial = {}
    /\ pc \in [Tx -> AccountSteps \cup Answers \cup {"idle"}]
    /\ DOMAIN req = Tx /\ \A t \in Tx : req[t] \in Arrivals[t] \cup {NoRequest}
    /\ \A t \in Tx : StepFits(t) /\ HoldsAddress(t)
    /\ RowsOwned
    /\ TokensBacked
    /\ LateStaysClosed
    /\ RefusedMeansTaken
=============================================================================
