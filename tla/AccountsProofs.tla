--------------------------- MODULE AccountsProofs ---------------------------
(***************************************************************************)
(* Whoever is told that the registration is done has the account.  The     *)
(* argument: from its INSERT to its end a registration holds the address,  *)
(* and the address is free as long as it does; what it commits is the row  *)
(* it wrote then.  A row, once there, is rewritten only by a login, which  *)
(* keeps it, and by the operator, who closes it.                           *)
(***************************************************************************)
EXTENDS Accounts, PostgresProofs

\* The rows of accounts and wallets are told apart from none.
LEMMA RowForms ==
    ASSUME NEW t, NEW b \in BOOLEAN
    PROVE  /\ AccountOf(t, b) # Absent
           /\ EmptyWallet # Absent
           /\ AccountOf(t, TRUE) = User(t, req[t].password, req[t].role)
           /\ [AccountOf(t, b) EXCEPT !.active = FALSE] = AccountOf(t, FALSE)
           /\ AccountOf(t, b).id = t
           /\ AccountOf(t, b).active = b
           /\ AccountOf(t, b).password = req[t].password
<1>1. /\ AccountOf(t, b) # Absent
      /\ EmptyWallet # Absent
  BY DEF AccountOf, User, Absent, EmptyWallet
<1>2. /\ AccountOf(t, TRUE) = User(t, req[t].password, req[t].role)
      /\ [AccountOf(t, b) EXCEPT !.active = FALSE] = AccountOf(t, FALSE)
  <2>1. AccountOf(t, TRUE) = User(t, req[t].password, req[t].role)
    BY DEF AccountOf, User
  <2>2. ASSUME NEW c PROVE [AccountOf(t, b) EXCEPT !.active = c] = AccountOf(t, c)
    BY DEF AccountOf
  <2> QED
    BY <2>1, <2>2
<1>3. /\ AccountOf(t, b).id = t
      /\ AccountOf(t, b).active = b
      /\ AccountOf(t, b).password = req[t].password
  BY DEF AccountOf, User
<1> QED
  BY <1>1, <1>2, <1>3

\* What the requests that have arrived ask for.
LEMMA Asked ==
    ASSUME AccountInv, NEW t \in Tx
    PROVE  /\ req[t].op \in {"register", "login"} => req[t].email \in Email
           /\ req[t].op \in {"refresh", "call"} => req[t].sub \in Tx
           /\ Email \subseteq Row /\ Tx \subseteq Row
<1>1. req[t] \in Arrivals[t] \/ req[t] = NoRequest
  BY DEF AccountInv
<1> QED
  BY <1>1, AccountAssumption DEF NoRequest

\* An account goes on to be that of its registration, open or closed.
LEMMA OwnsKept ==
    ASSUME NEW t, NEW e, Owns(t, e), req'[t] = req[t], pc'[t] = pc[t], db'[t] = db[t],
           \/ db'[e] = db[e]
           \/ db'[e] = [db[e] EXCEPT !.active = FALSE]
    PROVE  Owns(t, e)'
<1>1. PICK b \in BOOLEAN : db[e] = AccountOf(t, b)
  BY DEF Owns
<1>2. \A c : AccountOf(t, c)' = AccountOf(t, c)
  BY DEF AccountOf, User
<1>3. db'[e] = AccountOf(t, b) \/ db'[e] = AccountOf(t, FALSE)
  <2>1. [AccountOf(t, b) EXCEPT !.active = FALSE] = AccountOf(t, FALSE)
    BY RowForms
  <2> QED
    BY <1>1, <2>1
<1>4. \E c \in BOOLEAN : db'[e] = AccountOf(t, c)'
  BY <1>2, <1>3
<1> QED
  BY <1>4 DEF Owns, Registering

\* The request t takes a step that leaves the rows as they are.
LEMMA QuietStepKeeps ==
    ASSUME AccountInv, NEW t \in Tx, NEW step, NEW r,
           EngineOK', serial' = {}, \A x \in Row : db'[x] = db[x],
           pc[t] \notin Answers,
           step \in AccountSteps \cup Answers,
           pc' = [pc EXCEPT ![t] = step],
           r \in Arrivals[t], DOMAIN req' = Tx,
           \A u \in Tx : req'[u] = IF u = t THEN r ELSE req[u],
           pc[t] = "idle" \/ r = req[t],
           \A u \in Tx \ {t} :
              wrote'[u] = wrote[u] /\ locks'[u] = locks[u] /\ view'[u] = view[u],
           StepFits(t)', HoldsAddress(t)',
           r.op = "register" => step # "done",
           r.op = "register" /\ step = "rejected" => db[r.email] # Absent,
           tokens' \subseteq tokens \cup
              {token \in tokens' : token.sub \in Tx /\ \E e \in Email : Owns(token.sub, e)},
           late' \subseteq late \cup {t},
           t \in late' => /\ r.op = "call"
                          /\ step \in {"validate", "rejected", "failed"}
                          /\ step = "validate" =>
                                \E e \in Email : Owns(r.sub, e) /\ ~db[e].active
    PROVE  AccountInv'
<1> USE AccountAssumption
<1>1. DOMAIN pc = Tx /\ DOMAIN req = Tx /\ pc'[t] = step /\ req'[t] = r
  BY DEF AccountInv
<1>2. \A u \in Tx \ {t} : pc'[u] = pc[u] /\ req'[u] = req[u]
  BY <1>1
<1>3. \A u \in Tx, e \in Email : Owns(u, e) => Owns(u, e)'
  <2> SUFFICES ASSUME NEW u \in Tx, NEW e \in Email, Owns(u, e) PROVE Owns(u, e)'
    OBVIOUS
  <2>1. u # t
    BY DEF Owns, Answers
  <2> QED
    BY <1>2, <2>1, OwnsKept
<1>4. /\ pc' \in [Tx -> AccountSteps \cup Answers \cup {"idle"}]
      /\ DOMAIN req' = Tx /\ \A u \in Tx : req'[u] \in Arrivals[u] \cup {NoRequest}
  BY <1>1, <1>2 DEF AccountInv
<1>5. ASSUME NEW u \in Tx PROVE StepFits(u)' /\ HoldsAddress(u)'
  <2>1. CASE u = t
    BY <2>1
  <2>2. CASE u # t
    <3>1. StepFits(u) /\ HoldsAddress(u) /\ UNCHANGED <<pc[u], req[u]>>
      BY <1>2, <2>2 DEF AccountInv
    <3>2. UNCHANGED <<wrote[u], locks[u], view[u]>>
      BY <2>2
    <3>3. /\ pc[u] = "stampLogin" => db'[req[u].email] = db[req[u].email]
          /\ pc[u] \in {"insertWallet", "commit"} => db'[req[u].email] = db[req[u].email]
      BY <3>1, Asked DEF StepFits, Registering
    <3>4. StepFits(u)'
      BY <3>1, <3>3 DEF StepFits, Registering
    <3>5. HoldsAddress(u)'
      BY <3>1, <3>2, <3>3 DEF HoldsAddress, AccountOf, User
    <3> QED
      BY <3>4, <3>5
  <2> QED
    BY <2>1, <2>2
<1>6. RowsOwned'
  <2>1. \A u \in Tx : Registering(u) /\ Owns(u, req[u].email) =>
            Registering(u)' /\ Owns(u, req[u].email)'
    <3> SUFFICES ASSUME NEW u \in Tx, Registering(u), Owns(u, req[u].email)
                 PROVE  Registering(u)' /\ Owns(u, req[u].email)'
      OBVIOUS
    <3>1. u # t /\ req[u].email \in Email
      BY Asked DEF Owns, Answers, Registering
    <3> QED
      BY <1>2, <1>3, <3>1 DEF Registering
  <2>2. \A e \in Email : db'[e] # Absent => \E u \in Tx : Owns(u, e)'
    BY <1>3 DEF AccountInv, RowsOwned
  <2>3. \A u \in Tx : db'[u] # Absent => Registering(u)' /\ Owns(u, req[u].email)'
    BY <2>1 DEF AccountInv, RowsOwned
  <2>4. \A u \in Tx : Registering(u)' /\ pc'[u] = "done" => Owns(u, req[u].email)'
    <3> SUFFICES ASSUME NEW u \in Tx, Registering(u)', pc'[u] = "done"
                 PROVE  Owns(u, req[u].email)'
      OBVIOUS
    <3>1. u # t
      BY <1>1 DEF Registering
    <3> QED
      BY <1>2, <2>1, <3>1 DEF AccountInv, RowsOwned, Registering
  <2> QED
    BY <2>2, <2>3, <2>4 DEF RowsOwned
<1>7. TokensBacked'
  <2> SUFFICES ASSUME NEW token \in tokens'
               PROVE  token.sub \in Tx /\ \E e \in Email : Owns(token.sub, e)'
    BY DEF TokensBacked
  <2>1. token.sub \in Tx /\ \E e \in Email : Owns(token.sub, e)
    BY DEF AccountInv, TokensBacked
  <2> QED
    BY <1>3, <2>1
<1>8. LateStaysClosed'
  <2> SUFFICES ASSUME NEW u \in late'
               PROVE  /\ u \in Tx /\ req'[u].op = "call"
                      /\ pc'[u] \in {"validate", "rejected", "failed"}
                      /\ pc'[u] = "validate" =>
                            \E e \in Email : Owns(req[u].sub, e)' /\ ~db'[e].active
    BY DEF LateStaysClosed
  <2>1. CASE u = t
    <3>1. r.op = "call" => r.sub \in Tx
      OBVIOUS
    <3> QED
      BY <1>1, <1>3, <2>1, <3>1
  <2>2. CASE u # t
    <3>1. u \in late
      BY <2>2
    <3>2. u \in Tx /\ req[u].sub \in Tx
      BY <3>1, Asked DEF AccountInv, LateStaysClosed
    <3> QED
      BY <1>2, <1>3, <2>2, <3>1, <3>2 DEF AccountInv, LateStaysClosed
  <2> QED
    BY <2>1, <2>2
<1>9. RefusedMeansTaken'
  <2> SUFFICES ASSUME NEW u \in Tx, Registering(u)', pc'[u] = "rejected"
               PROVE  db'[req'[u].email] # Absent
    BY DEF RefusedMeansTaken
  <2>1. CASE u = t
    BY <1>1, <2>1 DEF Registering
  <2>2. CASE u # t
    BY <1>2, <2>2, Asked DEF AccountInv, RefusedMeansTaken, Registering
  <2> QED
    BY <2>1, <2>2
<1> QED
  BY <1>4, <1>5, <1>6, <1>7, <1>8, <1>9 DEF AccountInv, EngineOK

-----------------------------------------------------------------------------
(* Steps that change no row.                                               *)

LEMMA EnterKeeps ==
    ASSUME AccountInv, NEW t \in Tx, Enter(t)
    PROVE  AccountInv'
<1>1. PICK r \in Arrivals[t] :
        /\ r.op \in {"register", "login"} /\ pc[t] = "idle"
        /\ req' = [req EXCEPT ![t] = r]
        /\ pc' = [pc EXCEPT ![t] = "findUser"]
        /\ UNCHANGED <<dbVars, tokens, late>>
  BY DEF Enter, Arrive
<1>2. pc'[t] = "findUser" /\ req'[t] = r /\ r # NoRequest
  BY <1>1 DEF AccountInv, NoRequest
<1>3. EngineOK' /\ serial' = {}
  BY <1>1, IdleKeeps DEF AccountInv, EngineOK, dbVars
<1>4. StepFits(t)' /\ HoldsAddress(t)'
  BY <1>1, <1>2 DEF AccountInv, StepFits, HoldsAddress, Registering, dbVars
<1>5. t \notin late'
  BY <1>1 DEF AccountInv, LateStaysClosed
<1> QED
  <2>1. DOMAIN req' = Tx /\ \A u \in Tx : req'[u] = IF u = t THEN r ELSE req[u]
    BY <1>1 DEF AccountInv
  <2> QED
    BY <1>1, <1>3, <1>4, <1>5, <2>1, QuietStepKeeps DEF dbVars, AccountSteps, Answers

LEMMA FindUserKeeps ==
    ASSUME AccountInv, NEW t \in Tx, FindUser(t)
    PROVE  AccountInv'
<1>1. PICK step \in {"insertUser", "stampLogin", "rejected"} :
        /\ pc[t] = "findUser" /\ UNCHANGED <<dbVars, req, tokens, late>>
        /\ pc' = [pc EXCEPT ![t] = step]
        /\ step = "insertUser" => req[t].op = "register"
        /\ step = "stampLogin" => req[t].op # "register" /\ db[req[t].email] # Absent
        /\ step = "rejected" /\ req[t].op = "register" => db[req[t].email] # Absent
  BY DEF FindUser, Goto, Answer, CanLogIn
<1>2. pc'[t] = step /\ req[t].op \in {"register", "login"} /\ req[t] # NoRequest
  BY <1>1 DEF AccountInv, StepFits
<1>3. req[t] \in Arrivals[t] /\ DOMAIN req' = Tx /\ \A u \in Tx : req'[u] = req[u]
  BY <1>1, <1>2 DEF AccountInv
<1>4. EngineOK' /\ serial' = {}
  BY <1>1, IdleKeeps DEF AccountInv, EngineOK, dbVars
<1>5. StepFits(t)' /\ HoldsAddress(t)'
  BY <1>1, <1>2 DEF AccountInv, StepFits, HoldsAddress, Registering, dbVars
<1>6. t \notin late'
  BY <1>1 DEF AccountInv, LateStaysClosed
<1> QED
  BY <1>1, <1>3, <1>4, <1>5, <1>6, QuietStepKeeps DEF dbVars, AccountSteps, Answers

\* A transaction of t that is rolled back leaves nothing of t behind.
LEMMA RollbackStepKeeps ==
    ASSUME AccountInv, NEW t \in Tx, Rollback(t), NEW step \in {"rejected", "failed"},
           Running(t), pc' = [pc EXCEPT ![t] = step], UNCHANGED <<req, tokens, late>>,
           Registering(t) /\ step = "rejected" => db[req[t].email] # Absent,
           t \in late => req[t].op = "call"
    PROVE  AccountInv'
<1>1. pc'[t] = step /\ pc[t] \notin Answers \cup {"idle"}
  BY DEF AccountInv, Running
<1>2. req[t] \in Arrivals[t] /\ DOMAIN req' = Tx /\ \A u \in Tx : req'[u] = req[u] /\ req[t] # NoRequest
  BY <1>1 DEF AccountInv, StepFits
<1>3. EngineOK' /\ serial' = {} /\ db' = db
  BY RollbackKeeps DEF AccountInv, EngineOK, Rollback, Release
<1>4. /\ wrote'[t] = {} /\ locks'[t] = {}
      /\ \A u \in Tx \ {t} :
            wrote'[u] = wrote[u] /\ locks'[u] = locks[u] /\ view'[u] = view[u]
  BY DEF Rollback, Release, AccountInv, EngineTypeOK
<1>5. StepFits(t)' /\ HoldsAddress(t)'
  BY <1>1, <1>2, <1>4 DEF StepFits, HoldsAddress
<1> QED
  BY <1>1, <1>2, <1>3, <1>4, <1>5, QuietStepKeeps DEF AccountSteps, Answers, Registering

\* A statement of the registration t that writes the row x.
LEMMA WriteStepKeeps ==
    ASSUME AccountInv, NEW t \in Tx, NEW x \in Row, NEW c, Write(t, x, c),
           NEW step \in {"insertWallet", "commit"},
           pc[t] \in {"insertUser", "insertWallet"}, Registering(t),
           pc' = [pc EXCEPT ![t] = step], UNCHANGED <<req, tokens, late>>,
           HoldsAddress(t)'
    PROVE  AccountInv'
<1>1. pc'[t] = step /\ req[t] # NoRequest
  BY DEF AccountInv, Registering, NoRequest
<1>2. req[t] \in Arrivals[t] /\ DOMAIN req' = Tx /\ \A u \in Tx : req'[u] = req[u]
  BY <1>1 DEF AccountInv
<1>3. EngineOK' /\ serial' = {} /\ db' = db
  BY WriteKeeps DEF AccountInv, EngineOK, Write, Put
<1>4. \A u \in Tx \ {t} :
         wrote'[u] = wrote[u] /\ locks'[u] = locks[u] /\ view'[u] = view[u]
  BY DEF Write, Put, AccountInv, EngineTypeOK
<1>5. StepFits(t)'
  BY <1>1 DEF StepFits, Registering
<1>6. t \notin late'
  BY DEF AccountInv, LateStaysClosed, Registering
<1> QED
  BY <1>1, <1>2, <1>3, <1>4, <1>5, <1>6, QuietStepKeeps DEF AccountSteps, Answers

LEMMA InsertUserKeeps ==
    ASSUME AccountInv, NEW t \in Tx, InsertUser(t)
    PROVE  AccountInv'
<1> DEFINE e == req[t].email
<1>1. /\ pc[t] = "insertUser" /\ Registering(t) /\ wrote[t] = {} /\ locks[t] = {}
      /\ e \in Email /\ e \in Row /\ UNCHANGED <<tokens, late>>
  BY Asked DEF InsertUser, AccountInv, StepFits, HoldsAddress, Registering
<1>2. CASE db[e] # Absent
  BY <1>1, <1>2, RollbackStepKeeps
     DEF InsertUser, Reject, Answer, Running, Answers, AccountInv, LateStaysClosed
<1>3. CASE db[e] = Absent
  <2>1. /\ Write(t, e, AccountOf(t, TRUE)) /\ UNCHANGED req
        /\ pc' = [pc EXCEPT ![t] = "insertWallet"]
    <3>1. AccountOf(t, TRUE) = User(t, req[t].password, req[t].role)
      BY RowForms
    <3> QED
      BY <1>1, <1>3, <3>1 DEF InsertUser, Goto
  <2>2. /\ locks'[t] = {e} /\ wrote'[t] = {e} /\ view'[t][e] = AccountOf(t, TRUE)
        /\ db' = db /\ pc'[t] = "insertWallet"
    BY <1>1, <2>1 DEF Write, Put, AccountInv, EngineTypeOK
  <2>3. HoldsAddress(t)'
    BY <1>3, <2>1, <2>2 DEF HoldsAddress, AccountOf
  <2> QED
    BY <1>1, <2>1, <2>3, WriteStepKeeps
<1> QED
  BY <1>2, <1>3

LEMMA InsertWalletKeeps ==
    ASSUME AccountInv, NEW t \in Tx, InsertWallet(t)
    PROVE  AccountInv'
<1> DEFINE e == req[t].email
<1>1. /\ pc[t] = "insertWallet" /\ Registering(t) /\ wrote[t] = {e} /\ locks[t] = {e}
      /\ db[e] = Absent /\ view[t][e] = AccountOf(t, TRUE)
      /\ e \in Email /\ t \in Row /\ t # e
  <2>1. pc[t] = "insertWallet" /\ Registering(t) /\ HoldsAddress(t)
    BY DEF InsertWallet, AccountInv, StepFits
  <2>2. wrote[t] = {e} /\ locks[t] = {e} /\ db[e] = Absent /\ view[t][e] = AccountOf(t, TRUE)
    BY <2>1 DEF HoldsAddress
  <2>3. e \in Email /\ t \in Row /\ t # e
    BY <2>1, Asked, AccountAssumption DEF Registering
  <2> QED
    BY <2>1, <2>2, <2>3
<1>2. /\ Write(t, t, EmptyWallet) /\ UNCHANGED <<req, tokens, late>>
      /\ pc' = [pc EXCEPT ![t] = "commit"]
  BY DEF InsertWallet, Goto
<1>3. /\ locks'[t] = {e, t} /\ wrote'[t] = {e, t} /\ db' = db /\ pc'[t] = "commit"
      /\ view'[t][t] = EmptyWallet /\ view'[t][e] = view[t][e]
  BY <1>1, <1>2 DEF Write, Put, AccountInv, EngineTypeOK
<1>4. HoldsAddress(t)'
  BY <1>1, <1>2, <1>3 DEF HoldsAddress, AccountOf
<1> QED
  BY <1>1, <1>2, <1>4, WriteStepKeeps

LEMMA AbortKeeps ==
    ASSUME AccountInv, NEW t \in Tx, Abort(t), UNCHANGED <<tokens, late>>
    PROVE  AccountInv'
BY RollbackStepKeeps DEF Abort, AccountInv, LateStaysClosed

-----------------------------------------------------------------------------
(* Tokens.                                                                 *)

\* A row that is there is an account of the registration whose id it has.
LEMMA RowIsAccount ==
    ASSUME AccountInv, NEW e \in Email, db[e] # Absent
    PROVE  db[e].id \in Tx /\ Owns(db[e].id, e)
<1>1. PICK u \in Tx : Owns(u, e)
  BY DEF AccountInv, RowsOwned
<1>2. PICK b \in BOOLEAN : db[e] = AccountOf(u, b)
  BY <1>1 DEF Owns
<1>3. AccountOf(u, b).id = u
  BY RowForms
<1> QED
  BY <1>1, <1>2, <1>3

\* And the other way round.
LEMMA AccountIsRow ==
    ASSUME NEW u \in Tx, NEW e \in Email, Owns(u, e)
    PROVE  db[e] # Absent /\ db[e].id = u /\ db[e].password = req[u].password
<1>1. PICK b \in BOOLEAN : db[e] = AccountOf(u, b)
  BY DEF Owns
<1>2. /\ AccountOf(u, b) # Absent
      /\ AccountOf(u, b).id = u
      /\ AccountOf(u, b).password = req[u].password
  BY RowForms
<1> QED
  BY <1>1, <1>2

LEMMA StampLoginKeeps ==
    ASSUME AccountInv, NEW t \in Tx, StampLogin(t)
    PROVE  AccountInv'
<1> DEFINE e == req[t].email
<1>1. /\ pc[t] = "stampLogin" /\ pc' = [pc EXCEPT ![t] = "done"]
      /\ AutoCommit(e, db[e]) /\ UNCHANGED <<req, late>>
      /\ tokens' = tokens \cup {Token("access", db[e].id), Token("refresh", db[e].id)}
  BY DEF StampLogin, Issue, Answer
<1>2. req[t].op = "login" /\ db[e] # Absent
  BY <1>1 DEF AccountInv, StepFits
<1>3. e \in Email /\ e \in Row
  BY <1>2, Asked
<1>4. EngineOK' /\ serial' = {}
  BY <1>1, <1>3, AutoCommitKeeps DEF AccountInv, EngineOK, AutoCommit
<1>5. \A x \in Row : db'[x] = db[x]
  BY <1>1 DEF AutoCommit, AccountInv, EngineTypeOK
<1>6. UNCHANGED <<wrote, locks, view>>
  BY <1>1 DEF AutoCommit
<1>7. pc'[t] = "done" /\ req[t] # NoRequest
  BY <1>1, <1>2 DEF AccountInv, NoRequest
<1>8. StepFits(t)' /\ HoldsAddress(t)'
  BY <1>1, <1>6, <1>7 DEF AccountInv, StepFits, HoldsAddress
<1>9. /\ req[t] \in Arrivals[t] /\ DOMAIN req' = Tx /\ \A u \in Tx : req'[u] = req[u]
      /\ t \notin late'
  BY <1>1, <1>7 DEF AccountInv, LateStaysClosed
<1>10. \A token \in tokens' :
          \/ token \in tokens
          \/ token.sub \in Tx /\ \E x \in Email : Owns(token.sub, x)
  BY <1>1, <1>2, <1>3, RowIsAccount DEF Token
<1> HIDE DEF e
<1> QED
  BY <1>1, <1>2, <1>4, <1>5, <1>6, <1>8, <1>9, <1>10, QuietStepKeeps
     DEF AccountSteps, Answers

LEMMA RefreshKeeps ==
    ASSUME AccountInv, NEW t \in Tx, Refresh(t)
    PROVE  AccountInv'
<1>1. PICK r \in Arrivals[t], step \in {"done", "rejected"} :
        /\ r.op = "refresh" /\ pc[t] = "idle"
        /\ req' = [req EXCEPT ![t] = r] /\ pc' = [pc EXCEPT ![t] = step]
        /\ UNCHANGED <<dbVars, late>>
        /\ \A token \in tokens' :
              \/ token \in tokens
              \/ token.sub = r.sub /\ Token("refresh", r.sub) \in tokens
  BY DEF Refresh, Arrive, Issue, Token
<1>2. pc'[t] = step /\ req'[t] = r /\ r # NoRequest
  BY <1>1 DEF AccountInv, NoRequest
<1>3. EngineOK' /\ serial' = {}
  BY <1>1, IdleKeeps DEF AccountInv, EngineOK, dbVars
<1>4. StepFits(t)' /\ HoldsAddress(t)'
  BY <1>1, <1>2 DEF AccountInv, StepFits, HoldsAddress, dbVars
<1>5. t \notin late'
  BY <1>1 DEF AccountInv, LateStaysClosed
<1>6. DOMAIN req' = Tx /\ \A u \in Tx : req'[u] = IF u = t THEN r ELSE req[u]
  BY <1>1 DEF AccountInv
<1>7. \A token \in tokens' :
         \/ token \in tokens
         \/ token.sub \in Tx /\ \E x \in Email : Owns(token.sub, x)
  BY <1>1 DEF AccountInv, TokensBacked, Token
<1> QED
  BY <1>1, <1>3, <1>4, <1>5, <1>6, <1>7, QuietStepKeeps DEF dbVars, AccountSteps, Answers

LEMMA CallRouteKeeps ==
    ASSUME AccountInv, NEW t \in Tx, CallRoute(t)
    PROVE  AccountInv'
<1>1. PICK r \in Arrivals[t], step \in {"validate", "rejected"} :
        /\ r.op = "call" /\ pc[t] = "idle"
        /\ req' = [req EXCEPT ![t] = r] /\ pc' = [pc EXCEPT ![t] = step]
        /\ UNCHANGED <<dbVars, tokens>>
        /\ step = "validate" => Token("access", r.sub) \in tokens
        /\ late' = IF \E e \in AddressesOf(r.sub) : db[e].active
                   THEN late ELSE late \cup {t}
  BY DEF CallRoute, Arrive
<1>2. pc'[t] = step /\ req'[t] = r /\ r # NoRequest
  BY <1>1 DEF AccountInv, NoRequest
<1>3. EngineOK' /\ serial' = {}
  BY <1>1, IdleKeeps DEF AccountInv, EngineOK, dbVars
<1>4. StepFits(t)' /\ HoldsAddress(t)'
  BY <1>1, <1>2 DEF AccountInv, StepFits, HoldsAddress, dbVars
<1>5. t \notin late
  BY <1>1 DEF AccountInv, LateStaysClosed
<1>6. DOMAIN req' = Tx /\ \A u \in Tx : req'[u] = IF u = t THEN r ELSE req[u]
  BY <1>1 DEF AccountInv
<1>7. ASSUME t \in late', step = "validate"
      PROVE  \E e \in Email : Owns(r.sub, e) /\ ~db[e].active
  <2>1. PICK e \in Email : r.sub \in Tx /\ Owns(r.sub, e)
    BY <1>1, <1>7 DEF AccountInv, TokensBacked, Token
  <2>2. e \in AddressesOf(r.sub)
    BY <2>1, AccountIsRow DEF AddressesOf
  <2> QED
    BY <1>1, <1>5, <1>7, <2>1, <2>2
<1> QED
  BY <1>1, <1>3, <1>4, <1>6, <1>7, QuietStepKeeps DEF dbVars, AccountSteps, Answers

LEMMA ValidateKeeps ==
    ASSUME AccountInv, NEW t \in Tx, Validate(t)
    PROVE  AccountInv'
<1>1. PICK step \in {"serve", "rejected"} :
        /\ pc[t] = "validate" /\ pc' = [pc EXCEPT ![t] = step]
        /\ UNCHANGED <<dbVars, req, tokens, late>>
        /\ step = "serve" => \E e \in AddressesOf(req[t].sub) : db[e].active
  BY DEF Validate, Goto, Answer
<1>2. pc'[t] = step /\ req[t].op = "call" /\ req[t] # NoRequest
  BY <1>1 DEF AccountInv, StepFits
<1>3. /\ req[t] \in Arrivals[t] /\ DOMAIN req' = Tx /\ \A u \in Tx : req'[u] = req[u]
  BY <1>1, <1>2 DEF AccountInv
<1>4. EngineOK' /\ serial' = {}
  BY <1>1, IdleKeeps DEF AccountInv, EngineOK, dbVars
<1>5. StepFits(t)' /\ HoldsAddress(t)'
  BY <1>1, <1>2 DEF AccountInv, StepFits, HoldsAddress, dbVars
<1>6. t \in late => step = "rejected"
  <2> SUFFICES ASSUME t \in late, step = "serve" PROVE FALSE
    OBVIOUS
  <2>1. PICK e \in Email : Owns(req[t].sub, e) /\ ~db[e].active
    BY <1>1 DEF AccountInv, LateStaysClosed
  <2>2. PICK x \in Email : db[x] # Absent /\ db[x].id = req[t].sub /\ db[x].active
    BY <1>1 DEF AddressesOf
  <2>3. Owns(req[t].sub, x)
    BY <2>2, RowIsAccount
  <2> QED
    BY <2>1, <2>2, <2>3 DEF Owns
<1> QED
  BY <1>1, <1>2, <1>3, <1>4, <1>5, <1>6, QuietStepKeeps DEF dbVars, AccountSteps, Answers

LEMMA ServeKeeps ==
    ASSUME AccountInv, NEW t \in Tx, Serve(t)
    PROVE  AccountInv'
<1>1. /\ pc[t] = "serve" /\ pc' = [pc EXCEPT ![t] = "done"]
      /\ UNCHANGED <<dbVars, req, tokens, late>>
  BY DEF Serve, Answer
<1>2. pc'[t] = "done" /\ req[t].op = "call" /\ req[t] # NoRequest
  BY <1>1 DEF AccountInv, StepFits
<1>3. /\ req[t] \in Arrivals[t] /\ DOMAIN req' = Tx /\ \A u \in Tx : req'[u] = req[u]
      /\ t \notin late
  BY <1>1, <1>2 DEF AccountInv, LateStaysClosed
<1>4. EngineOK' /\ serial' = {}
  BY <1>1, IdleKeeps DEF AccountInv, EngineOK, dbVars
<1>5. StepFits(t)' /\ HoldsAddress(t)'
  BY <1>1, <1>2 DEF AccountInv, StepFits, HoldsAddress, dbVars
<1> QED
  BY <1>1, <1>2, <1>3, <1>4, <1>5, QuietStepKeeps DEF dbVars, AccountSteps, Answers

LEMMA ExpireTokenKeeps ==
    ASSUME AccountInv, NEW token \in tokens, ExpireToken(token)
    PROVE  AccountInv'
<1>1. UNCHANGED <<dbVars, requestVars, late>> /\ tokens' \subseteq tokens
  BY DEF ExpireToken
<1>2. EngineOK' /\ serial' = {}
  BY <1>1, IdleKeeps DEF AccountInv, EngineOK, dbVars
<1>3. \A t \in Tx : StepFits(t)' /\ HoldsAddress(t)'
  BY <1>1 DEF AccountInv, StepFits, HoldsAddress, AccountOf, Registering, dbVars,
     requestVars
<1>4. RowsOwned' /\ TokensBacked'
  BY <1>1 DEF AccountInv, RowsOwned, TokensBacked, Owns, AccountOf, Registering, dbVars,
     requestVars
<1>5. LateStaysClosed' /\ RefusedMeansTaken'
  BY <1>1 DEF AccountInv, LateStaysClosed, RefusedMeansTaken, Owns, AccountOf, Registering,
     dbVars, requestVars
<1> QED
  BY <1>1, <1>2, <1>3, <1>4, <1>5 DEF AccountInv, EngineOK, requestVars

-----------------------------------------------------------------------------
(* Steps that change rows.                                                 *)

\* The rows that the commit of the registration t changes: its own two, which
\* were free.
LEMMA CommittedRows ==
    ASSUME AccountInv, NEW t \in Tx, pc[t] = "commit", Commit(t)
    PROVE  /\ Registering(t) /\ req[t].email \in Email
           /\ db[req[t].email] = Absent /\ db[t] = Absent
           /\ db'[req[t].email] = AccountOf(t, TRUE) /\ db'[t] = EmptyWallet
           /\ \A x \in Row \ {req[t].email, t} : db'[x] = db[x]
<1> DEFINE e == req[t].email
<1>1. Registering(t) /\ HoldsAddress(t)
  BY DEF AccountInv, StepFits
<1>2. e \in Email /\ e \in Row /\ t \in Row
  BY <1>1, Asked DEF Registering
<1>3. /\ wrote[t] = {e, t} /\ db[e] = Absent
      /\ view[t][e] = AccountOf(t, TRUE) /\ view[t][t] = EmptyWallet
  BY <1>1 DEF HoldsAddress
<1>4. db[t] = Absent
  BY DEF AccountInv, RowsOwned, Owns
<1>5. db' = [x \in Row |-> IF x \in wrote[t] THEN view[t][x] ELSE db[x]]
  BY DEF Commit
<1> QED
  BY <1>1, <1>2, <1>3, <1>4, <1>5

\* The transaction of a registration commits, and the answer is sent or lost.
LEMMA CommitStepKeeps ==
    ASSUME AccountInv, NEW t \in Tx, pc[t] = "commit", Commit(t),
           NEW step \in {"done", "failed"}, pc' = [pc EXCEPT ![t] = step],
           UNCHANGED <<req, late>>,
           \A token \in tokens' : token \in tokens \/ token.sub = t
    PROVE  AccountInv'
<1> DEFINE e == req[t].email
<1> USE AccountAssumption
<1>1. /\ Registering(t) /\ e \in Email
      /\ db[e] = Absent /\ db[t] = Absent
      /\ db'[e] = AccountOf(t, TRUE) /\ db'[t] = EmptyWallet
      /\ \A x \in Row \ {e, t} : db'[x] = db[x]
  BY CommittedRows
<1>2. EngineOK' /\ serial' = {}
  BY CommitKeeps DEF AccountInv, EngineOK, Commit, Release
<1>3. /\ pc'[t] = step /\ \A u \in Tx \ {t} : pc'[u] = pc[u]
      /\ pc' \in [Tx -> AccountSteps \cup Answers \cup {"idle"}]
  BY DEF AccountInv, Answers
<1>4. /\ wrote'[t] = {} /\ locks'[t] = {}
      /\ \A u \in Tx \ {t} :
            wrote'[u] = wrote[u] /\ locks'[u] = locks[u] /\ view'[u] = view[u]
  BY DEF Commit, Release, AccountInv, EngineTypeOK
<1>5. AccountOf(t, TRUE) # Absent /\ EmptyWallet # Absent
  BY RowForms
<1>6. \A x \in Row : db[x] # Absent => db'[x] = db[x] /\ db'[x] # Absent
  BY <1>1
<1>7. \A u \in Tx, x \in Email : Owns(u, x) => Owns(u, x)' /\ db'[x] = db[x]
  <2> SUFFICES ASSUME NEW u \in Tx, NEW x \in Email, Owns(u, x)
               PROVE  Owns(u, x)' /\ db'[x] = db[x]
    OBVIOUS
  <2>1. u # t
    BY DEF Owns, Answers
  <2>2. db'[x] = db[x] /\ db'[u] = db[u]
    BY <1>1, <1>6, <2>1, AccountIsRow
  <2> QED
    BY <1>3, <2>1, <2>2, OwnsKept
<1>8. Owns(t, e)'
  <2>1. AccountOf(t, TRUE)' = AccountOf(t, TRUE)
    BY DEF AccountOf
  <2>2. \E b \in BOOLEAN : db'[e] = AccountOf(t, b)'
    BY <1>1, <2>1
  <2> QED
    BY <1>1, <1>3, <2>2 DEF Owns, Registering
<1>9. ASSUME NEW u \in Tx PROVE StepFits(u)' /\ HoldsAddress(u)'
  <2>1. CASE u = t
    <3>1. req[t] # NoRequest
      BY <1>1 DEF Registering, NoRequest
    <3>2. StepFits(t)'
      BY <1>3, <3>1 DEF StepFits
    <3>3. HoldsAddress(t)'
      BY <1>3, <1>4 DEF HoldsAddress
    <3> QED
      BY <2>1, <3>2, <3>3
  <2>2. CASE u # t
    <3>1. StepFits(u) /\ HoldsAddress(u) /\ UNCHANGED <<pc[u], req[u]>>
      BY <1>3, <2>2 DEF AccountInv
    <3>2. pc[u] = "stampLogin" => db'[req[u].email] # Absent
      BY <1>6, <3>1, Asked DEF StepFits
    <3>3. pc[u] \in {"insertWallet", "commit"} => db'[req[u].email] = db[req[u].email]
      <4> SUFFICES ASSUME pc[u] \in {"insertWallet", "commit"}
                   PROVE  db'[req[u].email] = db[req[u].email]
        OBVIOUS
      <4>1. req[u].email \in locks[u] /\ e \in locks[t]
        BY <3>1 DEF HoldsAddress, AccountInv
      <4>2. req[u].email # e
        BY <2>2, <4>1 DEF AccountInv, EngineInv, LocksExclusive
      <4>3. req[u].email \in Email
        BY <3>1, Asked DEF StepFits, Registering
      <4> QED
        BY <1>1, <4>2, <4>3
    <3>4. StepFits(u)'
      BY <3>1, <3>2 DEF StepFits, Registering
    <3>5. HoldsAddress(u)'
      BY <1>4, <2>2, <3>1, <3>3 DEF HoldsAddress, AccountOf
    <3> QED
      BY <3>4, <3>5
  <2> QED
    BY <2>1, <2>2
<1>10. RowsOwned'
  <2>1. \A x \in Email : db'[x] # Absent => \E u \in Tx : Owns(u, x)'
    <3> SUFFICES ASSUME NEW x \in Email, db'[x] # Absent
                 PROVE  \E u \in Tx : Owns(u, x)'
      OBVIOUS
    <3>1. CASE x = e
      BY <1>8, <3>1
    <3>2. CASE x # e
      BY <1>1, <1>7, <3>2 DEF AccountInv, RowsOwned
    <3> QED
      BY <3>1, <3>2
  <2>2. ASSUME NEW u \in Tx, Registering(u), Owns(u, req[u].email)
        PROVE  Registering(u)' /\ Owns(u, req[u].email)'
    BY <1>7, <2>2, Asked DEF Registering
  <2>3. ASSUME NEW u \in Tx, db'[u] # Absent
        PROVE  Registering(u)' /\ Owns(u, req[u].email)'
    <3>1. CASE u = t
      BY <1>1, <1>8, <3>1 DEF Registering
    <3>2. CASE u # t
      BY <1>1, <2>2, <2>3, <3>2 DEF AccountInv, RowsOwned
    <3> QED
      BY <3>1, <3>2
  <2>4. ASSUME NEW u \in Tx, Registering(u)', pc'[u] = "done"
        PROVE  Owns(u, req[u].email)'
    <3>1. CASE u = t
      BY <1>8, <3>1
    <3>2. CASE u # t
      BY <1>3, <2>2, <2>4, <3>2 DEF AccountInv, RowsOwned, Registering
    <3> QED
      BY <3>1, <3>2
  <2> QED
    BY <2>1, <2>3, <2>4 DEF RowsOwned
<1>11. TokensBacked'
  <2> SUFFICES ASSUME NEW token \in tokens'
               PROVE  token.sub \in Tx /\ \E x \in Email : Owns(token.sub, x)'
    BY DEF TokensBacked
  <2>1. CASE token.sub = t
    BY <1>1, <1>8, <2>1
  <2>2. CASE token \in tokens
    BY <1>7, <2>2 DEF AccountInv, TokensBacked
  <2> QED
    BY <2>1, <2>2
<1>12. LateStaysClosed'
  <2> SUFFICES ASSUME NEW u \in late
               PROVE  /\ u \in Tx /\ req'[u].op = "call"
                      /\ pc'[u] \in {"validate", "rejected", "failed"}
                      /\ pc'[u] = "validate" =>
                            \E x \in Email : Owns(req[u].sub, x)' /\ ~db'[x].active
    BY DEF LateStaysClosed
  <2>1. u \in Tx /\ u # t /\ req[u].sub \in Tx
    BY <1>1, Asked DEF AccountInv, LateStaysClosed, Registering
  <2> QED
    BY <1>3, <1>7, <2>1 DEF AccountInv, LateStaysClosed
<1>13. RefusedMeansTaken'
  BY <1>3, <1>6, Asked DEF AccountInv, RefusedMeansTaken, Registering
<1> QED
  BY <1>2, <1>3, <1>9, <1>10, <1>11, <1>12, <1>13 DEF AccountInv, EngineOK

LEMMA RegisteredKeeps ==
    ASSUME AccountInv, NEW t \in Tx, Registered(t)
    PROVE  AccountInv'
<1>1. /\ pc[t] = "commit" /\ Commit(t) /\ pc' = [pc EXCEPT ![t] = "done"]
      /\ UNCHANGED <<req, late>>
  BY DEF Registered, CommitRequest, Answer
<1>2. \A token \in tokens' : token \in tokens \/ token.sub = t
  BY DEF Registered, Issue, Token
<1> QED
  BY <1>1, <1>2, CommitStepKeeps

LEMMA LoseAnswerKeeps ==
    ASSUME AccountInv, NEW t \in Tx, LoseAnswer(t), UNCHANGED <<tokens, late>>
    PROVE  AccountInv'
BY CommitStepKeeps DEF LoseAnswer

\* The operator closes the account e, which nobody is writing.
LEMMA DeactivateKeeps ==
    ASSUME AccountInv, NEW e \in Email, Deactivate(e)
    PROVE  AccountInv'
<1> USE AccountAssumption
<1>1. /\ db[e] # Absent /\ AutoCommit(e, [db[e] EXCEPT !.active = FALSE])
      /\ e \in Row /\ UNCHANGED <<requestVars, tokens, late>>
  BY DEF Deactivate
<1>2. EngineOK' /\ serial' = {}
  BY <1>1, AutoCommitKeeps DEF AccountInv, EngineOK, AutoCommit
<1>3. /\ db'[e] = [db[e] EXCEPT !.active = FALSE]
      /\ \A x \in Row \ {e} : db'[x] = db[x]
      /\ UNCHANGED <<wrote, locks, view, pc, req>>
  BY <1>1 DEF AutoCommit, AccountInv, EngineTypeOK, requestVars
<1>4. db'[e] # Absent /\ ~db'[e].active
  <2>1. PICK u \in Tx, b \in BOOLEAN : db[e] = AccountOf(u, b)
    BY <1>1 DEF AccountInv, RowsOwned, Owns
  <2>2. [AccountOf(u, b) EXCEPT !.active = FALSE] = AccountOf(u, FALSE)
    BY RowForms
  <2>3. AccountOf(u, FALSE) # Absent /\ AccountOf(u, FALSE).active = FALSE
    BY RowForms
  <2> QED
    BY <1>3, <2>1, <2>2, <2>3
<1>5. \A x \in Row : db'[x] = Absent <=> db[x] = Absent
  BY <1>1, <1>3, <1>4
<1>6. \A u \in Tx, x \in Email : Owns(u, x) => Owns(u, x)'
  <2> SUFFICES ASSUME NEW u \in Tx, NEW x \in Email, Owns(u, x) PROVE Owns(u, x)'
    OBVIOUS
  <2>1. db'[u] = db[u] /\ req'[u] = req[u] /\ pc'[u] = pc[u]
    BY <1>3
  <2>2. db'[x] = db[x] \/ db'[x] = [db[x] EXCEPT !.active = FALSE]
    BY <1>3
  <2> QED
    BY <2>1, <2>2, OwnsKept
<1>7. ASSUME NEW u \in Tx PROVE StepFits(u)' /\ HoldsAddress(u)'
  <2>1. StepFits(u) /\ HoldsAddress(u)
    BY DEF AccountInv
  <2>2. StepFits(u)'
    BY <1>3, <1>5, <2>1, Asked DEF StepFits, Registering
  <2>3. pc[u] \in {"insertWallet", "commit"} => db'[req[u].email] = Absent
    BY <1>5, <2>1, Asked DEF StepFits, HoldsAddress, Registering
  <2>4. HoldsAddress(u)'
    BY <1>3, <2>1, <2>3 DEF HoldsAddress, AccountOf
  <2> QED
    BY <2>2, <2>4
<1>8. RowsOwned'
  <2>1. ASSUME NEW u \in Tx, Registering(u), Owns(u, req[u].email)
        PROVE  Registering(u)' /\ Owns(u, req[u].email)'
    BY <1>3, <1>6, <2>1, Asked DEF Registering
  <2>2. \A u \in Tx : db'[u] # Absent => Registering(u)' /\ Owns(u, req[u].email)'
    BY <1>5, <2>1 DEF AccountInv, RowsOwned
  <2>3. \A x \in Email : db'[x] # Absent => \E u \in Tx : Owns(u, x)'
    BY <1>5, <1>6 DEF AccountInv, RowsOwned
  <2>4. \A u \in Tx : Registering(u)' /\ pc'[u] = "done" => Owns(u, req[u].email)'
    BY <1>3, <2>1 DEF AccountInv, RowsOwned, Registering
  <2> QED
    BY <2>2, <2>3, <2>4 DEF RowsOwned
<1>9. TokensBacked'
  BY <1>1, <1>6 DEF AccountInv, TokensBacked
<1>10. LateStaysClosed'
  <2> SUFFICES ASSUME NEW u \in late, pc[u] = "validate"
               PROVE  \E x \in Email : Owns(req[u].sub, x)' /\ ~db'[x].active
    BY <1>1, <1>3 DEF AccountInv, LateStaysClosed
  <2>1. req[u].sub \in Tx
    BY Asked DEF AccountInv, LateStaysClosed
  <2>2. PICK x \in Email : Owns(req[u].sub, x) /\ ~db[x].active
    BY DEF AccountInv, LateStaysClosed
  <2>3. ~db'[x].active
    BY <1>3, <1>4, <2>2
  <2>4. Owns(req[u].sub, x)'
    BY <1>3, <1>6, <2>1, <2>2
  <2> QED
    BY <2>3, <2>4
<1>11. RefusedMeansTaken'
  BY <1>3, <1>5, Asked DEF AccountInv, RefusedMeansTaken, Registering
<1> QED
  BY <1>1, <1>2, <1>3, <1>7, <1>8, <1>9, <1>10, <1>11 DEF AccountInv, EngineOK

-----------------------------------------------------------------------------
(* The invariant and what follows from it.                                 *)

LEMMA AccountInitInv == AccountInit => AccountInv
<1> SUFFICES ASSUME AccountInit PROVE AccountInv
  OBVIOUS
<1>1. EngineTypeOK /\ EngineInv /\ serial = {}
  BY EngineInit DEF AccountInit, EngineOK, DbInit
<1>2. /\ pc \in [Tx -> AccountSteps \cup Answers \cup {"idle"}]
      /\ DOMAIN req = Tx /\ \A t \in Tx : req[t] \in Arrivals[t] \cup {NoRequest}
  BY DEF AccountInit, RequestInit
<1>3. \A t \in Tx : StepFits(t) /\ HoldsAddress(t)
  BY DEF AccountInit, RequestInit, DbInit, StepFits, HoldsAddress
<1>4. \A r \in Row : db[r] = Absent
  BY AccountAssumption DEF AccountInit, DbInit
<1>5. \A t \in Tx : pc[t] = "idle"
  BY DEF AccountInit, RequestInit
<1>6. RowsOwned /\ RefusedMeansTaken
  BY <1>4, <1>5, AccountAssumption DEF RowsOwned, RefusedMeansTaken
<1>7. TokensBacked /\ LateStaysClosed
  BY DEF AccountInit, TokensBacked, LateStaysClosed
<1> QED
  BY <1>1, <1>2, <1>3, <1>6, <1>7 DEF AccountInv

LEMMA AccountIdleKeeps == AccountInv /\ UNCHANGED accountVars => AccountInv'
<1> SUFFICES ASSUME AccountInv, UNCHANGED accountVars PROVE AccountInv'
  OBVIOUS
<1>1. UNCHANGED <<dbVars, requestVars, tokens, late>>
  BY DEF accountVars
<1>2. EngineOK' /\ serial' = {}
  BY <1>1, IdleKeeps DEF AccountInv, EngineOK, dbVars
<1>3. RowsOwned' /\ TokensBacked' /\ LateStaysClosed'
  BY <1>1 DEF AccountInv, RowsOwned, TokensBacked, LateStaysClosed, Owns, AccountOf,
     Registering, dbVars, requestVars
<1>4. \A t \in Tx : StepFits(t)' /\ HoldsAddress(t)'
  BY <1>1 DEF AccountInv, StepFits, HoldsAddress, AccountOf, Registering, dbVars, requestVars
<1>5. RefusedMeansTaken'
  BY <1>1 DEF AccountInv, RefusedMeansTaken, Registering, dbVars, requestVars
<1> QED
  BY <1>1, <1>2, <1>3, <1>4, <1>5 DEF AccountInv, EngineOK, requestVars

LEMMA AccountNextKeeps == AccountInv /\ [AccountNext]_accountVars => AccountInv'
<1> SUFFICES ASSUME AccountInv, [AccountNext]_accountVars PROVE AccountInv'
  OBVIOUS
<1>1. ASSUME NEW t \in Tx, Enter(t) \/ Refresh(t) \/ CallRoute(t) PROVE AccountInv'
  BY <1>1, EnterKeeps, RefreshKeeps, CallRouteKeeps
<1>2. ASSUME NEW t \in Tx, AccountStep(t) PROVE AccountInv'
  BY <1>2, FindUserKeeps, InsertUserKeeps, InsertWalletKeeps, RegisteredKeeps,
     StampLoginKeeps, ValidateKeeps, ServeKeeps DEF AccountStep
<1>3. ASSUME NEW t \in Tx, AccountLoss(t) PROVE AccountInv'
  BY <1>3, AbortKeeps, LoseAnswerKeeps DEF AccountLoss
<1>4. ASSUME NEW token \in tokens, ExpireToken(token) PROVE AccountInv'
  BY <1>4, ExpireTokenKeeps
<1>5. ASSUME NEW e \in Email, Deactivate(e) PROVE AccountInv'
  BY <1>5, DeactivateKeeps
<1>6. CASE AccountIdle \/ UNCHANGED accountVars
  BY <1>6, AccountIdleKeeps DEF AccountIdle
<1> QED
  BY <1>1, <1>2, <1>3, <1>4, <1>5, <1>6 DEF AccountNext

\* The inductive invariant of the accounts (auth.service.ts, jwt.strategy.ts):
\* a registration holds its address from its INSERT on, every row belongs to
\* the registration that wrote it, every token to an account.
THEOREM AccountsHold == AccountSpec => []AccountInv
<1>1. AccountInit => AccountInv
  BY AccountInitInv
<1>2. AccountInv /\ [AccountNext]_accountVars => AccountInv'
  BY AccountNextKeeps
<1> QED
  BY <1>1, <1>2, PTL DEF AccountSpec

\* Who is told that the registration is done has the account under the address
\* (auth.service.ts:33-47), whoever else asks for it.
THEOREM RegisteredOwns == AccountSpec => []RegisteredOwnsAccount
<1>1. AccountInv => RegisteredOwnsAccount
  <2> SUFFICES ASSUME AccountInv, NEW t \in Tx, Registering(t), pc[t] = "done"
               PROVE  db[req[t].email].id = t /\ db[req[t].email].password = req[t].password
    BY DEF RegisteredOwnsAccount
  <2>1. Owns(t, req[t].email) /\ req[t].email \in Email
    BY Asked DEF AccountInv, RowsOwned, Registering
  <2> QED
    BY <2>1, AccountIsRow
<1> QED
  BY <1>1, AccountsHold, PTL

\* A registration is refused only where there is an account
\* (auth.service.ts:37, prisma-exception.filter.ts:22).
THEOREM RefusalsAreConflicts == AccountSpec => []RefusedMeansTaken
<1>1. AccountInv => RefusedMeansTaken
  BY DEF AccountInv
<1> QED
  BY <1>1, AccountsHold, PTL

\* A call that arrives after its account was closed is not served
\* (jwt.strategy.ts:43), with any token, refreshed or not.
THEOREM ClosedAreNotServed == AccountSpec => []ClosedAccountsAreNotServed
<1>1. AccountInv => ClosedAccountsAreNotServed
  BY DEF AccountInv, LateStaysClosed, ClosedAccountsAreNotServed
<1> QED
  BY <1>1, AccountsHold, PTL

-----------------------------------------------------------------------------
(* Accounts implement the registry.                                        *)

\* A step that leaves the rows as they are changes nothing in the registry.
LEMMA RowsAreTheRegistry ==
    ASSUME \A x \in Row : db'[x] = db[x]
    PROVE  UNCHANGED Directory!registryVars
<1>1. \A e \in Email : db'[e] = db[e]
  BY AccountAssumption
<1>2. \A t \in Tx : db'[t] = db[t]
  BY AccountAssumption
<1> QED
  BY <1>1, <1>2 DEF Directory!registryVars

\* The commit of a registration opens the account and the wallet.
LEMMA CommitOpens ==
    ASSUME AccountInv, NEW t \in Tx, pc[t] = "commit", Commit(t)
    PROVE  Directory!RegistryNext
<1> DEFINE e == req[t].email
           account == [x \in Email |-> db[x]]
           purses == {u \in Tx : db[u] # Absent}
<1>1. /\ e \in Email /\ db[e] = Absent /\ db[t] = Absent
      /\ db'[e] = AccountOf(t, TRUE) /\ db'[t] = EmptyWallet
      /\ \A x \in Row \ {e, t} : db'[x] = db[x]
  BY CommittedRows
<1>2. /\ AccountOf(t, TRUE) # Absent /\ EmptyWallet # Absent
      /\ AccountOf(t, TRUE).id = t /\ AccountOf(t, TRUE).active = TRUE
  BY RowForms
<1> HIDE DEF e
<1>3. account[e] = Absent /\ account'[e] = db'[e]
  BY <1>1
<1>4. \A x \in Email \ {e} : db'[x] = db[x]
  BY <1>1, AccountAssumption
<1>5. account' = [account EXCEPT ![e] = account'[e]]
  BY <1>1, <1>4
<1>6. t \notin purses /\ purses' = purses \cup {t}
  BY <1>1, <1>2, AccountAssumption
<1>7. account'[e] # Absent /\ account'[e].id = t /\ account'[e].active
  BY <1>1, <1>2, <1>3
<1>8. Directory!Open(e, t)
  BY <1>3, <1>5, <1>6, <1>7 DEF Directory!Open
<1> QED
  BY <1>1, <1>8 DEF Directory!RegistryNext

LEMMA DeactivateCloses ==
    ASSUME AccountInv, NEW e \in Email, Deactivate(e)
    PROVE  Directory!RegistryNext
<1> DEFINE account == [x \in Email |-> db[x]]
<1>1. db[e] # Absent /\ db' = [db EXCEPT ![e] = [db[e] EXCEPT !.active = FALSE]]
  BY DEF Deactivate, AutoCommit
<1>2. DOMAIN db = Row
  BY DEF AccountInv, EngineTypeOK
<1>3. /\ db'[e] = [db[e] EXCEPT !.active = FALSE]
      /\ \A x \in Row \ {e} : db'[x] = db[x]
  BY <1>1, <1>2, AccountAssumption
<1>4. account' = [account EXCEPT ![e] = [account[e] EXCEPT !.active = FALSE]]
  BY <1>3, AccountAssumption
<1>5. \A t \in Tx : db'[t] = db[t]
  BY <1>3, AccountAssumption
<1>6. Directory!Close(e)
  BY <1>1, <1>4, <1>5 DEF Directory!Close
<1> QED
  BY <1>6 DEF Directory!RegistryNext

LEMMA StepsRefine ==
    AccountInv /\ [AccountNext]_accountVars =>
        [Directory!RegistryNext]_(Directory!registryVars)
<1> SUFFICES ASSUME AccountInv, [AccountNext]_accountVars
             PROVE  Directory!RegistryNext \/ UNCHANGED Directory!registryVars
  OBVIOUS
<1>1. ASSUME NEW t \in Tx, pc[t] = "commit", Commit(t)
      PROVE  Directory!RegistryNext
  BY <1>1, CommitOpens
<1>2. ASSUME db' = db PROVE UNCHANGED Directory!registryVars
  BY <1>2, RowsAreTheRegistry
<1>3. ASSUME NEW t \in Tx, StampLogin(t) PROVE UNCHANGED Directory!registryVars
  <2>1. \A x \in Row : db'[x] = db[x]
    BY <1>3 DEF StampLogin, AutoCommit, AccountInv, EngineTypeOK
  <2> QED
    BY <2>1, RowsAreTheRegistry
<1>4. ASSUME NEW t \in Tx, Enter(t) \/ Refresh(t) \/ CallRoute(t)
      PROVE  UNCHANGED Directory!registryVars
  BY <1>2, <1>4 DEF Enter, Refresh, CallRoute, dbVars
<1>5. ASSUME NEW t \in Tx, FindUser(t) \/ Validate(t) \/ Serve(t)
      PROVE  UNCHANGED Directory!registryVars
  BY <1>2, <1>5 DEF FindUser, Validate, Serve, dbVars
<1>6. ASSUME NEW t \in Tx, InsertUser(t) \/ InsertWallet(t)
      PROVE  UNCHANGED Directory!registryVars
  BY <1>2, <1>6 DEF InsertUser, InsertWallet, Reject, Rollback, Write, Put
<1>7. ASSUME NEW t \in Tx, Registered(t) PROVE Directory!RegistryNext
  BY <1>1, <1>7 DEF Registered, CommitRequest
<1>8. ASSUME NEW t \in Tx, AccountLoss(t)
      PROVE  Directory!RegistryNext \/ UNCHANGED Directory!registryVars
  BY <1>1, <1>2, <1>8 DEF AccountLoss, Abort, LoseAnswer, Rollback
<1>9. ASSUME NEW token \in tokens, ExpireToken(token)
      PROVE  UNCHANGED Directory!registryVars
  BY <1>2, <1>9 DEF ExpireToken, dbVars
<1>10. ASSUME NEW e \in Email, Deactivate(e) PROVE Directory!RegistryNext
  BY <1>10, DeactivateCloses
<1>11. CASE AccountIdle \/ UNCHANGED accountVars
  BY <1>2, <1>11 DEF AccountIdle, accountVars, dbVars
<1> QED
  BY <1>3, <1>4, <1>5, <1>6, <1>7, <1>8, <1>9, <1>10, <1>11 DEF AccountNext, AccountStep

\* "Create user and wallet in transaction" (auth.service.ts:27): for any number
\* of requests and addresses the accounts implement the registry.
THEOREM AccountsImplementRegistry == AccountSpec => OpensAtomically
<1>1. AccountInit => Directory!RegistryInit
  BY AccountAssumption, DbAssumption DEF AccountInit, DbInit, Directory!RegistryInit
<1>2. AccountInv /\ [AccountNext]_accountVars =>
          [Directory!RegistryNext]_(Directory!registryVars)
  BY StepsRefine
<1> QED
  BY <1>1, <1>2, AccountsHold, PTL DEF AccountSpec, OpensAtomically, Directory!RegistrySpec
=============================================================================
