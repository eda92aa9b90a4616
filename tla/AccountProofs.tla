--------------------------- MODULE AccountProofs ---------------------------
(***************************************************************************)
(* Theorems about Accounts: rows, tokens and requests keep their types, and *)
(* products are deleted by privileged accounts only.                       *)
(***************************************************************************)
EXTENDS Accounts, TLAPS

\* A token names an account, and so does a request that has found its user.
NamesAccounts ==
    /\ \A t \in token : t.sub \in Registered
    /\ \A r \in Requests :
          req[r].at \in {"comparing", "deciding", "deleting"} =>
             req[r].user \in Registered
    /\ \A r \in Requests :
          req[r].at = "comparing" => req[r].password \in Passwords

\* A token was signed for a password that opens the account it names.
TokensOpened == \A t \in token : account[t.sub].password = t.shown

\* What the guards have established for a request, at each of its steps.
Guarded ==
    \A r \in Requests :
       /\ req[r].at \in {"deciding", "deleting"} =>
             account[req[r].user].password = opened[r]
       /\ req[r].at = "deciding" /\ IsPrivileged(req[r].user) => r \in privileged
       /\ req[r].at = "deleting" => r \in privileged

IInv == TypeOK /\ TokensOpened /\ NamesAccounts /\ Guarded

\* Nobody is registered at first.
LEMMA InitIInv == Init => IInv
  <1> SUFFICES ASSUME Init PROVE IInv
    OBVIOUS
  <1>1. TypeOK
    BY DEF Init, TypeOK, Row, NoRow, Roles, Token, Request, Idle, InFlight, Steps
  <1>2. TokensOpened /\ NamesAccounts /\ Guarded
    BY DEF Init, TokensOpened, Registered, NoRow, NamesAccounts, Guarded, Idle, InFlight
  <1> QED BY <1>1, <1>2 DEF IInv

\* A step that changes neither accounts nor tokens, and leaves every request as
\* it was but one, which becomes idle.
LEMMA DoneStep ==
  ASSUME IInv, NEW r \in Requests, Done(r), UNCHANGED << account, token >>,
         title' \in [Products -> Titles \cup {None}]
  PROVE  IInv'
  <1>1. TypeOK'
    BY DEF IInv, TypeOK, Done, Idle, InFlight, Request, Steps
  <1>2. /\ \A s \in Requests : s # r => /\ req'[s] = req[s]
                                        /\ opened'[s] = opened[s]
                                        /\ s \in privileged' <=> s \in privileged
        /\ req'[r].at = "idle"
    BY DEF IInv, TypeOK, Done, Idle, InFlight
  <1>3. TokensOpened'
    BY DEF IInv, TokensOpened, Registered
  <1>4. NamesAccounts'
    BY <1>2 DEF IInv, NamesAccounts, Registered
  <1>5. Guarded'
    BY <1>2 DEF IInv, Guarded, IsPrivileged
  <1> QED BY <1>1, <1>3, <1>4, <1>5 DEF IInv

\* A step that leaves accounts, requests and what they have shown alone, and
\* signs no token.
LEMMA QuietStep ==
  ASSUME IInv, UNCHANGED << account, req, opened, privileged >>,
         token' \subseteq token,
         title' \in [Products -> Titles \cup {None}]
  PROVE  IInv'
  <1>1. TypeOK'
    BY DEF IInv, TypeOK
  <1>2. TokensOpened' /\ NamesAccounts'
    BY DEF IInv, TokensOpened, NamesAccounts, Registered
  <1>3. Guarded'
    BY DEF IInv, Guarded, IsPrivileged
  <1> QED BY <1>1, <1>2, <1>3 DEF IInv

----------------------------------------------------------------------------
(* The steps of a request. *)

\* A registration starts: nobody is named yet.
LEMMA RegisterStep ==
  ASSUME IInv, NEW r \in Requests, NEW n \in Usernames, NEW e \in Emails,
         NEW w \in Passwords, Register(r, n, e, w)
  PROVE  IInv'
  <1> USE DEF Register
  <1> DEFINE new == InFlight("hashing", None, n, e, w)
  <1>2. /\ new \in Request
        /\ new.at = "hashing"
    BY DEF Request, Steps, InFlight
  <1>3. TypeOK'
    BY <1>2 DEF IInv, TypeOK
  <1>4. TokensOpened'
    BY DEF IInv, TokensOpened, Registered
  <1>5. /\ \A s \in Requests : s # r => req'[s] = req[s]
        /\ req'[r].at = "hashing"
    BY <1>2 DEF IInv, TypeOK
  <1>6. NamesAccounts'
    BY <1>5 DEF IInv, NamesAccounts, Registered
  <1>7. Guarded'
    BY <1>5 DEF IInv, Guarded, IsPrivileged
  <1> QED BY <1>3, <1>4, <1>6, <1>7 DEF IInv

\* A row is inserted that no token or request names.
LEMMA InsertStep ==
  ASSUME IInv, NEW r \in Requests, NEW u \in Users, InsertUser(r, u)
  PROVE  IInv'
  <1> USE DEF InsertUser
  <1> DEFINE row == [username |-> req[r].username, email |-> req[r].email,
                     password |-> req[r].password, role |-> DefaultRole]
  <1>1. account' = [account EXCEPT ![u] = row] /\ row \in Row
    BY DEF IInv, TypeOK, Request, Row, DefaultRole, Roles
  <1>2. TypeOK'
    BY <1>1 DEF IInv, TypeOK, Done, Idle, InFlight, Request, Steps
  <1>3. /\ account'[u] = row
        /\ \A v \in Users : v # u => account'[v] = account[v]
    BY <1>1 DEF IInv, TypeOK
  <1>4. /\ Registered \subseteq Registered'
        /\ u \notin Registered
        /\ Registered' \subseteq Registered \cup {u}
    BY <1>3 DEF Registered
  <1>5. \A s \in Requests : s # r => /\ req'[s] = req[s]
                                     /\ opened'[s] = opened[s]
                                     /\ s \in privileged' <=> s \in privileged
    BY DEF IInv, TypeOK, Done
  <1>6. req'[r].at = "idle"
    BY DEF IInv, TypeOK, Done, Idle, InFlight
  <1>7. TokensOpened'
    BY <1>3, <1>4 DEF IInv, TokensOpened, NamesAccounts, Registered
  <1>8. NamesAccounts'
    BY <1>4, <1>5, <1>6 DEF IInv, NamesAccounts
  <1>9. Guarded'
    <2> SUFFICES ASSUME NEW s \in Requests, req'[s].at \in {"deciding", "deleting"}
                 PROVE  /\ account'[req'[s].user].password = opened'[s]
                        /\ req'[s].at = "deciding" /\ account'[req'[s].user].role \in Required
                              => s \in privileged'
                        /\ req'[s].at = "deleting" => s \in privileged'
      BY DEF Guarded, IsPrivileged
    <2>1. s # r /\ req'[s] = req[s]
      BY <1>5, <1>6
    <2>2. req[s].user \in Registered
      BY <2>1 DEF IInv, NamesAccounts
    <2>3. account'[req[s].user] = account[req[s].user]
      BY <1>3, <1>4, <2>2 DEF Registered
    <2> QED BY <1>5, <2>1, <2>3 DEF IInv, Guarded, IsPrivileged
  <1> QED BY <1>2, <1>7, <1>8, <1>9 DEF IInv

\* A login reads a row.
LEMMA LoginStep ==
  ASSUME IInv, NEW r \in Requests, NEW n \in Usernames, NEW w \in Passwords,
         Login(r, n, w)
  PROVE  IInv'
  <1> USE DEF Login
  <1>1. PICK u \in Registered :
           req' = [req EXCEPT ![r] = InFlight("comparing", u, None, None, w)]
    OBVIOUS
  <1> DEFINE new == InFlight("comparing", u, None, None, w)
  <1>2. /\ new \in Request
        /\ new.at = "comparing" /\ new.user = u /\ new.password = w
    BY DEF Request, Steps, Registered, InFlight
  <1>3. TypeOK'
    BY <1>1, <1>2 DEF IInv, TypeOK
  <1>4. TokensOpened'
    BY DEF IInv, TokensOpened, Registered
  <1>5. /\ \A s \in Requests : s # r => req'[s] = req[s]
        /\ req'[r] = new
    BY <1>1 DEF IInv, TypeOK
  <1>6. NamesAccounts'
    BY <1>2, <1>5 DEF IInv, NamesAccounts, Registered
  <1>7. Guarded'
    BY <1>2, <1>5 DEF IInv, Guarded, IsPrivileged
  <1> QED BY <1>3, <1>4, <1>6, <1>7 DEF IInv

\* A token is signed for the account whose password matched.
LEMMA SignStep ==
  ASSUME IInv, NEW r \in Requests, SignToken(r)
  PROVE  IInv'
  <1> USE DEF SignToken
  <1> DEFINE new == [sub |-> req[r].user, shown |-> req[r].password]
  <1>1. /\ req[r].user \in Registered
        /\ req[r].password \in Passwords
        /\ account[req[r].user].password = req[r].password
    BY DEF IInv, NamesAccounts, Matches
  <1>2. new \in Token
    BY <1>1 DEF Token, Registered
  <1>3. TypeOK'
    BY <1>2 DEF IInv, TypeOK, Done, Idle, InFlight, Request, Steps
  <1>4. /\ \A s \in Requests : s # r => /\ req'[s] = req[s]
                                        /\ opened'[s] = opened[s]
                                        /\ s \in privileged' <=> s \in privileged
        /\ req'[r].at = "idle"
    BY DEF IInv, TypeOK, Done, Idle, InFlight
  <1>5. TokensOpened'
    BY <1>1 DEF IInv, TokensOpened, Registered
  <1>6. NamesAccounts'
    BY <1>1, <1>4 DEF IInv, NamesAccounts, Registered
  <1>7. Guarded'
    BY <1>4 DEF IInv, Guarded, IsPrivileged
  <1> QED BY <1>3, <1>5, <1>6, <1>7 DEF IInv

\* The token names an account, and the password that opened it is that account's.
LEMMA VerifyStep ==
  ASSUME IInv, NEW r \in Requests, NEW t \in token, VerifyToken(r, t)
  PROVE  IInv'
  <1> USE DEF VerifyToken
  <1> DEFINE new == InFlight("deciding", t.sub, None, None, None)
  <1>2. t \in Token /\ t.sub \in Users /\ t.shown \in Passwords
    BY DEF IInv, TypeOK, Token
  <1>3. /\ new \in Request
        /\ new.at = "deciding" /\ new.user = t.sub
    BY <1>2 DEF Request, Steps, InFlight
  <1>4. TypeOK'
    BY <1>2, <1>3 DEF IInv, TypeOK
  <1>5. /\ \A s \in Requests : s # r => /\ req'[s] = req[s]
                                        /\ opened'[s] = opened[s]
                                        /\ s \in privileged' <=> s \in privileged
        /\ req'[r] = new
        /\ opened'[r] = t.shown
        /\ IsPrivileged(t.sub) => r \in privileged'
    BY DEF IInv, TypeOK
  <1>6. t.sub \in Registered /\ account[t.sub].password = t.shown
    BY DEF IInv, NamesAccounts, TokensOpened
  <1>7. TokensOpened'
    BY DEF IInv, TokensOpened, Registered
  <1>8. NamesAccounts'
    BY <1>3, <1>5, <1>6 DEF IInv, NamesAccounts, Registered
  <1>9. Guarded'
    BY <1>3, <1>5, <1>6 DEF IInv, Guarded, IsPrivileged
  <1> QED BY <1>4, <1>7, <1>8, <1>9 DEF IInv

\* The role is read once, and what it allowed is remembered.
LEMMA CheckRoleStep ==
  ASSUME IInv, NEW r \in Requests, CheckRole(r)
  PROVE  IInv'
  <1> USE DEF CheckRole, Proceed
  <1>1. TypeOK'
    BY DEF IInv, TypeOK, Request, Steps
  <1>2. /\ \A s \in Requests : s # r => req'[s] = req[s]
        /\ req'[r].at = "deleting"
        /\ req'[r].user = req[r].user
    BY DEF IInv, TypeOK, Request
  <1>3. TokensOpened'
    BY DEF IInv, TokensOpened, Registered
  <1>4. NamesAccounts'
    BY <1>2 DEF IInv, NamesAccounts, Registered
  <1>5. Guarded'
    BY <1>2 DEF IInv, Guarded, IsPrivileged, RoleSuffices
  <1> QED BY <1>1, <1>3, <1>4, <1>5 DEF IInv

\* A role that is given is remembered for the requests that run.
LEMMA SetRoleStep ==
  ASSUME IInv, NEW u \in Users, NEW role \in Roles, SetRole(u, role)
  PROVE  IInv'
  <1> USE DEF SetRole
  <1>1. /\ account' \in [Users -> Row]
        /\ \A v \in Users : /\ account'[v].username = account[v].username
                            /\ account'[v].email = account[v].email
                            /\ account'[v].password = account[v].password
                            /\ v # u => account'[v].role = account[v].role
        /\ account'[u].role = role
    BY DEF IInv, TypeOK, Row
  <1>2. TypeOK'
    BY <1>1 DEF IInv, TypeOK
  <1>3. Registered' = Registered /\ Registered \subseteq Users
    BY <1>1 DEF Registered
  <1>4. TokensOpened'
    BY <1>1, <1>3 DEF IInv, TokensOpened, NamesAccounts
  <1>5. NamesAccounts'
    BY <1>3 DEF IInv, NamesAccounts
  <1>6. Guarded'
    <2> SUFFICES ASSUME NEW s \in Requests, req[s].at \in {"deciding", "deleting"}
                 PROVE  /\ account'[req[s].user].password = opened[s]
                        /\ req[s].at = "deciding"
                              /\ account'[req[s].user].role \in Required
                              => s \in privileged'
                        /\ req[s].at = "deleting" => s \in privileged'
      BY DEF Guarded, IsPrivileged
    <2>1. req[s].user \in Users
      BY <1>3 DEF IInv, NamesAccounts
    <2>2. account'[req[s].user].password = opened[s]
      BY <1>1, <2>1 DEF IInv, Guarded
    <2>3. privileged \subseteq privileged'
      OBVIOUS
    <2>4. CASE req[s].user = u
      BY <1>1, <2>2, <2>3, <2>4 DEF IInv, Guarded
    <2>5. CASE req[s].user # u
      BY <1>1, <2>1, <2>2, <2>3, <2>5 DEF IInv, Guarded, IsPrivileged
    <2> QED BY <2>4, <2>5
  <1> QED BY <1>2, <1>4, <1>5, <1>6 DEF IInv

\* Every step keeps the invariant.
LEMMA NextIInv == IInv /\ [Next]_vars => IInv'
  <1> SUFFICES ASSUME IInv, [Next]_vars PROVE IInv'
    OBVIOUS
  <1> USE DEF IInv
  <1>1. ASSUME NEW r \in Requests, RequestStep(r) PROVE IInv'
    <2> title \in [Products -> Titles \cup {None}]
      BY DEF TypeOK
    <2>1. ASSUME NEW n \in Usernames, NEW e \in Emails, NEW w \in Passwords,
                 Register(r, n, e, w)
          PROVE  IInv'
      BY <2>1, RegisterStep
    <2>2. ASSUME NEW u \in Users, InsertUser(r, u) PROVE IInv'
      BY <2>2, InsertStep
    <2>3. CASE InsertConflicts(r)
      BY <2>3, DoneStep DEF InsertConflicts
    <2>4. ASSUME NEW n \in Usernames, NEW w \in Passwords, Login(r, n, w)
          PROVE  IInv'
      BY <2>4, LoginStep
    <2>5. CASE SignToken(r)
      BY <2>5, SignStep
    <2>6. CASE LoginRefused(r) \/ RoleRefused(r) \/ DeleteFails(r)
      BY <2>6, DoneStep DEF LoginRefused, RoleRefused, DeleteFails
    <2>7. ASSUME NEW p \in Products, NEW t \in Titles,
                 CreateProduct(r, p, t) \/ RenameProduct(r, p, t)
          PROVE  IInv'
      <3>1. title' \in [Products -> Titles \cup {None}]
        BY <2>7 DEF CreateProduct, RenameProduct
      <3> QED BY <2>7, <3>1, QuietStep DEF CreateProduct, RenameProduct
    <2>8. ASSUME NEW t \in token, VerifyToken(r, t) PROVE IInv'
      BY <2>8, VerifyStep
    <2>9. CASE CheckRole(r)
      BY <2>9, CheckRoleStep
    <2>10. ASSUME NEW p \in Products, DeleteProduct(r, p) PROVE IInv'
      <3>1. title' \in [Products -> Titles \cup {None}]
        BY <2>10 DEF DeleteProduct
      <3> QED BY <2>10, <3>1, DoneStep DEF DeleteProduct
    <2> QED BY <1>1, <2>1, <2>2, <2>3, <2>4, <2>5, <2>6, <2>7, <2>8, <2>9, <2>10
            DEF RequestStep
  <1>2. ASSUME NEW u \in Users, NEW role \in Roles, SetRole(u, role) PROVE IInv'
    BY <1>2, SetRoleStep
  <1>3. ASSUME NEW t \in token, Expire(t) PROVE IInv'
    BY <1>3, QuietStep DEF Expire, TypeOK
  <1>4. CASE UNCHANGED vars
    BY <1>4, QuietStep DEF vars, TypeOK
  <1> QED BY <1>1, <1>2, <1>3, <1>4 DEF Next

LEMMA AlwaysIInv == Spec => []IInv
  BY InitIInv, NextIInv, PTL DEF Spec

----------------------------------------------------------------------------
(* The theorems. *)

\* The state always has its type (the schema and the handlers' locals).
THEOREM TypeCorrect == Spec => []TypeOK
  <1>1. IInv => TypeOK
    BY DEF IInv
  <1> QED BY AlwaysIInv, <1>1, PTL

\* The guards let a product be deleted only for a password and a role, the role
\* as it was at some time since the token was verified.
THEOREM DeletionsGuarded == Spec => DeletedByPrivileged
  <1> DEFINE Step ==
        \A p \in Products :
          title[p] # None /\ title'[p] = None =>
             \E r \in Requests :
                /\ req[r].at = "deleting"
                /\ r \in privileged
                /\ account[req[r].user].password = opened[r]
  <1>1. IInv /\ [Next]_vars => [Step]_vars
    <2> SUFFICES ASSUME IInv, Next, NEW p \in Products,
                        title[p] # None, title'[p] = None
                 PROVE  \E r \in Requests :
                           /\ req[r].at = "deleting"
                           /\ r \in privileged
                           /\ account[req[r].user].password = opened[r]
      OBVIOUS
    <2>1. ASSUME NEW r \in Requests, NEW q \in Products, NEW t \in Titles,
                 CreateProduct(r, q, t) \/ RenameProduct(r, q, t)
          PROVE  FALSE
      BY <2>1, NoneAssumption DEF CreateProduct, RenameProduct, IInv, TypeOK
    <2>2. PICK r \in Requests, q \in Products : DeleteProduct(r, q)
      BY <2>1 DEF Next, RequestStep, Register, InsertUser, InsertConflicts, Login,
         SignToken, LoginRefused, VerifyToken, CheckRole, RoleRefused, DeleteFails,
         SetRole, Expire
    <2> QED BY <2>2 DEF IInv, Guarded, DeleteProduct
  <1> QED BY AlwaysIInv, <1>1, PTL DEF Spec, DeletedByPrivileged

=============================================================================
