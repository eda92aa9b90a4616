------------------------------ MODULE Accounts ------------------------------
(***************************************************************************)
(* AuthService and the two guards: registrations that race for a name,     *)
(* logins, and the product mutations behind the guards.                    *)
(*                                                                         *)
(* bcrypt, the JWT library and the unique indexes are external: a password *)
(* matches its own hash only, a token that verifies was signed here and is *)
(* unexpired, and a statement that would break an index changes nothing.   *)
(* Roles change in the database only: no endpoint writes one.              *)
(***************************************************************************)
EXTENDS FiniteSets

CONSTANTS
    Users,          \* the identifiers the database may hand out
    Usernames,
    Emails,
    Passwords,
    Products,
    Titles,
    Requests,
    None            \* no user, name or title

ASSUME NoneAssumption ==
    None \notin Users \cup Usernames \cup Emails \cup Passwords \cup Titles

Roles == {"USER", "ADMIN", "SUPERUSER"}
Required == {"ADMIN", "SUPERUSER"}

VARIABLES
    account,        \* User rows; username None: no row yet
    token,          \* signed, unexpired tokens: whom they name
    title,          \* Product rows by title; None: no row
    req,            \* the requests in flight
    \* History variables: no action reads them.
    opened,         \* opened[r]: the password that opened r's token
    privileged      \* requests whose user had a required role since the token
                    \* was verified

vars == << account, token, title, req, opened, privileged >>

Row == [username : Usernames \cup {None}, email : Emails \cup {None},
        password : Passwords \cup {None}, role : Roles]
Token == [sub : Users, shown : Passwords]
Steps == {"idle", "hashing", "comparing", "deciding", "deleting"}
Request == [at : Steps, user : Users \cup {None},
            username : Usernames \cup {None}, email : Emails \cup {None},
            password : Passwords \cup {None}]

NoRow == [username |-> None, email |-> None, password |-> None, role |-> "USER"]
InFlight(step, u, n, e, w) ==
    [at |-> step, user |-> u, username |-> n, email |-> e, password |-> w]
Idle == InFlight("idle", None, None, None, None)

Init ==
    /\ account = [u \in Users |-> NoRow]
    /\ token = {}
    /\ title = [p \in Products |-> None]
    /\ req = [r \in Requests |-> Idle]
    /\ opened = [r \in Requests |-> None]
    /\ privileged = {}

----------------------------------------------------------------------------
(* Reading the rows. *)

Registered == {u \in Users : account[u].username # None}
UsernameTaken(n) == \E u \in Registered : account[u].username = n
EmailTaken(e) == \E u \in Registered : account[u].email = e
TitleTaken(t) == \E p \in Products : title[p] = t
IsPrivileged(u) == account[u].role \in Required

Proceed(r, step) == req' = [req EXCEPT ![r].at = step]
Done(r) ==
    /\ req' = [req EXCEPT ![r] = Idle]
    /\ opened' = [opened EXCEPT ![r] = None]
    /\ privileged' = privileged \ {r}

----------------------------------------------------------------------------
(* Registration and login. *)

\* Mutant: the column loses its default.
NoDefault == None

DefaultRole == "USER"

\* The password is hashed before the row is inserted; nothing is looked up.
Register(r, n, e, w) ==
    /\ req[r] = Idle
    /\ req' = [req EXCEPT ![r] = InFlight("hashing", None, n, e, w)]
    /\ UNCHANGED << account, token, title, opened, privileged >>

InsertUser(r, u) ==
    /\ req[r].at = "hashing"
    /\ u \notin Registered
    /\ ~UsernameTaken(req[r].username) /\ ~EmailTaken(req[r].email)
    /\ account' = [account EXCEPT ![u] =
          [username |-> req[r].username, email |-> req[r].email,
           password |-> req[r].password, role |-> DefaultRole]]
    /\ Done(r)
    /\ UNCHANGED << token, title >>

\* An index refuses the row: 409.
InsertConflicts(r) ==
    /\ req[r].at = "hashing"
    /\ UsernameTaken(req[r].username) \/ EmailTaken(req[r].email)
    /\ Done(r)
    /\ UNCHANGED << account, token, title >>

\* findUnique; an unknown username is answered 401 and changes nothing.
Login(r, n, w) ==
    /\ req[r] = Idle
    /\ \E u \in Registered :
          /\ account[u].username = n
          /\ req' = [req EXCEPT ![r] = InFlight("comparing", u, None, None, w)]
    /\ UNCHANGED << account, token, title, opened, privileged >>

Matches(r) == account[req[r].user].password = req[r].password

SignToken(r) ==
    /\ req[r].at = "comparing" /\ Matches(r)
    /\ token' = token \cup {[sub |-> req[r].user, shown |-> req[r].password]}
    /\ Done(r)
    /\ UNCHANGED << account, title >>

LoginRefused(r) ==
    /\ req[r].at = "comparing" /\ ~Matches(r)
    /\ Done(r)
    /\ UNCHANGED << account, token, title >>

----------------------------------------------------------------------------
(* Products. *)

\* POST: AuthGuard verifies the token, and one statement inserts the row.  Both
\* read nothing that changes between them.  A title that is taken is refused by
\* its index, here and in PUT, and nothing changes.
CreateProduct(r, p, t) ==
    /\ req[r] = Idle /\ token # {}
    /\ ~TitleTaken(t) /\ title[p] = None
    /\ title' = [title EXCEPT ![p] = t]
    /\ UNCHANGED << account, token, req, opened, privileged >>

\* PUT: one statement, which may change the title.
RenameProduct(r, p, t) ==
    /\ req[r] = Idle /\ title[p] \notin {None, t}
    /\ ~TitleTaken(t)
    /\ title' = [title EXCEPT ![p] = t]
    /\ UNCHANGED << account, token, req, opened, privileged >>

\* DELETE: AuthGuard.canActivate.  The token is not looked at again, so it may
\* expire under its request.
VerifyToken(r, t) ==
    /\ req[r] = Idle /\ t \in token
    /\ req' = [req EXCEPT ![r] = InFlight("deciding", t.sub, None, None, None)]
    /\ opened' = [opened EXCEPT ![r] = t.shown]
    /\ privileged' = IF IsPrivileged(t.sub) THEN privileged \cup {r}
                     ELSE privileged
    /\ UNCHANGED << account, token, title >>

\* Mutant: any account will do, as on the routes without @Roles.
NoRolesRequired(u) == TRUE

\* findUserById, then requiredRoles.includes.
RoleSuffices(u) == account[u].role \in Required

CheckRole(r) ==
    /\ req[r].at = "deciding" /\ RoleSuffices(req[r].user)
    /\ Proceed(r, "deleting")
    /\ UNCHANGED << account, token, title, opened, privileged >>

RoleRefused(r) ==
    /\ req[r].at = "deciding" /\ ~RoleSuffices(req[r].user)
    /\ Done(r)
    /\ UNCHANGED << account, token, title >>

\* deleteMany, after the guards; Shop says what else it needs.
DeleteProduct(r, p) ==
    /\ req[r].at = "deleting"
    /\ title[p] # None
    /\ title' = [title EXCEPT ![p] = None]
    /\ Done(r)
    /\ UNCHANGED << account, token >>

\* The product is missing, or a cart or an order restricts the deletion.
DeleteFails(r) ==
    /\ req[r].at = "deleting"
    /\ Done(r)
    /\ UNCHANGED << account, token, title >>

----------------------------------------------------------------------------
(* The world outside. *)

SetRole(u, role) ==
    /\ u \in Registered
    /\ account' = [account EXCEPT ![u].role = role]
    /\ privileged' = IF role \in Required
                     THEN privileged \cup {r \in Requests :
                                req[r].user = u /\ req[r].at # "comparing"}
                     ELSE privileged
    /\ UNCHANGED << token, title, req, opened >>

Expire(t) ==
    /\ t \in token
    /\ token' = token \ {t}
    /\ UNCHANGED << account, title, req, opened, privileged >>

RequestStep(r) ==
    \/ \E n \in Usernames, e \in Emails, w \in Passwords : Register(r, n, e, w)
    \/ \E u \in Users : InsertUser(r, u)
    \/ InsertConflicts(r)
    \/ \E n \in Usernames, w \in Passwords : Login(r, n, w)
    \/ SignToken(r) \/ LoginRefused(r)
    \/ \E p \in Products, t \in Titles :
          CreateProduct(r, p, t) \/ RenameProduct(r, p, t)
    \/ \E t \in token : VerifyToken(r, t)
    \/ CheckRole(r) \/ RoleRefused(r)
    \/ \E p \in Products : DeleteProduct(r, p)
    \/ DeleteFails(r)

Next ==
    \/ \E r \in Requests : RequestStep(r)
    \/ \E u \in Users, role \in Roles : SetRole(u, role)
    \/ \E t \in token : Expire(t)

Spec == Init /\ [][Next]_vars

----------------------------------------------------------------------------
\* Rows, tokens and requests are what the schema and the handlers allow.
TypeOK ==
    /\ account \in [Users -> Row]
    /\ token \subseteq Token
    /\ title \in [Products -> Titles \cup {None}]
    /\ req \in [Requests -> Request]
    /\ opened \in [Requests -> Passwords \cup {None}]
    /\ privileged \subseteq Requests

\* A product disappears only by a request whose token was opened with the
\* password of an account that held a required role at some time since the
\* request arrived: a role that was taken away before a request arrives is
\* worth nothing to it, however old the token is.
DeletedByPrivileged ==
    [][\A p \in Products :
          title[p] # None /\ title'[p] = None =>
             \E r \in Requests :
                /\ req[r].at = "deleting"
                /\ r \in privileged
                /\ account[req[r].user].password = opened[r]]_vars

============================================================================
