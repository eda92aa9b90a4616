CONSTANTS
    Users = {u1, u2}
    Usernames = {n1, n2}
    Emails = {e1, e2}
    Passwords = {w1, w2}
    Products = {p1, p2}
    Titles = {t1, t2}
    Requests = {r1, r2}
    None = None

SPECIFICATION Spec
SYMMETRY Symmetry
INVARIANTS
    TypeOK
PROPERTIES
    DeletedByPrivileged
