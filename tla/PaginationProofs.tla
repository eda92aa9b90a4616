-------------------------- MODULE PaginationProofs --------------------------
(***************************************************************************)
(* What Pagination's walk promises, for every table and every page size:   *)
(* the list it returns is in order and without repetition, and misses no   *)
(* row that stayed, unless the row of a cursor was deleted.                *)
(***************************************************************************)
EXTENDS Pagination, SumProofs

----------------------------------------------------------------------------
(* What ORDER BY returns. *)

Increasing(s) == \A i, j \in 1 .. Len(s) : i < j => s[i] < s[j]

\* s lists the rows of S in order.
Lists(s, S) == s \in Seq(S) /\ Increasing(s) /\ ToSet(s) = S

\* A number below all those of a sorted sequence may be put before them.
LEMMA PutFirst ==
  ASSUME NEW k \in Nat, NEW r \in SUBSET Nat, NEW x \in Nat, \A y \in r : x < y,
         NEW s \in [1 .. k -> r], \A i, j \in 1 .. k : i < j => s[i] < s[j]
  PROVE  \E t \in [1 .. k + 1 -> r \cup {x}] :
            \A i, j \in 1 .. k + 1 : i < j => t[i] < t[j]
  <1> DEFINE t == [i \in 1 .. k + 1 |-> IF i = 1 THEN x ELSE s[i - 1]]
  <1>1. \A i \in 1 .. k + 1 : i # 1 => i - 1 \in 1 .. k
    OBVIOUS
  <1>2. t \in [1 .. k + 1 -> r \cup {x}]
    BY <1>1
  <1>3. ASSUME NEW i \in 1 .. k + 1, NEW j \in 1 .. k + 1, i < j
        PROVE  t[i] < t[j]
    <2>1. j # 1 /\ j - 1 \in 1 .. k /\ t[j] = s[j - 1] /\ s[j - 1] \in r
      BY <1>1, <1>3
    <2>2. CASE i = 1
      BY <2>1, <2>2
    <2>3. CASE i # 1
      <3>1. i - 1 \in 1 .. k /\ t[i] = s[i - 1] /\ i - 1 < j - 1
        BY <1>1, <1>3, <2>3
      <3> QED BY <2>1, <3>1
    <2> QED BY <2>2, <2>3
  <1> QED BY <1>2, <1>3

\* S can be listed in order.
Sortable(S) ==
    \E s \in [1 .. Cardinality(S) -> S] :
        \A i, j \in 1 .. Cardinality(S) : i < j => s[i] < s[j]

\* A set that can be listed can be listed with a lesser number put first.
LEMMA SortableWithLess ==
  ASSUME NEW m \in SUBSET Nat, IsFiniteSet(m), NEW x \in m,
         \A y \in m : x <= y, Sortable(m \ {x})
  PROVE  Sortable(m)
  <1> DEFINE r == m \ {x}
  <1>1. /\ Cardinality(r) \in Nat /\ Cardinality(m) = Cardinality(r) + 1
    <2>1. IsFiniteSet(r) /\ Cardinality(r) = Cardinality(m) - 1
      BY FS_RemoveElement
    <2>2. Cardinality(m) \in Nat /\ Cardinality(r) \in Nat
      BY <2>1, FS_CardinalityType
    <2> QED BY <2>1, <2>2
  <1>2. r \in SUBSET Nat /\ x \in Nat /\ (\A y \in r : x < y) /\ r \cup {x} = m
    OBVIOUS
  <1>3. Sortable(r)
    OBVIOUS
  <1> HIDE DEF r
  <1>4. PICK s \in [1 .. Cardinality(r) -> r] :
           \A i, j \in 1 .. Cardinality(r) : i < j => s[i] < s[j]
    BY <1>3 DEF Sortable
  <1>5. \E t \in [1 .. Cardinality(r) + 1 -> r \cup {x}] :
           \A i, j \in 1 .. Cardinality(r) + 1 : i < j => t[i] < t[j]
    BY <1>1, <1>2, <1>4, PutFirst
  <1> QED BY <1>1, <1>2, <1>5 DEF Sortable

\* A finite set of numbers can be listed in order: take the least number out,
\* and put it before the others.
LEMMA AllSortable ==
  ASSUME NEW S, \A x \in S : x \in Nat, IsFiniteSet(S)
  PROVE  Sortable(S)
  <1> DEFINE Bad == {T \in SUBSET S : ~Sortable(T)}
  <1>1. Bad = {}
    <2> SUFFICES ASSUME Bad # {} PROVE FALSE
      OBVIOUS
    <2>1. Bad \in SUBSET SUBSET S
      OBVIOUS
    <2>2. PICK m \in Bad : \A t \in Bad : t \subseteq m => t = m
      <3> HIDE DEF Bad
      <3> QED BY <2>1, LeastSet
    <2>3. m \in SUBSET Nat /\ IsFiniteSet(m) /\ ~Sortable(m)
      BY <2>2, FS_Subset
    <2>4. m # {}
      <3> SUFFICES ASSUME m = {} PROVE Sortable(m)
        BY <2>3
      <3>1. Cardinality(m) = 0
        BY FS_EmptySet
      <3>2. 1 .. Cardinality(m) = {}
        BY <3>1
      <3>3. [x \in {} |-> x] \in [{} -> m]
        OBVIOUS
      <3> QED BY <3>2, <3>3 DEF Sortable
    <2>5. PICK x \in m : \A y \in m : x <= y
      BY <2>3, <2>4, LeastNumber
    <2>6. Sortable(m \ {x})
      BY <2>2
    <2> QED BY <2>3, <2>5, <2>6, SortableWithLess
  <1> QED BY <1>1

\* ORDER BY lists the rows, all of them, once each, in order.
LEMMA SortedLists ==
  ASSUME NEW S \in SUBSET Nat, IsFiniteSet(S)
  PROVE  Lists(Sorted(S), S) /\ Len(Sorted(S)) = Cardinality(S)
  <1> DEFINE n == Cardinality(S)
             s == Sorted(S)
  <1>1. n \in Nat
    BY FS_CardinalityType
  <1>2. s \in [1 .. n -> S] /\ \A i, j \in 1 .. n : i < j => s[i] < s[j]
    BY AllSortable DEF Sortable, Sorted
  <1> HIDE DEF s
  <1>3. s \in Seq(S) /\ Len(s) = n
    BY <1>1, <1>2
  <1>4. Increasing(s)
    BY <1>2, <1>3 DEF Increasing
  <1>5. \A i, j \in 1 .. n : s[i] = s[j] => i = j
    <2> SUFFICES ASSUME NEW i \in 1 .. n, NEW j \in 1 .. n, s[i] = s[j], i # j
                 PROVE  FALSE
      OBVIOUS
    <2>1. i < j \/ j < i
      BY <1>1
    <2>2. s[i] \in Nat /\ s[j] \in Nat
      BY <1>2
    <2> QED BY <1>2, <2>1, <2>2
  <1>6. s \in Injection(1 .. n, S)
    BY <1>2, <1>5 DEF Injection, IsInjective
  <1>7. Cardinality(1 .. n) = n
    BY <1>1, FS_Interval
  <1>8. s \in Surjection(1 .. n, S)
    BY <1>6, <1>7, FS_Injection
  <1>9. ToSet(s) = S
    BY <1>2, <1>3, <1>8 DEF ToSet, Surjection
  <1> QED BY <1>3, <1>4, <1>9 DEF s, Lists
\* Without its least row, the list is its tail.
LEMMA TailLists ==
  ASSUME NEW S \in SUBSET Nat, NEW s, Lists(s, S),
         NEW x \in S, \A y \in S : x <= y
  PROVE  Lists(Tail(s), S \ {x})
  <1>1. s \in Seq(S) /\ Len(s) \in Nat /\ DOMAIN s = 1 .. Len(s)
    BY DEF Lists
  <1>2. PICK k \in 1 .. Len(s) : s[k] = x
    BY <1>1 DEF Lists, ToSet
  <1>3. \A i \in 1 .. Len(s) : s[i] \in S /\ s[i] \in Nat
    <2>1. \A i \in 1 .. Len(s) : s[i] \in S
      BY <1>1
    <2>2. \A y \in S : y \in Nat
      OBVIOUS
    <2> QED BY <2>1, <2>2
  <1>4. s # << >> /\ s[1] = x
    <2>1. s[1] \in S /\ x <= s[1]
      <3>1. 1 \in 1 .. Len(s)
        BY <1>1, <1>2
      <3> QED BY <1>3, <3>1
    <2>2. CASE k # 1
      <3>1. s[1] < s[k]
        BY <1>1, <1>2, <2>2 DEF Lists, Increasing
      <3> QED BY <1>2, <1>3, <2>1, <3>1
    <2> QED BY <1>1, <1>2, <2>2
  <1>5. /\ Len(Tail(s)) = Len(s) - 1 /\ Len(s) # 0
        /\ \A i \in 1 .. Len(s) - 1 : Tail(s)[i] = s[i + 1]
        /\ Tail(s) \in Seq(S)
    BY <1>1, <1>4
  <1> DEFINE t == Tail(s)
  <1>6. Increasing(t)
    BY <1>1, <1>5 DEF Lists, Increasing
  <1>7. \A i \in 1 .. Len(t) : t[i] # x
    <2> SUFFICES ASSUME NEW i \in 1 .. Len(t) PROVE t[i] # x
      OBVIOUS
    <2>1. s[1] < s[i + 1] /\ t[i] = s[i + 1]
      BY <1>1, <1>5 DEF Lists, Increasing
    <2> QED BY <1>1, <1>3, <1>4, <1>5, <2>1
  <1>8. ASSUME NEW y \in S, y # x
        PROVE  \E i \in 1 .. Len(t) : t[i] = y
    <2>1. PICK i \in 1 .. Len(s) : s[i] = y
      BY <1>1 DEF Lists, ToSet
    <2>2. i # 1 /\ i - 1 \in 1 .. Len(t) /\ t[i - 1] = s[i]
      BY <1>1, <1>4, <1>5, <1>8, <2>1
    <2> QED BY <2>1, <2>2
  <1>9. \A i \in 1 .. Len(t) : t[i] \in S \ {x}
    BY <1>5, <1>7
  <1> HIDE DEF t
  <1>10. t \in Seq(S) /\ Len(t) \in Nat /\ DOMAIN t = 1 .. Len(t)
    BY <1>5 DEF t
  <1>11. t \in Seq(S \ {x})
    BY <1>9, <1>10
  <1>12. ToSet(t) = S \ {x}
    BY <1>8, <1>9, <1>10 DEF ToSet
  <1> QED BY <1>6, <1>11, <1>12 DEF Lists, t

\* The elements of a sequence, and of two in a row.
LEMMA Elements ==
  ASSUME NEW X, NEW s \in Seq(X)
  PROVE  \A x : x \in ToSet(s) <=> \E i \in 1 .. Len(s) : s[i] = x
  <1>1. DOMAIN s = 1 .. Len(s)
    OBVIOUS
  <1> QED BY <1>1 DEF ToSet

LEMMA ElementsOfBoth ==
  ASSUME NEW X, NEW s \in Seq(X), NEW t \in Seq(X)
  PROVE  ToSet(s \o t) = ToSet(s) \cup ToSet(t)
  <1> DEFINE u == s \o t
  <1>1. /\ u \in Seq(X) /\ Len(u) = Len(s) + Len(t)
        /\ Len(s) \in Nat /\ Len(t) \in Nat
        /\ \A i \in 1 .. Len(s) : u[i] = s[i] /\ i \in 1 .. Len(u)
        /\ \A i \in 1 .. Len(t) : u[Len(s) + i] = t[i] /\ Len(s) + i \in 1 .. Len(u)
        /\ \A i \in Len(s) + 1 .. Len(u) :
              u[i] = t[i - Len(s)] /\ i - Len(s) \in 1 .. Len(t)
    OBVIOUS
  <1> HIDE DEF u
  <1>2. \A i \in 1 .. Len(u) : i \in 1 .. Len(s) \/ i \in Len(s) + 1 .. Len(u)
    BY <1>1
  <1>3. ASSUME NEW x
        PROVE  x \in ToSet(u) <=> x \in ToSet(s) \/ x \in ToSet(t)
    <2>1. /\ x \in ToSet(s) <=> \E i \in 1 .. Len(s) : s[i] = x
          /\ x \in ToSet(t) <=> \E i \in 1 .. Len(t) : t[i] = x
          /\ x \in ToSet(u) <=> \E i \in 1 .. Len(u) : u[i] = x
      <3>1. u \in Seq(X)
        BY <1>1
      <3>2. \A y : y \in ToSet(s) <=> \E i \in 1 .. Len(s) : s[i] = y
        BY Elements
      <3>3. \A y : y \in ToSet(t) <=> \E i \in 1 .. Len(t) : t[i] = y
        BY Elements
      <3>4. \A y : y \in ToSet(u) <=> \E i \in 1 .. Len(u) : u[i] = y
        BY <3>1, Elements
      <3> QED BY <3>2, <3>3, <3>4
    <2>2. ASSUME NEW i \in 1 .. Len(u), u[i] = x
          PROVE  \/ \E j \in 1 .. Len(s) : s[j] = x
                 \/ \E j \in 1 .. Len(t) : t[j] = x
      BY <1>1, <1>2, <2>2
    <2>3. ASSUME NEW i \in 1 .. Len(s), s[i] = x
          PROVE  \E j \in 1 .. Len(u) : u[j] = x
      BY <1>1, <2>3
    <2>4. ASSUME NEW i \in 1 .. Len(t), t[i] = x
          PROVE  \E j \in 1 .. Len(u) : u[j] = x
      BY <1>1, <2>4
    <2> QED BY <2>1, <2>2, <2>3, <2>4
  <1> QED BY <1>3 DEF u

----------------------------------------------------------------------------
(* What a page holds. *)

\* The rows a cursor leaves to list.
Ahead(c) ==
    IF c = NoCursor THEN rows
    ELSE IF DecodeCursor(c) \in rows THEN {x \in rows : x > DecodeCursor(c)}
         ELSE {}

Cursors == {NoCursor} \cup {EncodeCursor(x) : x \in Ids}

\* A query lists the rows ahead of its cursor.
LEMMA FromCursorLists ==
  ASSUME rows \subseteq Ids, NEW c \in Cursors
  PROVE  Lists(FromCursor(c), Ahead(c)) /\ Ahead(c) \in SUBSET rows
  <1>1. ASSUME NEW S \in SUBSET rows
        PROVE  IsFiniteSet(S) /\ S \in SUBSET Nat
    BY FS_Subset, FiniteAssumption, IdAssumption
  <1>2. CASE c = NoCursor
    BY <1>1, <1>2, SortedLists DEF FromCursor, Ahead
  <1>3. CASE c # NoCursor /\ DecodeCursor(c) \in rows
    <2> DEFINE d == DecodeCursor(c)
               S == {x \in rows : x >= d}
    <2>1. S \in SUBSET Nat /\ IsFiniteSet(S) /\ d \in S /\ \A y \in S : d <= y
      <3>1. S \in SUBSET rows
        OBVIOUS
      <3>2. d \in Nat
        BY <1>3, IdAssumption
      <3>3. d \in S /\ \A y \in S : d <= y
        BY <1>3, <3>2
      <3> QED BY <1>1, <3>1, <3>3
    <2>2. S \ {d} = Ahead(c)
      BY <2>1, <1>1, <1>3 DEF Ahead
    <2>3. FromCursor(c) = Tail(Sorted(S))
      BY <1>3 DEF FromCursor
    <2> HIDE DEF S, d
    <2>4. Lists(Tail(Sorted(S)), S \ {d})
      BY <2>1, SortedLists, TailLists
    <2> QED BY <2>2, <2>3, <2>4, <1>3 DEF Ahead
  <1>4. CASE c # NoCursor /\ DecodeCursor(c) \notin rows
    <2>1. FromCursor(c) = << >> /\ Ahead(c) = {}
      BY <1>4 DEF FromCursor, Ahead
    <2>2. << >> \in Seq({}) /\ Len(<< >>) = 0
      OBVIOUS
    <2>3. Increasing(<< >>) /\ ToSet(<< >>) = {}
      BY <2>2 DEF Increasing, ToSet
    <2> QED BY <2>1, <2>2, <2>3 DEF Lists
  <1> QED BY <1>2, <1>3, <1>4

\* The page is the beginning of the query's rows, and its last row is the next
\* cursor if and only if there are more.
LEMMA PageIsPrefix ==
  ASSUME NEW n \in Nat \ {0}, NEW A, NEW s \in Seq(A)
  PROVE  LET found == Take(s, n + 1)
             page == Take(found, n)
         IN  /\ page \in Seq(A) /\ Len(page) = Least(n, Len(s))
             /\ \A i \in 1 .. Len(page) : page[i] = s[i]
             /\ NextCursor(found, n) =
                   IF Len(s) > n THEN EncodeCursor(s[n]) ELSE NoCursor
  <1>1. ASSUME NEW q \in Seq(A), NEW m \in Nat
        PROVE  /\ Take(q, m) \in Seq(A) /\ Len(Take(q, m)) = Least(m, Len(q))
               /\ \A i \in 1 .. Least(m, Len(q)) : Take(q, m)[i] = q[i]
    <2>1. Least(m, Len(q)) \in Nat /\ Least(m, Len(q)) <= Len(q)
      BY DEF Least
    <2> QED BY <2>1 DEF Take
  <1> DEFINE found == Take(s, n + 1)
             page == Take(found, n)
  <1>2. /\ found \in Seq(A) /\ Len(found) = Least(n + 1, Len(s))
        /\ \A i \in 1 .. Least(n + 1, Len(s)) : found[i] = s[i]
    <2>1. n + 1 \in Nat
      OBVIOUS
    <2> QED BY <1>1, <2>1
  <1>3. /\ page \in Seq(A) /\ Len(page) = Least(n, Len(found))
        /\ \A i \in 1 .. Least(n, Len(found)) : page[i] = found[i]
    BY <1>1, <1>2
  <1> HIDE DEF found, page
  <1>4. Len(s) \in Nat
    OBVIOUS
  <1>5. Least(n, Len(found)) = Least(n, Len(s))
    BY <1>2, <1>4 DEF Least
  <1>6. \A i \in 1 .. Least(n, Len(s)) : i \in 1 .. Least(n + 1, Len(s))
    BY <1>4 DEF Least
  <1>7. \A i \in 1 .. Len(page) : page[i] = s[i]
    BY <1>2, <1>3, <1>5, <1>6
  <1>8. NextCursor(found, n) =
          IF Len(s) > n THEN EncodeCursor(s[n]) ELSE NoCursor
    BY <1>2, <1>4 DEF NextCursor, Least
  <1> QED BY <1>3, <1>5, <1>7, <1>8 DEF found, page
----------------------------------------------------------------------------
(* The inductive invariant of the walk. *)

\* The cursor of a walk under way is the last row listed.
CursorIsLast ==
    walk.pc = "walking" =>
        \/ walk.cursor = NoCursor /\ walk.got = << >>
        \/ /\ walk.got # << >>
           /\ walk.cursor = EncodeCursor(walk.got[Len(walk.got)])

\* While no cursor's row is deleted, the cursor names a row of the table.
CursorKept ==
    walk.pc = "walking" /\ ~lost /\ walk.cursor # NoCursor =>
        DecodeCursor(walk.cursor) \in rows

Beyond(c, x) == c = NoCursor \/ x > DecodeCursor(c)

\* A row that stayed has been listed, or is ahead of the cursor.
NothingSkipped ==
    ~lost => \A x \in stable :
        \/ x \in ToSet(walk.got)
        \/ walk.pc = "walking" /\ Beyond(walk.cursor, x)

IInv ==
    TypeOK /\ ListedInOrder /\ CursorIsLast /\ CursorKept /\ NothingSkipped

LEMMA InitIInv == Init => IInv
  <1> SUFFICES ASSUME Init PROVE IInv
    OBVIOUS
  <1>1. PICK n \in Limits :
           walk = [pc |-> "walking", limit |-> n, cursor |-> NoCursor, got |-> << >>]
    BY DEF Init
  <1>2. /\ walk.pc = "walking" /\ walk.cursor = NoCursor /\ walk.got = << >>
        /\ walk \in WalkState
    <2>1. << >> \in Seq(Ids) /\ NoCursor \in Cursors
      BY DEF Cursors
    <2> QED BY <1>1, <2>1 DEF WalkState, Cursors
  <1>3. TypeOK
    BY <1>2 DEF Init, TypeOK
  <1>4. ListedInOrder
    <2>1. Len(<< >>) = 0
      OBVIOUS
    <2> QED BY <1>2, <2>1 DEF ListedInOrder
  <1> QED BY <1>2, <1>3, <1>4
          DEF IInv, CursorIsLast, CursorKept, NothingSkipped, Beyond

\* A page appends to the list, and moves the cursor to its last row.
LEMMA FindAllEffect ==
  ASSUME IInv, FindAll
  PROVE  \E s, page :
            /\ Lists(s, Ahead(walk.cursor))
            /\ page \in Seq(Ids) /\ Len(page) = Least(walk.limit, Len(s))
            /\ \A i \in 1 .. Len(page) : page[i] = s[i]
            /\ walk' \in WalkState
            /\ walk'.pc = IF Len(s) > walk.limit THEN "walking" ELSE "done"
            /\ walk'.cursor = IF Len(s) > walk.limit
                              THEN EncodeCursor(s[walk.limit]) ELSE NoCursor
            /\ walk'.got = walk.got \o page
  <1> DEFINE c == walk.cursor
             n == walk.limit
             s == FromCursor(c)
             found == Take(s, n + 1)
             page == Take(found, n)
  <1>1. /\ rows \subseteq Ids /\ c \in Cursors /\ n \in Nat \ {0}
        /\ walk.pc = "walking" /\ walk.got \in Seq(Ids)
        /\ walk \in WalkState
    <2>1. walk \in WalkState /\ rows \subseteq Ids /\ walk.pc = "walking"
      BY DEF IInv, TypeOK, FindAll
    <2>2. walk.limit \in Limits
      BY <2>1 DEF WalkState
    <2>3. walk.limit \in Nat \ {0}
      BY <2>2, LimitAssumption
    <2> QED BY <2>1, <2>3 DEF WalkState, Cursors
  <1>2. Lists(s, Ahead(c)) /\ Ahead(c) \in SUBSET Ids
    BY <1>1, FromCursorLists
  <1>3. s \in Seq(Ids)
    <2>1. s \in Seq(Ahead(c))
      BY <1>2 DEF Lists
    <2> HIDE DEF s
    <2> QED BY <1>2, <2>1
  <1>4. /\ page \in Seq(Ids) /\ Len(page) = Least(n, Len(s))
        /\ \A i \in 1 .. Len(page) : page[i] = s[i]
        /\ NextCursor(found, n) =
              IF Len(s) > n THEN EncodeCursor(s[n]) ELSE NoCursor
    <2> HIDE DEF s, n
    <2> QED BY <1>1, <1>3, PageIsPrefix
  <1>5. Len(s) > n => EncodeCursor(s[n]) # NoCursor
    <2>1. Len(s) > n => s[n] \in Ids
      BY <1>1, <1>3
    <2> QED BY <2>1, IdAssumption DEF EncodeCursor, NoCursor, None
  <1>6. walk' = [walk EXCEPT !.got = walk.got \o page,
                             !.cursor = NextCursor(found, n),
                             !.pc = IF NextCursor(found, n) = NoCursor
                                    THEN "done" ELSE "walking"]
    BY DEF FindAll, Fetched
  <1> HIDE DEF s, c, page, found
  <1>7. /\ walk'.pc = IF Len(s) > n THEN "walking" ELSE "done"
        /\ walk'.cursor = IF Len(s) > n THEN EncodeCursor(s[n]) ELSE NoCursor
        /\ walk'.got = walk.got \o page
    BY <1>1, <1>4, <1>5, <1>6 DEF WalkState
  <1>8. walk' \in WalkState
    <2>1. NextCursor(found, n) \in Cursors
      <3>1. Len(s) > n => s[n] \in Ids
        BY <1>1, <1>3
      <3> QED BY <1>4, <3>1 DEF Cursors
    <2>2. walk.got \o page \in Seq(Ids)
      BY <1>1, <1>4
    <2>3. walk \in WalkState
      BY DEF IInv, TypeOK
    <2> QED BY <1>6, <2>1, <2>2, <2>3 DEF WalkState, Cursors
  <1> QED BY <1>2, <1>4, <1>7, <1>8 DEF c
\* What is ahead of the cursor is beyond it.
LEMMA AheadIsBeyond ==
  ASSUME IInv
  PROVE  /\ Ahead(walk.cursor) \subseteq rows
         /\ \A x \in Ahead(walk.cursor) : Beyond(walk.cursor, x)
         /\ walk.pc = "walking" /\ ~lost =>
               \A x \in rows : Beyond(walk.cursor, x) => x \in Ahead(walk.cursor)
  BY DEF IInv, CursorKept, Ahead, Beyond

LEMMA FindAllKeeps ==
  ASSUME IInv, FindAll
  PROVE  IInv'
  <1> PICK s, page :
        /\ Lists(s, Ahead(walk.cursor))
        /\ page \in Seq(Ids) /\ Len(page) = Least(walk.limit, Len(s))
        /\ \A i \in 1 .. Len(page) : page[i] = s[i]
        /\ walk' \in WalkState
        /\ walk'.pc = IF Len(s) > walk.limit THEN "walking" ELSE "done"
        /\ walk'.cursor = IF Len(s) > walk.limit
                          THEN EncodeCursor(s[walk.limit]) ELSE NoCursor
        /\ walk'.got = walk.got \o page
    BY FindAllEffect
  <1> DEFINE A == Ahead(walk.cursor)
             n == walk.limit
             k == Len(walk.got)
  <1>1. /\ walk.pc = "walking" /\ n \in Nat \ {0} /\ walk.got \in Seq(Ids)
        /\ k \in Nat /\ rows \subseteq Ids /\ stable \subseteq rows
        /\ UNCHANGED << rows, unborn, stable, lost >>
    <2>1. walk \in WalkState
      BY DEF IInv, TypeOK
    <2>2. walk.limit \in Limits /\ walk.got \in Seq(Ids)
      BY <2>1 DEF WalkState
    <2> QED BY <2>2, LimitAssumption DEF IInv, TypeOK, FindAll
  <1>2. /\ s \in Seq(Ids) /\ Len(s) \in Nat
        /\ \A i \in 1 .. Len(s) : s[i] \in A /\ s[i] \in Nat
        /\ \A x \in A : \E i \in 1 .. Len(s) : s[i] = x
    <2>1. s \in Seq(A) /\ ToSet(s) = A /\ DOMAIN s = 1 .. Len(s)
      BY DEF Lists
    <2>2. A \subseteq Ids /\ \A x \in A : x \in Nat
      BY <1>1, AheadIsBeyond, IdAssumption
    <2>3. \A i \in 1 .. Len(s) : s[i] \in A
      BY <2>1
    <2>4. s \in Seq(Ids) /\ Len(s) \in Nat
      <3> HIDE DEF A
      <3> QED BY <2>1, <2>2
    <2> QED BY <2>1, <2>2, <2>3, <2>4 DEF ToSet
  <1>3. /\ Len(walk'.got) = k + Len(page) /\ Len(page) \in Nat
        /\ \A i \in 1 .. k : walk'.got[i] = walk.got[i]
        /\ \A i \in k + 1 .. k + Len(page) : /\ walk'.got[i] = s[i - k]
                                             /\ i - k \in 1 .. Len(s)
        /\ \A i \in 1 .. Len(page) : walk'.got[k + i] = s[i]
    <2>1. Len(page) \in Nat /\ Len(page) <= Len(s)
      BY <1>1, <1>2 DEF Least
    <2>2. \A i \in k + 1 .. k + Len(page) :
             walk'.got[i] = page[i - k] /\ i - k \in 1 .. Len(page)
      BY <1>1
    <2>3. \A i \in 1 .. Len(page) : walk'.got[k + i] = page[i]
      BY <1>1
    <2>4. /\ Len(walk'.got) = k + Len(page)
          /\ \A i \in 1 .. k : walk'.got[i] = walk.got[i]
      <3>1. \A g, q \in Seq(Ids) : /\ Len(g \o q) = Len(g) + Len(q)
                                  /\ \A i \in 1 .. Len(g) : (g \o q)[i] = g[i]
        OBVIOUS
      <3> QED BY <1>1, <3>1
    <2>5. \A i \in 1 .. Len(page) : i \in 1 .. Len(s)
      BY <1>2, <2>1
    <2> HIDE DEF k
    <2>6. \A i \in k + 1 .. k + Len(page) :
             walk'.got[i] = s[i - k] /\ i - k \in 1 .. Len(s)
      BY <2>2, <2>5
    <2>7. \A i \in 1 .. Len(page) : walk'.got[k + i] = s[i]
      BY <2>3
    <2> QED BY <2>1, <2>4, <2>6, <2>7
  <1>9. \A x : x \in ToSet(walk'.got) <=>
          x \in ToSet(walk.got) \/ \E i \in 1 .. Len(page) : s[i] = x
    <2>1. ToSet(walk'.got) = ToSet(walk.got) \cup ToSet(page)
      BY <1>1, ElementsOfBoth
    <2>2. \A x : x \in ToSet(page) <=> \E i \in 1 .. Len(page) : page[i] = x
      BY Elements
    <2> QED BY <2>1, <2>2
  <1> HIDE DEF A
  <1>4. /\ ListedInOrder /\ CursorIsLast /\ CursorKept /\ NothingSkipped
        /\ \A i \in 1 .. k : walk.got[i] \in Nat
    <2>1. \A i \in 1 .. k : walk.got[i] \in Ids
      BY <1>1
    <2> QED BY <2>1, IdAssumption DEF IInv
  <1>5. TypeOK'
    BY <1>1 DEF IInv, TypeOK
  <1>6. ListedInOrder'
    <2> SUFFICES ASSUME NEW i \in 1 .. k + Len(page), NEW j \in 1 .. k + Len(page),
                        i < j
                 PROVE  walk'.got[i] < walk'.got[j]
      BY <1>3 DEF ListedInOrder
    <2>1. CASE j <= k
      BY <1>1, <1>3, <1>4, <2>1 DEF ListedInOrder
    <2>2. CASE i > k
      <3>1. /\ walk'.got[i] = s[i - k] /\ walk'.got[j] = s[j - k]
            /\ i - k \in 1 .. Len(s) /\ j - k \in 1 .. Len(s) /\ i - k < j - k
        BY <1>1, <1>3, <2>2
      <3> QED BY <3>1 DEF Lists, Increasing
    <2>3. CASE i <= k /\ j > k
      <3>1. walk'.got[i] = walk.got[i] /\ i \in 1 .. k /\ k \in 1 .. k
        BY <1>1, <1>3, <2>3
      <3>2. walk'.got[j] = s[j - k] /\ j - k \in 1 .. Len(s)
        BY <1>1, <1>3, <2>3
      <3>3. walk.cursor = EncodeCursor(walk.got[k]) /\ walk.got[k] \in Ids
        BY <1>1, <1>4, <3>1 DEF CursorIsLast
      <3>4. walk.cursor # NoCursor /\ DecodeCursor(walk.cursor) = walk.got[k]
        BY <3>3, IdAssumption DEF EncodeCursor, NoCursor, None, DecodeCursor
      <3>5. s[j - k] > walk.got[k]
        BY <1>2, <3>2, <3>4, AheadIsBeyond DEF A, Beyond
      <3>6. walk.got[i] \in Nat /\ walk.got[k] \in Nat /\ s[j - k] \in Nat
        BY <1>2, <1>4, <3>1, <3>2
      <3>7. i = k \/ i < k
        BY <1>1, <2>3
      <3>8. i < k => walk.got[i] < walk.got[k]
        BY <1>4, <3>1 DEF ListedInOrder
      <3>9. walk.got[i] < s[j - k]
        BY <3>5, <3>6, <3>7, <3>8
      <3> QED BY <3>1, <3>2, <3>9
    <2> QED BY <1>1, <1>3, <2>1, <2>2, <2>3
  <1>7. CASE Len(s) <= n
    <2>1. walk'.pc = "done" /\ Len(page) = Len(s)
      BY <1>1, <1>2, <1>7 DEF Least
    <2>2. ASSUME ~lost, NEW x \in stable, x \notin ToSet(walk.got)
          PROVE  x \in ToSet(walk'.got)
      <3>1. x \in A
        BY <1>1, <1>4, <2>2, AheadIsBeyond DEF A, NothingSkipped
      <3> QED BY <1>2, <1>9, <2>1, <3>1
    <2>3. NothingSkipped'
      BY <1>1, <1>9, <2>2 DEF NothingSkipped
    <2> QED BY <1>5, <1>6, <2>1, <2>3 DEF IInv, CursorIsLast, CursorKept
  <1>8. CASE Len(s) > n
    <2>1. /\ walk'.pc = "walking" /\ Len(page) = n /\ n \in 1 .. Len(s)
          /\ walk'.cursor = EncodeCursor(s[n]) /\ s[n] \in A
      BY <1>1, <1>2, <1>8 DEF Least
    <2>2. CursorIsLast'
      <3>1. walk'.got[Len(walk'.got)] = s[n] /\ Len(walk'.got) # 0
        BY <1>1, <1>3, <2>1
      <3>2. walk'.got # << >>
        BY <3>1
      <3> QED BY <2>1, <3>1, <3>2 DEF CursorIsLast
    <2>3. DecodeCursor(walk'.cursor) = s[n] /\ s[n] \in rows
      BY <2>1, AheadIsBeyond DEF A, DecodeCursor, EncodeCursor
    <2>4. CursorKept'
      BY <1>1, <2>3 DEF CursorKept, DecodeCursor
    <2>5. ASSUME ~lost, NEW x \in stable, x \notin ToSet(walk.got)
          PROVE  x \in ToSet(walk'.got) \/ x > s[n]
      <3>1. x \in A
        BY <1>1, <1>4, <2>5, AheadIsBeyond DEF A, NothingSkipped
      <3>2. PICK i \in 1 .. Len(s) : s[i] = x
        BY <1>2, <3>1
      <3>3. CASE i <= n
        <4>1. i \in 1 .. Len(page)
          BY <1>1, <2>1, <3>3
        <4> QED BY <1>9, <3>2, <4>1
      <3>4. CASE i > n
        <4>1. s[n] < s[i]
          BY <2>1, <3>4 DEF Lists, Increasing
        <4> QED BY <1>2, <2>1, <3>2, <4>1
      <3> QED BY <1>1, <3>3, <3>4
    <2>6. NothingSkipped'
      BY <1>1, <1>9, <2>1, <2>3, <2>5 DEF NothingSkipped, Beyond
    <2> QED BY <1>5, <1>6, <2>2, <2>4, <2>6 DEF IInv
  <1> QED BY <1>1, <1>2, <1>7, <1>8

LEMMA StepIInv ==
  ASSUME IInv, [Next]_vars
  PROVE  IInv'
  <1>1. CASE FindAll
    BY <1>1, FindAllKeeps
  <1>2. ASSUME NEW x \in Ids, CreateRow(x)
        PROVE  IInv'
    BY <1>2 DEF CreateRow, IInv, TypeOK, ListedInOrder, CursorIsLast, CursorKept,
            NothingSkipped, Beyond
  <1>3. ASSUME NEW x \in Ids, DeleteRow(x)
        PROVE  IInv'
    <2>1. TypeOK'
      BY <1>3 DEF DeleteRow, IInv, TypeOK
    <2>2. ListedInOrder' /\ CursorIsLast'
      BY <1>3 DEF DeleteRow, IInv, ListedInOrder, CursorIsLast
    <2>3. CursorKept'
      <3> SUFFICES ASSUME walk.pc = "walking", ~lost', walk.cursor # NoCursor
                   PROVE  DecodeCursor(walk.cursor) \in rows'
        BY <1>3 DEF DeleteRow, CursorKept
      <3>1. walk.cursor # EncodeCursor(x) /\ DecodeCursor(walk.cursor) \in rows
        BY <1>3 DEF DeleteRow, IInv, CursorKept
      <3>2. walk.cursor \in Cursors
        <4>1. walk \in WalkState
          BY DEF IInv, TypeOK
        <4> QED BY <4>1 DEF WalkState, Cursors
      <3>3. DecodeCursor(walk.cursor) # x
        BY <3>1, <3>2 DEF Cursors, EncodeCursor, DecodeCursor
      <3> QED BY <1>3, <3>1, <3>3 DEF DeleteRow
    <2>4. NothingSkipped'
      BY <1>3 DEF DeleteRow, IInv, NothingSkipped, Beyond
    <2> QED BY <2>1, <2>2, <2>3, <2>4 DEF IInv
  <1>4. CASE UNCHANGED vars
    BY <1>4 DEF vars, IInv, TypeOK, ListedInOrder, CursorIsLast, CursorKept,
            NothingSkipped, Beyond
  <1> QED BY <1>1, <1>2, <1>3, <1>4 DEF Next

LEMMA Walk == Spec => []IInv
  BY InitIInv, StepIInv, PTL DEF Spec

\* The table, the walk and its history are well formed in every state: the
\* cursor that a page returns is one that the next query understands.
THEOREM TypeCorrect == Spec => []TypeOK
  BY Walk, PTL DEF IInv

\* No row is listed twice and the list is in order, whatever is created or
\* deleted between two pages, cursors included.
THEOREM InOrder == Spec => []ListedInOrder
  BY Walk, PTL DEF IInv

\* A finished walk has listed every row that was there from its first page on,
\* unless the row that a cursor named was deleted.
THEOREM NothingMissed == Spec => []StableRowsListed
  <1>1. IInv => StableRowsListed
    BY DEF IInv, NothingSkipped, StableRowsListed
  <1> QED BY <1>1, Walk, PTL

============================================================================
