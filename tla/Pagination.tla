----------------------------- MODULE Pagination -----------------------------
(***************************************************************************)
(* A client walking the pages of a list with the cursors it is given, while *)
(* rows come and go: GET /products (ProductService.findAll) and, with the  *)
(* same arithmetic, the items of GET /cart (CartRepository.getOrCreatePage). *)
(* Rows are named by their identifiers, which are UUIDs and so appear      *)
(* anywhere in the order; a row that is deleted does not come back.        *)
(***************************************************************************)
EXTENDS Naturals, Sequences, FiniteSets, SequencesExt

CONSTANTS
    Ids,            \* identifiers a row may get, in their order
    Limits          \* page sizes a client may ask for: 1 to 100 (the DTOs)

ASSUME IdAssumption == Ids \subseteq Nat \ {0}
\* A table holds finitely many rows, whatever their number.
ASSUME FiniteAssumption == IsFiniteSet(Ids)
ASSUME LimitAssumption == Limits \subseteq Nat \ {0}

VARIABLES
    rows,           \* the table
    unborn,         \* identifiers not handed out yet
    walk,           \* where the client is
    \* History variables: no action reads them.
    stable,         \* rows in the table ever since the walk began
    lost            \* the row of the client's cursor has been deleted

vars == << rows, unborn, walk, stable, lost >>

None == 0

\* A cursor of a product page is {"id": ...} in base64url, which decodes to what
\* was encoded; one of a cart page is the identifier itself.
EncodeCursor(id) == [id |-> id]
DecodeCursor(c) == c.id
NoCursor == EncodeCursor(None)

WalkState == [pc : {"walking", "done"}, limit : Limits,
              cursor : {NoCursor} \cup {EncodeCursor(x) : x \in Ids},
              got : Seq(Ids)]

Init ==
    /\ rows \in SUBSET Ids
    /\ unborn = Ids \ rows
    /\ \E n \in Limits :
          walk = [pc |-> "walking", limit |-> n, cursor |-> NoCursor,
                  got |-> << >>]
    /\ stable = rows
    /\ lost = FALSE

\* The rows in the order of their identifiers.
Sorted(S) ==
    CHOOSE s \in [1 .. Cardinality(S) -> S] :
        \A i, j \in 1 .. Cardinality(S) : i < j => s[i] < s[j]

\* Mutant: `skip: 1` is missing.
FromCursorItself(c) ==
    IF c = NoCursor THEN Sorted(rows)
    ELSE Sorted({x \in rows : x >= DecodeCursor(c)})

\* The rows a page may come from: from the cursor's row on, without it.  A
\* cursor whose row is gone selects nothing.
FromCursor(c) ==
    IF c = NoCursor THEN Sorted(rows)
    ELSE IF DecodeCursor(c) \in rows
         THEN Tail(Sorted({x \in rows : x >= DecodeCursor(c)}))
         ELSE << >>

Least(a, b) == IF a < b THEN a ELSE b

Take(s, n) == SubSeq(s, 1, Least(n, Len(s)))

\* Mutant: no row beyond the page is asked for.
FetchPageOnly(c, n) == Take(FromCursor(c), n)

\* `take: limit + 1`.
Fetched(c, n) == Take(FromCursor(c), n + 1)

\* Mutant: the cursor does not call the identifier what decodeCursor does.
NextMisnamed(found, n) ==
    IF Len(found) > n THEN [productId |-> found[n]] ELSE NoCursor

\* The last row of the page names the next one, if there is any.
NextCursor(found, n) ==
    IF Len(found) > n THEN EncodeCursor(found[n]) ELSE NoCursor

FindAll ==
    LET found == Fetched(walk.cursor, walk.limit)
        next == NextCursor(found, walk.limit)
    IN
    /\ walk.pc = "walking"
    /\ walk' = [walk EXCEPT !.got = walk.got \o Take(found, walk.limit),
                            !.cursor = next,
                            !.pc = IF next = NoCursor THEN "done" ELSE "walking"]
    /\ UNCHANGED << rows, unborn, stable, lost >>

CreateRow(x) ==
    /\ x \in unborn
    /\ rows' = rows \cup {x}
    /\ unborn' = unborn \ {x}
    /\ UNCHANGED << walk, stable, lost >>

DeleteRow(x) ==
    /\ x \in rows
    /\ rows' = rows \ {x}
    /\ stable' = stable \ {x}
    /\ lost' = (lost \/ walk.cursor = EncodeCursor(x))
    /\ UNCHANGED << unborn, walk >>

Next ==
    \/ FindAll
    \/ \E x \in Ids : CreateRow(x) \/ DeleteRow(x)

Spec == Init /\ [][Next]_vars

----------------------------------------------------------------------------
\* The walk and its history are well formed.
TypeOK ==
    /\ rows \subseteq Ids /\ unborn \subseteq Ids \ rows
    /\ walk \in WalkState
    /\ stable \subseteq rows
    /\ lost \in BOOLEAN

\* No row is listed twice, and rows are listed in order, whatever is created or
\* deleted between two pages.
ListedInOrder ==
    \A i, j \in 1 .. Len(walk.got) : i < j => walk.got[i] < walk.got[j]

\* A finished walk has listed every row that was there all along, unless the row
\* that its cursor named was deleted: the walk then ends early.
StableRowsListed ==
    walk.pc = "done" /\ ~lost => stable \subseteq ToSet(walk.got)

============================================================================
