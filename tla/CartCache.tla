----------------------------- MODULE CartCache -----------------------------
(***************************************************************************)
(* CartService's cached cart pages, for one user: every key contains the   *)
(* user's id, so users do not meet.                                        *)
(*                                                                         *)
(* A page is cached under the version that getCart read first; a change of *)
(* the cart rewrites the version after its commit, and pages of the old    *)
(* version are simply no longer asked for.  All entries are set with the   *)
(* one TTL of the cache module, so they expire in the order they were set. *)
(* What is cached is abstracted to the two revisions of the cart it shows:  *)
(* that of its total and that of its items, which are read by statements of *)
(* their own.  The products beside the items belong to no revision: a       *)
(* product's update invalidates no page.                                   *)
(***************************************************************************)
EXTENDS Naturals

CONSTANTS
    Readers,        \* GET /cart requests, each served once
    Writers,        \* changes of the cart: add, remove, a settled payment
    Pages,          \* what a request may ask for: a limit and a cursor
    First           \* the version '1', read where there is no version entry

ASSUME FirstAssumption == First \notin Writers

\* invalidateUserCartCache writes a fresh UUID: the writer's own name.
Versions == Writers \cup {First}

VARIABLES
    rev,            \* revision of the cart's rows: changes committed so far
    version,        \* the cart-version entry and when it was set (0: absent)
    page,           \* the page entries: revisions shown and when set
    clock,          \* entries set so far
    reader,         \* the GET requests
    writer,         \* the changes
    \* History variables: no action reads them.
    answered,       \* latest revision whose request was answered
    behind,         \* readers in flight since before the last rewrite
    late            \* readers that stored a page of version '1' though the
                    \* version entry had been rewritten behind them

vars == << rev, version, page, clock, reader, writer, answered, behind, late >>
history == << answered, behind, late >>

\* The revisions a page shows: of Cart.price, and of the items.
Shown == [total : Nat, items : Nat]
NoPage == [total |-> 0, items |-> 0]

Entry(S) == [val : S, at : Nat]
Absent(x) == [val |-> x, at |-> 0]

ReaderState == [pc : {"new", "lookup", "read", "items", "store", "done",
                      "failed"},
                ver : Versions, page : Pages, got : Shown,
                floor : Nat]        \* history: answered, when it arrived
WriterState == [pc : {"new", "invalidate", "done", "failed"}, rev : Nat]

Init ==
    /\ rev = 0
    /\ version = Absent(First)
    /\ page = [v \in Versions |-> [p \in Pages |-> Absent(NoPage)]]
    /\ clock = 0
    /\ \E ask \in [Readers -> Pages] :
          reader = [r \in Readers |->
             [pc |-> "new", ver |-> First, page |-> ask[r], got |-> NoPage,
              floor |-> 0]]
    /\ writer = [w \in Writers |-> [pc |-> "new", rev |-> 0]]
    /\ answered = 0
    /\ behind = {}
    /\ late = {}

----------------------------------------------------------------------------
(* GET /cart. *)

ReaderAt(r, pc) == reader[r].pc = pc
InFlight(r) == reader[r].pc \in {"lookup", "read", "items", "store"}

\* A request that has ended keeps its answer.
End(r, pc, got) ==
    /\ reader' = [reader EXCEPT ![r].pc = pc, ![r].ver = First, ![r].got = got]
    /\ behind' = behind \ {r}

\* Mutant: `?? '1'` is missing.
VersionWithoutDefault == IF version.at > 0 THEN version.val ELSE "undefined"

\* The entry's value, or '1' where there is none.
CurrentVersion == version.val

GetVersion(r) ==
    /\ ReaderAt(r, "new")
    /\ reader' = [reader EXCEPT ![r].pc = "lookup", ![r].ver = CurrentVersion,
                                ![r].floor = answered]
    /\ UNCHANGED << rev, version, page, clock, writer, history >>

\* Mutant: the version is read again when the key is built.
KeyVersionNow(r) == CurrentVersion

\* buildCacheKey: the version read at the start, whatever it is by now.
KeyVersion(r) == reader[r].ver

Cached(r) == page[KeyVersion(r)][reader[r].page]

GetPage(r) ==
    /\ ReaderAt(r, "lookup")
    /\ \/ /\ Cached(r).at > 0
          /\ End(r, "done", Cached(r).val)
       \/ /\ Cached(r).at = 0
          /\ reader' = [reader EXCEPT ![r].pc = "read"]
          /\ UNCHANGED behind
    /\ UNCHANGED << rev, version, page, clock, writer, answered, late >>

\* getOrCreatePage's upsert finds or creates the cart and selects its price, and
\* a nested read selects the items: statements at Read Committed, between which
\* changes commit.  A cart created here is empty, as no cart is.
ReadCart(r) ==
    /\ ReaderAt(r, "read")
    /\ reader' = [reader EXCEPT ![r].pc = "items",
                                ![r].got = [total |-> rev, items |-> 0]]
    /\ UNCHANGED << rev, version, page, clock, writer, history >>

ReadItems(r) ==
    /\ ReaderAt(r, "items")
    /\ reader' = [reader EXCEPT ![r].pc = "store",
                                ![r].got = [total |-> @.total, items |-> rev]]
    /\ UNCHANGED << rev, version, page, clock, writer, history >>

\* The page is stored, and returned unless the request fails after all.
StorePage(r) ==
    /\ ReaderAt(r, "store")
    /\ clock' = clock + 1
    /\ page' = [page EXCEPT ![KeyVersion(r)][reader[r].page] =
                  [val |-> reader[r].got, at |-> clock']]
    /\ End(r, "done", reader[r].got) \/ End(r, "failed", NoPage)
    /\ late' = IF reader[r].ver = First /\ r \in behind
               THEN late \cup {r} ELSE late
    /\ UNCHANGED << rev, version, writer, answered >>

\* Redis or PostgreSQL does not answer, two first reads collide in the upsert,
\* or the process dies.
ReaderFails(r) ==
    /\ InFlight(r)
    /\ End(r, "failed", NoPage)
    /\ UNCHANGED << rev, version, page, clock, writer, answered, late >>

----------------------------------------------------------------------------
(* Changes of the cart. *)

WriterAt(w, pc) == writer[w].pc = pc

\* addItem, removeItem or the settlement commits.
Commit(w) ==
    /\ WriterAt(w, "new")
    /\ rev' = rev + 1
    /\ writer' = [writer EXCEPT ![w] = [pc |-> "invalidate", rev |-> rev']]
    /\ UNCHANGED << version, page, clock, reader, history >>

\* Mutant: the entry is deleted instead of rewritten.
DropVersion(w) == version' = Absent(First)

WriteVersion(w) == version' = [val |-> w, at |-> clock + 1]

\* invalidateUserCartCache, then the answer, unless it is lost.
Invalidate(w) ==
    /\ WriterAt(w, "invalidate")
    /\ clock' = clock + 1
    /\ WriteVersion(w)
    /\ behind' = {r \in Readers : InFlight(r)}
    /\ \/ /\ writer' = [writer EXCEPT ![w].pc = "done"]
          /\ answered' = IF writer[w].rev > answered THEN writer[w].rev
                         ELSE answered
       \/ /\ writer' = [writer EXCEPT ![w].pc = "failed"]
          /\ UNCHANGED answered
    /\ UNCHANGED << rev, page, reader, late >>

\* The change is committed and the version is not written: Redis refuses, or
\* the process dies.
WriterFails(w) ==
    /\ WriterAt(w, "invalidate")
    /\ writer' = [writer EXCEPT ![w].pc = "failed"]
    /\ UNCHANGED << rev, version, page, clock, reader, history >>

----------------------------------------------------------------------------
(* The TTL.  Of the entries that are there, the one set first expires. *)

PageSet(v, p) == page[v][p].at > 0

ExpireVersion ==
    /\ version.at > 0
    /\ \A v \in Versions, p \in Pages :
          PageSet(v, p) => page[v][p].at > version.at
    /\ version' = Absent(First)
    /\ UNCHANGED << rev, page, clock, reader, writer, history >>

ExpirePage(v, p) ==
    /\ PageSet(v, p)
    /\ version.at > 0 => version.at > page[v][p].at
    /\ \A x \in Versions, q \in Pages :
          PageSet(x, q) => page[x][q].at >= page[v][p].at
    /\ page' = [page EXCEPT ![v][p] = Absent(NoPage)]
    /\ UNCHANGED << rev, version, clock, reader, writer, history >>

Next ==
    \/ \E r \in Readers : \/ GetVersion(r) \/ GetPage(r) \/ ReadCart(r)
                          \/ ReadItems(r) \/ StorePage(r) \/ ReaderFails(r)
    \/ \E w \in Writers : Commit(w) \/ Invalidate(w) \/ WriterFails(w)
    \/ ExpireVersion
    \/ \E v \in Versions, p \in Pages : ExpirePage(v, p)

Spec == Init /\ [][Next]_vars

----------------------------------------------------------------------------
\* Entries, requests and history are well formed.
TypeOK ==
    /\ rev \in Nat /\ clock \in Nat /\ answered \in Nat
    /\ version \in Entry(Versions)
    /\ page \in [Versions -> [Pages -> Entry(Shown)]]
    /\ reader \in [Readers -> ReaderState]
    /\ writer \in [Writers -> WriterState]
    /\ behind \subseteq Readers /\ late \subseteq Readers

\* The total and the items are no older than revision n.
NotBefore(n, pg) == pg.total >= n /\ pg.items >= n

\* A page cached under the version a change wrote shows that change, in its
\* total and in its items: a reader that read either before the commit stores
\* them under an older version.
PagesShowTheirVersion ==
    \A w \in Writers, p \in Pages :
       PageSet(w, p) => NotBefore(writer[w].rev, page[w][p].val)

\* A GET that arrives after a change was answered shows that change.
ReadsAnswered(r) ==
    ReaderAt(r, "done") => NotBefore(reader[r].floor, reader[r].got)

\* An answered change is seen by every later GET, however versions expire,
\* unless some reader stored a page of version '1' behind a rewritten version:
\* expiry in order lets no other old page outlive the version that hides it.
StaleOnlyBehindLateStore == late = {} => \A r \in Readers : ReadsAnswered(r)

ReadState(r) ==
    IF ReaderAt(r, "new") THEN "new"
    ELSE IF ReaderAt(r, "done") THEN "shown"
    ELSE IF ReaderAt(r, "failed") THEN "failed" ELSE "open"

Reads == INSTANCE CartReads WITH
    state <- [r \in Readers |-> ReadState(r)],
    floor <- [r \in Readers |-> reader[r].floor],
    shown <- [r \in Readers |->
                 IF ReaderAt(r, "done") THEN reader[r].got ELSE NoPage],
    spoiled <- late # {}

\* The cached GET behaves like one without a cache that may lag behind the rows
\* but not behind what was answered before it arrived: its total and its items
\* are each as some change left them, the items perhaps as a later one.
ReadsKept == Reads!Spec

\* "Cart changes recalculate the total and invalidate cached cart pages.": a
\* page from before an answered change is not served after it.
InvalidatedForGood == \A r \in Readers : ReadsAnswered(r)

============================================================================
