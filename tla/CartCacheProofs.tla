--------------------------- MODULE CartCacheProofs ---------------------------
(***************************************************************************)
(* Theorems about CartCache, for any number of requests, changes and pages: *)
(* a cached page shows the change whose version it is stored under, and an  *)
(* answered change is seen by every later GET unless a page of version '1' *)
(* was stored behind a rewritten version.                                  *)
(***************************************************************************)
EXTENDS CartCache, TLAPS

\* Times and revisions never run ahead of the clock and the cart.
Clocks ==
    /\ answered <= rev
    /\ \A w \in Writers : writer[w].rev <= rev
    /\ version.at <= clock
    /\ \A v \in Versions, p \in Pages : page[v][p].at <= clock
    /\ \A r \in Readers : reader[r].floor <= answered

\* A change's version is known to others only once the change has written it.
Written(v) == v \in Writers => writer[v].pc \in {"done", "failed"}

VersionsAreWritten ==
    /\ IF version.at > 0 THEN version.val \in Writers ELSE version.val = First
    /\ Written(version.val)
    /\ \A v \in Versions, p \in Pages : PageSet(v, p) => Written(v)
    /\ \A r \in Readers : Written(reader[r].ver)

\* A reader that has the total of the page it is to store.  The invariants are
\* about totals: the items of a page are read after its total.
Storing(r, v) == reader[r].pc \in {"items", "store"} /\ reader[r].ver = v

\* What is about to be stored shows the change whose version it is stored under.
StoresShowTheirVersion ==
    \A r \in Readers, w \in Writers :
       Storing(r, w) => reader[r].got.total >= writer[w].rev

\* And so does what is stored.
TotalsShowTheirVersion ==
    \A w \in Writers, p \in Pages :
       PageSet(w, p) => page[w][p].val.total >= writer[w].rev

\* Nothing older than the last answered change is, or is about to be, stored
\* under the current version.
CurrentIsFresh ==
    version.at > 0 =>
       /\ \A p \in Pages : PageSet(version.val, p) =>
             page[version.val][p].val.total >= answered
       /\ \A r \in Readers :
             Storing(r, version.val) => reader[r].got.total >= answered

\* The same of version '1', of what was stored since the version was rewritten;
\* once that version has expired, of everything: it outlives what was set before.
FirstIsFresh ==
    /\ \A p \in Pages : PageSet(First, p) /\ page[First][p].at > version.at =>
          page[First][p].val.total >= answered
    /\ \A r \in Readers \ behind :
          Storing(r, First) => reader[r].got.total >= answered

\* What a reader may find under its version shows what was answered before it.
LookupsFindFresh ==
    \A r \in Readers : ReaderAt(r, "lookup") =>
       /\ \A p \in Pages : PageSet(reader[r].ver, p) =>
             page[reader[r].ver][p].val.total >= reader[r].floor
       /\ reader[r].ver \in Writers => \A q \in Readers :
             Storing(q, reader[r].ver) => reader[q].got.total >= reader[r].floor

\* So does what it has read.
ReadsFresh ==
    \A r \in Readers : reader[r].pc \in {"items", "store", "done"} =>
       reader[r].got.total >= reader[r].floor

Fresh == CurrentIsFresh /\ FirstIsFresh /\ LookupsFindFresh /\ ReadsFresh

IInv ==
    /\ TypeOK
    /\ Clocks
    /\ VersionsAreWritten
    /\ StoresShowTheirVersion
    /\ TotalsShowTheirVersion
    /\ late = {} => Fresh

\* An unused cache satisfies the invariant.
LEMMA InitIInv == Init => IInv
  <1> SUFFICES ASSUME Init PROVE IInv
    OBVIOUS
  <1>1. TypeOK
    BY DEF Init, TypeOK, Absent, Entry, Versions, ReaderState, WriterState,
           Shown, NoPage
  <1>2. Clocks /\ VersionsAreWritten
    BY FirstAssumption
       DEF Init, Clocks, VersionsAreWritten, Written, Absent, PageSet
  <1>3. StoresShowTheirVersion /\ TotalsShowTheirVersion
    BY DEF Init, StoresShowTheirVersion, TotalsShowTheirVersion, Storing, Absent,
           PageSet, Versions
  <1>4. Fresh
    BY DEF Init, Fresh, CurrentIsFresh, FirstIsFresh, LookupsFindFresh,
           ReadsFresh, Storing, ReaderAt, Absent, PageSet, Versions
  <1> QED BY <1>1, <1>2, <1>3, <1>4 DEF IInv

----------------------------------------------------------------------------
(* Steps of a reader. *)

\* What a request that ends leaves behind.
LEMMA EndFacts ==
  ASSUME TypeOK, NEW r \in Readers, NEW pc \in {"done", "failed"},
         NEW got \in Shown, End(r, pc, got)
  PROVE  /\ reader' \in [Readers -> ReaderState]
         /\ behind' = behind \ {r} /\ behind' \subseteq Readers
         /\ reader'[r].pc = pc /\ reader'[r].ver = First
         /\ reader'[r].got = got /\ reader'[r].floor = reader[r].floor
         /\ \A q \in Readers : q # r => reader'[q] = reader[q]
  <1>1. First \in Versions
    BY DEF Versions
  <1> QED BY <1>1 DEF TypeOK, End, ReaderState

\* A request that ends without storing leaves the cache as it is: only its own
\* answer has to be fresh.
LEMMA EndStep ==
  ASSUME IInv, NEW r \in Readers, NEW pc \in {"done", "failed"},
         NEW got \in Shown, End(r, pc, got),
         UNCHANGED << rev, version, page, clock, writer, answered, late >>,
         late = {} /\ pc = "done" => got.total >= reader[r].floor
  PROVE  IInv'
  <1>1. /\ reader' \in [Readers -> ReaderState]
        /\ behind' = behind \ {r} /\ behind' \subseteq Readers
        /\ reader'[r].pc = pc /\ reader'[r].ver = First
        /\ reader'[r].got = got /\ reader'[r].floor = reader[r].floor
        /\ \A q \in Readers : q # r => reader'[q] = reader[q]
    BY EndFacts DEF IInv
  <1>2. TypeOK'
    BY <1>1 DEF IInv, TypeOK
  <1>3. Clocks'
    BY <1>1 DEF IInv, Clocks
  <1>4. VersionsAreWritten'
    BY <1>1, FirstAssumption DEF IInv, VersionsAreWritten, Written, PageSet
  <1>5. ASSUME NEW q \in Readers, NEW v, Storing(q, v)'
        PROVE  q # r /\ Storing(q, v) /\ reader'[q] = reader[q]
    BY <1>1, <1>5 DEF Storing
  <1>6. StoresShowTheirVersion' /\ TotalsShowTheirVersion'
    BY <1>5 DEF IInv, StoresShowTheirVersion, TotalsShowTheirVersion, PageSet
  <1>7. ASSUME late = {}, Fresh PROVE Fresh'
    <2>1. CurrentIsFresh' /\ FirstIsFresh'
      BY <1>1, <1>5, <1>7 DEF Fresh, CurrentIsFresh, FirstIsFresh, PageSet
    <2>2. \A x \in Readers : ReaderAt(x, "lookup")' =>
             x # r /\ ReaderAt(x, "lookup") /\ reader'[x] = reader[x]
      BY <1>1 DEF ReaderAt
    <2>3. LookupsFindFresh'
      BY <1>5, <1>7, <2>2 DEF Fresh, LookupsFindFresh, PageSet
    <2>4. ReadsFresh'
      BY <1>1, <1>7 DEF Fresh, ReadsFresh
    <2> QED BY <2>1, <2>3, <2>4 DEF Fresh
  <1> QED BY <1>2, <1>3, <1>4, <1>6, <1>7 DEF IInv

\* The version read is that of a finished change, or '1'; what is cached under
\* it, or about to be, is no older than what was answered.
LEMMA GetVersionStep ==
  ASSUME IInv, NEW r \in Readers, GetVersion(r)
  PROVE  IInv'
  <1>1. /\ ReaderAt(r, "new")
        /\ reader' = [reader EXCEPT ![r].pc = "lookup", ![r].ver = version.val,
                                    ![r].floor = answered]
        /\ UNCHANGED << rev, version, page, clock, writer, answered, behind,
                        late >>
    BY DEF GetVersion, CurrentVersion, history
  <1>2. TypeOK'
    <2>1. version.val \in Versions /\ answered \in Nat
      BY DEF IInv, TypeOK, Entry
    <2>2. reader' \in [Readers -> ReaderState]
      BY <1>1, <2>1 DEF IInv, TypeOK, ReaderState
    <2> QED BY <1>1, <2>2 DEF IInv, TypeOK
  <1>3. /\ reader'[r].pc = "lookup" /\ reader'[r].ver = version.val
        /\ reader'[r].floor = answered
        /\ \A q \in Readers : q # r => reader'[q] = reader[q]
    BY <1>1 DEF IInv, TypeOK, ReaderState
  <1>4. Clocks'
    BY <1>1, <1>3 DEF IInv, TypeOK, Clocks
  <1>5. VersionsAreWritten'
    BY <1>1, <1>3 DEF IInv, VersionsAreWritten, Written, PageSet
  <1>s. ASSUME NEW q \in Readers, NEW v, Storing(q, v)'
        PROVE  Storing(q, v) /\ reader'[q] = reader[q]
    BY <1>3, <1>s DEF Storing
  <1>6. StoresShowTheirVersion' /\ TotalsShowTheirVersion'
    BY <1>1, <1>s DEF IInv, StoresShowTheirVersion, TotalsShowTheirVersion,
       PageSet
  <1>7. ASSUME Fresh PROVE Fresh'
    <2>1. CurrentIsFresh' /\ FirstIsFresh' /\ ReadsFresh'
      BY <1>1, <1>3, <1>7, <1>s DEF Fresh, CurrentIsFresh, FirstIsFresh,
         ReadsFresh, PageSet
    <2>2. /\ \A p \in Pages : PageSet(version.val, p) =>
                page[version.val][p].val.total >= answered
          /\ version.val \in Writers => \A q \in Readers :
                Storing(q, version.val) => reader[q].got.total >= answered
      <3>1. CASE version.at > 0
        BY <1>7, <3>1 DEF Fresh, CurrentIsFresh
      <3>2. CASE ~(version.at > 0)
        <4>1. version.val = First /\ version.at = 0
          BY <3>2 DEF IInv, VersionsAreWritten, TypeOK, Entry
        <4> QED BY <1>7, <4>1, FirstAssumption DEF Fresh, FirstIsFresh, PageSet
      <3> QED BY <3>1, <3>2
    <2>3. LookupsFindFresh'
      <3>1. ASSUME NEW x \in Readers, ReaderAt(x, "lookup")',
                   NEW v, reader'[x].ver = v
            PROVE  /\ \A p \in Pages : PageSet(v, p) =>
                         page[v][p].val.total >= reader'[x].floor
                   /\ v \in Writers => \A q \in Readers :
                         Storing(q, v)' => reader'[q].got.total >= reader'[x].floor
        <4>1. CASE x = r
          BY <1>3, <1>s, <2>2, <3>1, <4>1
        <4>2. CASE x # r
          <5>1. ReaderAt(x, "lookup") /\ reader'[x] = reader[x]
            BY <1>3, <3>1, <4>2 DEF ReaderAt
          <5> QED BY <1>7, <1>s, <3>1, <5>1 DEF Fresh, LookupsFindFresh
        <4> QED BY <4>1, <4>2
      <3> QED BY <1>1, <3>1 DEF LookupsFindFresh, PageSet, Storing, ReaderAt
    <2> QED BY <2>1, <2>3 DEF Fresh
  <1> QED BY <1>1, <1>2, <1>4, <1>5, <1>6, <1>7 DEF IInv

\* A page that is found shows what was answered before its reader came.
LEMMA GetPageStep ==
  ASSUME IInv, NEW r \in Readers, GetPage(r)
  PROVE  IInv'
  <1> DEFINE v == reader[r].ver
             p == reader[r].page
  <1>1. /\ ReaderAt(r, "lookup")
        /\ \/ page[v][p].at > 0 /\ End(r, "done", page[v][p].val)
           \/ /\ reader' = [reader EXCEPT ![r].pc = "read"]
              /\ UNCHANGED behind
        /\ UNCHANGED << rev, version, page, clock, writer, answered, late >>
    BY DEF GetPage, Cached, KeyVersion
  <1>2. v \in Versions /\ p \in Pages
    BY DEF IInv, TypeOK, ReaderState
  <1>3. page[v][p].val \in Shown
    BY <1>2 DEF IInv, TypeOK, Entry
  <1>4. CASE page[v][p].at > 0 /\ End(r, "done", page[v][p].val)
    <2>1. late = {} => page[v][p].val.total >= reader[r].floor
      BY <1>1, <1>2, <1>4 DEF IInv, Fresh, LookupsFindFresh, PageSet
    <2> QED BY <1>1, <1>3, <1>4, <2>1, EndStep
  <1>5. CASE /\ reader' = [reader EXCEPT ![r].pc = "read"]
             /\ UNCHANGED behind
    <2>1. /\ reader' \in [Readers -> ReaderState]
          /\ \A q \in Readers : /\ reader'[q].ver = reader[q].ver
                                /\ reader'[q].got = reader[q].got
                                /\ reader'[q].floor = reader[q].floor
                                /\ q # r => reader'[q].pc = reader[q].pc
          /\ reader'[r].pc = "read"
      BY <1>5 DEF IInv, TypeOK, ReaderState
    <2>2. TypeOK' /\ Clocks' /\ VersionsAreWritten'
      BY <1>1, <1>5, <2>1 DEF IInv, TypeOK, Clocks, VersionsAreWritten, Written,
         PageSet
    <2>3. StoresShowTheirVersion' /\ TotalsShowTheirVersion'
      BY <1>1, <2>1 DEF IInv, StoresShowTheirVersion, TotalsShowTheirVersion,
         Storing, PageSet
    <2>4. ASSUME Fresh PROVE Fresh'
      BY <1>1, <1>5, <2>1, <2>4 DEF Fresh, CurrentIsFresh, FirstIsFresh,
         LookupsFindFresh, ReadsFresh, Storing, ReaderAt, PageSet
    <2> QED BY <1>1, <2>2, <2>3, <2>4 DEF IInv
  <1> QED BY <1>1, <1>4, <1>5

\* The cart's total shows every change that was answered.
LEMMA ReadCartStep ==
  ASSUME IInv, NEW r \in Readers, ReadCart(r)
  PROVE  IInv'
  <1>1. /\ ReaderAt(r, "read")
        /\ reader' = [reader EXCEPT ![r].pc = "items",
                                    ![r].got = [total |-> rev, items |-> 0]]
        /\ UNCHANGED << rev, version, page, clock, writer, answered, behind,
                        late >>
    BY DEF ReadCart, history
  <1>2. reader' \in [Readers -> ReaderState]
    BY <1>1 DEF IInv, TypeOK, ReaderState, Shown
  <1>3. /\ reader'[r].pc = "items" /\ reader'[r].got.total = rev
        /\ reader'[r].ver = reader[r].ver
        /\ reader'[r].floor = reader[r].floor
        /\ \A q \in Readers : q # r => reader'[q] = reader[q]
    BY <1>1 DEF IInv, TypeOK, ReaderState, Shown
  <1>4. TypeOK' /\ Clocks'
    BY <1>1, <1>2, <1>3 DEF IInv, TypeOK, Clocks
  <1>5. VersionsAreWritten'
    BY <1>1, <1>3 DEF IInv, VersionsAreWritten, Written, PageSet
  <1>6. StoresShowTheirVersion' /\ TotalsShowTheirVersion'
    BY <1>1, <1>3 DEF IInv, Clocks, StoresShowTheirVersion,
       TotalsShowTheirVersion, Storing, PageSet
  <1>7. /\ rev >= answered
        /\ \A q \in Readers : rev >= reader[q].floor
    BY DEF IInv, TypeOK, Clocks, ReaderState
  <1>8. ASSUME Fresh PROVE Fresh'
    <2>1. CurrentIsFresh' /\ FirstIsFresh' /\ ReadsFresh'
      BY <1>1, <1>3, <1>7, <1>8 DEF Fresh, CurrentIsFresh, FirstIsFresh,
         ReadsFresh, Storing, PageSet
    <2>2. LookupsFindFresh'
      <3>1. \A x \in Readers : ReaderAt(x, "lookup")' =>
               ReaderAt(x, "lookup") /\ reader'[x] = reader[x]
        BY <1>3 DEF ReaderAt
      <3>2. \A q \in Readers, v \in Writers : Storing(q, v)' =>
               \/ Storing(q, v) /\ reader'[q] = reader[q]
               \/ reader'[q].got.total = rev
        BY <1>3 DEF Storing
      <3> QED BY <1>1, <1>7, <1>8, <3>1, <3>2 DEF Fresh, LookupsFindFresh,
                 PageSet
    <2> QED BY <2>1, <2>2 DEF Fresh
  <1> QED BY <1>1, <1>4, <1>5, <1>6, <1>8 DEF IInv

\* Reading the items leaves the total as it was read.
LEMMA ReadItemsStep ==
  ASSUME IInv, NEW r \in Readers, ReadItems(r)
  PROVE  IInv'
  <1>1. /\ ReaderAt(r, "items")
        /\ reader' = [reader EXCEPT ![r].pc = "store",
                         ![r].got = [total |-> @.total, items |-> rev]]
        /\ UNCHANGED << rev, version, page, clock, writer, answered, behind,
                        late >>
    BY DEF ReadItems, history
  <1>2. reader' \in [Readers -> ReaderState]
    BY <1>1 DEF IInv, TypeOK, ReaderState, Shown
  <1>3. /\ reader'[r].pc = "store" /\ reader[r].pc = "items"
        /\ \A q \in Readers : /\ reader'[q].got.total = reader[q].got.total
                              /\ reader'[q].ver = reader[q].ver
                              /\ reader'[q].floor = reader[q].floor
                              /\ q # r => reader'[q].pc = reader[q].pc
    BY <1>1 DEF IInv, TypeOK, ReaderState, Shown, ReaderAt
  <1>4. TypeOK' /\ Clocks'
    BY <1>1, <1>2, <1>3 DEF IInv, TypeOK, Clocks
  <1>5. VersionsAreWritten'
    BY <1>1, <1>3 DEF IInv, VersionsAreWritten, Written, PageSet
  <1>6. StoresShowTheirVersion' /\ TotalsShowTheirVersion'
    BY <1>1, <1>3 DEF IInv, StoresShowTheirVersion, TotalsShowTheirVersion,
       Storing, PageSet
  <1>7. ASSUME Fresh PROVE Fresh'
    <2>1. CurrentIsFresh' /\ FirstIsFresh' /\ ReadsFresh'
      BY <1>1, <1>3, <1>7 DEF Fresh, CurrentIsFresh, FirstIsFresh, ReadsFresh,
         Storing, PageSet
    <2>2. \A q \in Readers, v \in Writers : Storing(q, v)' => Storing(q, v)
      BY <1>3 DEF Storing
    <2>3. \A x \in Readers : ReaderAt(x, "lookup")' => ReaderAt(x, "lookup")
      BY <1>3 DEF ReaderAt
    <2>4. LookupsFindFresh'
      BY <1>1, <1>3, <1>7, <2>2, <2>3 DEF Fresh, LookupsFindFresh, PageSet
    <2> QED BY <2>1, <2>4 DEF Fresh
  <1> QED BY <1>1, <1>4, <1>5, <1>6, <1>7 DEF IInv

\* A request that fails leaves the cache as it is.
LEMMA ReaderFailsStep ==
  ASSUME IInv, NEW r \in Readers, ReaderFails(r)
  PROVE  IInv'
  <1>1. NoPage \in Shown
    BY DEF NoPage, Shown
  <1> QED BY <1>1, EndStep DEF ReaderFails

\* A page stored under the current version, or under '1' while the version was
\* not rewritten, is fresh.
LEMMA StorePageStep ==
  ASSUME IInv, NEW r \in Readers, StorePage(r)
  PROVE  IInv'
  <1> DEFINE v == reader[r].ver
             p == reader[r].page
             got == reader[r].got
  <1>1. /\ ReaderAt(r, "store")
        /\ clock' = clock + 1
        /\ page' = [page EXCEPT ![v][p] = [val |-> got, at |-> clock + 1]]
        /\ late' = IF v = First /\ r \in behind THEN late \cup {r} ELSE late
        /\ UNCHANGED << rev, version, writer, answered >>
    BY DEF StorePage, KeyVersion
  <1>2. PICK pc \in {"done", "failed"}, ans \in {got, NoPage} :
           End(r, pc, ans) /\ (pc = "done" => ans = got)
    BY DEF StorePage
  <1>4. /\ v \in Versions /\ p \in Pages /\ got \in Shown /\ ans \in Shown
        /\ got.total \in Nat /\ clock \in Nat /\ answered \in Nat
        /\ reader[r].floor \in Nat
        /\ page \in [Versions -> [Pages -> Entry(Shown)]]
    BY DEF IInv, TypeOK, ReaderState, Shown, NoPage
  <1>5. /\ page'[v][p].val = got /\ page'[v][p].at = clock + 1
        /\ \A x \in Versions, q \in Pages :
              ~(x = v /\ q = p) => page'[x][q] = page[x][q]
    BY <1>1, <1>4 DEF Entry
  <1>6. page' \in [Versions -> [Pages -> Entry(Shown)]]
    BY <1>1, <1>4 DEF Entry
  <1>7. /\ reader' \in [Readers -> ReaderState]
        /\ behind' = behind \ {r} /\ behind' \subseteq Readers
        /\ reader'[r].pc = pc /\ reader'[r].ver = First
        /\ reader'[r].got = ans /\ reader'[r].floor = reader[r].floor
        /\ \A q \in Readers : q # r => reader'[q] = reader[q]
    BY <1>2, <1>4, EndFacts DEF IInv
  <1>8. TypeOK'
    BY <1>1, <1>4, <1>6, <1>7 DEF IInv, TypeOK
  <1>9. Storing(r, v) /\ v = reader[r].ver
    BY <1>1 DEF Storing, ReaderAt
  <1>e. got = reader[r].got
    OBVIOUS
  <1> HIDE DEF v, p, got
  <1>10. \A x \in Versions, q \in Pages :
            page[x][q].at \in Nat /\ page[x][q].at <= clock
    BY DEF IInv, Clocks, TypeOK, Entry
  <1>11. Clocks'
    <2>1. \A x \in Versions, q \in Pages : page'[x][q].at <= clock'
      BY <1>1, <1>4, <1>5, <1>10
    <2>2. version.at \in Nat /\ version.at <= clock
      BY DEF IInv, Clocks, TypeOK, Entry
    <2>3. \A q \in Readers : reader'[q].floor <= answered'
      BY <1>1, <1>7 DEF IInv, Clocks
    <2> QED BY <1>1, <1>4, <2>1, <2>2, <2>3 DEF IInv, Clocks
  <1>12. VersionsAreWritten'
    <2>1. Written(v)
      BY <1>9 DEF IInv, VersionsAreWritten
    <2>2. \A x \in Versions, q \in Pages : PageSet(x, q)' => Written(x)
      BY <1>5, <2>1 DEF IInv, VersionsAreWritten, PageSet
    <2>3. \A q \in Readers : Written(reader'[q].ver)
      BY <1>7, FirstAssumption DEF IInv, VersionsAreWritten, Written
    <2> QED BY <1>1, <2>2, <2>3 DEF IInv, VersionsAreWritten, Written
  <1>s. ASSUME NEW q \in Readers, NEW x, Storing(q, x)'
        PROVE  q # r /\ Storing(q, x) /\ reader'[q] = reader[q]
    BY <1>7, <1>s DEF Storing
  <1>13. StoresShowTheirVersion'
    BY <1>1, <1>s DEF IInv, StoresShowTheirVersion
  <1>14. TotalsShowTheirVersion'
    <2>1. v \in Writers => got.total >= writer[v].rev
      BY <1>9, <1>e DEF IInv, StoresShowTheirVersion
    <2>2. Writers \subseteq Versions
      BY DEF Versions
    <2> QED BY <1>1, <1>5, <2>1, <2>2 DEF IInv, TotalsShowTheirVersion, PageSet
  <1>15. ASSUME late' = {}, Fresh PROVE Fresh'
    <2>2. v = First => got.total >= answered
      BY <1>1, <1>9, <1>15, <1>e DEF Fresh, FirstIsFresh
    <2>3. version.at > 0 /\ v = version.val => got.total >= answered
      BY <1>9, <1>15, <1>e DEF Fresh, CurrentIsFresh
    <2>5. CurrentIsFresh'
      <3>1. version.val \in Versions
        BY DEF IInv, TypeOK, Entry
      <3> QED BY <1>1, <1>5, <1>s, <1>15, <2>3, <3>1 DEF Fresh, CurrentIsFresh,
                 PageSet
    <2>6. FirstIsFresh'
      <3>1. First \in Versions
        BY DEF Versions
      <3> QED BY <1>1, <1>5, <1>7, <1>s, <1>15, <2>2, <3>1
                 DEF Fresh, FirstIsFresh, PageSet
    <2>8. LookupsFindFresh'
      <3>1. ASSUME NEW x \in Readers, ReaderAt(x, "lookup"), reader[x].ver = v
            PROVE  got.total >= reader[x].floor
        <4>1. CASE v \in Writers
          BY <1>9, <1>15, <1>e, <3>1, <4>1 DEF Fresh, LookupsFindFresh
        <4>2. CASE v = First
          <5>1. reader[x].floor <= answered /\ reader[x].floor \in Nat
            BY DEF IInv, Clocks, TypeOK, ReaderState
          <5> QED BY <1>4, <2>2, <4>2, <5>1
        <4> QED BY <1>4, <4>1, <4>2 DEF Versions
      <3>2. ASSUME NEW x \in Readers, ReaderAt(x, "lookup")'
            PROVE  /\ ReaderAt(x, "lookup") /\ reader'[x] = reader[x]
                   /\ reader[x].ver \in Versions
        BY <1>7, <3>2 DEF ReaderAt, IInv, TypeOK, ReaderState
      <3>3. ASSUME NEW x \in Readers, ReaderAt(x, "lookup")', NEW q \in Pages,
                   page'[reader[x].ver][q].at > 0
            PROVE  page'[reader[x].ver][q].val.total >= reader[x].floor
        BY <1>5, <1>15, <3>1, <3>2, <3>3 DEF Fresh, LookupsFindFresh, PageSet
      <3>4. ASSUME NEW x \in Readers, ReaderAt(x, "lookup")', NEW q \in Readers,
                   reader[x].ver \in Writers, reader'[q].pc \in {"items", "store"},
                   reader'[q].ver = reader[x].ver
            PROVE  reader'[q].got.total >= reader[x].floor
        <4>1. reader'[q] = reader[q] /\ Storing(q, reader[x].ver)
          BY <1>7, <3>4 DEF Storing
        <4> QED BY <1>15, <3>2, <3>4, <4>1 DEF Fresh, LookupsFindFresh
      <3> QED BY <3>2, <3>3, <3>4 DEF LookupsFindFresh, Storing, PageSet
    <2>9. ReadsFresh'
      BY <1>1, <1>2, <1>7, <1>15, <1>e DEF Fresh, ReadsFresh, ReaderAt
    <2> QED BY <2>5, <2>6, <2>8, <2>9 DEF Fresh
  <1>16. late' = {} => late = {}
    BY <1>1
  <1> QED BY <1>8, <1>11, <1>12, <1>13, <1>14, <1>15, <1>16 DEF IInv

----------------------------------------------------------------------------
(* Steps of a change. *)

\* A commit is nobody's version yet.
LEMMA CommitStep ==
  ASSUME IInv, NEW w \in Writers, Commit(w)
  PROVE  IInv'
  <1>1. /\ WriterAt(w, "new") /\ rev' = rev + 1
        /\ writer' = [writer EXCEPT ![w] = [pc |-> "invalidate", rev |-> rev + 1]]
        /\ UNCHANGED << version, page, clock, reader, answered, behind, late >>
    BY DEF Commit, history
  <1>2. rev \in Nat /\ answered \in Nat /\ writer \in [Writers -> WriterState]
    BY DEF IInv, TypeOK
  <1>3. TypeOK'
    BY <1>1, <1>2 DEF IInv, TypeOK, WriterState
  <1>4. /\ writer'[w].rev = rev + 1
        /\ \A x \in Writers : x # w => writer'[x] = writer[x]
    BY <1>1, <1>2
  <1>5. Clocks'
    <2>1. \A x \in Writers : writer'[x].rev <= rev'
      BY <1>1, <1>2, <1>4 DEF IInv, Clocks, WriterState
    <2> QED BY <1>1, <1>2, <2>1 DEF IInv, Clocks
  <1>6. \A v : Written(v) => v # w /\ Written(v)'
    BY <1>1, <1>4 DEF Written, WriterAt
  <1>7. VersionsAreWritten'
    BY <1>1, <1>6 DEF IInv, VersionsAreWritten, PageSet
  <1>8. StoresShowTheirVersion' /\ TotalsShowTheirVersion'
    <2>1. /\ \A r \in Readers : reader[r].ver # w
          /\ \A p \in Pages : ~PageSet(w, p)
      BY <1>6 DEF IInv, VersionsAreWritten, Versions
    <2> QED BY <1>1, <1>4, <2>1 DEF IInv, StoresShowTheirVersion,
               TotalsShowTheirVersion, Storing, PageSet
  <1>9. ASSUME Fresh PROVE Fresh'
    BY <1>1, <1>9 DEF Fresh, CurrentIsFresh, FirstIsFresh, LookupsFindFresh, ReadsFresh, Storing, ReaderAt, PageSet
  <1> QED BY <1>1, <1>3, <1>5, <1>7, <1>8, <1>9 DEF IInv

\* A version that is written is new: nothing is stored under it, and what is
\* stored under '1' is older than it.
LEMMA InvalidateStep ==
  ASSUME IInv, NEW w \in Writers, Invalidate(w)
  PROVE  IInv'
  <1>1. /\ WriterAt(w, "invalidate") /\ clock' = clock + 1
        /\ version' = [val |-> w, at |-> clock + 1]
        /\ behind' = {r \in Readers : InFlight(r)}
        /\ UNCHANGED << rev, page, reader, late >>
    BY DEF Invalidate, WriteVersion
  <1>2. PICK pc \in {"done", "failed"} :
            /\ writer' = [writer EXCEPT ![w].pc = pc]
            /\ answered' \in {answered, writer[w].rev}
            /\ answered' >= answered
    BY DEF Invalidate, IInv, TypeOK, WriterState
  <1>3. /\ rev \in Nat /\ clock \in Nat /\ answered \in Nat /\ answered' \in Nat
        /\ answered' <= rev
        /\ writer \in [Writers -> WriterState]
    BY <1>2 DEF IInv, TypeOK, Clocks, WriterState
  <1>4. TypeOK'
    <2>1. writer' \in [Writers -> WriterState]
      BY <1>2, <1>3 DEF WriterState
    <2>2. version' \in Entry(Versions)
      BY <1>1, <1>3 DEF Entry, Versions
    <2> QED BY <1>1, <1>3, <2>1, <2>2 DEF IInv, TypeOK
  <1>5. /\ writer'[w].pc = pc
        /\ \A x \in Writers : /\ writer'[x].rev = writer[x].rev
                              /\ x # w => writer'[x] = writer[x]
    BY <1>2, <1>3 DEF WriterState
  <1>6. /\ \A r \in Readers : reader[r].ver # w
        /\ \A p \in Pages : ~PageSet(w, p)
    BY <1>1 DEF IInv, VersionsAreWritten, Versions, Written, WriterAt
  <1>7. Clocks'
    <2>1. \A v \in Versions, p \in Pages : page'[v][p].at <= clock'
      BY <1>1, <1>3 DEF IInv, Clocks, TypeOK, Entry
    <2>2. \A r \in Readers : reader'[r].floor <= answered'
      BY <1>1, <1>2, <1>3 DEF IInv, Clocks, TypeOK, ReaderState
    <2> QED BY <1>1, <1>3, <1>5, <2>1, <2>2 DEF IInv, Clocks
  <1>8. VersionsAreWritten'
    <2>1. \A v : Written(v) => Written(v)'
      BY <1>5 DEF Written
    <2>2. Written(w)'
      BY <1>5 DEF Written
    <2> QED BY <1>1, <1>3, <2>1, <2>2 DEF IInv, VersionsAreWritten, PageSet
  <1>9. StoresShowTheirVersion' /\ TotalsShowTheirVersion'
    BY <1>1, <1>5 DEF IInv, StoresShowTheirVersion, TotalsShowTheirVersion,
       Storing, PageSet
  <1>10. ASSUME Fresh PROVE Fresh'
    <2>1. CurrentIsFresh'
      BY <1>1, <1>6 DEF CurrentIsFresh, Storing, PageSet
    <2>2. FirstIsFresh'
      <3>1. \A p \in Pages : ~(page[First][p].at > clock + 1)
        BY <1>3 DEF IInv, Clocks, TypeOK, Entry, Versions
      <3>2. \A r \in Readers \ behind' : ~Storing(r, First)'
        BY <1>1 DEF InFlight, Storing
      <3> QED BY <1>1, <3>1, <3>2 DEF FirstIsFresh
    <2>4. LookupsFindFresh' /\ ReadsFresh'
      BY <1>1, <1>10 DEF Fresh, LookupsFindFresh, ReadsFresh, Storing, ReaderAt,
         PageSet
    <2> QED BY <2>1, <2>2, <2>4 DEF Fresh
  <1> QED BY <1>1, <1>4, <1>7, <1>8, <1>9, <1>10 DEF IInv

\* A change whose version is not written changes nothing else.
LEMMA WriterFailsStep ==
  ASSUME IInv, NEW w \in Writers, WriterFails(w)
  PROVE  IInv'
  <1>1. /\ writer' = [writer EXCEPT ![w].pc = "failed"]
        /\ UNCHANGED << rev, version, page, clock, reader, answered, behind,
                        late >>
    BY DEF WriterFails, history
  <1>2. writer \in [Writers -> WriterState]
    BY DEF IInv, TypeOK
  <1>3. TypeOK'
    BY <1>1, <1>2 DEF IInv, TypeOK, WriterState
  <1>4. /\ writer'[w].pc = "failed"
        /\ \A x \in Writers : /\ writer'[x].rev = writer[x].rev
                              /\ x # w => writer'[x] = writer[x]
    BY <1>1, <1>2 DEF WriterState
  <1>5. Clocks'
    BY <1>1, <1>4 DEF IInv, Clocks
  <1>6. \A v : Written(v) => Written(v)'
    BY <1>4 DEF Written
  <1>7. VersionsAreWritten'
    BY <1>1, <1>6 DEF IInv, VersionsAreWritten, PageSet
  <1>8. StoresShowTheirVersion' /\ TotalsShowTheirVersion'
    BY <1>1, <1>4 DEF IInv, StoresShowTheirVersion, TotalsShowTheirVersion,
       Storing, PageSet
  <1>9. ASSUME Fresh PROVE Fresh'
    BY <1>1, <1>9 DEF Fresh, CurrentIsFresh, FirstIsFresh, LookupsFindFresh, ReadsFresh, Storing, ReaderAt, PageSet
  <1> QED BY <1>1, <1>3, <1>5, <1>7, <1>8, <1>9 DEF IInv

----------------------------------------------------------------------------
(* Expiry. *)

\* A version expires after every page that was set before it.
LEMMA ExpireVersionStep ==
  ASSUME IInv, ExpireVersion
  PROVE  IInv'
  <1>1. /\ version.at > 0
        /\ \A v \in Versions, p \in Pages :
              PageSet(v, p) => page[v][p].at > version.at
        /\ version' = [val |-> First, at |-> 0]
        /\ UNCHANGED << rev, page, clock, reader, writer, answered, behind,
                        late >>
    BY DEF ExpireVersion, Absent, history
  <1>2. TypeOK'
    BY <1>1 DEF IInv, TypeOK, Entry, Versions
  <1>3. Clocks'
    BY <1>1 DEF IInv, TypeOK, Clocks
  <1>4. VersionsAreWritten'
    BY <1>1, FirstAssumption DEF IInv, VersionsAreWritten, Written, PageSet
  <1>5. StoresShowTheirVersion' /\ TotalsShowTheirVersion'
    BY <1>1 DEF IInv, StoresShowTheirVersion, TotalsShowTheirVersion, Storing,
       PageSet
  <1>6. ASSUME Fresh PROVE Fresh'
    <2>1. CurrentIsFresh'
      BY <1>1 DEF CurrentIsFresh
    <2>2. LookupsFindFresh' /\ ReadsFresh'
      BY <1>1, <1>6 DEF Fresh, LookupsFindFresh, ReadsFresh, Storing, ReaderAt,
         PageSet
    <2>3. FirstIsFresh'
      <3>1. First \in Versions
        BY DEF Versions
      <3> QED BY <1>1, <1>6, <3>1 DEF Fresh, FirstIsFresh, Storing, PageSet
    <2> QED BY <2>1, <2>2, <2>3 DEF Fresh
  <1> QED BY <1>1, <1>2, <1>3, <1>4, <1>5, <1>6 DEF IInv

\* A page that expires takes nothing with it.
LEMMA ExpirePageStep ==
  ASSUME IInv, NEW v \in Versions, NEW p \in Pages, ExpirePage(v, p)
  PROVE  IInv'
  <1>1. /\ page' = [page EXCEPT ![v][p] = [val |-> NoPage, at |-> 0]]
        /\ UNCHANGED << rev, version, clock, reader, writer, answered, behind,
                        late >>
    BY DEF ExpirePage, Absent, history
  <1>2. page \in [Versions -> [Pages -> Entry(Shown)]]
    BY DEF IInv, TypeOK
  <1>3. TypeOK'
    BY <1>1, <1>2 DEF IInv, TypeOK, Entry, NoPage, Shown
  <1>4. \A x \in Versions, q \in Pages :
           \/ page'[x][q] = page[x][q]
           \/ page'[x][q].at = 0
    BY <1>1, <1>2
  <1>5. \A x \in Versions, q \in Pages :
           PageSet(x, q)' => PageSet(x, q) /\ page'[x][q] = page[x][q]
    BY <1>4 DEF PageSet
  <1>6. Clocks'
    BY <1>1, <1>4 DEF IInv, Clocks, TypeOK
  <1>7. VersionsAreWritten'
    BY <1>1, <1>5 DEF IInv, VersionsAreWritten, Written
  <1>8. StoresShowTheirVersion' /\ TotalsShowTheirVersion'
    BY <1>1, <1>5 DEF IInv, StoresShowTheirVersion, TotalsShowTheirVersion,
       Storing, Versions
  <1>9. ASSUME Fresh PROVE Fresh'
    <2>1. /\ First \in Versions /\ version.val \in Versions
          /\ \A r \in Readers : reader[r].ver \in Versions
      BY DEF Versions, IInv, TypeOK, Entry, ReaderState
    <2>2. CurrentIsFresh' /\ FirstIsFresh' /\ ReadsFresh'
      BY <1>1, <1>5, <1>9, <2>1 DEF Fresh, CurrentIsFresh, FirstIsFresh,
         ReadsFresh, Storing, ReaderAt
    <2>3. LookupsFindFresh'
      BY <1>1, <1>5, <1>9, <2>1 DEF Fresh, LookupsFindFresh, Storing, ReaderAt
    <2> QED BY <2>2, <2>3 DEF Fresh
  <1> QED BY <1>1, <1>3, <1>6, <1>7, <1>8, <1>9 DEF IInv

----------------------------------------------------------------------------
\* A step that changes nothing preserves the invariant.
LEMMA StutterStep == ASSUME IInv, UNCHANGED vars PROVE IInv'
  <1>1. /\ TypeOK' /\ Clocks' /\ VersionsAreWritten'
        /\ StoresShowTheirVersion' /\ TotalsShowTheirVersion'
    BY DEF vars, IInv, TypeOK, Clocks, VersionsAreWritten, Written,
       StoresShowTheirVersion, TotalsShowTheirVersion, Storing, PageSet
  <1>2. ASSUME Fresh PROVE Fresh'
    BY <1>2 DEF vars, Fresh, CurrentIsFresh, FirstIsFresh, LookupsFindFresh,
       ReadsFresh, Storing, ReaderAt, PageSet
  <1> QED BY <1>1, <1>2 DEF vars, IInv

\* Every step preserves the invariant.
LEMMA StepIInv == IInv /\ [Next]_vars => IInv'
  BY GetVersionStep, GetPageStep, ReadCartStep, ReadItemsStep, StorePageStep,
     ReaderFailsStep, CommitStep, InvalidateStep, WriterFailsStep, ExpireVersionStep,
     ExpirePageStep, StutterStep DEF Next

\* The inductive invariant holds in every reachable state.
THEOREM Coherence == Spec => []IInv
  BY InitIInv, StepIInv, PTL DEF Spec

\* Entries, requests and history keep their types.
THEOREM TypeCorrect == Spec => []TypeOK
  <1>1. IInv => TypeOK
    BY DEF IInv
  <1> QED BY <1>1, Coherence, PTL

----------------------------------------------------------------------------
(* Totals and items. *)

\* Items are read after the total they are shown with, and neither is read or
\* cached before it is committed.
Within ==
    /\ \A r \in Readers :
          /\ reader[r].got.total <= rev /\ reader[r].got.items <= rev
          /\ ReaderAt(r, "items") \/ reader[r].got.total <= reader[r].got.items
    /\ \A v \in Versions, p \in Pages :
          /\ page[v][p].val.total <= page[v][p].val.items
          /\ page[v][p].val.items <= rev

\* The cart only grows older.
LEMMA RevGrows ==
  ASSUME IInv, [Next]_vars
  PROVE  rev \in Nat /\ rev' \in Nat /\ rev <= rev'
  <1>1. rev \in Nat
    BY DEF IInv, TypeOK
  <1>2. CASE \E w \in Writers : Commit(w)
    BY <1>1, <1>2 DEF Commit
  <1>3. CASE UNCHANGED rev
    BY <1>1, <1>3
  <1> QED BY <1>2, <1>3
          DEF Next, vars, GetVersion, GetPage, ReadCart, ReadItems, StorePage,
              ReaderFails, Invalidate, WriterFails, ExpireVersion, ExpirePage

\* What a reader holds is what it held, what it has just read, what it found in
\* the cache, or nothing.
LEMMA HeldStep ==
  ASSUME IInv, Within, [Next]_vars, NEW r \in Readers
  PROVE  /\ reader'[r].got.total <= rev /\ reader'[r].got.items <= rev
         /\ ReaderAt(r, "items")' \/ reader'[r].got.total <= reader'[r].got.items
  <1>1. /\ TypeOK /\ rev \in Nat /\ reader \in [Readers -> ReaderState]
        /\ page \in [Versions -> [Pages -> Entry(Shown)]]
    BY DEF IInv, TypeOK
  <1>2. CASE UNCHANGED reader
    BY <1>2 DEF Within, ReaderAt
  <1>3. ASSUME NEW x \in Readers, NEW pc \in {"done", "failed"},
               NEW got \in Shown, End(x, pc, got),
               got.total <= got.items /\ got.items <= rev
        PROVE  /\ reader'[r].got.total <= rev /\ reader'[r].got.items <= rev
               /\ \/ ReaderAt(r, "items")'
                  \/ reader'[r].got.total <= reader'[r].got.items
    <2>1. /\ reader'[x].got = got
          /\ \A q \in Readers : q # x => reader'[q] = reader[q]
      BY <1>1, <1>3, EndFacts
    <2>2. got.total \in Nat /\ got.items \in Nat
      BY DEF Shown
    <2>3. got.total <= rev
      BY <1>1, <1>3, <2>2
    <2> QED BY <1>3, <2>1, <2>3 DEF Within, ReaderAt
  <1>4. NoPage \in Shown /\ NoPage.total <= NoPage.items /\ NoPage.items <= rev
    BY <1>1 DEF NoPage, Shown
  <1>5. ASSUME NEW x \in Readers, GetVersion(x)
        PROVE  /\ reader'[r].got = reader[r].got
               /\ ReaderAt(r, "items") => ReaderAt(r, "items")'
    BY <1>1, <1>5 DEF GetVersion, ReaderState, ReaderAt
  <1>6. ASSUME NEW x \in Readers, GetPage(x)
        PROVE  /\ reader'[r].got.total <= rev /\ reader'[r].got.items <= rev
               /\ \/ ReaderAt(r, "items")'
                  \/ reader'[r].got.total <= reader'[r].got.items
    <2>1. reader[x].ver \in Versions /\ reader[x].page \in Pages
      BY <1>1 DEF ReaderState
    <2> DEFINE val == Cached(x).val
    <2>2. val \in Shown /\ val.total <= val.items /\ val.items <= rev
      BY <1>1, <2>1 DEF Within, Entry, Cached, KeyVersion
    <2> HIDE DEF val
    <2>3. CASE End(x, "done", val)
      BY <1>3, <2>2, <2>3
    <2>4. CASE reader' = [reader EXCEPT ![x].pc = "read"] /\ ReaderAt(x, "lookup")
      <3>1. /\ reader'[r].got = reader[r].got
            /\ ReaderAt(r, "items") => ReaderAt(r, "items")'
        BY <1>1, <2>4 DEF ReaderState, ReaderAt
      <3> QED BY <3>1 DEF Within
    <2> QED BY <1>6, <2>3, <2>4 DEF GetPage, val
  <1>7. ASSUME NEW x \in Readers, ReadCart(x)
        PROVE  /\ reader'[r].got.total <= rev /\ reader'[r].got.items <= rev
               /\ \/ ReaderAt(r, "items")'
                  \/ reader'[r].got.total <= reader'[r].got.items
    <2>1. /\ reader'[x].got.total = rev /\ reader'[x].pc = "items"
          /\ reader'[x].got.items = reader[x].got.items
          /\ \A q \in Readers : q # x => reader'[q] = reader[q]
      BY <1>1, <1>7 DEF ReadCart, ReaderState, Shown
    <2> QED BY <1>1, <2>1 DEF Within, ReaderAt
  <1>8. ASSUME NEW x \in Readers, ReadItems(x)
        PROVE  /\ reader'[r].got.total <= rev /\ reader'[r].got.items <= rev
               /\ \/ ReaderAt(r, "items")'
                  \/ reader'[r].got.total <= reader'[r].got.items
    <2>1. /\ reader'[x].got.items = rev
          /\ reader'[x].got.total = reader[x].got.total
          /\ \A q \in Readers : q # x => reader'[q] = reader[q]
      BY <1>1, <1>8 DEF ReadItems, ReaderState, Shown
    <2> QED BY <1>1, <2>1 DEF Within, ReaderAt
  <1>9. ASSUME NEW x \in Readers, StorePage(x)
        PROVE  /\ reader'[r].got.total <= rev /\ reader'[r].got.items <= rev
               /\ \/ ReaderAt(r, "items")'
                  \/ reader'[r].got.total <= reader'[r].got.items
    <2> DEFINE val == reader[x].got
    <2>1. val \in Shown /\ val.total <= val.items /\ val.items <= rev
      BY <1>1, <1>9 DEF Within, StorePage, ReaderAt, ReaderState
    <2> HIDE DEF val
    <2>2. End(x, "done", val) \/ End(x, "failed", NoPage)
      BY <1>9 DEF StorePage, val
    <2> QED BY <1>3, <1>4, <2>1, <2>2
  <1>10. CASE \E x \in Readers : ReaderFails(x)
    BY <1>3, <1>4, <1>10 DEF ReaderFails
  <1> QED BY <1>2, <1>5, <1>6, <1>7, <1>8, <1>9, <1>10
          DEF Next, vars, Within, Commit, Invalidate, WriterFails, ExpireVersion,
              ExpirePage

\* What is stored is what its reader holds.
LEMMA CachedStep ==
  ASSUME IInv, Within, [Next]_vars, NEW v \in Versions, NEW p \in Pages
  PROVE  /\ page'[v][p].val.total <= page'[v][p].val.items
         /\ page'[v][p].val.items <= rev
  <1>1. /\ rev \in Nat /\ reader \in [Readers -> ReaderState]
        /\ page \in [Versions -> [Pages -> Entry(Shown)]]
    BY DEF IInv, TypeOK
  <1>2. CASE UNCHANGED page
    BY <1>2 DEF Within
  <1>3. ASSUME NEW x \in Readers, StorePage(x)
        PROVE  page'[v][p].val \in {page[v][p].val, reader[x].got}
    BY <1>1, <1>3 DEF StorePage, KeyVersion, ReaderState, Entry
  <1>4. ASSUME NEW x \in Readers, StorePage(x)
        PROVE  /\ reader[x].got.total <= reader[x].got.items
               /\ reader[x].got.items <= rev
    BY <1>4 DEF StorePage, Within, ReaderAt
  <1>5. ASSUME NEW x \in Versions, NEW q \in Pages, ExpirePage(x, q)
        PROVE  page'[v][p].val \in {page[v][p].val, NoPage}
    BY <1>1, <1>5 DEF ExpirePage, Absent, Entry
  <1>6. NoPage.total <= NoPage.items /\ NoPage.items <= rev
    BY <1>1 DEF NoPage
  <1> QED BY <1>2, <1>3, <1>4, <1>5, <1>6
          DEF Within, Next, vars, GetVersion, GetPage, ReadCart, ReadItems,
              ReaderFails, Commit, Invalidate, WriterFails, ExpireVersion

LEMMA WithinStep ==
  ASSUME IInv, Within, [Next]_vars
  PROVE  Within'
  <1>1. /\ rev \in Nat /\ rev' \in Nat /\ rev <= rev' /\ IInv'
    BY RevGrows, StepIInv
  <1>2. ASSUME NEW r \in Readers
        PROVE  /\ reader'[r].got.total \in Nat /\ reader'[r].got.items \in Nat
    BY <1>1 DEF IInv, TypeOK, ReaderState, Shown
  <1>3. ASSUME NEW v \in Versions, NEW p \in Pages
        PROVE  page'[v][p].val.items \in Nat
    BY <1>1 DEF IInv, TypeOK, Entry, Shown
  <1>4. ASSUME NEW n \in Nat, n <= rev PROVE n <= rev'
    BY <1>1, <1>4
  <1>5. ASSUME NEW r \in Readers
        PROVE  /\ reader'[r].got.total <= rev' /\ reader'[r].got.items <= rev'
               /\ \/ ReaderAt(r, "items")'
                  \/ reader'[r].got.total <= reader'[r].got.items
    BY <1>2, <1>4, HeldStep
  <1>6. ASSUME NEW v \in Versions, NEW p \in Pages
        PROVE  /\ page'[v][p].val.total <= page'[v][p].val.items
               /\ page'[v][p].val.items <= rev'
    BY <1>3, <1>4, CachedStep
  <1> QED BY <1>5, <1>6 DEF Within

THEOREM ItemsFollowTotals == Spec => []Within
  <1>1. Init => Within
    BY DEF Init, Within, Absent, NoPage
  <1> QED BY <1>1, WithinStep, Coherence, PTL DEF Spec

\* getCart never caches, under the version a change wrote, a page with a total
\* or with items from before that change.
THEOREM PagesCurrent == Spec => []PagesShowTheirVersion
  <1>1. IInv /\ Within => PagesShowTheirVersion
    <2> SUFFICES ASSUME IInv, Within, NEW w \in Writers, NEW p \in Pages,
                        PageSet(w, p)
                 PROVE  NotBefore(writer[w].rev, page[w][p].val)
      BY DEF PagesShowTheirVersion
    <2>1. /\ page[w][p].val.total \in Nat /\ page[w][p].val.items \in Nat
          /\ writer[w].rev \in Nat /\ w \in Versions
      BY DEF IInv, TypeOK, Entry, Shown, WriterState, Versions
    <2>2. /\ page[w][p].val.total >= writer[w].rev
          /\ page[w][p].val.total <= page[w][p].val.items
      BY <2>1 DEF IInv, TotalsShowTheirVersion, Within
    <2> QED BY <2>1, <2>2 DEF NotBefore
  <1> QED BY <1>1, Coherence, ItemsFollowTotals, PTL

\* getCart serves a page from before an answered change only after some request
\* stored one of version '1' behind a rewritten version.
THEOREM StaleNeedsLateStore == Spec => []StaleOnlyBehindLateStore
  <1>1. IInv /\ Within => StaleOnlyBehindLateStore
    <2> SUFFICES ASSUME IInv, Within, late = {}, NEW r \in Readers,
                        ReaderAt(r, "done")
                 PROVE  NotBefore(reader[r].floor, reader[r].got)
      BY DEF StaleOnlyBehindLateStore, ReadsAnswered
    <2>1. /\ reader[r].got.total \in Nat /\ reader[r].got.items \in Nat
          /\ reader[r].floor \in Nat
      BY DEF IInv, TypeOK, ReaderState, Shown
    <2>2. /\ reader[r].got.total >= reader[r].floor
          /\ reader[r].got.total <= reader[r].got.items
      BY DEF IInv, Fresh, ReadsFresh, Within, ReaderAt
    <2> QED BY <2>1, <2>2 DEF NotBefore
  <1> QED BY <1>1, Coherence, ItemsFollowTotals, PTL

----------------------------------------------------------------------------
(* The cached GET keeps the promise of CartReads. *)

StateFn == [r \in Readers |-> ReadState(r)]
FloorFn == [r \in Readers |-> reader[r].floor]
ShownFn == [r \in Readers |->
               IF ReaderAt(r, "done") THEN reader[r].got ELSE NoPage]
Spoiled == late # {}

\* A request that ends with an answer shows it, and one that ends without fails.
LEMMA EndMaps ==
  ASSUME IInv, Within, NEW r \in Readers, InFlight(r),
         NEW pc \in {"done", "failed"}, NEW got \in Shown, End(r, pc, got),
         UNCHANGED << rev, answered >>, late \subseteq late',
         pc = "done" => /\ got.total <= got.items /\ got.items <= rev
                        /\ late = {} => got.total >= reader[r].floor
  PROVE  Reads!Next
  <1>1. /\ reader'[r].pc = pc /\ reader'[r].got = got
        /\ reader'[r].floor = reader[r].floor
        /\ \A q \in Readers : q # r => reader'[q] = reader[q]
    BY EndFacts DEF IInv
  <1>2. StateFn[r] = "open" /\ ShownFn[r] = NoPage
    BY DEF InFlight, StateFn, ShownFn, ReadState, ReaderAt
  <1>3. UNCHANGED FloorFn
    BY <1>1 DEF FloorFn
  <1>4. Spoiled' \in {Spoiled, TRUE}
    BY Zenon DEF Spoiled
  <1>5. CASE pc = "done"
    <2>1. StateFn' = [StateFn EXCEPT ![r] = "shown"]
      BY <1>1, <1>5 DEF StateFn, ReadState, ReaderAt
    <2>2. ShownFn' = [ShownFn EXCEPT ![r] = got]
      BY <1>1, <1>5 DEF ShownFn, ReaderAt
    <2>3. /\ got.total \in 0 .. rev /\ got.items \in 0 .. rev
          /\ got.total <= got.items
          /\ got = [total |-> got.total, items |-> got.items]
      BY <1>5 DEF Shown, IInv, TypeOK
    <2>4. Spoiled \/ got.total >= FloorFn[r]
      BY <1>5 DEF Spoiled, FloorFn
    <2>5. \E m \in 0 .. rev, n \in 0 .. rev :
             /\ m <= n /\ (Spoiled \/ m >= FloorFn[r])
             /\ ShownFn' = [ShownFn EXCEPT ![r] = [total |-> m, items |-> n]]
      BY <2>2, <2>3, <2>4
    <2>6. Reads!Show(r)
      BY <1>2, <1>3, <1>4, <2>1, <2>5
         DEF Reads!Show, Reads!MaySpoil, StateFn, FloorFn, ShownFn, Spoiled
    <2> QED BY <2>6 DEF Reads!Next
  <1>6. CASE pc = "failed"
    <2>1. StateFn' = [StateFn EXCEPT ![r] = "failed"]
      BY <1>1, <1>6 DEF StateFn, ReadState, ReaderAt
    <2>2. UNCHANGED ShownFn
      BY <1>1, <1>2, <1>6 DEF ShownFn, ReaderAt
    <2>3. Reads!Fail(r)
      BY <1>2, <1>3, <1>4, <2>1, <2>2
         DEF Reads!Fail, Reads!MaySpoil, StateFn, FloorFn, ShownFn, Spoiled
    <2> QED BY <2>3 DEF Reads!Next
  <1> QED BY <1>5, <1>6

\* Nothing shows of a request that goes on.
LEMMA OpenMaps ==
  ASSUME IInv, NEW r \in Readers, InFlight(r), InFlight(r)',
         reader'[r].floor = reader[r].floor,
         \A q \in Readers : q # r => reader'[q] = reader[q],
         UNCHANGED << rev, answered, late >>
  PROVE  UNCHANGED Reads!readVars
  <1>1. UNCHANGED << StateFn, FloorFn, ShownFn >>
    BY DEF StateFn, FloorFn, ShownFn, ReadState, ReaderAt, InFlight
  <1> QED BY <1>1 DEF Reads!readVars, StateFn, FloorFn, ShownFn

\* Every step of a reader is one of CartReads, or a stutter.
LEMMA ReadMaps ==
  ASSUME IInv, Within, NEW r \in Readers,
         \/ GetVersion(r) \/ GetPage(r) \/ ReadCart(r) \/ ReadItems(r)
         \/ StorePage(r) \/ ReaderFails(r)
  PROVE  [Reads!Next]_(Reads!readVars)
  <1>0. /\ rev \in Nat
        /\ reader \in [Readers -> ReaderState] /\ reader[r] \in ReaderState
        /\ page \in [Versions -> [Pages -> Entry(Shown)]]
        /\ NoPage \in Shown
    BY DEF IInv, TypeOK, NoPage, Shown
  <1>1. CASE GetVersion(r)
    <2>1. /\ reader[r].pc = "new" /\ reader'[r].pc = "lookup"
          /\ reader'[r].floor = answered
          /\ \A q \in Readers : q # r => reader'[q] = reader[q]
          /\ UNCHANGED << rev, answered, late >>
      BY <1>0, <1>1 DEF GetVersion, ReaderAt, history, ReaderState
    <2>2. StateFn[r] = "new" /\ StateFn' = [StateFn EXCEPT ![r] = "open"]
      BY <2>1 DEF StateFn, ReadState, ReaderAt
    <2>3. FloorFn' = [FloorFn EXCEPT ![r] = answered] /\ UNCHANGED ShownFn
      BY <2>1 DEF FloorFn, ShownFn, ReaderAt
    <2>4. Reads!Arrive(r)
      BY <2>1, <2>2, <2>3 DEF Reads!Arrive, StateFn, FloorFn, ShownFn
    <2> QED BY <2>4 DEF Reads!Next
  <1>2. CASE GetPage(r)
    <2>1. /\ reader[r].ver \in Versions /\ reader[r].page \in Pages
          /\ ReaderAt(r, "lookup") /\ InFlight(r)
          /\ UNCHANGED << rev, answered, late >>
      BY <1>0, <1>2 DEF GetPage, ReaderState, InFlight, ReaderAt
    <2>2. CASE Cached(r).at > 0 /\ End(r, "done", Cached(r).val)
      <3>1. /\ Cached(r).val \in Shown
            /\ Cached(r).val.total <= Cached(r).val.items
            /\ Cached(r).val.items <= rev
        BY <1>0, <2>1 DEF Cached, KeyVersion, Entry, Within
      <3>2. late = {} => Cached(r).val.total >= reader[r].floor
        BY <2>1, <2>2 DEF Cached, KeyVersion, PageSet, IInv, Fresh,
           LookupsFindFresh
      <3> QED BY <2>1, <2>2, <3>1, <3>2, EndMaps
    <2>3. CASE reader' = [reader EXCEPT ![r].pc = "read"]
      <3>1. /\ reader'[r].pc = "read" /\ reader'[r].floor = reader[r].floor
            /\ \A q \in Readers : q # r => reader'[q] = reader[q]
        BY <1>0, <2>3 DEF ReaderState
      <3> QED BY <2>1, <3>1, OpenMaps DEF InFlight
    <2> QED BY <1>2, <2>2, <2>3 DEF GetPage
  <1>3. CASE ReadCart(r) \/ ReadItems(r)
    <2>1. /\ reader'[r].pc \in {"items", "store"}
          /\ reader'[r].floor = reader[r].floor
          /\ \A q \in Readers : q # r => reader'[q] = reader[q]
          /\ reader[r].pc \in {"read", "items"}
          /\ UNCHANGED << rev, answered, late >>
      BY <1>0, <1>3 DEF ReadCart, ReadItems, history, ReaderState, ReaderAt
    <2> QED BY <2>1, OpenMaps DEF InFlight
  <1>4. CASE StorePage(r)
    <2>1. /\ reader[r].pc = "store" /\ InFlight(r)
          /\ UNCHANGED << rev, answered >> /\ late \subseteq late'
      BY <1>4 DEF StorePage, ReaderAt, InFlight
    <2>2. /\ reader[r].got \in Shown
          /\ reader[r].got.total <= reader[r].got.items
          /\ reader[r].got.items <= rev
          /\ late = {} => reader[r].got.total >= reader[r].floor
      BY <1>0, <2>1 DEF ReaderState, Within, ReaderAt, IInv, Fresh, ReadsFresh
    <2>3. End(r, "done", reader[r].got) \/ End(r, "failed", NoPage)
      BY <1>4 DEF StorePage
    <2> QED BY <1>0, <2>1, <2>2, <2>3, EndMaps
  <1>5. CASE ReaderFails(r)
    BY <1>0, <1>5, EndMaps DEF ReaderFails
  <1> QED BY <1>1, <1>2, <1>3, <1>4, <1>5

\* So is every step of a change, and nothing of an expiry shows.
LEMMA StepReads ==
  ASSUME IInv, Within, [Next]_vars
  PROVE  [Reads!Next]_(Reads!readVars)
  <1>2. CASE UNCHANGED << reader, late >>
    <2>1. UNCHANGED << StateFn, FloorFn, ShownFn, Spoiled >>
      BY <1>2 DEF StateFn, FloorFn, ShownFn, Spoiled, ReadState, ReaderAt
    <2>2. CASE UNCHANGED << rev, answered >>
      BY <2>1, <2>2 DEF Reads!readVars, StateFn, FloorFn, ShownFn, Spoiled
    <2>3. CASE \E w \in Writers : Commit(w)
      <3>1. Reads!Change
        BY <2>1, <2>3
           DEF Reads!Change, Commit, history, StateFn, FloorFn, ShownFn, Spoiled
      <3> QED BY <3>1 DEF Reads!Next
    <2>4. CASE \E w \in Writers : Invalidate(w)
      <3>1. answered' \in answered .. rev /\ UNCHANGED rev
        BY <2>4 DEF Invalidate, IInv, TypeOK, Clocks, WriterState
      <3>2. Reads!Answer
        BY <2>1, <3>1 DEF Reads!Answer, StateFn, FloorFn, ShownFn, Spoiled
      <3> QED BY <3>2 DEF Reads!Next
    <2>5. CASE \E r \in Readers : \/ GetVersion(r) \/ GetPage(r) \/ ReadCart(r)
                                  \/ ReadItems(r) \/ StorePage(r)
                                  \/ ReaderFails(r)
      BY <2>5, ReadMaps
    <2> QED BY <2>2, <2>3, <2>4, <2>5
            DEF Next, vars, WriterFails, ExpireVersion, ExpirePage, history
  <1>3. CASE \E r \in Readers : \/ GetVersion(r) \/ GetPage(r) \/ ReadCart(r)
                                \/ ReadItems(r) \/ StorePage(r)
                                \/ ReaderFails(r)
    BY <1>3, ReadMaps
  <1> QED BY <1>2, <1>3 DEF Next, vars, Commit, Invalidate, WriterFails,
                 ExpireVersion, ExpirePage, history

\* GET /cart keeps what CartReads promises: its total, and the items it read
\* after it, are no older than the last change answered before the request,
\* unless a page of version '1' was stored behind a rewritten version.
THEOREM ReadsRefined == Spec => ReadsKept
  <1>1. Init => Reads!Init
    BY DEF Init, Reads!Init, ReadState, ReaderAt, NoPage
  <1>4. IInv /\ Within /\ [Next]_vars => [Reads!Next]_(Reads!readVars)
    BY StepReads
  <1> QED BY <1>1, <1>4, Coherence, ItemsFollowTotals, PTL
          DEF Spec, ReadsKept, Reads!Spec

==============================================================================
