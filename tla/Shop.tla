-------------------------------- MODULE Shop --------------------------------
(***************************************************************************)
(* Products, carts and orders: CartRepository, OrderService, ProductService *)
(* and what the settlement of a payment does to a cart.                    *)
(*                                                                         *)
(* addItem reads the product before it opens its transaction, so a request *)
(* to add is two steps.  Its transaction, removeItem's, createOrder's and  *)
(* the settlement's are Serializable and write the cart or only add an     *)
(* order: each is one step, or aborts and changes nothing.  ProductService *)
(* issues single statements.                                               *)
(***************************************************************************)
EXTENDS Integers, FiniteSetsExt

CONSTANTS
    Users,
    Products,
    Orders,         \* the identifiers the database may hand out
    Adds,           \* POST /cart requests that may be in flight together
    NoUser,
    NoProduct,
    Prices,         \* prices products are given
    Stocks,         \* quantities products are given
    Quantities      \* quantities requests ask for: at least 1 (AddCartDto)

ASSUME NoneAssumption == NoUser \notin Users /\ NoProduct \notin Products
\* A table holds finitely many rows, whatever identifiers they have.
ASSUME FiniteAssumption == IsFiniteSet(Products)
ASSUME NumberAssumption ==
    /\ Prices \subseteq Nat
    /\ Stocks \subseteq Nat
    /\ Quantities \subseteq Nat \ {0}

VARIABLES
    product,        \* Product rows
    cart,           \* Cart rows: price is the stored total
    item,           \* CartItem rows by user and product; quantity 0: no row
    order,          \* Order rows with their items; status "NONE": no row yet
    add,            \* the POST /cart requests
    \* History variables: no action reads them.
    peak,           \* the largest quantity each product has had
    emptied         \* users whose cart a settlement emptied, until it changes

vars == << product, cart, item, order, add, peak, emptied >>
history == << peak, emptied >>

ProductRow == [live : BOOLEAN, price : Prices \cup {0}, quantity : Nat]
CartRow == [live : BOOLEAN, price : Nat]
ItemRow == [quantity : Nat, price : Prices \cup {0}]
OrderRow == [status : {"NONE", "PAYMENT_PENDING", "SHIPPING"},
             user : Users \cup {NoUser}, items : [Products -> ItemRow]]
AddState == [checked : BOOLEAN, user : Users \cup {NoUser},
             product : Products \cup {NoProduct}, quantity : Nat,
             price : Prices \cup {0}, stock : Nat]

NoAdd == [checked |-> FALSE, user |-> NoUser, product |-> NoProduct,
          quantity |-> 0, price |-> 0, stock |-> 0]
NoItem == [quantity |-> 0, price |-> 0]
NoItems == [p \in Products |-> NoItem]

Init ==
    /\ product = [p \in Products |->
                    [live |-> FALSE, price |-> 0, quantity |-> 0]]
    /\ cart = [u \in Users |-> [live |-> FALSE, price |-> 0]]
    /\ item = [u \in Users |-> NoItems]
    /\ order = [o \in Orders |->
                  [status |-> "NONE", user |-> NoUser, items |-> NoItems]]
    /\ add = [a \in Adds |-> NoAdd]
    /\ peak = [p \in Products |-> 0]
    /\ emptied = {}

----------------------------------------------------------------------------
(* Reading the rows. *)

HasItem(u, p) == item[u][p].quantity > 0
Empty(u) == \A p \in Products : ~HasItem(u, p)

\* The sum of price * quantity over some items: recalculatePrice, and the
\* amount of a payment.
Total(items) ==
    MapThenSumSet(LAMBDA p : items[p].price * items[p].quantity, Products)

OrderExists(o) == order[o].status # "NONE"

----------------------------------------------------------------------------
(* Products. *)

Raise(p, n) == peak' = [peak EXCEPT ![p] = IF n > peak[p] THEN n ELSE peak[p]]

CreateProduct(p) ==
    /\ ~product[p].live /\ peak[p] = 0      \* identifiers are not reused
    /\ \E c \in Prices, n \in Stocks :
          /\ product' = [product EXCEPT ![p] =
                [live |-> TRUE, price |-> c, quantity |-> n]]
          /\ Raise(p, n)
    /\ UNCHANGED << cart, item, order, add, emptied >>

\* A field that the body leaves out keeps its value; so does a price of "".
UpdateProduct(p) ==
    /\ product[p].live
    /\ \E c \in Prices \cup {product[p].price},
          n \in Stocks \cup {product[p].quantity} :
          /\ product' = [product EXCEPT ![p].price = c, ![p].quantity = n]
          /\ Raise(p, n)
    /\ UNCHANGED << cart, item, order, add, emptied >>

InSomeCart(p) == \E u \in Users : HasItem(u, p)
InSomeOrder(p) == \E o \in Orders : order[o].items[p].quantity > 0

\* Mutant: only the foreign key of CartItem restricts the deletion.
RestrictedByCarts(p) == InSomeCart(p)

\* The foreign keys of CartItem and OrderItem restrict the deletion.
Restricted(p) == InSomeCart(p) \/ InSomeOrder(p)

DeleteProduct(p) ==
    /\ product[p].live /\ ~Restricted(p)
    /\ product' = [product EXCEPT ![p].live = FALSE]
    /\ UNCHANGED << cart, item, order, add, history >>

----------------------------------------------------------------------------
(* Carts. *)

\* GET /cart creates a missing cart.
GetOrCreateCart(u) ==
    /\ cart' = [cart EXCEPT ![u].live = TRUE]
    /\ UNCHANGED << product, item, order, add, history >>

\* The product is looked up, and the request checked against its stock; a
\* request that fails the check is answered and changes nothing.
CheckProduct(a, u, p, n) ==
    /\ ~add[a].checked
    /\ product[p].live
    /\ product[p].quantity >= n
    /\ add' = [add EXCEPT ![a] =
          [checked |-> TRUE, user |-> u, product |-> p, quantity |-> n,
           price |-> product[p].price, stock |-> product[p].quantity]]
    /\ UNCHANGED << product, cart, item, order, history >>

Answer(a) == add' = [add EXCEPT ![a] = NoAdd]

RequestedTotal(a) ==
    item[add[a].user][add[a].product].quantity + add[a].quantity

\* Mutant: what is in the cart already is not counted.
FitsAlone(a) == add[a].quantity <= add[a].stock

Fits(a) == RequestedTotal(a) <= add[a].stock

\* Mutant: the price of the whole line is stored as the unit price.
RowWithLinePrice(a) == [quantity |-> RequestedTotal(a),
                        price |-> RequestedTotal(a) * add[a].price]

AddedRow(a) == [quantity |-> RequestedTotal(a), price |-> add[a].price]

\* Mutant: the total is left as it was.
KeepPrice(u, items) == cart[u].price

\* recalculatePrice, over the items as the transaction leaves them.
RecalculatedPrice(u, items) == Total(items)

WriteItem(u, p, row) ==
    LET items == [item[u] EXCEPT ![p] = row] IN
    /\ item' = [item EXCEPT ![u] = items]
    /\ cart' = [cart EXCEPT ![u] =
                  [live |-> TRUE, price |-> RecalculatedPrice(u, items)]]

\* A new row needs its product still there (foreign key); an existing one
\* keeps it there.
AddItem(a) ==
    LET u == add[a].user
        p == add[a].product
    IN
    /\ add[a].checked
    /\ Fits(a)
    /\ product[p].live
    /\ WriteItem(u, p, AddedRow(a))
    /\ Answer(a)
    /\ emptied' = emptied \ {u}
    /\ UNCHANGED << product, order, peak >>

\* The cart's upsert stays, for the transaction returns.
AddRefused(a) ==
    LET u == add[a].user IN
    /\ add[a].checked
    /\ ~Fits(a)
    /\ cart' = [cart EXCEPT ![u].live = TRUE]
    /\ Answer(a)
    /\ UNCHANGED << product, item, order, history >>

\* The transaction rolls back: the product is gone (P2003), a serialization
\* failure (P2034), or two upserts that meet (P2002).
AddFails(a) ==
    /\ add[a].checked
    /\ Answer(a)
    /\ UNCHANGED << product, cart, item, order, history >>

RemoveItem(u, p) ==
    /\ cart[u].live /\ HasItem(u, p)
    /\ WriteItem(u, p, NoItem)
    /\ emptied' = emptied \ {u}
    /\ UNCHANGED << product, order, add, peak >>

----------------------------------------------------------------------------
(* Orders. *)

\* Mutant: an order takes the products' current prices.
CurrentPrices(u) ==
    [p \in Products |-> [item[u][p] EXCEPT !.price =
        IF HasItem(u, p) THEN product[p].price ELSE 0]]

\* An order copies the cart's items at the cart's prices.
CopiedItems(u) == item[u]

CreateOrder(u, o) ==
    /\ ~OrderExists(o)
    /\ cart[u].live /\ ~Empty(u)
    /\ order' = [order EXCEPT ![o] =
          [status |-> "PAYMENT_PENDING", user |-> u, items |-> CopiedItems(u)]]
    /\ UNCHANGED << product, cart, item, add, history >>

\* A payment of order o succeeds: its user's cart items are deleted and the
\* order ships.  The order's status is not looked at, and neither the stock
\* nor the cart's price is touched.
Settle(o) ==
    LET u == order[o].user IN
    /\ OrderExists(o)
    /\ item' = [item EXCEPT ![u] = IF cart[u].live THEN NoItems ELSE item[u]]
    /\ order' = [order EXCEPT ![o].status = "SHIPPING"]
    /\ emptied' = emptied \cup {u}
    /\ UNCHANGED << product, cart, add, peak >>

Next ==
    \/ \E p \in Products : CreateProduct(p) \/ UpdateProduct(p) \/ DeleteProduct(p)
    \/ \E u \in Users : GetOrCreateCart(u)
    \/ \E a \in Adds, u \in Users, p \in Products, n \in Quantities :
          CheckProduct(a, u, p, n)
    \/ \E a \in Adds : AddItem(a) \/ AddRefused(a) \/ AddFails(a)
    \/ \E u \in Users, p \in Products : RemoveItem(u, p)
    \/ \E u \in Users, o \in Orders : CreateOrder(u, o)
    \/ \E o \in Orders : Settle(o)

Spec == Init /\ [][Next]_vars

----------------------------------------------------------------------------
\* Rows and requests are what the schema allows.
TypeOK ==
    /\ product \in [Products -> ProductRow]
    /\ cart \in [Users -> CartRow]
    /\ item \in [Users -> [Products -> ItemRow]]
    /\ order \in [Orders -> OrderRow]
    /\ add \in [Adds -> AddState]
    /\ peak \in [Products -> Nat]
    /\ emptied \subseteq Users

\* The stored total of a cart is that of its items, through every interleaving
\* of additions, removals, orders and price changes, except for a cart that a
\* settlement left without items: that one shows the paid total until its next
\* change.
CartPriceIsTotal ==
    \A u \in Users : IF u \in emptied THEN Empty(u)
                     ELSE cart[u].price = Total(item[u])

\* A cart never holds more of a product than the product ever had, even when
\* several requests that were checked alone add to it together.
CartWithinPeak ==
    \A u \in Users, p \in Products : item[u][p].quantity <= peak[p]

\* A product in a cart or in an order exists: no request that found it before
\* its deletion brings it back.
ItemsHaveProducts ==
    \A p \in Products : InSomeCart(p) \/ InSomeOrder(p) => product[p].live

\* What an order will charge is the total the cart showed when it was placed,
\* whatever happened to the products' prices since.
OrdersCostTheCartPrice ==
    [][\A u \in Users, o \in Orders :
          CreateOrder(u, o) => Total(order'[o].items) = cart[u].price]_vars

\* "The service rejects [...] quantities above available stock.": an addition
\* leaves no more of a product in a cart than the product has.
AdditionsFitStock ==
    [][\A u \in Users, p \in Products :
          item'[u][p].quantity > item[u][p].quantity =>
             item'[u][p].quantity <= product[p].quantity]_vars

============================================================================
