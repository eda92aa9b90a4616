----------------------------- MODULE ShopProofs -----------------------------
(***************************************************************************)
(* Theorems about Shop and, in the second half, about Store, which extends  *)
(* it with the payments.  Rows keep their types, a stored total is that of *)
(* the items, and an order costs what the cart showed; no cart exceeds     *)
(* what a product ever had; no product is deleted under a cart or an order. *)
(***************************************************************************)
EXTENDS Store, SumProofs

----------------------------------------------------------------------------
(* The total of a cart is a sum. *)

Costs(items) == [p \in Products |-> items[p].price * items[p].quantity]

\* What one product adds to a total is a natural number.
LEMMA CostTypes ==
  ASSUME NEW items \in [Products -> ItemRow], NEW p \in Products
  PROVE  /\ Costs(items)[p] = items[p].price * items[p].quantity
         /\ Costs(items)[p] \in Nat
         /\ items[p].quantity = 0 => Costs(items)[p] = 0
  <1>1. items[p].price \in Prices \cup {0} /\ items[p].quantity \in Nat
    BY DEF ItemRow
  <1>2. \A c \in Prices \cup {0} : c \in Nat
    BY NumberAssumption
  <1>3. items[p].price \in Nat
    BY <1>1, <1>2
  <1> QED BY <1>1, <1>3 DEF Costs

\* The recursion that Total unfolds to is the sum of the costs.
LEMMA TotalIsSum ==
  ASSUME NEW items \in [Products -> ItemRow]
  PROVE  Total(items) = SumOf(Costs(items), Products)
  <1> DEFINE f == Costs(items)
             Cost(s) == items[Pick(s)].price * items[Pick(s)].quantity
             Body(g) == [s \in SUBSET Products |->
                           IF s = {} THEN 0 ELSE Cost(s) + g[s \ {Pick(s)}]]
  <1>1. f \in [Products -> Int]
    BY CostTypes DEF Costs
  <1>2. \A g : g = Body(g) <=> Sums(g, f, Products)
    <2>1. ASSUME NEW s \in SUBSET Products, s # {}
          PROVE  Cost(s) = f[Pick(s)]
      BY <2>1, PickIn, CostTypes
    <2> HIDE DEF f, Cost
    <2>2. ASSUME NEW g
          PROVE  Body(g) = [s \in SUBSET Products |->
                     IF s = {} THEN 0 ELSE f[Pick(s)] + g[s \ {Pick(s)}]]
      BY <2>1
    <2> HIDE DEF Body
    <2> QED BY <2>2 DEF Sums
  <1>3. Total(items) = (CHOOSE g : g = Body(g))[Products]
    BY DEF Total, MapThenSumSet, MapThenFoldSet, Pick
  <1> HIDE DEF f, Body
  <1>4. \E g : g = Body(g)
    BY <1>1, <1>2, SumsExist, FiniteAssumption
  <1>5. Sums(CHOOSE g : g = Body(g), f, Products)
    BY <1>2, <1>4
  <1> QED BY <1>1, <1>3, <1>5, SumsAreSum, FiniteAssumption DEF f

\* A total is a natural number, and that of no items is 0.
LEMMA TotalTypes ==
  ASSUME NEW items \in [Products -> ItemRow]
  PROVE  /\ Total(items) \in Nat
         /\ (\A p \in Products : items[p].quantity = 0) => Total(items) = 0
  <1>1. Costs(items) \in [Products -> Nat]
    BY CostTypes DEF Costs
  <1>2. /\ SumOf(Costs(items), Products) \in Nat
        /\ (\A p \in Products : Costs(items)[p] = 0)
              => SumOf(Costs(items), Products) = 0
    BY <1>1, SumOfNaturals, FiniteAssumption
  <1> QED BY <1>2, CostTypes, TotalIsSum

----------------------------------------------------------------------------
(* The invariant. *)

\* Items are in carts that exist, so that a settlement that looks for the cart
\* first leaves none behind.
ItemsNeedCart == \A u \in Users : ~Empty(u) => cart[u].live

\* What is in stock, and what a checked request believes to be, is no more than
\* the product ever had.
StockWithinPeak ==
    /\ \A p \in Products : product[p].quantity <= peak[p]
    /\ \A a \in Adds : add[a].checked =>
          /\ add[a].user \in Users
          /\ add[a].product \in Products
          /\ add[a].stock <= peak[add[a].product]

\* An order that exists is some user's, and one that does not has no items.
OrdersHaveUsers ==
    \A o \in Orders : IF OrderExists(o) THEN order[o].user \in Users
                      ELSE \A p \in Products : order[o].items[p].quantity = 0

IInv ==
    /\ TypeOK
    /\ ItemsNeedCart
    /\ CartPriceIsTotal
    /\ StockWithinPeak
    /\ OrdersHaveUsers
    /\ CartWithinPeak
    /\ ItemsHaveProducts

\* An empty shop satisfies the invariant.
LEMMA InitIInv == Init => IInv
  <1> SUFFICES ASSUME Init PROVE IInv
    OBVIOUS
  <1>1. TypeOK
    BY DEF Init, TypeOK, ProductRow, CartRow, ItemRow, OrderRow, AddState, NoAdd,
           NoItem, NoItems
  <1>2. CartPriceIsTotal
    <2>1. NoItems \in [Products -> ItemRow]
      BY DEF NoItems, NoItem, ItemRow
    <2>2. Total(NoItems) = 0
      BY <2>1, TotalTypes DEF NoItems, NoItem
    <2> QED BY <2>2 DEF Init, CartPriceIsTotal
  <1>4. ItemsNeedCart /\ CartWithinPeak /\ ItemsHaveProducts
    BY DEF Init, ItemsNeedCart, Empty, HasItem, CartWithinPeak,
           ItemsHaveProducts, InSomeCart, InSomeOrder, NoItems, NoItem
  <1>3. StockWithinPeak /\ OrdersHaveUsers
    BY DEF Init, StockWithinPeak, OrdersHaveUsers, OrderExists, NoAdd, NoItems,
           NoItem
  <1> QED BY <1>1, <1>2, <1>3, <1>4 DEF IInv

----------------------------------------------------------------------------
(* The products change. *)

\* A new highest stock keeps the old one below it.
LEMMA RaiseGrows ==
  ASSUME peak \in [Products -> Nat], NEW p \in Products, NEW n \in Nat,
         Raise(p, n)
  PROVE  /\ peak' \in [Products -> Nat]
         /\ n <= peak'[p]
         /\ \A q \in Products : peak[q] <= peak'[q]
  BY DEF Raise

\* A product that is created or changed, but not deleted, and whose highest stock
\* is kept, disturbs no cart and no order.
LEMMA ProductStep ==
  ASSUME IInv, NEW p \in Products, NEW c \in Prices \cup {0}, NEW n \in Nat,
         product' = [product EXCEPT ![p] =
                       [live |-> TRUE, price |-> c, quantity |-> n]],
         Raise(p, n), UNCHANGED << cart, item, order, add, emptied >>
  PROVE  IInv'
  <1>1. /\ peak' \in [Products -> Nat]
        /\ n <= peak'[p]
        /\ \A q \in Products : peak[q] <= peak'[q]
    BY RaiseGrows DEF IInv, TypeOK
  <1>2. TypeOK'
    BY <1>1 DEF IInv, TypeOK, ProductRow
  <1>3. ItemsNeedCart' /\ CartPriceIsTotal' /\ OrdersHaveUsers'
    BY DEF IInv, ItemsNeedCart, CartPriceIsTotal, Empty, HasItem, OrdersHaveUsers,
           OrderExists
  <1>4. ItemsHaveProducts'
    BY DEF IInv, TypeOK, ItemsHaveProducts, InSomeCart, InSomeOrder, HasItem
  <1>5. StockWithinPeak'
    <2>1. \A q \in Products : product'[q].quantity <= peak'[q]
      <3> SUFFICES ASSUME NEW q \in Products
                   PROVE  product'[q].quantity <= peak'[q]
        OBVIOUS
      <3>1. CASE q = p
        BY <1>1, <3>1 DEF IInv, TypeOK
      <3>2. CASE q # p
        <4>1. product'[q].quantity = product[q].quantity
          BY <3>2 DEF IInv, TypeOK
        <4>2. product[q].quantity <= peak[q] /\ peak[q] <= peak'[q]
          BY <1>1 DEF IInv, StockWithinPeak
        <4>3. product[q].quantity \in Nat /\ peak[q] \in Nat /\ peak'[q] \in Nat
          BY <1>1 DEF IInv, TypeOK, ProductRow
        <4> QED BY <4>1, <4>2, <4>3
      <3> QED BY <3>1, <3>2
    <2>2. ASSUME NEW a \in Adds, add[a].checked
          PROVE  add[a].stock <= peak'[add[a].product]
      <3>1. /\ add[a].stock \in Nat /\ add[a].product \in Products
            /\ add[a].stock <= peak[add[a].product]
        BY <2>2 DEF IInv, TypeOK, AddState, StockWithinPeak
      <3>2. /\ peak[add[a].product] \in Nat /\ peak'[add[a].product] \in Nat
            /\ peak[add[a].product] <= peak'[add[a].product]
        BY <1>1, <3>1 DEF IInv, TypeOK
      <3> QED BY <3>1, <3>2
    <2> QED BY <2>1, <2>2 DEF IInv, StockWithinPeak
  <1>6. CartWithinPeak'
    <2> SUFFICES ASSUME NEW u \in Users, NEW q \in Products
                 PROVE  item[u][q].quantity <= peak'[q]
      BY DEF CartWithinPeak
    <2>1. /\ item[u][q].quantity \in Nat
          /\ peak[q] \in Nat /\ peak'[q] \in Nat
      BY <1>1 DEF IInv, TypeOK, ItemRow
    <2>2. item[u][q].quantity <= peak[q] /\ peak[q] <= peak'[q]
      BY <1>1 DEF IInv, CartWithinPeak
    <2> QED BY <2>1, <2>2
  <1> QED BY <1>2, <1>3, <1>4, <1>5, <1>6 DEF IInv

\* No product is deleted under a cart or an order.
LEMMA DeleteStep ==
  ASSUME IInv, NEW p \in Products, DeleteProduct(p)
  PROVE  IInv'
  <1> USE DEF DeleteProduct, history
  <1>1. TypeOK'
    BY DEF IInv, TypeOK, ProductRow
  <1>2. /\ ItemsNeedCart' /\ CartPriceIsTotal'
        /\ OrdersHaveUsers' /\ CartWithinPeak'
    BY DEF IInv, ItemsNeedCart, CartPriceIsTotal, Empty, HasItem, OrdersHaveUsers,
           OrderExists, CartWithinPeak
  <1>3. ItemsHaveProducts'
    BY DEF IInv, TypeOK, ProductRow, ItemsHaveProducts, Restricted, InSomeCart,
           InSomeOrder, HasItem
  <1>4. StockWithinPeak'
    BY DEF IInv, TypeOK, ProductRow, StockWithinPeak
  <1> QED BY <1>1, <1>2, <1>3, <1>4 DEF IInv

----------------------------------------------------------------------------
(* The carts change. *)

\* Writing one item of a cart, within the highest stock of a product that is
\* there, and the cart's total with it.
LEMMA WriteItemStep ==
  ASSUME IInv, NEW u \in Users, NEW p \in Products, NEW row \in ItemRow,
         WriteItem(u, p, row),
         row.quantity <= peak[p],
         row.quantity > 0 => product[p].live,
         emptied' = emptied \ {u},
         UNCHANGED << product, order, peak >>
  PROVE  /\ cart' \in [Users -> CartRow]
         /\ item' \in [Users -> [Products -> ItemRow]]
         /\ ItemsNeedCart' /\ CartPriceIsTotal'
         /\ CartWithinPeak' /\ ItemsHaveProducts'
         /\ OrdersHaveUsers'
  <1> DEFINE items == [item[u] EXCEPT ![p] = row]
  <1>1. /\ item \in [Users -> [Products -> ItemRow]]
        /\ item' = [item EXCEPT ![u] = items]
        /\ cart' = [cart EXCEPT ![u] =
                      [live |-> TRUE, price |-> Total(items)]]
    BY DEF IInv, TypeOK, WriteItem, RecalculatedPrice
  <1>2. items \in [Products -> ItemRow]
    BY <1>1
  <1>3. item' \in [Users -> [Products -> ItemRow]]
    BY <1>1, <1>2
  <1>4. cart' \in [Users -> CartRow]
    <2>1. Total(items) \in Nat
      BY <1>2, TotalTypes
    <2> HIDE DEF items
    <2> QED BY <1>1, <2>1 DEF IInv, TypeOK, CartRow
  <1>5. ItemsNeedCart' /\ CartPriceIsTotal'
    <2> SUFFICES ASSUME NEW v \in Users
                 PROVE  /\ ~Empty(v)' => cart'[v].live
                        /\ IF v \in emptied' THEN Empty(v)'
                           ELSE cart'[v].price = Total(item'[v])
      BY DEF ItemsNeedCart, CartPriceIsTotal
    <2> HIDE DEF items
    <2>1. CASE v = u
      BY <1>1, <2>1 DEF IInv, TypeOK
    <2>2. CASE v # u
      <3>1. /\ item'[v] = item[v] /\ cart'[v] = cart[v]
            /\ v \in emptied' <=> v \in emptied
        BY <1>1, <2>2 DEF IInv, TypeOK
      <3>2. Empty(v)' <=> Empty(v)
        BY <3>1 DEF Empty, HasItem
      <3> QED BY <3>1, <3>2 DEF IInv, ItemsNeedCart, CartPriceIsTotal
    <2> QED BY <2>1, <2>2
  <1>6. CartWithinPeak'
    BY <1>1 DEF IInv, CartWithinPeak
  <1>7. ItemsHaveProducts'
    <2> SUFFICES ASSUME NEW q \in Products, (InSomeCart(q) \/ InSomeOrder(q))'
                 PROVE  product'[q].live
      BY DEF ItemsHaveProducts
    <2>1. CASE InSomeOrder(q)'
      BY <2>1 DEF IInv, ItemsHaveProducts, InSomeOrder
    <2>2. CASE InSomeCart(q)'
      <3>1. PICK v \in Users : item'[v][q].quantity > 0
        BY <2>2 DEF InSomeCart, HasItem
      <3>2. CASE v = u /\ q = p
        BY <1>1, <3>1, <3>2
      <3>3. CASE ~(v = u /\ q = p)
        <4>1. item[v][q].quantity > 0
          BY <1>1, <3>1, <3>3
        <4> QED BY <4>1 DEF IInv, ItemsHaveProducts, InSomeCart, HasItem
      <3> QED BY <3>2, <3>3
    <2> QED BY <2>1, <2>2
  <1>8. OrdersHaveUsers'
    BY DEF IInv, OrdersHaveUsers, OrderExists
  <1> QED BY <1>3, <1>4, <1>5, <1>6, <1>7, <1>8

\* An addition that fits what its request was told of the stock.
LEMMA AddStep ==
  ASSUME IInv, NEW a \in Adds, AddItem(a)
  PROVE  IInv'
  <1> DEFINE u == add[a].user
             p == add[a].product
  <1>1. /\ u \in Users /\ p \in Products
        /\ add[a].stock <= peak[p]
    BY DEF AddItem, IInv, StockWithinPeak
  <1>2. /\ add[a] \in AddState /\ peak[p] \in Nat
        /\ item[u][p] \in ItemRow
    BY <1>1 DEF IInv, TypeOK
  <1>3. AddedRow(a) \in ItemRow /\ AddedRow(a).quantity <= peak[p]
    BY <1>1, <1>2 DEF AddedRow, RequestedTotal, Fits, AddItem, ItemRow, AddState
  <1>4. WriteItem(u, p, AddedRow(a)) /\ product[p].live
    BY DEF AddItem
  <1>5. /\ UNCHANGED << product, order, peak >> /\ Answer(a)
        /\ emptied' = emptied \ {u}
    BY DEF AddItem
  <1>6. add' \in [Adds -> AddState] /\ StockWithinPeak'
    BY <1>5 DEF IInv, TypeOK, StockWithinPeak, Answer, NoAdd, AddState
  <1>7. /\ cart' \in [Users -> CartRow]
        /\ item' \in [Users -> [Products -> ItemRow]]
        /\ ItemsNeedCart' /\ CartPriceIsTotal'
        /\ CartWithinPeak' /\ ItemsHaveProducts'
        /\ OrdersHaveUsers'
    BY <1>1, <1>3, <1>4, <1>5, WriteItemStep
  <1> QED BY <1>5, <1>6, <1>7 DEF IInv, TypeOK

\* A removal recalculates the total too.
LEMMA RemoveStep ==
  ASSUME IInv, NEW u \in Users, NEW p \in Products, RemoveItem(u, p)
  PROVE  IInv'
  <1>1. /\ NoItem \in ItemRow /\ NoItem.quantity <= peak[p]
        /\ ~(NoItem.quantity > 0)
    BY DEF NoItem, ItemRow, IInv, TypeOK
  <1>2. /\ WriteItem(u, p, NoItem) /\ UNCHANGED << product, order, add, peak >>
        /\ emptied' = emptied \ {u}
    BY DEF RemoveItem
  <1>3. /\ cart' \in [Users -> CartRow]
        /\ item' \in [Users -> [Products -> ItemRow]]
        /\ ItemsNeedCart' /\ CartPriceIsTotal'
        /\ CartWithinPeak' /\ ItemsHaveProducts'
        /\ OrdersHaveUsers'
    BY <1>1, <1>2, WriteItemStep
  <1>4. StockWithinPeak'
    BY <1>2 DEF IInv, StockWithinPeak
  <1> QED BY <1>2, <1>3, <1>4 DEF IInv, TypeOK

\* A request is checked, refused or fails: at most a cart appears.
LEMMA RequestStep ==
  ASSUME IInv, UNCHANGED << product, item, order, peak, emptied >>,
         \/ \E a \in Adds, u \in Users, p \in Products, n \in Quantities :
               CheckProduct(a, u, p, n)
         \/ \E a \in Adds : AddRefused(a) \/ AddFails(a)
         \/ \E u \in Users : GetOrCreateCart(u)
  PROVE  IInv'
  <1>1. add' \in [Adds -> AddState] /\ StockWithinPeak'
    <2>1. CASE \E a \in Adds, u \in Users, p \in Products, n \in Quantities :
                  CheckProduct(a, u, p, n)
      <3>1. PICK a \in Adds, u \in Users, p \in Products, n \in Quantities :
                CheckProduct(a, u, p, n)
        BY <2>1
      <3>2. add' = [add EXCEPT ![a] =
               [checked |-> TRUE, user |-> u, product |-> p, quantity |-> n,
                price |-> product[p].price, stock |-> product[p].quantity]]
        BY <3>1 DEF CheckProduct
      <3>3. product[p] \in ProductRow /\ n \in Nat
        BY NumberAssumption DEF IInv, TypeOK
      <3>4. add' \in [Adds -> AddState]
        BY <3>2, <3>3 DEF IInv, TypeOK, AddState, ProductRow
      <3> QED BY <3>2, <3>4 DEF IInv, TypeOK, StockWithinPeak
    <2>2. CASE \E a \in Adds : AddRefused(a) \/ AddFails(a)
      <3>1. PICK a \in Adds : add' = [add EXCEPT ![a] = NoAdd]
        BY <2>2 DEF AddRefused, AddFails, Answer
      <3>2. NoAdd \in AddState /\ ~NoAdd.checked
        BY DEF NoAdd, AddState
      <3>3. add' \in [Adds -> AddState]
        BY <3>1, <3>2 DEF IInv, TypeOK
      <3>4. \A b \in Adds : add'[b].checked => add'[b] = add[b]
        BY <3>1, <3>2 DEF IInv, TypeOK
      <3>5. StockWithinPeak'
        BY <3>4 DEF IInv, StockWithinPeak
      <3> QED BY <3>3, <3>5
    <2>3. CASE \E u \in Users : GetOrCreateCart(u)
      BY <2>3 DEF IInv, TypeOK, StockWithinPeak, GetOrCreateCart
    <2> QED BY <2>1, <2>2, <2>3
  <1>2. /\ cart' \in [Users -> CartRow]
        /\ \A v \in Users : cart'[v].price = cart[v].price
        /\ \A v \in Users : cart'[v].live \in {TRUE, cart[v].live}
    <2>1. \/ UNCHANGED cart
          \/ \E u \in Users \cup {NoUser} :
                cart' = [cart EXCEPT ![u].live = TRUE]
      BY DEF CheckProduct, AddRefused, AddFails, GetOrCreateCart, IInv, TypeOK,
             AddState
    <2>2. CASE UNCHANGED cart
      BY <2>2 DEF IInv, TypeOK
    <2>3. CASE \E u \in Users \cup {NoUser} :
                  cart' = [cart EXCEPT ![u].live = TRUE]
      <3>1. PICK u \in Users \cup {NoUser} :
                  cart' = [cart EXCEPT ![u].live = TRUE]
        BY <2>3
      <3>2. cart \in [Users -> CartRow]
        BY DEF IInv, TypeOK
      <3>3. cart' \in [Users -> CartRow]
        BY <3>1, <3>2 DEF CartRow
      <3>4. \A v \in Users : cart'[v].price = cart[v].price
        BY <3>1, <3>2
      <3>5. \A v \in Users : cart'[v].live \in {TRUE, cart[v].live}
        BY <3>1, <3>2
      <3> QED BY <3>3, <3>4, <3>5
    <2> QED BY <2>1, <2>2, <2>3
  <1>3. ItemsNeedCart' /\ CartPriceIsTotal'
    BY <1>2 DEF IInv, ItemsNeedCart, CartPriceIsTotal, Empty, HasItem
  <1>4. OrdersHaveUsers' /\ CartWithinPeak' /\ ItemsHaveProducts'
    BY DEF IInv, OrdersHaveUsers, OrderExists, CartWithinPeak, ItemsHaveProducts,
           InSomeCart, InSomeOrder, HasItem
  <1> QED BY <1>1, <1>2, <1>3, <1>4 DEF IInv, TypeOK

----------------------------------------------------------------------------
(* Orders are created and paid. *)

\* An order names products that its user's cart names.
LEMMA OrderStep ==
  ASSUME IInv, NEW u \in Users, NEW o \in Orders, CreateOrder(u, o)
  PROVE  IInv'
  <1>1. /\ order' = [order EXCEPT ![o] =
              [status |-> "PAYMENT_PENDING", user |-> u, items |-> item[u]]]
        /\ UNCHANGED << product, cart, item, add, peak, emptied >>
    BY DEF CreateOrder, CopiedItems, history
  <1>2. TypeOK'
    BY <1>1 DEF IInv, TypeOK, OrderRow
  <1>3. /\ ItemsNeedCart' /\ CartPriceIsTotal'
        /\ StockWithinPeak' /\ CartWithinPeak'
    BY <1>1 DEF IInv, ItemsNeedCart, CartPriceIsTotal, Empty, HasItem,
                StockWithinPeak, CartWithinPeak
  <1>4. OrdersHaveUsers'
    BY <1>1 DEF IInv, TypeOK, OrdersHaveUsers, OrderExists
  <1>5. ItemsHaveProducts'
    BY <1>1 DEF IInv, TypeOK, ItemsHaveProducts, InSomeCart, InSomeOrder, HasItem
  <1> QED BY <1>2, <1>3, <1>4, <1>5 DEF IInv

\* A settlement leaves its user's cart without items.
LEMMA SettleStep ==
  ASSUME IInv, NEW o \in Orders, Settle(o)
  PROVE  IInv'
  <1> DEFINE u == order[o].user
  <1>1. /\ u \in Users /\ OrderExists(o)
        /\ item \in [Users -> [Products -> ItemRow]]
    BY DEF Settle, IInv, TypeOK, OrdersHaveUsers
  <1>2. /\ item' = [item EXCEPT ![u] = IF cart[u].live THEN NoItems ELSE item[u]]
        /\ order' = [order EXCEPT ![o].status = "SHIPPING"]
        /\ emptied' = emptied \cup {u}
        /\ UNCHANGED << product, cart, add, peak >>
    BY DEF Settle
  <1>3. NoItems \in [Products -> ItemRow]
    BY DEF NoItems, NoItem, ItemRow
  <1>4. TypeOK'
    BY <1>1, <1>2, <1>3 DEF IInv, TypeOK, OrderRow
  <1>5. \A v \in Users : item'[v] = item[v] \/ item'[v] = NoItems
    BY <1>1, <1>2
  <1>6. ItemsNeedCart' /\ CartPriceIsTotal'
    <2> SUFFICES ASSUME NEW v \in Users
                 PROVE  /\ ~Empty(v)' => cart'[v].live
                        /\ IF v \in emptied' THEN Empty(v)'
                           ELSE cart'[v].price = Total(item'[v])
      BY DEF ItemsNeedCart, CartPriceIsTotal
    <2>1. CASE v = u
      <3>1. Empty(v)'
        BY <1>1, <1>2, <2>1 DEF IInv, ItemsNeedCart, Empty, HasItem, NoItems, NoItem
      <3> QED BY <1>2, <2>1, <3>1
    <2>2. CASE v # u
      <3>1. item'[v] = item[v] /\ (v \in emptied' <=> v \in emptied)
        BY <1>1, <1>2, <2>2
      <3>2. Empty(v)' <=> Empty(v)
        BY <3>1 DEF Empty, HasItem
      <3> QED BY <1>2, <3>1, <3>2 DEF IInv, ItemsNeedCart, CartPriceIsTotal
    <2> QED BY <2>1, <2>2
  <1>7. CartWithinPeak'
    BY <1>2, <1>5 DEF IInv, TypeOK, CartWithinPeak, NoItems, NoItem
  <1>8. StockWithinPeak'
    BY <1>2 DEF IInv, StockWithinPeak
  <1>9. \A x \in Orders : /\ order'[x].items = order[x].items
                          /\ order'[x].user = order[x].user
                          /\ OrderExists(x)' <=> OrderExists(x)
    BY <1>1, <1>2 DEF IInv, TypeOK, OrderRow, OrderExists
  <1>10. OrdersHaveUsers'
    BY <1>9 DEF IInv, OrdersHaveUsers
  <1>11. ItemsHaveProducts'
    BY <1>2, <1>5, <1>9 DEF IInv, ItemsHaveProducts, InSomeCart, InSomeOrder,
       HasItem, NoItems, NoItem
  <1> QED BY <1>4, <1>6, <1>7, <1>8, <1>10, <1>11 DEF IInv

----------------------------------------------------------------------------
\* Every step of the shop preserves the invariant.
LEMMA StepIInv == IInv /\ [Next]_vars => IInv'
  <1> SUFFICES ASSUME IInv, [Next]_vars PROVE IInv'
    OBVIOUS
  <1>1. ASSUME NEW p \in Products, CreateProduct(p) PROVE IInv'
    <2>1. PICK c \in Prices, n \in Stocks :
              /\ product' = [product EXCEPT ![p] =
                    [live |-> TRUE, price |-> c, quantity |-> n]]
              /\ Raise(p, n)
      BY <1>1 DEF CreateProduct
    <2> QED BY <1>1, <2>1, ProductStep, NumberAssumption DEF CreateProduct
  <1>2. ASSUME NEW p \in Products, UpdateProduct(p) PROVE IInv'
    <2>1. PICK c \in Prices \cup {product[p].price},
               n \in Stocks \cup {product[p].quantity} :
              /\ product' = [product EXCEPT ![p].price = c, ![p].quantity = n]
              /\ Raise(p, n)
      BY <1>2 DEF UpdateProduct
    <2>2. product[p] \in ProductRow /\ product[p].live
      BY <1>2 DEF IInv, TypeOK, UpdateProduct
    <2>3. c \in Prices \cup {0} /\ n \in Nat
      BY <2>2, NumberAssumption DEF ProductRow
    <2>4. product' = [product EXCEPT ![p] =
                        [live |-> TRUE, price |-> c, quantity |-> n]]
      <3> DEFINE row == [product[p] EXCEPT !.price = c, !.quantity = n]
      <3>1. row \in ProductRow
        BY <2>2, <2>3 DEF ProductRow
      <3>2. row.live /\ row.price = c /\ row.quantity = n
        BY <2>2 DEF ProductRow
      <3>3. product' = [product EXCEPT ![p] = row]
        BY <2>1, <2>2 DEF IInv, TypeOK
      <3> HIDE DEF row
      <3>4. row = [live |-> TRUE, price |-> c, quantity |-> n]
        BY <3>1, <3>2 DEF ProductRow
      <3> QED BY <3>3, <3>4
    <2> QED BY <1>2, <2>1, <2>3, <2>4, ProductStep DEF UpdateProduct
  <1>3. CASE UNCHANGED vars
    BY <1>3 DEF vars, IInv, TypeOK, ItemsNeedCart, CartPriceIsTotal, Empty, HasItem,
       StockWithinPeak, OrdersHaveUsers, OrderExists, CartWithinPeak,
       ItemsHaveProducts, InSomeCart, InSomeOrder
  <1>4. CASE \/ \E a \in Adds, u \in Users, p \in Products, n \in Quantities :
                   CheckProduct(a, u, p, n)
             \/ \E a \in Adds : AddRefused(a) \/ AddFails(a)
             \/ \E u \in Users : GetOrCreateCart(u)
    <2>1. UNCHANGED << product, item, order, peak, emptied >>
      BY <1>4 DEF CheckProduct, AddRefused, AddFails, GetOrCreateCart, history
    <2> QED BY <1>4, <2>1, RequestStep
  <1> QED
    BY <1>1, <1>2, <1>3, <1>4, DeleteStep, AddStep, RemoveStep, OrderStep,
       SettleStep DEF Next

\* The inductive invariant holds in every reachable state.
THEOREM Coherence == Spec => []IInv
  BY InitIInv, StepIInv, PTL DEF Spec

\* Rows and requests are what the schema allows: the total that recalculatePrice
\* writes is a natural number for every cart.
THEOREM TypeCorrect == Spec => []TypeOK
  <1>1. IInv => TypeOK
    BY DEF IInv
  <1> QED BY <1>1, Coherence, PTL

\* A stored total is that of the cart's items, except for a cart that a
\* settlement left without items (recalculatePrice, createOrder).
THEOREM StoredTotals == Spec => []CartPriceIsTotal
  <1>1. IInv => CartPriceIsTotal
    BY DEF IInv
  <1> QED BY <1>1, Coherence, PTL

\* A cart never holds more of a product than the product ever had, however
\* additions checked against different stocks interleave (addItem).
THEOREM WithinPeak == Spec => []CartWithinPeak
  <1>1. IInv => CartWithinPeak
    BY DEF IInv
  <1> QED BY <1>1, Coherence, PTL

\* The foreign keys keep every product that a cart or an order names, although
\* addItem looked the product up before its transaction.
THEOREM ProductsStay == Spec => []ItemsHaveProducts
  <1>1. IInv => ItemsHaveProducts
    BY DEF IInv
  <1> QED BY <1>1, Coherence, PTL

\* An order created by createOrder costs what its cart showed, however prices
\* changed since the items were added.
THEOREM OrdersCost == Spec => OrdersCostTheCartPrice
  <1>1. IInv /\ [Next]_vars =>
           [\A u \in Users, o \in Orders :
              CreateOrder(u, o) => Total(order'[o].items) = cart[u].price]_vars
    <2> SUFFICES ASSUME IInv, NEW u \in Users, NEW o \in Orders,
                        CreateOrder(u, o)
                 PROVE  Total(order'[o].items) = cart[u].price
      OBVIOUS
    <2>1. order'[o].items = item[u] /\ ~Empty(u)
      BY DEF CreateOrder, CopiedItems, IInv, TypeOK
    <2> QED BY <2>1 DEF IInv, CartPriceIsTotal
  <1> QED BY <1>1, Coherence, PTL DEF Spec, OrdersCostTheCartPrice

----------------------------------------------------------------------------
(***************************************************************************)
(* Shop and payments together (Store): every order is charged what its     *)
(* cart showed.                                                            *)
(***************************************************************************)

Phases == {"none", "queued", "succeeded", "failed"}

\* A submitted payment is for some order.
Submitted ==
    /\ phase \in [Payments -> Phases]
    /\ paysFor \in [Payments -> Orders \cup {NoUser}]
    /\ \A p \in Payments : phase[p] # "none" => paysFor[p] \in Orders

\* Only Submit writes the order of a payment.
LEMMA SubmittedStep == Submitted /\ [StoreNext]_storeVars => Submitted'
  <1> SUFFICES ASSUME Submitted, [StoreNext]_storeVars PROVE Submitted'
    OBVIOUS
  <1>1. CASE UNCHANGED << phase, paysFor >>
    BY <1>1 DEF Submitted
  <1>2. ASSUME NEW p \in Payments, NEW o \in Orders, Submit(p, o)
        PROVE  Submitted'
    BY <1>2 DEF Submit, Submitted, Phases
  <1>3. ASSUME NEW p \in Payments, Settlement(p) \/ Fail(p) \/ Overwrite(p)
        PROVE  Submitted'
    BY <1>3 DEF Settlement, Fail, Overwrite, Submitted, Phases
  <1> QED BY <1>1, <1>2, <1>3 DEF StoreNext, storeVars, payVars, Browse,
          PlaceOrder, Move

\* A step of the store is a step of the shop, or leaves it alone.
LEMMA StoreStepsShop == Submitted /\ [StoreNext]_storeVars => [Next]_vars
  <1> SUFFICES ASSUME Submitted, [StoreNext]_storeVars PROVE [Next]_vars
    OBVIOUS
  <1>1. ASSUME NEW p \in Payments, Settlement(p)
        PROVE  \E o \in Orders : Settle(o)
    BY <1>1 DEF Settlement, Submitted
  <1> QED BY <1>1 DEF StoreNext, storeVars, Browse, PlaceOrder, Submit, Fail,
          Overwrite, Move, Next, vars

\* So what the shop guarantees holds in the store.
THEOREM ShopInside == StoreSpec => Spec
  <1>1. StoreInit => Init /\ Submitted
    BY DEF StoreInit, Submitted, Phases
  <1> QED BY <1>1, SubmittedStep, StoreStepsShop, PTL DEF StoreSpec, Spec

----------------------------------------------------------------------------
(* The invariant. *)

Bills == [user : Users \cup {NoUser}, amount : Nat]

PayShape ==
    /\ phase \in [Payments -> Phases]
    /\ paysFor \in [Payments -> Orders \cup {NoUser}]
    /\ amount \in [Payments -> Nat]
    /\ money \in [Users -> 0 .. MaxMoney]
    /\ spoiled \subseteq Orders
    /\ quote \in [Orders -> Bills]
    /\ debits \in [Orders -> Seq(Bills)]

\* A payment is for an order that has been placed.
PaymentsHaveOrders ==
    \A p \in Payments : phase[p] # "none" =>
       paysFor[p] \in Orders /\ OrderExists(paysFor[p])

\* What an order costs by its items is what its owner was shown.
Bill(o) == [user |-> order[o].user, amount |-> AmountOf(o)]

QuotesAreBills ==
    \A o \in Orders : IF OrderExists(o) THEN quote[o] = Bill(o)
                      ELSE debits[o] = << >>

\* A payment is to debit what the cart of its order showed.
AmountsAreQuoted ==
    \A p \in Payments : phase[p] # "none" =>
       amount[p] = quote[paysFor[p]].amount

\* Outside the races an order has one live payment at a time, and ships when
\* that payment succeeds.
OneLive ==
    \A o \in Orders \ spoiled : \A p1, p2 \in LiveFor(o) : p1 = p2

ShippedBySuccess ==
    \A o \in Shipped \ spoiled :
       \E p \in Payments : phase[p] = "succeeded" /\ paysFor[p] = o

StoreInv ==
    /\ PayShape
    /\ PaymentsHaveOrders
    /\ QuotesAreBills
    /\ AmountsAreQuoted
    /\ OneLive
    /\ ShippedBySuccess
    /\ ChargedAsQuoted

\* An empty store has nothing to pay.
LEMMA InitStoreInv == StoreInit => StoreInv
  <1> SUFFICES ASSUME StoreInit PROVE StoreInv
    OBVIOUS
  <1>1. PayShape
    BY StoreAssumption DEF StoreInit, PayShape, Phases, Bills
  <1>2. PaymentsHaveOrders /\ AmountsAreQuoted /\ OneLive
    BY DEF StoreInit, PaymentsHaveOrders, AmountsAreQuoted, OneLive, LiveFor
  <1>3. QuotesAreBills /\ ShippedBySuccess /\ ChargedAsQuoted
    BY DEF StoreInit, Init, QuotesAreBills, OrderExists, ShippedBySuccess,
       Shipped, ChargedAsQuoted
  <1> QED BY <1>1, <1>2, <1>3 DEF StoreInv

\* The total of an order's items is an admissible bill.
LEMMA BillTypes ==
  ASSUME IInv, NEW o \in Orders
  PROVE  Bill(o) \in Bills /\ AmountOf(o) \in Nat
  <1>1. order[o].items \in [Products -> ItemRow] /\ order[o].user \in Users \cup {NoUser}
    BY DEF IInv, TypeOK, OrderRow
  <1> QED BY <1>1, TotalTypes DEF Bill, AmountOf, Bills

\* Products and carts change under the orders and leave them alone.
LEMMA BrowseStep ==
  ASSUME IInv, StoreInv, Browse \/ UNCHANGED storeVars
  PROVE  StoreInv'
  <1>1. UNCHANGED << order, payVars, quote, debits >>
    BY DEF Browse, storeVars, vars, CreateProduct, UpdateProduct, DeleteProduct,
       GetOrCreateCart, CheckProduct, AddItem, AddRefused, AddFails, RemoveItem
  <1>2. StoreInv'
    BY <1>1 DEF payVars, StoreInv, PayShape, PaymentsHaveOrders, QuotesAreBills,
       AmountsAreQuoted, OneLive, LiveFor, ShippedBySuccess, Shipped,
       ChargedAsQuoted, OrderExists, Bill, AmountOf
  <1> QED BY <1>2

\* A new order is quoted what its items cost.
LEMMA PlaceStep ==
  ASSUME IInv, StoreInv, NEW u \in Users, NEW o \in Orders, PlaceOrder(u, o)
  PROVE  StoreInv'
  <1>1. /\ ~OrderExists(o) /\ ~Empty(u)
        /\ order' = [order EXCEPT ![o] =
              [status |-> "PAYMENT_PENDING", user |-> u, items |-> item[u]]]
        /\ quote' = [quote EXCEPT ![o] = [user |-> u, amount |-> cart[u].price]]
        /\ UNCHANGED << payVars, debits >>
    BY DEF PlaceOrder, CreateOrder, CopiedItems
  <1>2. /\ cart[u].price = Total(item[u])
        /\ item[u] \in [Products -> ItemRow] /\ Total(item[u]) \in Nat
    BY <1>1, TotalTypes DEF IInv, CartPriceIsTotal, TypeOK
  <1>3. /\ order' \in [Orders -> OrderRow]
        /\ order'[o].user = u /\ order'[o].items = item[u]
        /\ order'[o].status = "PAYMENT_PENDING"
        /\ \A x \in Orders \ {o} : order'[x] = order[x]
    BY <1>1, <1>2 DEF IInv, TypeOK, OrderRow
  <1>4. /\ quote' \in [Orders -> Bills]
        /\ quote'[o] = [user |-> u, amount |-> Total(item[u])]
        /\ \A x \in Orders \ {o} : quote'[x] = quote[x]
    BY <1>1, <1>2 DEF StoreInv, PayShape, Bills
  <1>5. OrderExists(o)' /\ \A x \in Orders \ {o} : OrderExists(x)' <=> OrderExists(x)
    BY <1>3 DEF OrderExists
  <1>6. UNCHANGED Shipped
    BY <1>1, <1>3 DEF Shipped, OrderExists
  <1>7. PayShape'
    BY <1>1, <1>4 DEF StoreInv, PayShape, payVars
  <1>8. PaymentsHaveOrders'
    BY <1>1, <1>5 DEF StoreInv, PaymentsHaveOrders, payVars
  <1>9. QuotesAreBills'
    BY <1>1, <1>3, <1>4, <1>5 DEF StoreInv, QuotesAreBills, Bill, AmountOf
  <1>a. AmountsAreQuoted'
    <2>1. \A p \in Payments : phase[p] # "none" => paysFor[p] \in Orders \ {o}
      BY <1>1 DEF StoreInv, PaymentsHaveOrders
    <2> QED BY <1>1, <1>4, <2>1 DEF StoreInv, AmountsAreQuoted, payVars
  <1>10. OneLive' /\ ShippedBySuccess'
    BY <1>1, <1>6 DEF StoreInv, OneLive, LiveFor, ShippedBySuccess, payVars
  <1>11. ChargedAsQuoted'
    BY <1>1, <1>4, <1>6 DEF StoreInv, ChargedAsQuoted, QuotesAreBills, payVars
  <1> QED BY <1>7, <1>8, <1>9, <1>a, <1>10, <1>11 DEF StoreInv

\* A payment that is submitted beside a live one spoils its order.
LEMMA SubmitStep ==
  ASSUME IInv, StoreInv, NEW p \in Payments, NEW o \in Orders, Submit(p, o)
  PROVE  StoreInv'
  <1>1. /\ phase[p] = "none" /\ OrderExists(o)
        /\ phase' = [phase EXCEPT ![p] = "queued"]
        /\ paysFor' = [paysFor EXCEPT ![p] = o]
        /\ amount' = [amount EXCEPT ![p] = AmountOf(o)]
        /\ spoiled' = IF LiveFor(o) = {} THEN spoiled ELSE spoiled \cup {o}
        /\ UNCHANGED << order, money, quote, debits >>
    BY DEF Submit, vars
  <1>q. quote[o].amount = AmountOf(o) /\ AmountOf(o) \in Nat
    <2>1. quote[o] = Bill(o) /\ AmountOf(o) \in Nat
      BY <1>1, BillTypes DEF StoreInv, QuotesAreBills
    <2> QED BY <2>1 DEF Bill
  <1>2. PayShape'
    BY <1>1, <1>q DEF StoreInv, PayShape, Phases
  <1>3. PaymentsHaveOrders'
    BY <1>1 DEF StoreInv, PayShape, PaymentsHaveOrders, OrderExists
  <1>4. QuotesAreBills'
    BY <1>1 DEF StoreInv, QuotesAreBills, OrderExists, Bill, AmountOf
  <1>a. AmountsAreQuoted'
    BY <1>1, <1>q DEF StoreInv, PayShape, AmountsAreQuoted
  <1>5. OneLive'
    <2> SUFFICES ASSUME NEW x \in Orders, x \notin spoiled',
                        NEW p1 \in LiveFor(x)', NEW p2 \in LiveFor(x)'
                 PROVE  p1 = p2
      BY DEF OneLive
    <2>1. x \notin spoiled /\ (x = o => LiveFor(o) = {})
      BY <1>1
    <2>2. \A q \in LiveFor(x)' : q \in LiveFor(x) \/ (q = p /\ x = o)
      BY <1>1 DEF LiveFor, StoreInv, PayShape
    <2> QED BY <2>1, <2>2 DEF StoreInv, OneLive
  <1>6. ShippedBySuccess'
    BY <1>1 DEF StoreInv, PayShape, ShippedBySuccess, Shipped
  <1>7. ChargedAsQuoted'
    BY <1>1 DEF StoreInv, ChargedAsQuoted, Shipped
  <1> QED BY <1>2, <1>3, <1>4, <1>a, <1>5, <1>6, <1>7 DEF StoreInv

\* A settlement takes the quoted amount from the order's owner and ships it; an
\* unspoiled order has not been shipped or charged before.
LEMMA SettlementStep ==
  ASSUME IInv, StoreInv, NEW p \in Payments, Settlement(p)
  PROVE  StoreInv'
  <1> DEFINE o == paysFor[p]
  <1>1. /\ o \in Orders /\ OrderExists(o)
        /\ quote[o] = Bill(o) /\ Bill(o) \in Bills
        /\ Bill(o) = [user |-> order[o].user, amount |-> amount[p]]
    <2>1. /\ o \in Orders /\ OrderExists(o) /\ quote[o] = Bill(o)
          /\ Bill(o) \in Bills /\ amount[p] = quote[o].amount
      BY BillTypes DEF Settlement, StoreInv, PaymentsHaveOrders, QuotesAreBills,
         AmountsAreQuoted
    <2>2. Bill(o).amount = AmountOf(o)
      BY DEF Bill
    <2>3. amount[p] = AmountOf(o)
      BY <2>1, <2>2
    <2> QED BY <2>1, <2>3 DEF Bill
  <1>2. /\ phase[p] = "queued"
        /\ order' = [order EXCEPT ![o].status = "SHIPPING"]
        /\ phase' = [phase EXCEPT ![p] = "succeeded"]
        /\ money[order[o].user] >= amount[p]
        /\ money' = [money EXCEPT ![order[o].user] =
                        money[order[o].user] - amount[p]]
        /\ debits' = [debits EXCEPT ![o] = Append(debits[o], Bill(o))]
        /\ UNCHANGED << paysFor, amount, spoiled, quote >>
    BY <1>1 DEF Settlement, Settle
  <1>3. /\ \A x \in Orders : /\ order'[x].items = order[x].items
                             /\ order'[x].user = order[x].user
                             /\ OrderExists(x)' <=> OrderExists(x)
        /\ Shipped' = Shipped \cup {o}
    BY <1>1, <1>2 DEF IInv, TypeOK, OrderRow, OrderExists, Shipped
  <1>4. PayShape'
    <2>1. money' \in [Users -> 0 .. MaxMoney]
      <3>1. order[o].user \in Users /\ amount[p] \in Nat
        BY <1>1 DEF IInv, OrdersHaveUsers, StoreInv, PayShape
      <3>2. money \in [Users -> 0 .. MaxMoney] /\ MaxMoney \in Nat
        BY StoreAssumption DEF StoreInv, PayShape
      <3> QED BY <1>2, <3>1, <3>2
    <2>2. debits' \in [Orders -> Seq(Bills)]
      BY <1>1, <1>2 DEF StoreInv, PayShape
    <2> QED BY <1>2, <2>1, <2>2 DEF StoreInv, PayShape, Phases
  <1>5. PaymentsHaveOrders'
    BY <1>2, <1>3 DEF StoreInv, PayShape, PaymentsHaveOrders
  <1>6. QuotesAreBills'
    BY <1>1, <1>2, <1>3 DEF StoreInv, PayShape, QuotesAreBills, Bill, AmountOf
  <1>a. AmountsAreQuoted'
    BY <1>2 DEF StoreInv, PayShape, AmountsAreQuoted
  <1>7. \A x : LiveFor(x)' = LiveFor(x)
    BY <1>2 DEF LiveFor, StoreInv, PayShape
  <1>8. OneLive'
    BY <1>2, <1>7 DEF StoreInv, OneLive
  <1>9. ShippedBySuccess'
    BY <1>2, <1>3 DEF StoreInv, PayShape, ShippedBySuccess
  <1>10. ChargedAsQuoted'
    <2>1. o \notin spoiled => o \notin Shipped
      <3> SUFFICES ASSUME o \notin spoiled, o \in Shipped PROVE FALSE
        OBVIOUS
      <3>1. PICK q \in Payments : phase[q] = "succeeded" /\ paysFor[q] = o
        BY <1>1 DEF StoreInv, ShippedBySuccess
      <3>2. p \in LiveFor(o) /\ q \in LiveFor(o)
        BY <1>2, <3>1 DEF LiveFor
      <3> QED BY <1>1, <1>2, <3>1, <3>2 DEF StoreInv, OneLive
    <2>2. /\ debits[o] \in Seq(Bills)
          /\ debits'[o] = Append(debits[o], Bill(o))
          /\ \A x \in Orders \ {o} : debits'[x] = debits[x]
      BY <1>1, <1>2 DEF StoreInv, PayShape
    <2>3. /\ \A i \in DOMAIN debits[o] : debits[o][i] = quote[o]
          /\ o \notin spoiled => Len(debits[o]) = 0
      BY <1>1, <2>1 DEF StoreInv, ChargedAsQuoted
    <2>4. /\ \A i \in DOMAIN debits'[o] : debits'[o][i] = quote[o]
          /\ o \notin spoiled => Len(debits'[o]) = 1
      BY <1>1, <2>2, <2>3
    <2> QED BY <1>1, <1>2, <1>3, <2>2, <2>4 DEF StoreInv, ChargedAsQuoted
  <1> QED BY <1>4, <1>5, <1>6, <1>a, <1>8, <1>9, <1>10 DEF StoreInv

\* A payment that fails, or is overwritten, charges nothing and ships nothing.
LEMMA FailStep ==
  ASSUME IInv, StoreInv, NEW p \in Payments, Fail(p) \/ Overwrite(p)
  PROVE  StoreInv'
  <1>1. /\ phase[p] # "none"
        /\ \E ph \in {"queued", "failed"} : phase' = [phase EXCEPT ![p] = ph]
        /\ UNCHANGED << order, paysFor, amount, money, quote, debits >>
        /\ \/ phase[p] = "queued" /\ UNCHANGED spoiled
              /\ phase' = [phase EXCEPT ![p] = "failed"]
           \/ spoiled' = spoiled \cup {paysFor[p]}
    BY DEF Fail, Overwrite, vars
  <1>2. paysFor[p] \in Orders
    BY <1>1 DEF StoreInv, PaymentsHaveOrders
  <1>3. PayShape'
    BY <1>1, <1>2 DEF StoreInv, PayShape, Phases
  <1>4. PaymentsHaveOrders'
    BY <1>1 DEF StoreInv, PayShape, PaymentsHaveOrders, OrderExists
  <1>5. QuotesAreBills'
    BY <1>1 DEF StoreInv, QuotesAreBills, OrderExists, Bill, AmountOf
  <1>a. AmountsAreQuoted'
    BY <1>1 DEF StoreInv, PayShape, AmountsAreQuoted
  <1>6. \A x \in Orders \ spoiled' : x \notin spoiled /\ LiveFor(x)' \subseteq LiveFor(x)
    BY <1>1 DEF LiveFor, StoreInv, PayShape
  <1>7. OneLive'
    BY <1>6 DEF StoreInv, OneLive
  <1>8. ShippedBySuccess'
    <2> SUFFICES ASSUME NEW x \in Shipped, x \notin spoiled'
                 PROVE  \E q \in Payments : phase'[q] = "succeeded" /\ paysFor[q] = x
      BY <1>1 DEF ShippedBySuccess, Shipped
    <2>1. x \notin spoiled
      BY <1>1
    <2>2. PICK q \in Payments : phase[q] = "succeeded" /\ paysFor[q] = x
      BY <2>1 DEF StoreInv, ShippedBySuccess
    <2>3. q # p
      BY <1>1, <2>2
    <2> QED BY <1>1, <2>2, <2>3
  <1>9. ChargedAsQuoted'
    BY <1>1 DEF StoreInv, ChargedAsQuoted, Shipped
  <1> QED BY <1>3, <1>4, <1>5, <1>a, <1>7, <1>8, <1>9 DEF StoreInv

\* Charges and credits move nothing but money.
LEMMA MoveStep ==
  ASSUME IInv, StoreInv, NEW u \in Users, Move(u)
  PROVE  StoreInv'
  <1>1. /\ \E n \in 0 .. MaxMoney : money' = [money EXCEPT ![u] = n]
        /\ UNCHANGED << order, phase, paysFor, amount, spoiled, quote, debits >>
    BY DEF Move, vars
  <1>2. PayShape'
    BY <1>1 DEF StoreInv, PayShape
  <1> QED BY <1>1, <1>2 DEF StoreInv, PaymentsHaveOrders, QuotesAreBills,
          AmountsAreQuoted, OneLive, LiveFor, ShippedBySuccess, Shipped,
          ChargedAsQuoted, OrderExists, Bill, AmountOf

\* Every step of the store preserves the invariant.
LEMMA StepStoreInv == IInv /\ StoreInv /\ [StoreNext]_storeVars => StoreInv'
  BY BrowseStep, PlaceStep, SubmitStep, SettlementStep, FailStep, MoveStep
     DEF StoreNext

\* The invariant holds in every reachable state of the store.
THEOREM StoreCoherence == StoreSpec => []StoreInv
  <1>1. StoreSpec => []IInv
    BY ShopInside, Coherence, PTL
  <1> QED BY <1>1, InitStoreInv, StepStoreInv, PTL DEF StoreSpec

\* However products, carts and payments interleave, an order is charged what
\* its cart showed when createOrder placed it, and, outside the races, once and
\* exactly when it ships.
THEOREM AlwaysAsQuoted == StoreSpec => []ChargedAsQuoted
  <1>1. StoreInv => ChargedAsQuoted
    BY DEF StoreInv
  <1> QED BY <1>1, StoreCoherence, PTL

============================================================================
