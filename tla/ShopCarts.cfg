CONSTANTS
    Users = {u1}
    Products = {p1, p2}
    Orders = {o1}
    Adds = {a1, a2}
    NoUser = NoUser
    NoProduct = NoProduct
    Prices = {1, 2}
    Stocks = {0, 2}
    Quantities = {1, 2}

SPECIFICATION Spec
SYMMETRY Symmetry
INVARIANTS
    TypeOK
    CartPriceIsTotal
    CartWithinPeak
    ItemsHaveProducts
PROPERTIES
    OrdersCostTheCartPrice
