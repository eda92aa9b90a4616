CONSTANTS
    Users = {u1, u2}
    Products = {p1}
    Orders = {o1, o2}
    Adds = {a1}
    Payments = {y1, y2}
    NoUser = NoUser
    NoProduct = NoProduct
    Prices = {0, 1}
    Stocks = {1}
    Quantities = {1}
    MaxMoney = 1
    MaxDebits = 2

SPECIFICATION StoreSpec
SYMMETRY Symmetry
INVARIANTS
    ChargedAsQuoted
