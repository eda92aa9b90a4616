CONSTANTS
    Users = {u1}
    Products = {p1}
    Orders = {o1}
    Adds = {a1}
    NoUser = NoUser
    NoProduct = NoProduct
    Prices = {1, 2}
    Stocks = {0, 2}
    Quantities = {1, 2}

SPECIFICATION Spec
SYMMETRY Symmetry
PROPERTIES
    AdditionsFitStock
