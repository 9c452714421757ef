SPECIFICATION MoneySpec
CONSTANTS
    MaxInt = 200000000
    DepositAmounts = {333, 4999}
    Targets = {9000, 20000}
    Yields = {7, 10000}
INVARIANTS
    BoundedInvoicePays
