SPECIFICATION BillingSpec
CONSTANTS
    Contracts = {contract}
    Requests = {r1}
    BasePrice = 2
    ReviewPrice = 1
    MaxPayments = 2
CHECK_DEADLOCK FALSE
INVARIANT ReviewWorkIsPaid
