SPECIFICATION CheckoutSpec
CONSTANTS
    Contracts = {contract}
    Requests = {}
    BasePrice = 2
    ReviewPrice = 1
    MaxPayments = 2
    Providers = {paymob}
    Calls = {c1}
    None = None
CHECK_DEADLOCK FALSE
INVARIANT CheckoutTypeOK
INVARIANT PaidAttemptHasPayment
INVARIANT AttemptedIsSubmitted
INVARIANT OneActiveAttempt
PROPERTY ImplementsBilling
