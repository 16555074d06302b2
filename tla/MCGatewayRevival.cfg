SPECIFICATION GatewaySpec
CONSTANTS
    None = None
    paymob = paymob
    kashier = kashier
    contract = contract
    base = base
    full = full
    c1 = c1
    c2 = c2
    Providers <- MCProviders
    Targets <- MCTargets
    Dues <- MCDues
    Calls <- MCCalls
INVARIANT OneActiveAttempt
