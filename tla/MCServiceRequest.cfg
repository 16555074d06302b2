\* One request of either type through its whole life, and two clients whose
\* reviews compete for two times and two channels of one place each.
SPECIFICATION Spec
CONSTANTS
    Requests = {r1, r2}
    Types = {"contract_review", "contract_drafting"}
    Slots = {s1, s2}
    Channels = {zoom, whatsapp}
    Providers = {paymob}
    TotalCapacity = 2
    ChannelCapacity = 1
    Deposit = 1
    Total = 3
    None = None
    FirstSlot = s1
    FirstChannel = zoom
SYMMETRY SameClients
CONSTRAINT AloneOrCompeting
INVARIANTS
    TypeOK
    DepositBeforeWork
    CompletedIsPaid
    BillIsOutstanding
    ConfirmedIsPaid
    Capacity
PROPERTIES
    PaidSlotIsKept
    ImplementsPaidService
CHECK_DEADLOCK FALSE
