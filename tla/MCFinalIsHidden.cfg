SPECIFICATION Spec
CONSTANTS
    Requests = {r1}
    Types = {"contract_drafting"}
    Slots = {s1}
    Channels = {zoom}
    Providers = {}
    TotalCapacity = 1
    ChannelCapacity = 1
    Deposit = 1
    Total = 3
    None = None
INVARIANT FinalIsHidden
