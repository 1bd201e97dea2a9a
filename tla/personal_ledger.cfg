SPECIFICATION Spec
CONSTANTS
    share = share
    bond = bond
    broker = broker
    deposit = deposit
    buy = buy
    sell = sell
    payout = payout
    fee = fee
    fix = fix
    undo = undo
    h1 = h1
    h2 = h2
    Instruments = {share, bond}
    Tradable = {share}
    None = None
    BrokerFee = 1
    MaxId = 5
    Handlers = {h1, h2}
    Requests <- MCRequests
    Times <- MCTimes
    Nobody = Nobody
CHECK_DEADLOCK FALSE
INVARIANTS
    TypeOK
    ShowsItsJournal
    NeverOverdrawn
    AnswersAreKept
    OpeningComesFirst
    ResultIsAccounted
PROPERTIES
    ActivationKeepsTheDraft
    ImplementsJournalBook
