SPECIFICATION Spec
CONSTANTS
    pair = pair
    plain = plain
    save = save
    Clients <- MCClients
    Tasks <- MCTasks
    Kind <- MCKind
    Rejected <- MCRejected
    Faulty <- MCFaulty
    WantSlot <- MCWantSlot
    Impatient <- MCImpatient
    Slots <- MCSlots
    AnySlot = AnySlot
    NoTask = NoTask
    Main = Main
    Tokens <- MCTokens
    Sleeps = TRUE
    SleepsLate = FALSE
    EndsIn = {"waits task", "asleep"}

PROPERTIES DeferredAreServed
