--------------------------- MODULE MCServerQueue ---------------------------
(* A request of two tasks that are parent and child, whose connection may  *)
(* be closed, one of a task that streams two results and may fail, and one *)
(* that saves slot 1, on a server of two slots.                            *)
EXTENDS ServerQueue

CONSTANTS pair, plain, save

MCClients == {pair, plain, save}
MCTasks == (pair :> 2) @@ (plain :> 1) @@ (save :> 1)
MCKind == (pair :> "parent") @@ (plain :> "tasks") @@ (save :> "action")
MCRejected == {pair}
MCFaulty == {plain}
MCWantSlot == (pair :> AnySlot) @@ (plain :> AnySlot) @@ (save :> 1)
MCTokens == (pair :> 1) @@ (plain :> 2) @@ (save :> 1)
MCImpatient == {pair}
MCSlots == {0, 1}
=============================================================================
