----------------------------- MODULE JournalBook -----------------------------
(***************************************************************************)
(* What a personal portfolio promises: a journal that only grows, and      *)
(* totals that are exactly what its ACTIVE operations account for.  One    *)
(* step is one request that took effect; there are no transactions, locks, *)
(* retries, fees or ledger arithmetic here.                                *)
(***************************************************************************)
EXTENDS Integers

CONSTANTS
    Ids,               \* ids of journal rows
    None,              \* the key of a row nobody may ask for again
    Nothing,           \* the totals of an empty portfolio
    Accounts(_, _)     \* the rows of a journal replay, without an error, to these totals

VARIABLES
    status,    \* "DRAFT", "ACTIVE" or "ABSENT"
    shown,     \* the cash, flows and positions the portfolio shows
    journal    \* its operations

jvars == <<status, shown, journal>>

Init ==
    /\ status = "DRAFT"
    /\ shown = Nothing
    /\ journal = <<>>

\* The owner sets up a draft; nothing is journaled.
Draft ==
    /\ status = "DRAFT"
    /\ UNCHANGED <<status, journal>>

\* The draft becomes the opening rows of a journal.
Start ==
    /\ status = "DRAFT"
    /\ status' = "ACTIVE"
    /\ \A id \in DOMAIN journal' : journal'[id].source = "OPENING_SNAPSHOT"
    /\ Accounts(journal', shown')

\* What may happen to a row that is there already: it is retired, once.
Retires(row, after) ==
    /\ row.status = "ACTIVE"
    /\ \E reason \in {"SUPERSEDED", "CANCELLED"} : after = [row EXCEPT !.status = reason]

\* One row is added at the end, under a key no other row has; at most one other is retired.
Record ==
    /\ status \in {"DRAFT", "ACTIVE"}
    /\ status' = "ACTIVE"
    /\ \E id \in Ids, retired \in Ids \cup {0} :
        /\ DOMAIN journal' = DOMAIN journal \cup {id}
        /\ \A other \in DOMAIN journal :
            /\ other < id
            /\ journal'[id].key # None => journal[other].key # journal'[id].key
            /\ IF other = retired THEN Retires(journal[other], journal'[other])
               ELSE journal'[other] = journal[other]
    /\ Accounts(journal', shown')

Wipe ==
    /\ status' \in {"DRAFT", "ABSENT"}
    /\ shown' = Nothing
    /\ journal' = <<>>

Next == Draft \/ Start \/ Record \/ Wipe

Spec == Init /\ [][Next]_jvars
=============================================================================
