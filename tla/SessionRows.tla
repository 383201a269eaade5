------------------------------ MODULE SessionRows ------------------------------
(***************************************************************************)
(* The rows of one session that the models of its durable store share: its *)
(* transactions (PgTurnStore) and its paginated listings (SessionListing). *)
(***************************************************************************)

CONSTANTS
    Turns,      \* turn ids
    NoTurn      \* a null last_turn_id / previous_turn_id

VARIABLES
    lastTurn,   \* session.last_turn_id
    state,      \* [turn -> its state, "absent" before it is created]
    previous,   \* [turn -> previous_turn_id]
    log         \* [turn -> its events]

===============================================================================
