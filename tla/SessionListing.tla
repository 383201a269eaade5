---------------------------- MODULE SessionListing ----------------------------
(***************************************************************************)
(* Paginated listings of persisted events: of one turn, and of a branch of *)
(* the session, newest first.  A turn stores only its last ancestors, so   *)
(* the branch is resolved through the windows of older turns.  A page      *)
(* token holds the anchor of the branch and an offset, and turns go on     *)
(* being written and created while a reader walks from page to page.       *)
(***************************************************************************)
EXTENDS SessionRows, Naturals, SequencesExt

CONSTANTS
    MaxAncestors,   \* MAX_TURN_ANCESTORS: ancestors kept in a turn's window
    Limits,         \* page sizes a client may ask for
    MaxEvents       \* bound: events of a turn before its turn.done

ASSUME SessionListingAssumption ==
    /\ IsFiniteSet(Turns) /\ NoTurn \notin Turns
    /\ MaxAncestors \in Nat \ {0} /\ MaxEvents \in Nat
    /\ Limits \subseteq Nat \ {0}

VARIABLES
    ancestors,  \* [turn -> ancestor_ids, newest last]
    walk        \* the reader's walk; start and fixed are history

\* A state is "absent", "running" or "ended"; a log is in the order of its ids.
ListingVars == <<lastTurn, state, previous, ancestors, log, walk>>

\* What a reader walks over: a branch, or one turn in either order.
Kinds == {"branch", "asc", "desc"}

\* turn.done, among the events numbered from 1.
Done == 0

NoWalk == [kind |-> "none", anchor |-> NoTurn, offset |-> 0, got |-> <<>>,
           over |-> FALSE, start |-> <<>>, fixed |-> FALSE]

ListingInit ==
    /\ lastTurn = NoTurn
    /\ state = [t \in Turns |-> "absent"]
    /\ previous = [t \in Turns |-> NoTurn]
    /\ ancestors = [t \in Turns |-> <<>>]
    /\ log = [t \in Turns |-> <<>>]
    /\ walk = NoWalk

-----------------------------------------------------------------------------
(* Turns and their events *)

\* s.slice(from - 1, from - 1 + n)
Slice(s, from, n) == SubSeq(s, from, Min({from + n - 1, Len(s)}))

\* Mutant of Window: the window keeps the oldest ancestors.
WindowOfOldest(p) == Slice(Append(ancestors[p], p), 1, MaxAncestors)

\* The window of a turn that continues p: the newest ancestors.
Window(p) ==
    LET all == Append(ancestors[p], p) IN
    Slice(all, Max({1, Len(all) - MaxAncestors + 1}), MaxAncestors)

\* A turn that continues an ended one, or none, becomes the session's tip.
CreateTurn(t, p) ==
    /\ state[t] = "absent"
    /\ p # NoTurn => state[p] = "ended"
    /\ state' = [state EXCEPT ![t] = "running"]
    /\ previous' = [previous EXCEPT ![t] = p]
    /\ ancestors' = [ancestors EXCEPT ![t] = IF p = NoTurn THEN <<>> ELSE Window(p)]
    /\ lastTurn' = t
    /\ UNCHANGED <<log, walk>>

\* The stream mints its ids in order.
AppendToEvents(t) ==
    /\ state[t] = "running" /\ Len(log[t]) < MaxEvents
    /\ log' = [log EXCEPT ![t] = Append(@, Len(@) + 1)]
    /\ UNCHANGED <<lastTurn, state, previous, ancestors, walk>>

\* The turn.done of a freeze has its id before it waits for the stream's writes.
EndTurn(t) ==
    /\ state[t] = "running"
    /\ state' = [state EXCEPT ![t] = "ended"]
    /\ \E i \in 1..Len(log[t]) + 1 : log' = [log EXCEPT ![t] = InsertAt(@, i, Done)]
    /\ UNCHANGED <<lastTurn, previous, ancestors, walk>>

-----------------------------------------------------------------------------
(* Listings *)

\* The turns of a window that are not on the chain.
Unchained(window, chain) ==
    LET kept[n \in 0..Len(window)] ==
            IF n = 0 THEN <<>>
            ELSE IF Contains(chain, window[n]) THEN kept[n - 1]
            ELSE Append(kept[n - 1], window[n])
    IN  kept[Len(window)]

\* One round of the loop: the oldest turn's own window goes in front.  A root's
\* window is empty, so the rounds after it change nothing.
Spill(chain) == Unchained(ancestors[Head(chain)], chain) \o chain

\* The branch of t, oldest first.
ResolveAncestorChain(t) ==
    LET round[n \in 0..Cardinality(Turns)] ==
            IF n = 0 THEN Append(ancestors[t], t) ELSE Spill(round[n - 1])
    IN  round[Cardinality(Turns)]

Items(t) == [i \in 1..Len(log[t]) |-> <<t, log[t][i]>>]

\* The whole listing a page is cut from, at this instant.
Listing(kind, t) ==
    CASE kind = "branch" -> LET chain == ResolveAncestorChain(t) IN
                            Reverse(FlattenSeq([i \in DOMAIN chain |-> Items(chain[i])]))
      [] kind = "desc"   -> Reverse(Items(t))
      [] kind = "asc"    -> Items(t)

\* The first request: an omitted last_turn_id is the session's tip.
StartWalk(kind, t) ==
    /\ walk = NoWalk
    /\ t = NoTurn => kind = "branch"
    /\ LET anchor == IF t = NoTurn THEN lastTurn ELSE t IN
       /\ anchor \in Turns /\ state[anchor] # "absent"
       /\ walk' = [NoWalk EXCEPT !.kind = kind, !.anchor = anchor,
                                 !.start = Listing(kind, anchor),
                                 !.fixed = state[anchor] = "ended"]
    /\ UNCHANGED <<lastTurn, state, previous, ancestors, log>>

Rows(limit) == Slice(Listing(walk.kind, walk.anchor), walk.offset + 1, limit + 1)

\* Mutant of Page: the next token counts the row read ahead.
PageAfterLookahead(limit) ==
    /\ walk.kind # "none" /\ ~walk.over
    /\ walk' = [walk EXCEPT !.got = @ \o Slice(Rows(limit), 1, limit),
                            !.offset = @ + Len(Rows(limit)),
                            !.over = Len(Rows(limit)) <= limit]
    /\ UNCHANGED <<lastTurn, state, previous, ancestors, log>>

\* A page: one row more than asked for tells whether there is a next token.
Page(limit) ==
    /\ walk.kind # "none" /\ ~walk.over
    /\ walk' = [walk EXCEPT !.got = @ \o Slice(Rows(limit), 1, limit),
                            !.offset = @ + limit,
                            !.over = Len(Rows(limit)) <= limit]
    /\ UNCHANGED <<lastTurn, state, previous, ancestors, log>>

-----------------------------------------------------------------------------

ListingNext ==
    \/ \E t \in Turns : \/ \E p \in Turns \cup {NoTurn} : CreateTurn(t, p)
                        \/ AppendToEvents(t) \/ EndTurn(t)
    \/ \E kind \in Kinds, t \in Turns \cup {NoTurn} : StartWalk(kind, t)
    \/ \E limit \in Limits : Page(limit)

ListingSpec == ListingInit /\ [][ListingNext]_ListingVars

-----------------------------------------------------------------------------
(* Properties.                                                             *)

\* The turns that t continues, oldest first, by their previous_turn_id.
Ancestry(t) ==
    LET up[u \in Turns] ==
            IF previous[u] = NoTurn THEN <<u>> ELSE Append(up[previous[u]], u)
    IN  up[t]

\* A branch resolved through truncated windows is the turn with all it
\* continues: nothing skipped or repeated at the edges, no sibling fork.
ChainIsAncestry ==
    \A t \in Turns : state[t] # "absent" => ResolveAncestorChain(t) = Ancestry(t)

\* Events written and turns created between two pages do not move a walk: it
\* shows every event it found, in order, though perhaps one again; on a branch
\* whose newest turn had ended it shows exactly those, each once.
WalkShowsWhatItFound ==
    walk.over =>
        LET at(e) == Min({i \in DOMAIN walk.got : walk.got[i] = e})
        IN  /\ \A i \in DOMAIN walk.start : Contains(walk.got, walk.start[i])
            /\ \A i, j \in DOMAIN walk.start :
                    i < j => at(walk.start[i]) < at(walk.start[j])
            /\ walk.fixed => walk.got = walk.start

=============================================================================
