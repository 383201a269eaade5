--------------------------- MODULE WorkforceProofs ---------------------------
(***************************************************************************)
(* Proofs about Workforce, for any number of bots and any bounds.          *)
(***************************************************************************)
EXTENDS Workforce, FunctionTheorems, FiniteSetTheorems, TLAPS

-----------------------------------------------------------------------------
(* The inductive invariant.                                                *)

Known == 1..minted
Listed == {file.bots[i].session : i \in DOMAIN file.bots}

\* The bots that the state file says are up.
Served == [o \in Ordinals |-> IF o <= Len(file.bots) THEN file.bots[o].session ELSE NoSession]

\* A session is created once, and not both in use and to be deleted.
SessionsAreApart ==
    /\ sessions \cup Listed \cup file.pending \cup rolledBack \subseteq Known
    /\ Listed \cap file.pending = {}

\* The bots before place n have joined again, each with its session or with
\* one of the replacements made.
RestoredBefore(n, made) ==
    /\ n \in 1..Len(file.bots) + 1
    /\ made \subseteq Known \ Listed
    /\ \A i \in 1..n - 1 :
        /\ active[i] \in made \cup {file.bots[i].session}
        /\ active[i] \in sessions \cup deleted
    /\ \A i, j \in 1..n - 1 : active[i] = active[j] => i = j
    /\ \A o \in Ordinals : o >= n => active[o] = NoSession

Dropping ==
    /\ active = Inactive
    /\ rolledBack \cap sessions \subseteq work.left /\ work.left \subseteq file.pending

Reconnecting == file.pending = {} /\ RestoredBefore(work.at, work.made)

Reattached ==
    /\ file.pending = {} /\ RestoredBefore(work.at, work.made)
    /\ work.at <= Len(file.bots)
    /\ work.session \in sessions \cup deleted
    /\ \/ work.session = file.bots[work.at].session
       \/ work.session \in work.made /\ \A i \in 1..work.at - 1 : active[i] # work.session

RestoringInv ==
    process = "restoring" =>
        /\ memory = NoState /\ queue = <<>>
        /\ work.pc \in {"dropping", "reconnecting", "reattaching"}
        /\ work.pc = "dropping" => Dropping
        /\ work.pc = "reconnecting" => Reconnecting
        /\ work.pc = "reattaching" => Reattached

\* The bot that is being spawned is the next one, with a session of its own.
Spawning ==
    /\ work.ordinal = file.next
    /\ work.session \in Known \ (Listed \cup file.pending)
    /\ work.pc # "compensating" => work.session \in sessions \cup deleted

ServingInv ==
    process = "serving" =>
        /\ memory = file
        /\ work.pc \notin {"dropping", "reconnecting", "reattaching"}
        /\ work.pc # "saving" => active = Served
        /\ work.pc \in {"attaching", "saving", "compensating"} => Spawning
        /\ work.pc = "saving" => active = [Served EXCEPT ![work.ordinal] = work.session]
        /\ work.pc \in {"deleting", "forgetting"} => work.session \in Known \ Listed
        /\ work.pc = "forgetting" => work.session \notin sessions

DownInv ==
    process = "down" => memory = NoState /\ active = Inactive /\ work = NoWork /\ queue = <<>>

\* What is true of the file and of TrueForge's sessions, and of the bridge.
RowsInv ==
    RosterIsContiguous /\ SessionsAreApart /\ ListedSessionsAreKept /\ RolledBackIsRemembered

BridgeInv ==
    DownInv /\ RestoringInv /\ ServingInv /\ (Waiting => process = "serving")

IInv == TypeOK /\ RowsInv /\ BridgeInv

-----------------------------------------------------------------------------
(* What a step does to the rows.                                           *)

\* A step that leaves file and sessions alone keeps what is known of them.
LEMMA RowsStay ==
    ASSUME RowsInv, UNCHANGED <<file, sessionVars, rolledBack>>
    PROVE  RowsInv' /\ Listed' = Listed /\ Served' = Served /\ Known' = Known
BY DEF RowsInv, RosterIsContiguous, SessionsAreApart, ListedSessionsAreKept,
       RolledBackIsRemembered, Listed, Served, Known, sessionVars

LEMMA ListedSession ==
    ASSUME NEW i \in DOMAIN file.bots
    PROVE  file.bots[i].session \in Listed
BY DEF Listed

\* Deleting sessions of no bot keeps it too.
LEMMA RowsSurviveDeletion ==
    ASSUME RowsInv, NEW D, D \cap Listed = {},
           sessions' = sessions \ D, UNCHANGED <<file, minted, deleted, rolledBack>>
    PROVE  RowsInv' /\ Listed' = Listed /\ Served' = Served /\ Known' = Known
<1>1. RosterIsContiguous' /\ Listed' = Listed /\ Served' = Served /\ Known' = Known
  BY DEF RowsInv, RosterIsContiguous, Listed, Served, Known
<1>2. SessionsAreApart'
  BY <1>1 DEF RowsInv, SessionsAreApart
<1>3. ListedSessionsAreKept'
  BY ListedSession DEF RowsInv, ListedSessionsAreKept
<1>4. RolledBackIsRemembered'
  BY DEF RowsInv, RolledBackIsRemembered
<1> QED
  BY <1>1, <1>2, <1>3, <1>4 DEF RowsInv

\* A new session is nobody's.
LEMMA RowsSurviveCreation ==
    ASSUME TypeOK, RowsInv, CreateSession, UNCHANGED <<file, rolledBack>>
    PROVE  /\ RowsInv' /\ Listed' = Listed /\ Served' = Served /\ Known \subseteq Known'
           /\ minted' \in Known' \ Known /\ minted' \in sessions' /\ minted' \in Nat
           /\ sessions' \subseteq Nat /\ deleted' = deleted /\ sessions \subseteq sessions'
<1>1. minted \in Nat /\ minted' = minted + 1 /\ sessions' = sessions \cup {minted'} /\ deleted' = deleted
  BY DEF TypeOK, CreateSession
<1>2. Known \subseteq Known' /\ minted' \in Known' \ Known
  BY <1>1 DEF Known
<1>3. RosterIsContiguous' /\ Listed' = Listed /\ Served' = Served
  BY DEF RowsInv, RosterIsContiguous, Listed, Served
<1>4. SessionsAreApart'
  BY <1>1, <1>2, <1>3 DEF RowsInv, SessionsAreApart
<1>5. ListedSessionsAreKept'
  BY <1>1 DEF RowsInv, ListedSessionsAreKept
<1>6. RolledBackIsRemembered'
  BY <1>1, <1>2 DEF RowsInv, RolledBackIsRemembered, SessionsAreApart
<1> QED
  BY <1>1, <1>2, <1>3, <1>4, <1>5, <1>6 DEF RowsInv, TypeOK
-----------------------------------------------------------------------------
(* Restoring.                                                              *)

\* The bots of the file, as a sequence.
LEMMA FileBots ==
    ASSUME IInv
    PROVE  /\ file \in States
           /\ file.bots \in Seq([ordinal : Ordinals, session : Nat])
           /\ file.next \in Nat /\ file.pending \subseteq Nat
           /\ Len(file.bots) \in Nat /\ DOMAIN file.bots = 1..Len(file.bots)
           /\ Len(file.bots) <= MaxBots /\ file.next = Len(file.bots) + 1
           /\ \A i \in 1..Len(file.bots) :
                /\ i \in Ordinals /\ file.bots[i] \in [ordinal : Ordinals, session : Nat]
                /\ file.bots[i].ordinal = i
                /\ file.bots[i].session \in Nat /\ file.bots[i].session \in Listed
           /\ \A i, j \in 1..Len(file.bots) :
                file.bots[i].session = file.bots[j].session => i = j
<1> USE WorkforceAssumption
<1>1. file \in States
  BY DEF IInv, TypeOK
<1>2. /\ file.bots \in Seq([ordinal : Ordinals, session : Nat])
      /\ file.next \in Nat /\ file.pending \subseteq Nat
  BY <1>1 DEF States
<1>3. Len(file.bots) \in Nat /\ DOMAIN file.bots = 1..Len(file.bots)
  BY <1>2
<1>4. RosterIsContiguous
  BY DEF IInv, RowsInv
<1>5. \A i \in 1..Len(file.bots) : file.bots[i] \in [ordinal : Ordinals, session : Nat]
  <2> DEFINE R == [ordinal : Ordinals, session : Nat]
  <2>1. file.bots \in Seq(R)
    BY <1>2
  <2> HIDE DEF R
  <2>2. \A i \in 1..Len(file.bots) : file.bots[i] \in R
    BY <2>1
  <2> QED
    BY <2>2 DEF R
<1>6. 1..Len(file.bots) \subseteq Ordinals
  BY <1>3, <1>4 DEF RosterIsContiguous, Ordinals
<1> QED
  BY <1>1, <1>2, <1>3, <1>4, <1>5, <1>6, ListedSession DEF RosterIsContiguous

LEMMA InitInv ==
    ASSUME Init
    PROVE  IInv
<1> USE WorkforceAssumption
<1>1. TypeOK
  BY DEF Init, TypeOK, States, NoState, Inactive, NoSession, NoWork, Works, Idle, Plugins
<1>2. RowsInv
  BY DEF Init, RowsInv, RosterIsContiguous, SessionsAreApart, ListedSessionsAreKept,
         RolledBackIsRemembered, Listed
<1>3. BridgeInv
  BY DEF Init, BridgeInv, DownInv, RestoringInv, ServingInv, Waiting, Idle
<1> QED
  BY <1>1, <1>2, <1>3 DEF IInv

LEMMA StartInv ==
    ASSUME IInv, Start
    PROVE  IInv'
<1>1. work' \in [pc : {"dropping"}, left : SUBSET Nat] /\ work'.left = file.pending
      /\ process' = "restoring" /\ work'.pc = "dropping"
  BY DEF Start, IInv, TypeOK, States
<1>2. TypeOK'
  BY <1>1 DEF Start, pluginVars, sessionVars, IInv, TypeOK, Works
<1>3. RowsInv' /\ Listed' = Listed /\ Served' = Served /\ Known' = Known
  BY RowsStay DEF IInv, Start
<1>4. BridgeInv'
  BY <1>1 DEF Start, pluginVars, sessionVars, IInv, BridgeInv, DownInv, RestoringInv, ServingInv,
              Dropping, RowsInv, RolledBackIsRemembered, Waiting
<1> QED
  BY <1>2, <1>3, <1>4 DEF IInv

LEMMA RestoreDropsInv ==
    ASSUME IInv, NEW s, RestoreDrops(s)
    PROVE  IInv'
<1>1. /\ work.pc = "dropping" /\ process = "restoring" /\ s \in work.left
      /\ Dropping /\ work \in [pc : {"dropping"}, left : SUBSET Nat]
  BY DEF RestoreDrops, Restoring, IInv, BridgeInv, RestoringInv, TypeOK, Works, NoWork
<1>2. work' \in [pc : {"dropping"}, left : SUBSET Nat] /\ work'.left = work.left \ {s}
  BY <1>1 DEF RestoreDrops
<1>3. sessions' = sessions \ {s} /\ UNCHANGED <<minted, deleted>>
  BY DEF RestoreDrops, DeleteSession
<1>4. {s} \cap Listed = {}
  BY <1>1 DEF Dropping, IInv, RowsInv, SessionsAreApart
<1>5. RowsInv'
  BY <1>3, <1>4, RowsSurviveDeletion DEF IInv, RestoreDrops
<1>6. TypeOK'
  BY <1>2, <1>3 DEF RestoreDrops, pluginVars, IInv, TypeOK, Works
<1>7. BridgeInv'
  BY <1>1, <1>2, <1>3 DEF RestoreDrops, pluginVars, IInv, BridgeInv, DownInv, RestoringInv,
                          ServingInv, Dropping, Waiting
<1> QED
  BY <1>5, <1>6, <1>7 DEF IInv

LEMMA RestoreForgetsInv ==
    ASSUME IInv, RestoreForgets
    PROVE  IInv'
<1>1. /\ work.pc = "dropping" /\ process = "restoring" /\ work.left = {} /\ Dropping
      /\ file \in States /\ file' = [file EXCEPT !.pending = {}]
  BY DEF RestoreForgets, Restoring, IInv, BridgeInv, RestoringInv, TypeOK
<1>2. file' \in States /\ file'.bots = file.bots /\ file'.next = file.next /\ file'.pending = {}
  BY <1>1 DEF States
<1>3. work' \in [pc : {"reconnecting"}, at : Nat, made : SUBSET Nat]
      /\ work'.at = 1 /\ work'.made = {}
  BY DEF RestoreForgets
<1>4. TypeOK'
  BY <1>2, <1>3 DEF RestoreForgets, pluginVars, sessionVars, IInv, TypeOK, Works
<1>5. Listed' = Listed /\ Known' = Known
  BY <1>2 DEF Listed, Known, RestoreForgets, sessionVars
<1>6. RowsInv'
  BY <1>1, <1>2, <1>5 DEF RestoreForgets, sessionVars, Dropping, IInv, RowsInv, RosterIsContiguous,
              SessionsAreApart, ListedSessionsAreKept, RolledBackIsRemembered
<1>7. RestoredBefore(1, {})'
  BY <1>1, <1>2 DEF RestoreForgets, Dropping, RestoredBefore, Inactive, IInv, TypeOK, States
<1>8. BridgeInv'
  BY <1>1, <1>2, <1>3, <1>7 DEF RestoreForgets, pluginVars, IInv, BridgeInv, DownInv, RestoringInv,
                          ServingInv, Reconnecting, Waiting
<1> QED
  BY <1>4, <1>6, <1>8 DEF IInv

\* What each place of a restore knows.
LEMMA AtReconnecting ==
    ASSUME IInv, Restoring("reconnecting")
    PROVE  /\ process = "restoring" /\ memory = NoState /\ queue = <<>> /\ ~Waiting
           /\ work \in [pc : {"reconnecting"}, at : Nat, made : SUBSET Nat]
           /\ file.pending = {} /\ RestoredBefore(work.at, work.made)
           /\ file \in States /\ work.at \in 1..Len(file.bots) + 1
BY DEF Restoring, IInv, BridgeInv, RestoringInv, TypeOK, Works, NoWork, Reconnecting, RestoredBefore

LEMMA AtReattaching ==
    ASSUME IInv, Restoring("reattaching")
    PROVE  /\ process = "restoring" /\ memory = NoState /\ queue = <<>> /\ ~Waiting
           /\ work \in [pc : {"reattaching"}, at : Nat, session : Nat, made : SUBSET Nat]
           /\ Reattached /\ file \in States /\ work.at \in 1..Len(file.bots)
BY DEF Restoring, IInv, BridgeInv, RestoringInv, TypeOK, Works, NoWork, Reattached, RestoredBefore

LEMMA RestoreFindsInv ==
    ASSUME IInv, RestoreFinds
    PROVE  IInv'
<1> DEFINE s == file.bots[work.at].session
<1>1. Restoring("reconnecting") /\ work.at <= Len(file.bots) /\ s \in sessions
  BY DEF RestoreFinds
<1>2. work.at \in DOMAIN file.bots /\ s \in Nat
  BY <1>1, AtReconnecting, FileBots
<1>3. /\ work' \in [pc : {"reattaching"}, at : Nat, session : Nat, made : SUBSET Nat]
      /\ work'.at = work.at /\ work'.session = s /\ work'.made = work.made
  BY <1>1, <1>2, AtReconnecting DEF RestoreFinds, Reattaching
<1>4. RowsInv' /\ Listed' = Listed /\ Known' = Known
  BY RowsStay DEF IInv, RestoreFinds
<1>5. TypeOK'
  BY <1>3 DEF RestoreFinds, pluginVars, sessionVars, IInv, TypeOK, Works
<1>6. Reattached'
  BY <1>1, <1>3, <1>4, AtReconnecting DEF RestoreFinds, sessionVars, Reattached, RestoredBefore
<1>7. BridgeInv'
  BY <1>1, <1>3, <1>6, AtReconnecting
  DEF RestoreFinds, pluginVars, BridgeInv, DownInv, RestoringInv, ServingInv, Waiting
<1> QED
  BY <1>4, <1>5, <1>7 DEF IInv

LEMMA RestoreReplacesInv ==
    ASSUME IInv, RestoreReplaces
    PROVE  IInv'
<1>1. Restoring("reconnecting") /\ work.at <= Len(file.bots) /\ CreateSession
  BY DEF RestoreReplaces
<1>2. /\ RowsInv' /\ Listed' = Listed /\ Known \subseteq Known'
      /\ minted' \in Known' \ Known /\ minted' \in sessions' /\ minted' \in Nat
      /\ sessions' \subseteq Nat /\ deleted' = deleted /\ sessions \subseteq sessions'
  BY <1>1, RowsSurviveCreation DEF IInv, RestoreReplaces
<1>3. /\ work' \in [pc : {"reattaching"}, at : Nat, session : Nat, made : SUBSET Nat]
      /\ work'.at = work.at /\ work'.session = minted' /\ work'.made = work.made \cup {minted'}
  BY <1>1, <1>2, AtReconnecting DEF RestoreReplaces, Reattaching
<1>4. faults' \in Nat
  BY DEF RestoreReplaces, Fault, IInv, TypeOK
<1>5. TypeOK'
  BY <1>2, <1>3, <1>4 DEF RestoreReplaces, pluginVars, IInv, TypeOK, Works
<1>6. Listed \subseteq Known
  BY DEF IInv, RowsInv, SessionsAreApart
<1>7. \A i \in 1..work.at - 1 : active[i] \in Known
  <2> TAKE i \in 1..work.at - 1
  <2>1. work.at \in Nat /\ Len(file.bots) \in Nat /\ i \in 1..Len(file.bots)
    BY <1>1, FileBots, AtReconnecting
  <2>2. file.bots[i].session \in Known
    BY <1>6, <2>1, FileBots
  <2>3. active[i] \in work.made \cup {file.bots[i].session} /\ work.made \subseteq Known
    BY <1>1, AtReconnecting DEF RestoredBefore
  <2> QED
    BY <2>2, <2>3
<1>8. RestoredBefore(work.at, work.made)'
  <2>1. RestoredBefore(work.at, work.made) /\ UNCHANGED <<file, active>>
    BY <1>1, AtReconnecting DEF RestoreReplaces
  <2>2. work.made \cup {minted'} \subseteq (Known \ Listed)'
    BY <1>2, <1>6, <2>1 DEF RestoredBefore
  <2>3. \A i \in 1..work.at - 1 :
            /\ active'[i] \in work.made \cup {minted'} \cup {file.bots[i].session}
            /\ active'[i] \in (sessions \cup deleted)'
    BY <1>2, <2>1 DEF RestoredBefore
  <2> QED
    BY <1>3, <2>1, <2>2, <2>3 DEF RestoredBefore
<1>9. Reattached'
  <2>1. UNCHANGED <<file, active>> /\ file.pending = {}
    BY <1>1, AtReconnecting DEF RestoreReplaces
  <2>2. work'.session \in sessions' /\ work'.session \in work'.made
    BY <1>2, <1>3
  <2>3. \A i \in 1..work'.at - 1 : active'[i] # work'.session
    BY <1>2, <1>3, <1>7, <2>1
  <2>4. work'.at <= Len(file'.bots)
    BY <1>1, <1>3, <2>1
  <2> QED
    BY <1>8, <2>1, <2>2, <2>3, <2>4 DEF Reattached
<1>10. BridgeInv'
  BY <1>1, <1>3, <1>9, AtReconnecting
  DEF RestoreReplaces, pluginVars, BridgeInv, DownInv, RestoringInv, ServingInv, Waiting
<1> QED
  BY <1>2, <1>5, <1>10 DEF IInv

LEMMA RestoreAttachesInv ==
    ASSUME IInv, RestoreAttaches
    PROVE  IInv'
<1> USE WorkforceAssumption
<1> DEFINE n == work.at
<1>1. Restoring("reattaching") /\ Reattached /\ n \in 1..Len(file.bots)
  BY AtReattaching DEF RestoreAttaches
<1>2. file.bots[n].ordinal = n /\ n \in Ordinals /\ file.bots[n].session \in Listed
  BY <1>1, FileBots
<1>3. active' = [active EXCEPT ![n] = work.session] /\ active \in [Ordinals -> Nat]
      /\ work.session \in Nat
  BY <1>1, <1>2, AtReattaching DEF RestoreAttaches, IInv, TypeOK
<1>4. /\ work' \in [pc : {"reconnecting"}, at : Nat, made : SUBSET Nat]
      /\ work'.at = n + 1 /\ work'.made = work.made
  BY <1>1, AtReattaching DEF RestoreAttaches
<1>5. RowsInv' /\ Listed' = Listed /\ Known' = Known
  BY RowsStay DEF IInv, RestoreAttaches
<1>6. TypeOK'
  BY <1>3, <1>4 DEF RestoreAttaches, pluginVars, sessionVars, IInv, TypeOK, Works
<1>7. active'[n] = work.session /\ \A o \in Ordinals \ {n} : active'[o] = active[o]
  BY <1>2, <1>3
<1>8. 1..n \subseteq Ordinals /\ n \in Nat /\ 1..n = (1..n - 1) \cup {n}
  BY <1>1, <1>2 DEF Ordinals
<1>9. \A i \in 1..n - 1 : active[i] # work.session
  <2> TAKE i \in 1..n - 1
  <2>1. CASE work.session = file.bots[n].session
    <3>1. n \in Nat /\ Len(file.bots) \in Nat /\ n \in 1..Len(file.bots)
      BY <1>1, FileBots, AtReattaching DEF RestoreAttaches
    <3>2. i \in 1..Len(file.bots) /\ i # n
      BY <3>1
    <3>3. file.bots[i].session # file.bots[n].session
      BY <3>1, <3>2, FileBots
    <3>4. active[i] \in work.made \cup {file.bots[i].session} /\ work.made \cap Listed = {}
      BY <1>1 DEF Reattached, RestoredBefore
    <3> QED
      BY <2>1, <3>3, <3>4, <1>2
  <2>2. CASE work.session # file.bots[n].session
    BY <1>1, <2>2 DEF Reattached
  <2> QED
    BY <2>1, <2>2
<1>10. RestoredBefore(work.at, work.made)'
  <2>1. n \in Nat /\ n + 1 \in 1..Len(file.bots) + 1 /\ n + 1 - 1 = n
    <3>1. Len(file.bots) \in Nat
      BY FileBots
    <3> QED
      BY <1>1, <3>1
  <2>2. \A i \in 1..n : active'[i] \in work.made \cup {file.bots[i].session}
                        /\ active'[i] \in sessions \cup deleted
    BY <1>1, <1>7, <1>8 DEF Reattached, RestoredBefore
  <2>3. \A i, j \in 1..n : active'[i] = active'[j] => i = j
    <3>1. \A i, j \in 1..n - 1 : active[i] = active[j] => i = j
      BY <1>1 DEF Reattached, RestoredBefore
    <3>2. \A i \in 1..n - 1 : i # n /\ i \in Ordinals
      BY <1>8
    <3>3. \A i \in 1..n - 1 : active'[i] = active[i] /\ active'[i] # active'[n]
      BY <1>7, <1>9, <3>2
    <3> QED
      BY <1>8, <3>1, <3>3
  <2>4. \A o \in Ordinals : o >= n + 1 => active'[o] = NoSession
    <3> SUFFICES ASSUME NEW o \in Ordinals, o >= n + 1
                 PROVE  active'[o] = NoSession
      OBVIOUS
    <3>1. o \in Nat
      BY DEF Ordinals
    <3>2. o # n /\ o >= n
      BY <2>1, <3>1
    <3>3. active[o] = NoSession
      BY <1>1, <3>2 DEF Reattached, RestoredBefore
    <3> QED
      BY <1>7, <3>2, <3>3
  <2>5. work.made \subseteq (Known \ Listed)'
    BY <1>1, <1>5 DEF Reattached, RestoredBefore
  <2> QED
    <3>1. UNCHANGED <<file, sessions, deleted>> /\ work'.at - 1 = n /\ work'.made = work.made
      BY <1>4, <2>1 DEF RestoreAttaches, sessionVars
    <3>2. \A i \in 1..work'.at - 1 : /\ active'[i] \in work'.made \cup {file'.bots[i].session}
                                    /\ active'[i] \in sessions' \cup deleted'
      BY <2>2, <3>1
    <3>3. \A i, j \in 1..work'.at - 1 : active'[i] = active'[j] => i = j
      BY <2>3, <3>1
    <3> QED
      BY <1>4, <2>1, <2>4, <2>5, <3>1, <3>2, <3>3 DEF RestoredBefore
<1>11. BridgeInv'
  BY <1>1, <1>4, <1>10, AtReattaching
  DEF RestoreAttaches, pluginVars, Reattached, Reconnecting, BridgeInv, DownInv, RestoringInv,
      ServingInv, Waiting
<1> QED
  BY <1>5, <1>6, <1>11 DEF IInv

LEMMA RestoreSavesInv ==
    ASSUME IInv, RestoreSaves
    PROVE  IInv'
<1> USE WorkforceAssumption
<1> DEFINE n == Len(file.bots)
<1>1. /\ process = "restoring" /\ ~Waiting /\ file.pending = {} /\ RestoredBefore(work.at, work.made)
      /\ work.at = n + 1 /\ n \in Nat
  BY AtReconnecting, FileBots DEF RestoreSaves
<1>2. \A i \in 1..n : /\ active[i] \in work.made \cup {file.bots[i].session}
                      /\ active[i] \in sessions \cup deleted
                      /\ active[i] \in Nat /\ i \in Ordinals
  <2> TAKE i \in 1..n
  <2>1. i \in 1..work.at - 1
    BY <1>1
  <2>2. i \in Ordinals
    BY FileBots
  <2>3. active[i] \in Nat
    BY <2>2 DEF IInv, TypeOK
  <2>4. active[i] \in work.made \cup {file.bots[i].session} /\ active[i] \in sessions \cup deleted
    BY <1>1, <2>1 DEF RestoredBefore
  <2> QED
    BY <2>2, <2>3, <2>4
<1>3. \A i, j \in 1..n : active[i] = active[j] => i = j
  BY <1>1 DEF RestoredBefore
<1>4. Restored.bots = [i \in 1..n |-> [ordinal |-> i, session |-> active[i]]]
  BY FileBots DEF Restored, States
<1>5. Restored.bots \in Seq([ordinal : Ordinals, session : Nat]) /\ Len(Restored.bots) = n
  BY <1>1, <1>2, <1>4
<1>6. Restored \in States /\ Restored.next = file.next /\ Restored.pending = {}
  BY <1>1, <1>5, FileBots DEF Restored, States
<1>7. file' = Restored /\ memory' = Restored /\ process' = "serving" /\ work' = NoWork
      /\ UNCHANGED <<active, queue, pluginVars, sessionVars, rolledBack, faults>>
  BY DEF RestoreSaves
<1>8. \A i \in 1..n : /\ Restored.bots[i] = [ordinal |-> i, session |-> active[i]]
                      /\ Restored.bots[i].ordinal = i /\ Restored.bots[i].session = active[i]
  BY <1>4
<1>9. DOMAIN Restored.bots = 1..n
  BY <1>4
<1>10. TypeOK'
  BY <1>6, <1>7 DEF pluginVars, sessionVars, IInv, TypeOK, Works
<1>11. RosterIsContiguous'
  <2>1. n <= MaxBots /\ file'.next = n + 1 /\ Len(file'.bots) = n /\ DOMAIN file'.bots = 1..n
    BY <1>5, <1>6, <1>7, <1>9, FileBots
  <2>2. \A i \in 1..n : file'.bots[i].ordinal = i /\ file'.bots[i].session = active[i]
    BY <1>7, <1>8
  <2>3. \A i, j \in 1..n : file'.bots[i].session = file'.bots[j].session => i = j
    <3> TAKE i, j \in 1..n
    <3>1. file'.bots[i].session = active[i] /\ file'.bots[j].session = active[j]
      BY <2>2
    <3> QED
      BY <1>3, <3>1
  <2>4. \A i \in DOMAIN file'.bots : file'.bots[i].ordinal = i
    BY <2>1, <2>2
  <2>5. \A i, j \in DOMAIN file'.bots : file'.bots[i].session = file'.bots[j].session => i = j
    BY <2>1, <2>3
  <2>6. Len(file'.bots) <= MaxBots /\ file'.next = Len(file'.bots) + 1
    BY <2>1
  <2> QED
    BY <2>4, <2>5, <2>6 DEF RosterIsContiguous
<1>12. Listed' \subseteq Known
  <2>1. Listed \subseteq Known /\ work.made \subseteq Known
    BY <1>1 DEF RestoredBefore, IInv, RowsInv, SessionsAreApart
  <2>2. \A i \in 1..n : active[i] \in Known
    BY <1>2, <2>1, FileBots
  <2>3. ASSUME NEW x \in Listed' PROVE x \in Known
    <3>1. PICK i \in DOMAIN file'.bots : x = file'.bots[i].session
      BY <2>3 DEF Listed
    <3>2. i \in 1..n /\ x = active[i]
      BY <1>7, <1>8, <1>9, <3>1
    <3> QED
      BY <2>2, <3>2
  <2> QED
    BY <2>3
<1>13. SessionsAreApart'
  BY <1>6, <1>7, <1>12 DEF sessionVars, Known, IInv, RowsInv, SessionsAreApart
<1>14. ListedSessionsAreKept'
  BY <1>2, <1>7, <1>8, <1>9 DEF sessionVars, ListedSessionsAreKept
<1>15. RolledBackIsRemembered'
  BY <1>1, <1>6, <1>7 DEF sessionVars, IInv, RowsInv, RolledBackIsRemembered
<1>16. active' = Served'
  <2>1. active \in [Ordinals -> Nat] /\ Ordinals \subseteq Nat
    BY DEF IInv, TypeOK, Ordinals
  <2>2. \A o \in Ordinals :
          active[o] = IF o <= Len(Restored.bots) THEN Restored.bots[o].session ELSE NoSession
    <3> TAKE o \in Ordinals
    <3>1. CASE o <= n
      <4>1. o \in 1..n
        BY <1>1, <2>1, <3>1 DEF Ordinals
      <4> QED
        BY <1>5, <1>8, <3>1, <4>1
    <3>2. CASE ~(o <= n)
      <4>1. o >= work.at
        BY <1>1, <2>1, <3>2
      <4> QED
        BY <1>1, <1>5, <3>2, <4>1 DEF RestoredBefore
    <3> QED
      BY <3>1, <3>2
  <2> QED
    BY <1>7, <2>1, <2>2 DEF Served
<1>17. BridgeInv'
  BY <1>1, <1>7, <1>16 DEF pluginVars, BridgeInv, DownInv, RestoringInv, ServingInv, Waiting, NoWork
<1> QED
  BY <1>10, <1>11, <1>13, <1>14, <1>15, <1>17 DEF IInv, RowsInv

LEMMA RestoreFailsInv ==
    ASSUME IInv, RestoreFails
    PROVE  IInv'
<1>1. /\ process = "restoring" /\ process' = "down" /\ work' = NoWork /\ active' = Inactive
      /\ memory = NoState /\ queue = <<>> /\ ~Waiting
      /\ UNCHANGED <<file, memory, queue, pluginVars, rolledBack>>
  BY DEF RestoreFails, IInv, BridgeInv, RestoringInv
<1>2. PICK D : D \cap Listed = {} /\ sessions' = sessions \ D /\ UNCHANGED <<minted, deleted>>
  <2>1. CASE work.pc = "dropping"
    <3>1. Dropping
      BY <1>1, <2>1 DEF IInv, BridgeInv, RestoringInv
    <3>2. CASE UNCHANGED sessionVars
      BY <3>2, sessions' = sessions \ {} DEF sessionVars
    <3>3. ASSUME NEW s \in work.left, DeleteSession(s)
          PROVE  {s} \cap Listed = {} /\ sessions' = sessions \ {s} /\ UNCHANGED <<minted, deleted>>
      BY <3>1, <3>3 DEF Dropping, DeleteSession, IInv, RowsInv, SessionsAreApart
    <3> QED
      BY <2>1, <3>2, <3>3 DEF RestoreFails
  <2>2. CASE work.pc # "dropping"
    <3>1. work.made \cap Listed = {}
      BY <1>1, <2>2 DEF IInv, BridgeInv, RestoringInv, Reconnecting, Reattached, RestoredBefore
    <3>2. PICK D \in SUBSET work.made : sessions' = sessions \ D /\ UNCHANGED <<minted, deleted>>
      BY <2>2 DEF RestoreFails
    <3> QED
      BY <3>1, <3>2
  <2> QED
    BY <2>1, <2>2
<1>3. RowsInv'
  BY <1>1, <1>2, RowsSurviveDeletion DEF IInv
<1>4. TypeOK'
  <2>1. active' \in [Ordinals -> Nat]
    BY <1>1 DEF Inactive, NoSession
  <2>2. faults' \in Nat
    BY DEF RestoreFails, Fault, IInv, TypeOK
  <2>3. sessions' \subseteq Nat
    BY <1>2 DEF IInv, TypeOK
  <2> QED
    BY <1>1, <1>2, <2>1, <2>2, <2>3 DEF pluginVars, IInv, TypeOK, Works
<1>5. BridgeInv'
  BY <1>1 DEF pluginVars, BridgeInv, DownInv, RestoringInv, ServingInv, Waiting
<1> QED
  BY <1>3, <1>4, <1>5 DEF IInv

-----------------------------------------------------------------------------
(* Serving.                                                                *)

Requests == [kind : {"spawn", "rollback", "ready"}, slot : 0..MaxBots, live : BOOLEAN]
Spawnings == [pc : {"attaching", "saving", "compensating"}, ordinal : Ordinals, session : Nat,
              live : BOOLEAN]
RollingBacks == [pc : {"deleting", "forgetting"}, session : Nat, live : BOOLEAN]

\* Between requests, what is known and what the next request may be.
LEMMA AtRequest ==
    ASSUME IInv, NEW kind, Serving(kind)
    PROVE  /\ process = "serving" /\ memory = file /\ active = Served /\ work = NoWork
           /\ queue \in Seq(Requests) /\ queue # <<>>
           /\ Head(queue) \in Requests /\ Head(queue).live \in BOOLEAN
           /\ Tail(queue) \in Seq(Requests)
<1>1. process = "serving" /\ work = NoWork /\ queue # <<>>
  BY DEF Serving
<1>2. queue \in Seq(Requests)
  BY DEF IInv, TypeOK, Requests
<1>3. Head(queue) \in Requests /\ Tail(queue) \in Seq(Requests)
  <2> HIDE DEF Requests
  <2> QED
    BY <1>1, <1>2
<1>4. Head(queue).live \in BOOLEAN
  BY <1>3 DEF Requests
<1>5. memory = file /\ active = Served
  BY <1>1 DEF IInv, BridgeInv, ServingInv, NoWork
<1> QED
  BY <1>1, <1>2, <1>3, <1>4, <1>5

LEMMA AtSpawning ==
    ASSUME IInv, process = "serving", work.pc \in {"attaching", "saving", "compensating"}
    PROVE  memory = file /\ Spawning /\ work \in Spawnings
BY DEF IInv, BridgeInv, ServingInv, TypeOK, Works, NoWork, Spawnings

LEMMA AtRollingBack ==
    ASSUME IInv, process = "serving", work.pc \in {"deleting", "forgetting"}
    PROVE  /\ memory = file /\ active = Served /\ work \in RollingBacks
           /\ work.session \in Known \ Listed
BY DEF IInv, BridgeInv, ServingInv, TypeOK, Works, NoWork, RollingBacks

\* A response keeps the plugin typed.
LEMMA Answered ==
    ASSUME plugin \in Plugins, NEW live \in BOOLEAN, NEW placing \in Ordinals \cup {0},
           Answer(live, placing)
    PROVE  plugin' \in Plugins
BY DEF Answer, Plugins, Idle

\* A request that is over leaves the bridge between requests.
LEMMA Settles ==
    ASSUME process' = "serving", memory' = file', work' = NoWork, active' = Served'
    PROVE  BridgeInv'
BY DEF BridgeInv, DownInv, RestoringInv, ServingInv, Waiting, NoWork

LEMMA SpawnRefusedInv ==
    ASSUME IInv, SpawnRefused
    PROVE  IInv'
<1>1. Serving("spawn") /\ Answer(Head(queue).live, 0) /\ queue' = Tail(queue)
      /\ UNCHANGED <<file, memory, active, process, work, placed, spawns, sessionVars, rolledBack, faults>>
  BY DEF SpawnRefused
<1>2. RowsInv' /\ Served' = Served
  BY <1>1, RowsStay DEF IInv
<1>3. plugin' \in Plugins
  BY <1>1, AtRequest, Answered DEF IInv, TypeOK
<1>4. TypeOK'
  BY <1>1, <1>3, AtRequest DEF sessionVars, IInv, TypeOK, Requests
<1>5. BridgeInv'
  BY <1>1, <1>2, AtRequest, Settles
<1> QED
  BY <1>2, <1>4, <1>5 DEF IInv

LEMMA SpawnConnectsInv ==
    ASSUME IInv, SpawnConnects
    PROVE  IInv'
<1> USE WorkforceAssumption
<1>1. /\ Serving("spawn") /\ memory.next <= MaxBots /\ CreateSession /\ queue' = Tail(queue)
      /\ UNCHANGED <<file, memory, active, process, pluginVars, rolledBack, faults>>
  BY DEF SpawnConnects, MaySpawn
<1>2. /\ RowsInv' /\ Listed' = Listed /\ Served' = Served /\ Known \subseteq Known'
      /\ minted' \in Known' \ Known /\ minted' \in sessions' /\ minted' \in Nat
      /\ sessions' \subseteq Nat /\ deleted' = deleted
  BY <1>1, RowsSurviveCreation DEF IInv
<1>3. memory.next = file.next /\ memory.next \in Ordinals
  BY <1>1, AtRequest, FileBots DEF Ordinals
<1>4. work' \in Spawnings /\ work'.pc = "attaching" /\ work'.ordinal = file.next
      /\ work'.session = minted'
  BY <1>1, <1>2, <1>3, AtRequest DEF SpawnConnects, Spawnings
<1>5. TypeOK'
  BY <1>1, <1>2, <1>4, AtRequest DEF pluginVars, IInv, TypeOK, Works, Spawnings, Requests
<1>6. Spawning'
  BY <1>1, <1>2, <1>4 DEF Spawning, IInv, RowsInv, SessionsAreApart
<1>7. BridgeInv'
  BY <1>1, <1>2, <1>4, <1>6, AtRequest DEF BridgeInv, DownInv, RestoringInv, ServingInv
<1> QED
  BY <1>2, <1>5, <1>7 DEF IInv

LEMMA SpawnConnectFailsInv ==
    ASSUME IInv, SpawnConnectFails
    PROVE  IInv'
<1>1. /\ Serving("spawn") /\ Answer(Head(queue).live, 0) /\ queue' = Tail(queue)
      /\ UNCHANGED <<file, memory, active, process, work, placed, spawns, rolledBack>>
  BY DEF SpawnConnectFails, MaySpawn
<1>2. RowsInv' /\ Served' = Served /\ sessions' \subseteq Nat /\ minted' \in Nat /\ deleted' = deleted
  <2>1. CASE CreateSession
    BY <1>1, <2>1, RowsSurviveCreation DEF IInv
  <2>2. CASE UNCHANGED sessionVars
    BY <1>1, <2>2, RowsStay DEF IInv, TypeOK, sessionVars
  <2> QED
    BY <2>1, <2>2 DEF SpawnConnectFails, ProvisionFails
<1>3. plugin' \in Plugins
  BY <1>1, AtRequest, Answered DEF IInv, TypeOK
<1>4. faults' \in Nat
  BY DEF SpawnConnectFails, Fault, IInv, TypeOK
<1>5. TypeOK'
  BY <1>1, <1>2, <1>3, <1>4, AtRequest DEF IInv, TypeOK, Requests
<1>6. BridgeInv'
  BY <1>1, <1>2, AtRequest, Settles
<1> QED
  BY <1>2, <1>5, <1>6 DEF IInv

LEMMA SpawnAttachesInv ==
    ASSUME IInv, SpawnAttaches
    PROVE  IInv'
<1>1. /\ process = "serving" /\ work.pc = "attaching" /\ work \in Spawnings
      /\ memory = file /\ Spawning /\ active = Served
      /\ UNCHANGED <<file, memory, process, queue, pluginVars, sessionVars, rolledBack, faults>>
  BY AtSpawning DEF SpawnAttaches, Working, IInv, BridgeInv, ServingInv
<1>2. /\ work' \in Spawnings /\ work'.pc = "saving" /\ work'.ordinal = work.ordinal
      /\ work'.session = work.session /\ work.ordinal \in Ordinals /\ work.session \in Nat
  BY <1>1 DEF SpawnAttaches, Spawnings
<1>3. active' = [Served EXCEPT ![work.ordinal] = work.session] /\ active' \in [Ordinals -> Nat]
  BY <1>1, <1>2 DEF SpawnAttaches, IInv, TypeOK
<1>4. RowsInv' /\ Listed' = Listed /\ Served' = Served /\ Known' = Known
  BY <1>1, RowsStay DEF IInv
<1>5. TypeOK'
  BY <1>1, <1>2, <1>3 DEF pluginVars, sessionVars, IInv, TypeOK, Works, Spawnings
<1>6. Spawning'
  BY <1>1, <1>2, <1>4 DEF sessionVars, Spawning
<1>7. BridgeInv'
  BY <1>1, <1>2, <1>3, <1>4, <1>6 DEF BridgeInv, DownInv, RestoringInv, ServingInv
<1> QED
  BY <1>4, <1>5, <1>7 DEF IInv

\* A session that is no bot's may be deleted.
LEMMA SessionOfNoBot ==
    ASSUME RowsInv, NEW s, s \notin Listed, TryDelete(s), UNCHANGED <<file, rolledBack>>
    PROVE  /\ RowsInv' /\ Listed' = Listed /\ Served' = Served /\ Known' = Known
           /\ sessions' \subseteq sessions /\ minted' = minted /\ deleted' = deleted
<1>1. CASE DeleteSession(s)
  <2>1. {s} \cap Listed = {} /\ sessions' = sessions \ {s} /\ UNCHANGED <<minted, deleted>>
    BY <1>1 DEF DeleteSession
  <2> QED
    BY <2>1, RowsSurviveDeletion
<1>2. CASE UNCHANGED sessionVars
  BY <1>2, RowsStay DEF sessionVars
<1> QED
  BY <1>1, <1>2 DEF TryDelete

LEMMA SpawnAttachFailsInv ==
    ASSUME IInv, SpawnAttachFails
    PROVE  IInv'
<1>1. /\ process = "serving" /\ work.pc = "attaching" /\ work \in Spawnings
      /\ memory = file /\ Spawning /\ active = Served
      /\ TryDelete(work.session) /\ work' = NoWork /\ Answer(work.live, 0)
      /\ UNCHANGED <<file, memory, active, process, queue, placed, spawns, rolledBack>>
  BY AtSpawning DEF SpawnAttachFails, Working, IInv, BridgeInv, ServingInv
<1>2. RowsInv' /\ Served' = Served /\ sessions' \subseteq Nat /\ minted' \in Nat /\ deleted' = deleted
  BY <1>1, SessionOfNoBot DEF Spawning, IInv, TypeOK
<1>3. plugin' \in Plugins
  BY <1>1, Answered DEF Spawnings, IInv, TypeOK
<1>4. faults' \in Nat
  BY DEF SpawnAttachFails, Fault, IInv, TypeOK
<1>5. TypeOK'
  BY <1>1, <1>2, <1>3, <1>4 DEF IInv, TypeOK, Works
<1>6. BridgeInv'
  BY <1>1, <1>2, Settles
<1> QED
  BY <1>2, <1>5, <1>6 DEF IInv

LEMMA SpawnSavesInv ==
    ASSUME IInv, SpawnSaves
    PROVE  IInv'
<1> USE WorkforceAssumption
<1> DEFINE n == Len(file.bots)
           o == work.ordinal
           s == work.session
           R == [ordinal : Ordinals, session : Nat]
           bot == [ordinal |-> o, session |-> s]
<1>1. /\ process = "serving" /\ work.pc = "saving" /\ work \in Spawnings
      /\ memory = file /\ Spawning /\ active = [Served EXCEPT ![o] = s]
      /\ file' = WithBot(memory, o, s) /\ memory' = file' /\ work' = NoWork /\ Answer(work.live, o)
      /\ UNCHANGED <<active, process, queue, placed, spawns, sessionVars, rolledBack, faults>>
  BY AtSpawning DEF SpawnSaves, Working, IInv, BridgeInv, ServingInv
<1>2. /\ o \in Ordinals /\ o = n + 1 /\ n \in Nat /\ n + 1 <= MaxBots /\ s \in Nat
      /\ s \in Known /\ s \notin Listed /\ s \notin file.pending /\ s \in sessions \cup deleted
  <2>1. o \in Ordinals /\ s \in Nat
    BY <1>1 DEF Spawnings
  <2>2. o = n + 1 /\ n \in Nat
    BY <1>1, FileBots DEF Spawning
  <2>3. n + 1 <= MaxBots
    BY <2>1, <2>2 DEF Ordinals
  <2>4. s \in Known /\ s \notin Listed /\ s \notin file.pending /\ s \in sessions \cup deleted
    BY <1>1 DEF Spawning
  <2> QED
    BY <2>1, <2>2, <2>3, <2>4
<1>3. bot \in R /\ file.bots \in Seq(R)
  BY <1>2, FileBots
<1>4. /\ Append(file.bots, bot) \in Seq(R) /\ Len(Append(file.bots, bot)) = n + 1
      /\ DOMAIN Append(file.bots, bot) = 1..n + 1
      /\ \A i \in 1..n : Append(file.bots, bot)[i] = file.bots[i]
      /\ Append(file.bots, bot)[n + 1] = bot
  <2> HIDE DEF R, bot
  <2> QED
    BY <1>3
<1>5. file' = [next |-> o + 1, bots |-> Append(file.bots, bot), pending |-> file.pending]
  BY <1>1 DEF WithBot
<1>6. /\ file'.bots = Append(file.bots, bot) /\ file'.next = n + 2 /\ file'.pending = file.pending
      /\ file' \in States
  BY <1>2, <1>4, <1>5, FileBots DEF States
<1>7. \A i \in 1..n + 1 : /\ file'.bots[i].ordinal = i
                          /\ file'.bots[i].session = IF i = n + 1 THEN s ELSE file.bots[i].session
  <2> TAKE i \in 1..n + 1
  <2>1. CASE i = n + 1
    BY <1>2, <1>4, <1>6, <2>1
  <2>2. CASE i # n + 1
    <3>1. i \in 1..n
      BY <1>2, <2>2
    <3> QED
      BY <1>4, <1>6, <2>2, <3>1, FileBots
  <2> QED
    BY <2>1, <2>2
<1>8. plugin' \in Plugins
  BY <1>1, <1>2, Answered DEF Spawnings, IInv, TypeOK
<1>9. TypeOK'
  BY <1>1, <1>6, <1>8 DEF sessionVars, IInv, TypeOK, Works
<1>10. RosterIsContiguous'
  <2>1. \A i \in 1..n + 1 : i = n + 1 \/ i \in 1..n
    BY <1>2
  <2>2. \A i \in 1..n : file.bots[i].session # s
    BY <1>2, FileBots
  <2>3. \A i, j \in 1..n + 1 : file'.bots[i].session = file'.bots[j].session => i = j
    <3> TAKE i, j \in 1..n + 1
    <3>1. CASE i \in 1..n /\ j \in 1..n
      <4>1. i # n + 1 /\ j # n + 1
        BY <1>2, <3>1
      <4>2. /\ file'.bots[i].session = file.bots[i].session
            /\ file'.bots[j].session = file.bots[j].session
        BY <1>7, <4>1
      <4>3. file.bots[i].session = file.bots[j].session => i = j
        BY <3>1, FileBots
      <4> QED
        BY <4>2, <4>3
    <3>2. CASE i = n + 1 \/ j = n + 1
      BY <1>7, <2>1, <2>2, <3>2
    <3> QED
      BY <2>1, <3>1, <3>2
  <2>4. Len(file'.bots) = n + 1 /\ DOMAIN file'.bots = 1..n + 1
    BY <1>4, <1>6
  <2>5. Len(file'.bots) <= MaxBots /\ file'.next = Len(file'.bots) + 1
    BY <1>2, <1>6, <2>4
  <2>6. \A i \in DOMAIN file'.bots : file'.bots[i].ordinal = i
    BY <1>7, <2>4
  <2>7. \A i, j \in DOMAIN file'.bots : file'.bots[i].session = file'.bots[j].session => i = j
    BY <2>3, <2>4
  <2> QED
    BY <2>5, <2>6, <2>7 DEF RosterIsContiguous
<1>11. \A i \in DOMAIN file'.bots :
         file'.bots[i].session = s \/ \E j \in DOMAIN file.bots : file'.bots[i].session = file.bots[j].session
  <2> TAKE i \in DOMAIN file'.bots
  <2>1. i \in 1..n + 1 /\ n \in Nat /\ (i = n + 1 \/ i \in 1..n)
    BY <1>2, <1>4, <1>6
  <2> QED
    BY <1>7, <2>1, FileBots
<1>12. Listed' \subseteq Listed \cup {s}
  BY <1>11 DEF Listed
<1>13. SessionsAreApart'
  BY <1>1, <1>2, <1>6, <1>12 DEF sessionVars, Known, IInv, RowsInv, SessionsAreApart
<1>14. ListedSessionsAreKept'
  BY <1>1, <1>2, <1>11 DEF sessionVars, IInv, RowsInv, ListedSessionsAreKept
<1>15. RolledBackIsRemembered'
  BY <1>1, <1>6 DEF sessionVars, IInv, RowsInv, RolledBackIsRemembered
<1>16. active' = Served'
  <2>1. \A i \in Ordinals : [Served EXCEPT ![o] = s][i] =
          IF i <= Len(file'.bots) THEN file'.bots[i].session ELSE NoSession
    <3> TAKE i \in Ordinals
    <3>1. i \in Nat /\ Len(file'.bots) = n + 1 /\ 1 <= i
      BY <1>4, <1>6 DEF Ordinals
    <3>2. CASE i = o
      BY <1>2, <1>7, <3>1, <3>2 DEF Served
    <3>3. CASE i # o
      <4>1. [Served EXCEPT ![o] = s][i] = IF i <= n THEN file.bots[i].session ELSE NoSession
        BY <3>3 DEF Served
      <4> QED
        BY <1>2, <1>7, <3>1, <3>3, <4>1
    <3> QED
      BY <3>2, <3>3
  <2> QED
    BY <1>1, <2>1 DEF Served
<1>17. BridgeInv'
  BY <1>1, <1>16, Settles
<1> QED
  BY <1>9, <1>10, <1>13, <1>14, <1>15, <1>17 DEF IInv, RowsInv

LEMMA SpawnSaveFailsInv ==
    ASSUME IInv, SpawnSaveFails
    PROVE  IInv'
<1> USE WorkforceAssumption
<1> DEFINE o == work.ordinal
<1>1. /\ process = "serving" /\ work.pc = "saving" /\ work \in Spawnings
      /\ memory = file /\ Spawning /\ active = [Served EXCEPT ![o] = work.session]
      /\ active' = [active EXCEPT ![o] = NoSession]
      /\ UNCHANGED <<file, memory, process, queue, pluginVars, sessionVars, rolledBack>>
  BY AtSpawning DEF SpawnSaveFails, Working, IInv, BridgeInv, ServingInv
<1>2. /\ work' \in Spawnings /\ work'.pc = "compensating" /\ work'.ordinal = o
      /\ work'.session = work.session
  BY <1>1 DEF SpawnSaveFails, Spawnings
<1>3. faults' \in Nat
  BY DEF SpawnSaveFails, Fault, IInv, TypeOK
<1>4. o \in Ordinals /\ ~(o <= Len(file.bots))
  BY <1>1, FileBots DEF Spawning, Spawnings
<1>5. active' = Served
  BY <1>1, <1>4 DEF Served
<1>6. active' \in [Ordinals -> Nat]
  BY <1>1, <1>4 DEF NoSession, IInv, TypeOK
<1>7. RowsInv' /\ Listed' = Listed /\ Served' = Served /\ Known' = Known
  BY <1>1, RowsStay DEF IInv
<1>8. TypeOK'
  BY <1>1, <1>2, <1>3, <1>6 DEF pluginVars, sessionVars, IInv, TypeOK, Works, Spawnings
<1>9. Spawning'
  BY <1>1, <1>2, <1>7 DEF Spawning
<1>10. BridgeInv'
  BY <1>1, <1>2, <1>5, <1>7, <1>9 DEF BridgeInv, DownInv, RestoringInv, ServingInv
<1> QED
  BY <1>7, <1>8, <1>10 DEF IInv

LEMMA SpawnCompensatesInv ==
    ASSUME IInv, SpawnCompensates
    PROVE  IInv'
<1>1. /\ process = "serving" /\ work.pc = "compensating" /\ work \in Spawnings
      /\ memory = file /\ Spawning /\ active = Served
      /\ TryDelete(work.session) /\ work' = NoWork /\ Answer(work.live, 0)
      /\ UNCHANGED <<file, memory, active, process, queue, placed, spawns, rolledBack>>
  BY AtSpawning DEF SpawnCompensates, Working, TryDelete, IInv, BridgeInv, ServingInv
<1>2. RowsInv' /\ Served' = Served /\ sessions' \subseteq Nat /\ minted' \in Nat /\ deleted' = deleted
  BY <1>1, SessionOfNoBot DEF Spawning, IInv, TypeOK
<1>3. plugin' \in Plugins
  BY <1>1, Answered DEF Spawnings, IInv, TypeOK
<1>4. faults' \in Nat
  BY DEF SpawnCompensates, Fault, IInv, TypeOK
<1>5. TypeOK'
  BY <1>1, <1>2, <1>3, <1>4 DEF IInv, TypeOK, Works
<1>6. BridgeInv'
  BY <1>1, <1>2, Settles
<1> QED
  BY <1>2, <1>5, <1>6 DEF IInv

LEMMA RollbackSavesInv ==
    ASSUME IInv, RollbackSaves
    PROVE  IInv'
<1> USE WorkforceAssumption
<1> DEFINE n == Len(file.bots)
           o == Head(queue).slot
           s == file.bots[n].session
           R == [ordinal : Ordinals, session : Nat]
           kept == SubSeq(file.bots, 1, n - 1)
<1>1. /\ Serving("rollback") /\ IsLatest(o) /\ process = "serving" /\ memory = file
      /\ active = Served /\ n \in Nat /\ MaxBots \in Nat
  BY AtRequest, FileBots DEF RollbackSaves, MayRollback
<1>2. n \in 1..n /\ file.bots[n].ordinal = o /\ o = n /\ o \in Ordinals /\ s \in Nat
      /\ s \in Listed /\ LatestSession = s /\ n <= MaxBots
  <2>1. n # 0
    BY <1>1, FileBots DEF IsLatest
  <2>2. n \in 1..n
    BY <1>1, <2>1
  <2> QED
    BY <1>1, <2>2, FileBots DEF IsLatest, LatestSession
<1>3. /\ file' = WithoutLatest(memory) /\ memory' = file'
      /\ active' = [active EXCEPT ![o] = NoSession]
      /\ rolledBack' = rolledBack \cup {s} /\ placed' = placed \ {o} /\ queue' = Tail(queue)
      /\ UNCHANGED <<process, plugin, spawns, sessionVars, faults>>
  BY <1>2 DEF RollbackSaves
<1>4. /\ work' \in RollingBacks /\ work'.pc = "deleting" /\ work'.session = s
  BY <1>1, <1>2, AtRequest DEF RollbackSaves, RollingBacks
<1>5. /\ kept \in Seq(R) /\ Len(kept) = n - 1 /\ DOMAIN kept = 1..n - 1
      /\ \A i \in 1..n - 1 : kept[i] = file.bots[i] /\ i \in 1..n
  <2>1. file.bots \in Seq(R)
    BY FileBots
  <2> HIDE DEF R
  <2> QED
    BY <1>1, <1>2, <2>1
<1>6. file' = [next |-> n, bots |-> kept, pending |-> file.pending \cup {s}]
  BY <1>1, <1>2, <1>3 DEF WithoutLatest
<1>7. /\ file'.bots = kept /\ file'.next = n /\ file'.pending = file.pending \cup {s}
      /\ file' \in States
  BY <1>1, <1>2, <1>5, <1>6, FileBots DEF States
<1>8. active' \in [Ordinals -> Nat]
  BY <1>2, <1>3 DEF NoSession, IInv, TypeOK
<1>9. TypeOK'
  BY <1>1, <1>2, <1>3, <1>4, <1>7, <1>8, AtRequest
  DEF sessionVars, IInv, TypeOK, Works, RollingBacks, Requests
<1>10. \A i \in 1..n - 1 : /\ file'.bots[i].ordinal = i /\ file'.bots[i].session = file.bots[i].session
                           /\ file.bots[i].session # s
  <2> TAKE i \in 1..n - 1
  <2>1. i \in 1..n /\ i # n /\ file'.bots[i] = file.bots[i]
    BY <1>1, <1>5, <1>7
  <2> QED
    BY <1>2, <2>1, FileBots
<1>11. RosterIsContiguous'
  <2>1. Len(file'.bots) = n - 1 /\ DOMAIN file'.bots = 1..n - 1
    BY <1>5, <1>7
  <2>2. Len(file'.bots) <= MaxBots /\ file'.next = Len(file'.bots) + 1
    BY <1>1, <1>2, <1>7, <2>1
  <2>3. \A i, j \in 1..n - 1 : file'.bots[i].session = file'.bots[j].session => i = j
    BY <1>5, <1>10, FileBots
  <2> QED
    BY <1>10, <2>1, <2>2, <2>3 DEF RosterIsContiguous
<1>12. \A x \in Listed' : x \in Listed /\ x # s
  <2> TAKE x \in Listed'
  <2>1. PICK i \in DOMAIN file'.bots : x = file'.bots[i].session
    BY DEF Listed
  <2>2. i \in 1..n - 1 /\ i \in 1..n
    BY <1>5, <1>7, <2>1
  <2> QED
    BY <1>10, <2>1, <2>2, FileBots
<1>13. SessionsAreApart'
  BY <1>2, <1>3, <1>7, <1>12 DEF sessionVars, Known, IInv, RowsInv, SessionsAreApart
<1>14. ListedSessionsAreKept'
  <2>1. \A i \in DOMAIN file'.bots : i \in DOMAIN file.bots /\ file'.bots[i].session = file.bots[i].session
    BY <1>5, <1>7, <1>10, FileBots
  <2> QED
    BY <1>3, <2>1 DEF sessionVars, IInv, RowsInv, ListedSessionsAreKept
<1>15. RolledBackIsRemembered'
  BY <1>3, <1>7 DEF sessionVars, IInv, RowsInv, RolledBackIsRemembered
<1>16. active' = Served'
  <2>1. \A i \in Ordinals : [Served EXCEPT ![o] = NoSession][i] =
          IF i <= Len(file'.bots) THEN file'.bots[i].session ELSE NoSession
    <3> TAKE i \in Ordinals
    <3>1. i \in Nat /\ 1 <= i /\ Len(file'.bots) = n - 1
      BY <1>5, <1>7 DEF Ordinals
    <3>2. CASE i = o
      BY <1>1, <1>2, <3>1, <3>2 DEF Served
    <3>3. CASE i # o /\ i <= n - 1
      <4>1. i \in 1..n - 1 /\ i <= n
        BY <1>1, <3>1, <3>3
      <4> QED
        BY <1>10, <3>1, <3>3, <4>1 DEF Served
    <3>4. CASE i # o /\ ~(i <= n - 1)
      <4>1. ~(i <= n)
        BY <1>1, <1>2, <3>1, <3>4
      <4> QED
        BY <3>1, <3>4, <4>1 DEF Served
    <3> QED
      BY <3>2, <3>3, <3>4
  <2> QED
    BY <1>1, <1>3, <2>1 DEF Served
<1>17. s \in Known' /\ s \notin Listed'
  BY <1>2, <1>3, <1>12 DEF sessionVars, Known, IInv, RowsInv, SessionsAreApart
<1>18. BridgeInv'
  BY <1>1, <1>3, <1>4, <1>16, <1>17 DEF BridgeInv, DownInv, RestoringInv, ServingInv
<1> QED
  BY <1>9, <1>11, <1>13, <1>14, <1>15, <1>18 DEF IInv, RowsInv

LEMMA RollbackUnsavedInv ==
    ASSUME IInv, RollbackUnsaved
    PROVE  IInv'
<1>1. /\ Serving("rollback") /\ Answer(Head(queue).live, 0) /\ queue' = Tail(queue)
      /\ UNCHANGED <<file, memory, active, process, work, placed, spawns, sessionVars, rolledBack>>
  BY DEF RollbackUnsaved, MayRollback
<1>2. RowsInv' /\ Served' = Served
  BY <1>1, RowsStay DEF IInv
<1>3. plugin' \in Plugins
  BY <1>1, AtRequest, Answered DEF IInv, TypeOK
<1>4. faults' \in Nat
  BY DEF RollbackUnsaved, Fault, IInv, TypeOK
<1>5. TypeOK'
  BY <1>1, <1>3, <1>4, AtRequest DEF sessionVars, IInv, TypeOK, Requests
<1>6. BridgeInv'
  BY <1>1, <1>2, AtRequest, Settles
<1> QED
  BY <1>2, <1>5, <1>6 DEF IInv

LEMMA RollbackDeletesInv ==
    ASSUME IInv, RollbackDeletes
    PROVE  IInv'
<1>1. /\ process = "serving" /\ work.pc = "deleting" /\ work \in RollingBacks
      /\ memory = file /\ active = Served /\ work.session \in Known \ Listed
      /\ DeleteSession(work.session)
      /\ UNCHANGED <<file, memory, active, process, queue, pluginVars, rolledBack, faults>>
  BY AtRollingBack DEF RollbackDeletes, Working
<1>2. /\ work' \in RollingBacks /\ work'.pc = "forgetting" /\ work'.session = work.session
  BY <1>1 DEF RollbackDeletes, RollingBacks
<1>3. /\ RowsInv' /\ Listed' = Listed /\ Served' = Served /\ Known' = Known
      /\ sessions' \subseteq sessions /\ minted' = minted /\ deleted' = deleted
  BY <1>1, SessionOfNoBot DEF TryDelete, IInv
<1>4. work'.session \notin sessions'
  BY <1>1, <1>2 DEF DeleteSession
<1>5. TypeOK'
  BY <1>1, <1>2, <1>3 DEF pluginVars, IInv, TypeOK, Works, RollingBacks
<1>6. BridgeInv'
  BY <1>1, <1>2, <1>3, <1>4 DEF BridgeInv, DownInv, RestoringInv, ServingInv
<1> QED
  BY <1>3, <1>5, <1>6 DEF IInv

LEMMA RollbackForgetsInv ==
    ASSUME IInv, RollbackForgets
    PROVE  IInv'
<1>1. /\ process = "serving" /\ work.pc = "forgetting" /\ work \in RollingBacks
      /\ memory = file /\ active = Served /\ work.session \notin sessions
      /\ file' = [memory EXCEPT !.pending = @ \ {work.session}] /\ memory' = file'
      /\ work' = NoWork /\ Answer(work.live, 0)
      /\ UNCHANGED <<active, process, queue, placed, spawns, sessionVars, rolledBack, faults>>
  BY AtRollingBack DEF RollbackForgets, Working, IInv, BridgeInv, ServingInv
<1>2. /\ file' \in States /\ file'.bots = file.bots /\ file'.next = file.next
      /\ file'.pending = file.pending \ {work.session}
  BY <1>1, FileBots DEF States
<1>3. plugin' \in Plugins
  BY <1>1, Answered DEF RollingBacks, IInv, TypeOK
<1>4. TypeOK'
  BY <1>1, <1>2, <1>3 DEF sessionVars, IInv, TypeOK, Works
<1>5. Listed' = Listed /\ Served' = Served
  BY <1>2 DEF Listed, Served
<1>6. RowsInv'
  BY <1>1, <1>2, <1>5 DEF sessionVars, Known, IInv, RowsInv, RosterIsContiguous, SessionsAreApart,
                          ListedSessionsAreKept, RolledBackIsRemembered
<1>7. BridgeInv'
  BY <1>1, <1>5, Settles
<1> QED
  BY <1>4, <1>6, <1>7 DEF IInv

LEMMA RollbackFailsInv ==
    ASSUME IInv, RollbackFails
    PROVE  IInv'
<1>1. /\ process = "serving" /\ work \in RollingBacks
      /\ memory = file /\ active = Served /\ work.session \in Known \ Listed
      /\ TryDelete(work.session) /\ work' = NoWork /\ Answer(work.live, 0)
      /\ UNCHANGED <<file, memory, active, process, queue, placed, spawns, rolledBack>>
  BY AtRollingBack DEF RollbackFails
<1>2. RowsInv' /\ Served' = Served /\ sessions' \subseteq Nat /\ minted' \in Nat /\ deleted' = deleted
  BY <1>1, SessionOfNoBot DEF IInv, TypeOK
<1>3. plugin' \in Plugins
  BY <1>1, Answered DEF RollingBacks, IInv, TypeOK
<1>4. faults' \in Nat
  BY DEF RollbackFails, Fault, IInv, TypeOK
<1>5. TypeOK'
  BY <1>1, <1>2, <1>3, <1>4 DEF IInv, TypeOK, Works
<1>6. BridgeInv'
  BY <1>1, <1>2, Settles
<1> QED
  BY <1>2, <1>5, <1>6 DEF IInv

-----------------------------------------------------------------------------
(* The plugin, crashes and the console.                                    *)

\* A request joins the queue typed.
LEMMA Enqueued ==
    ASSUME IInv, NEW kind \in {"spawn", "rollback", "ready"}, NEW o \in 0..MaxBots,
           NEW live \in BOOLEAN, Enqueue(kind, o, live)
    PROVE  queue' \in Seq(Requests)
<1> DEFINE q == [kind |-> kind, slot |-> o, live |-> live]
<1>1. q \in Requests /\ queue \in Seq(Requests) /\ queue' = Append(queue, q)
  BY DEF Requests, Enqueue, IInv, TypeOK
<1> HIDE DEF q, Requests
<1> QED
  BY <1>1

\* What the plugin does is nothing to the bridge but a longer queue.
LEMMA BridgeStays ==
    ASSUME BridgeInv, UNCHANGED <<file, memory, active, process, work, sessionVars, rolledBack>>,
           queue' = queue \/ process = "serving", Waiting' => process = "serving",
           Listed' = Listed, Served' = Served, Known' = Known
    PROVE  BridgeInv'
<1>1. DownInv'
  BY DEF BridgeInv, DownInv
<1>2. RestoringInv'
  BY DEF BridgeInv, RestoringInv, Dropping, Reconnecting, Reattached, RestoredBefore, sessionVars
<1>3. ServingInv'
  BY DEF BridgeInv, ServingInv, Spawning, sessionVars
<1> QED
  BY <1>1, <1>2, <1>3 DEF BridgeInv

LEMMA PluginInv ==
    ASSUME IInv, UNCHANGED <<file, memory, active, process, work, sessionVars, rolledBack, faults>>,
           plugin' \in Plugins, placed' \subseteq Ordinals, spawns' \in Nat,
           queue' = queue \/ (process = "serving" /\ queue' \in Seq(Requests)),
           Waiting' => process = "serving"
    PROVE  IInv'
<1>1. RowsInv' /\ Listed' = Listed /\ Served' = Served /\ Known' = Known
  BY RowsStay DEF IInv
<1>2. TypeOK'
  BY DEF sessionVars, IInv, TypeOK, Requests
<1>3. BridgeInv'
  BY <1>1, BridgeStays DEF IInv
<1> QED
  BY <1>1, <1>2, <1>3 DEF IInv

\* What the plugin's flag may be.
LEMMA PluginTypes ==
    /\ [pc |-> "spawning"] \in Plugins /\ [pc |-> "rolling back"] \in Plugins
    /\ Idle \in Plugins /\ Idle.pc = "idle"
    /\ 0 \in 0..MaxBots
    /\ IInv /\ plugin.pc = "placing" => plugin.slot \in Ordinals /\ plugin.slot \in 0..MaxBots
<1>1. 0 \in 0..MaxBots /\ Ordinals \subseteq 0..MaxBots
  BY WorkforceAssumption DEF Ordinals
<1>2. ASSUME IInv, plugin.pc = "placing" PROVE plugin.slot \in Ordinals
  <2>1. plugin \in Plugins
    BY <1>2 DEF IInv, TypeOK
  <2>2. plugin \in [pc : {"placing"}, slot : Ordinals]
    BY <1>2, <2>1 DEF Plugins
  <2> QED
    BY <2>2
<1>3. [pc |-> "spawning"] \in Plugins /\ [pc |-> "rolling back"] \in Plugins /\ Idle \in Plugins
      /\ Idle.pc = "idle"
  BY DEF Plugins, Idle
<1> QED
  BY <1>1, <1>2, <1>3

LEMMA PluginActsInv ==
    ASSUME IInv, Plugin \/ Ready
    PROVE  IInv'
<1> USE WorkforceAssumption
<1>1. CASE Spawn
  <2>1. Enqueue("spawn", 0, TRUE) /\ process = "serving"
    BY <1>1 DEF Spawn
  <2>2. queue' \in Seq(Requests)
    BY <2>1, Enqueued, PluginTypes
  <2>3. plugin' \in Plugins
    BY <1>1, PluginTypes DEF Spawn
  <2>4. spawns' \in Nat /\ placed' \subseteq Ordinals
    BY <1>1 DEF Spawn, IInv, TypeOK
  <2> QED
    BY <1>1, <2>1, <2>2, <2>3, <2>4, PluginInv DEF Spawn
<1>2. CASE Place
  <2>1. plugin.pc = "placing" /\ plugin.slot \in Ordinals /\ plugin.slot \in 0..MaxBots
    BY <1>2, PluginTypes DEF Place
  <2>2. plugin' \in Plugins /\ plugin'.pc = "idle" /\ placed' \subseteq Ordinals /\ spawns' \in Nat
    BY <1>2, <2>1, PluginTypes DEF Place, IInv, TypeOK
  <2>3. queue' = queue \/ (process = "serving" /\ queue' \in Seq(Requests))
    <3>1. CASE process = "serving"
      <4>1. Enqueue("ready", plugin.slot, FALSE)
        BY <1>2, <3>1 DEF Place
      <4>2. queue' \in Seq(Requests)
        BY <2>1, <4>1, Enqueued
      <4> QED
        BY <3>1, <4>2
    <3>2. CASE process # "serving"
      BY <1>2, <3>2 DEF Place, Enqueue
    <3> QED
      BY <3>1, <3>2
  <2>4. ~Waiting'
    BY <2>2 DEF Waiting
  <2> QED
    BY <1>2, <2>2, <2>3, <2>4, PluginInv DEF Place
<1>3. CASE Unplaceable
  <2>1. plugin.pc = "placing" /\ plugin.slot \in Ordinals /\ plugin.slot \in 0..MaxBots
    BY <1>3, PluginTypes DEF Unplaceable
  <2>2. placed' \subseteq Ordinals /\ spawns' \in Nat
    BY <1>3 DEF Unplaceable, IInv, TypeOK
  <2>3. CASE process = "serving"
    <3>1. Enqueue("rollback", plugin.slot, TRUE) /\ plugin' \in Plugins
      BY <1>3, <2>3, PluginTypes DEF Unplaceable
    <3>2. queue' \in Seq(Requests)
      BY <2>1, <3>1, Enqueued
    <3> QED
      BY <1>3, <2>2, <2>3, <3>1, <3>2, PluginInv DEF Unplaceable
  <2>4. CASE process # "serving"
    <3>1. plugin' \in Plugins /\ plugin'.pc = "idle" /\ queue' = queue
      BY <1>3, <2>4, PluginTypes DEF Unplaceable
    <3>2. ~Waiting'
      BY <3>1 DEF Waiting
    <3>3. UNCHANGED <<file, memory, active, process, work, sessionVars, rolledBack, faults>>
      BY <1>3 DEF Unplaceable
    <3>4. (queue' = queue \/ (process = "serving" /\ queue' \in Seq(Requests)))
          /\ (Waiting' => process = "serving")
      BY <3>1, <3>2
    <3> QED
      BY <2>2, <3>1, <3>3, <3>4, PluginInv
  <2> QED
    BY <2>3, <2>4
<1>4. CASE Ready
  <2>1. process = "serving" /\ queue' \in Seq(Requests)
    BY <1>4, AtRequest DEF Ready
  <2> QED
    BY <1>4, <2>1, PluginInv DEF Ready, pluginVars, IInv, TypeOK
<1> QED
  BY <1>1, <1>2, <1>3, <1>4 DEF Plugin

LEMMA CallLostInv ==
    ASSUME IInv, CallLost
    PROVE  IInv'
<1>1. /\ process = "serving" /\ plugin' = Idle
      /\ UNCHANGED <<file, memory, active, process, placed, spawns, sessionVars, rolledBack>>
  BY DEF CallLost, IInv, BridgeInv
<1>2. queue' \in Seq(Requests)
  <2>1. queue \in Seq(Requests)
    BY DEF IInv, TypeOK, Requests
  <2>2. \A i \in DOMAIN queue : queue[i] \in Requests
    <3> HIDE DEF Requests
    <3> QED
      BY <2>1
  <2>3. \A i \in DOMAIN queue : [queue[i] EXCEPT !.live = FALSE] \in Requests
    BY <2>2 DEF Requests
  <2>4. queue' = [i \in DOMAIN queue |-> [queue[i] EXCEPT !.live = FALSE]]
    BY DEF CallLost
  <2> HIDE DEF Requests
  <2> QED
    BY <2>1, <2>3, <2>4
<1>3. faults' \in Nat
  BY DEF CallLost, Fault, IInv, TypeOK
<1>4. \/ work' = work
      \/ work \in Spawnings /\ work' \in Spawnings /\ work'.pc = work.pc
         /\ work'.ordinal = work.ordinal /\ work'.session = work.session
      \/ work \in RollingBacks /\ work' \in RollingBacks /\ work'.pc = work.pc
         /\ work'.session = work.session
  <2>1. work' = IF work = NoWork THEN work ELSE [work EXCEPT !.live = FALSE]
    BY DEF CallLost
  <2>2. work = NoWork \/ work \in Spawnings \/ work \in RollingBacks
    BY <1>1 DEF IInv, TypeOK, Works, Spawnings, RollingBacks, BridgeInv, ServingInv
  <2>3. CASE work \in Spawnings
    BY <2>1, <2>3 DEF Spawnings
  <2>4. CASE work \in RollingBacks
    BY <2>1, <2>4 DEF RollingBacks
  <2> QED
    BY <2>1, <2>2, <2>3, <2>4
<1>5. RowsInv' /\ Listed' = Listed /\ Served' = Served /\ Known' = Known
  BY <1>1, RowsStay DEF IInv
<1>6. work' \in Works
  BY <1>4 DEF Works, Spawnings, RollingBacks, IInv, TypeOK
<1>7. TypeOK'
  BY <1>1, <1>2, <1>3, <1>6 DEF sessionVars, Idle, Plugins, IInv, TypeOK, Requests
<1>8. ServingInv'
  BY <1>1, <1>4, <1>5 DEF sessionVars, IInv, BridgeInv, ServingInv, Spawning, Spawnings, RollingBacks
<1>9. BridgeInv'
  BY <1>1, <1>8 DEF BridgeInv, DownInv, RestoringInv, Waiting
<1> QED
  BY <1>5, <1>7, <1>9 DEF IInv

LEMMA CrashInv ==
    ASSUME IInv, Crash
    PROVE  IInv'
<1>1. /\ process' = "down" /\ work' = NoWork /\ queue' = <<>> /\ memory' = NoState
      /\ active' = Inactive /\ UNCHANGED <<file, placed, spawns, sessionVars, rolledBack>>
  BY DEF Crash
<1>2. plugin' \in Plugins /\ ~Waiting'
  BY DEF Crash, Idle, Waiting, Plugins, IInv, TypeOK
<1>3. active' \in [Ordinals -> Nat]
  BY <1>1 DEF Inactive, NoSession
<1>4. faults' \in Nat
  BY DEF Crash, Fault, IInv, TypeOK
<1>5. RowsInv'
  BY <1>1, RowsStay DEF IInv
<1>6. TypeOK'
  BY <1>1, <1>2, <1>3, <1>4 DEF sessionVars, IInv, TypeOK, Works
<1>7. BridgeInv'
  BY <1>1, <1>2 DEF BridgeInv, DownInv, RestoringInv, ServingInv
<1> QED
  BY <1>5, <1>6, <1>7 DEF IInv

LEMMA ConsoleDeletesInv ==
    ASSUME IInv, NEW s \in 1..MaxSessions, ConsoleDeletes(s)
    PROVE  IInv'
<1> USE WorkforceAssumption
<1>1. /\ sessions' = sessions \ {s} /\ deleted' = deleted \cup {s} /\ s \in sessions
      /\ UNCHANGED <<file, memory, active, process, work, queue, plugin, placed, spawns, minted,
                     rolledBack, faults>>
  BY DEF ConsoleDeletes, bridgeVars, pluginVars
<1>2. sessions' \cup deleted' = sessions \cup deleted /\ sessions' \subseteq sessions
  BY <1>1
<1>3. Listed' = Listed /\ Served' = Served /\ Known' = Known
  BY <1>1 DEF Listed, Served, Known
<1>4. RowsInv'
  BY <1>1, <1>2, <1>3 DEF IInv, RowsInv, RosterIsContiguous, SessionsAreApart,
                          ListedSessionsAreKept, RolledBackIsRemembered
<1>5. TypeOK'
  BY <1>1 DEF IInv, TypeOK
<1>6. DownInv' /\ (Waiting' => process' = "serving")
  BY <1>1 DEF IInv, BridgeInv, DownInv, Waiting
<1>7. RestoringInv'
  <2>1. work' = work /\ active' = active /\ file' = file
    BY <1>1
  <2>2. ASSUME RestoredBefore(work.at, work.made)
        PROVE  RestoredBefore(work.at, work.made)'
    <3>1. work'.at \in 1..Len(file'.bots) + 1 /\ work'.made \subseteq Known' \ Listed'
      BY <1>3, <2>1, <2>2 DEF RestoredBefore
    <3>2. \A i \in 1..work'.at - 1 : /\ active'[i] \in work'.made \cup {file'.bots[i].session}
                                    /\ active'[i] \in sessions' \cup deleted'
      BY <1>2, <2>1, <2>2 DEF RestoredBefore
    <3>3. /\ \A i, j \in 1..work'.at - 1 : active'[i] = active'[j] => i = j
          /\ \A o \in Ordinals : o >= work'.at => active'[o] = NoSession
      BY <2>1, <2>2 DEF RestoredBefore
    <3> QED
      BY <3>1, <3>2, <3>3 DEF RestoredBefore
  <2>3. Dropping => Dropping'
    BY <1>1, <1>2 DEF Dropping
  <2>4. Reconnecting => Reconnecting'
    BY <1>1, <2>2 DEF Reconnecting
  <2>5. Reattached => Reattached'
    BY <1>1, <1>2, <2>2 DEF Reattached
  <2> QED
    BY <1>1, <2>3, <2>4, <2>5 DEF IInv, BridgeInv, RestoringInv
<1>8. ServingInv'
  BY <1>1, <1>2, <1>3 DEF IInv, BridgeInv, ServingInv, Spawning
<1> QED
  BY <1>4, <1>5, <1>6, <1>7, <1>8 DEF IInv, BridgeInv

-----------------------------------------------------------------------------
(* The theorems.                                                           *)

LEMMA NextInv ==
    ASSUME IInv, [Next]_vars
    PROVE  IInv'
<1>1. CASE Restore
  BY <1>1, StartInv, RestoreDropsInv, RestoreForgetsInv, RestoreFindsInv, RestoreReplacesInv,
     RestoreAttachesInv, RestoreSavesInv DEF Restore
<1>2. CASE Serve
  BY <1>2, SpawnRefusedInv, SpawnConnectsInv, SpawnAttachesInv, SpawnSavesInv, SpawnCompensatesInv,
     RollbackSavesInv, RollbackDeletesInv, RollbackForgetsInv, PluginActsInv DEF Serve
<1>3. CASE Failures
  BY <1>3, RestoreFailsInv, SpawnConnectFailsInv, SpawnAttachFailsInv, SpawnSaveFailsInv,
     RollbackUnsavedInv, RollbackFailsInv, CallLostInv, CrashInv DEF Failures
<1>4. CASE Plugin
  BY <1>4, PluginActsInv
<1>5. CASE \E s \in 1..MaxSessions : ConsoleDeletes(s)
  BY <1>5, ConsoleDeletesInv
<1>6. CASE UNCHANGED vars
  <2>1. UNCHANGED <<file, memory, active, process, work, sessionVars, rolledBack, faults>>
        /\ UNCHANGED <<queue, plugin, placed, spawns>>
    BY <1>6 DEF vars, bridgeVars, pluginVars
  <2>2. plugin' \in Plugins /\ placed' \subseteq Ordinals /\ spawns' \in Nat
    BY <2>1 DEF IInv, TypeOK
  <2>3. Waiting' => process = "serving"
    BY <2>1 DEF IInv, BridgeInv, Waiting
  <2> QED
    BY <2>1, <2>2, <2>3, PluginInv
<1> QED
  BY <1>1, <1>2, <1>3, <1>4, <1>5, <1>6 DEF Next

LEMMA Invariance == Spec => []IInv
BY InitInv, NextInv, PTL DEF Spec

\* The state file, the bots, what the bridge is doing and what waits for it
\* stay well typed.
THEOREM TypeCorrect == Spec => []TypeOK
<1>1. IInv => TypeOK
  BY DEF IInv
<1> QED
  BY <1>1, Invariance, PTL

\* However spawns and roll-backs overlap, fail or are cut off, saveWorkforceState
\* leaves ordinals 1..n, the next one free, and no session with two bots.
THEOREM RosterHasNoGaps == Spec => []RosterIsContiguous
<1>1. IInv => RosterIsContiguous
  BY DEF IInv, RowsInv
<1> QED
  BY <1>1, Invariance, PTL

\* When no request is being served, activeBots is what the state file and the
\* state in memory list, each bot with its session: no failed spawn leaves a bot
\* up, and no failed roll-back keeps one.
THEOREM BotsAreThoseSaved == Spec => []ServedAgreesWithFile
<1>1. IInv => ServedAgreesWithFile
  BY DEF IInv, BridgeInv, ServingInv, ServedAgreesWithFile, Served, NoWork
<1> QED
  BY <1>1, Invariance, PTL

\* No clean-up of the bridge deletes the session of a bot that the state file
\* lists: only a user does, at the console.
THEOREM CleanUpSparesBots == Spec => []ListedSessionsAreKept
<1>1. IInv => ListedSessionsAreKept
  BY DEF IInv, RowsInv
<1> QED
  BY <1>1, Invariance, PTL

\* The session of a bot that rollbackLatest struck out is gone, or the state
\* file still holds it for the next start to delete.
THEOREM RollBacksAreFinished == Spec => []RolledBackIsRemembered
<1>1. IInv => RolledBackIsRemembered
  BY DEF IInv, RowsInv
<1> QED
  BY <1>1, Invariance, PTL

-----------------------------------------------------------------------------
(* What bots that were never placed are owed to.                           *)

\* A spawn whose reply nobody waits for any more will leave a bot unplaced.
Forgotten(q) == {i \in DOMAIN q : q[i].kind = "spawn" /\ ~q[i].live}
ForgottenWork == IF work.pc \in {"attaching", "saving"} /\ ~work.live THEN 1 ELSE 0

\* The bridge is at the request that the plugin waits for.
Answering ==
    work.pc \in {"attaching", "saving", "compensating", "deleting", "forgetting"} /\ work.live

ToRollBack(q) == {q[i].slot : i \in {j \in DOMAIN q : q[j].kind = "rollback" /\ q[j].live}}

\* The bot that the plugin is about to place, or has asked to roll back.
Excused ==
    IF process # "serving" THEN {}
    ELSE IF plugin.pc = "placing" THEN {plugin.slot} ELSE ToRollBack(queue)

Owing == {o \in 1..Len(file.bots) : o \notin placed} \ Excused

\* The plugin waits for one request at a time.
OneCall ==
    /\ \A i, j \in DOMAIN queue : queue[i].live /\ queue[j].live => i = j
    /\ Answering \/ ~Waiting => \A i \in DOMAIN queue : ~queue[i].live
    /\ Answering => Waiting

FaultsAreCounted == Cardinality(Owing) + Cardinality(Forgotten(queue)) + ForgottenWork <= faults

FInv == OneCall /\ FaultsAreCounted

\* A set that gains at most one element.
LEMMA Grown ==
    ASSUME NEW S, IsFiniteSet(S), NEW x, NEW T, T \subseteq S \cup {x}
    PROVE  IsFiniteSet(T) /\ Cardinality(T) \in Nat /\ Cardinality(T) <= Cardinality(S) + 1
<1>0. Cardinality(S) \in Nat
  BY FS_CardinalityType
<1>1. /\ IsFiniteSet(S \cup {x})
      /\ Cardinality(S \cup {x}) <= Cardinality(S) + 1
  <2>1. /\ IsFiniteSet(S \cup {x})
        /\ Cardinality(S \cup {x}) = IF x \in S THEN Cardinality(S) ELSE Cardinality(S) + 1
    BY FS_AddElement
  <2> QED
    BY <1>0, <2>1
<1>2. IsFiniteSet(T) /\ Cardinality(T) <= Cardinality(S \cup {x})
  BY <1>1, FS_Subset
<1>3. Cardinality(T) \in Nat /\ Cardinality(S \cup {x}) \in Nat
  BY <1>1, <1>2, FS_CardinalityType
<1> QED
  BY <1>0, <1>1, <1>2, <1>3

LEMMA Shrunk ==
    ASSUME NEW S, IsFiniteSet(S), NEW T, T \subseteq S
    PROVE  IsFiniteSet(T) /\ Cardinality(T) \in Nat /\ Cardinality(T) <= Cardinality(S)
BY FS_Subset, FS_CardinalityType

LEMMA FiniteCounts ==
    ASSUME IInv
    PROVE  /\ IsFiniteSet(Owing) /\ Cardinality(Owing) \in Nat
           /\ IsFiniteSet(Forgotten(queue)) /\ Cardinality(Forgotten(queue)) \in Nat
           /\ ForgottenWork \in {0, 1} /\ faults \in Nat
           /\ queue \in Seq(Requests) /\ Len(queue) \in Nat /\ DOMAIN queue = 1..Len(queue)
           /\ \A i \in DOMAIN queue : queue[i] \in Requests
<1>1. queue \in Seq(Requests) /\ faults \in Nat
  BY DEF IInv, TypeOK, Requests
<1>2. Len(queue) \in Nat /\ DOMAIN queue = 1..Len(queue) /\ \A i \in DOMAIN queue : queue[i] \in Requests
  <2> HIDE DEF Requests
  <2> QED
    BY <1>1
<1>3. IsFiniteSet(Forgotten(queue)) /\ Cardinality(Forgotten(queue)) \in Nat
  <2>1. Forgotten(queue) \subseteq 1..Len(queue) /\ IsFiniteSet(1..Len(queue))
    BY <1>2, FS_Interval DEF Forgotten
  <2> QED
    BY <2>1, Shrunk
<1>4. IsFiniteSet(Owing) /\ Cardinality(Owing) \in Nat
  <2>1. Owing \subseteq 1..Len(file.bots) /\ IsFiniteSet(1..Len(file.bots))
    BY FileBots, FS_Interval DEF Owing
  <2> QED
    BY <2>1, Shrunk
<1> QED
  BY <1>1, <1>2, <1>3, <1>4 DEF ForgottenWork

\* The queue without its head.
LEMMA Tailed ==
    ASSUME NEW q \in Seq(Requests), q # <<>>, IsFiniteSet(Forgotten(q))
    PROVE  /\ \A i \in DOMAIN Tail(q) : i + 1 \in DOMAIN q /\ i + 1 # 1 /\ Tail(q)[i] = q[i + 1]
           /\ \A i \in DOMAIN q : i = 1 \/ (i - 1 \in DOMAIN Tail(q) /\ Tail(q)[i - 1] = q[i])
           /\ Head(q) = q[1] /\ 1 \in DOMAIN q
           /\ IsFiniteSet(Forgotten(Tail(q)))
           /\ Cardinality(Forgotten(Tail(q))) = Cardinality(Forgotten(q) \ {1})
<1> HIDE DEF Requests
<1>1. /\ \A i \in DOMAIN Tail(q) : i + 1 \in DOMAIN q /\ i + 1 # 1 /\ Tail(q)[i] = q[i + 1] /\ i \in Nat
      /\ \A i \in DOMAIN q : i \in Nat /\ (i = 1 \/ (i - 1 \in DOMAIN Tail(q) /\ Tail(q)[i - 1] = q[i]))
      /\ Head(q) = q[1] /\ 1 \in DOMAIN q
  <2>1. Len(q) \in Nat \ {0} /\ DOMAIN q = 1..Len(q) /\ Head(q) = q[1]
    OBVIOUS
  <2>2. Len(Tail(q)) = Len(q) - 1 /\ DOMAIN Tail(q) = 1..Len(q) - 1
    BY <2>1
  <2>3. \A i \in 1..Len(q) - 1 : Tail(q)[i] = q[i + 1]
    BY <2>1
  <2>4. ASSUME NEW i \in 1..Len(q), i # 1
        PROVE  i - 1 \in DOMAIN Tail(q) /\ Tail(q)[i - 1] = q[i]
    <3>1. i - 1 \in 1..Len(q) - 1 /\ (i - 1) + 1 = i
      BY <2>1, <2>4
    <3> QED
      BY <2>2, <2>3, <3>1
  <2>5. ASSUME NEW i \in DOMAIN Tail(q)
        PROVE  i + 1 \in DOMAIN q /\ i + 1 # 1 /\ Tail(q)[i] = q[i + 1] /\ i \in Nat
    <3>1. i \in 1..Len(q) - 1
      BY <2>2
    <3>2. i + 1 \in 1..Len(q) /\ i + 1 # 1 /\ i \in Nat
      BY <2>1, <3>1
    <3> QED
      BY <2>1, <2>3, <3>1, <3>2
  <2> QED
    BY <2>1, <2>4, <2>5
<1> DEFINE F == Forgotten(Tail(q))
           G == Forgotten(q) \ {1}
           f == [i \in G |-> i - 1]
<1>2. f \in Bijection(G, F)
  <2>1. \A i \in G : i - 1 \in F
    BY <1>1 DEF Forgotten
  <2>2. \A j \in F : \E i \in G : i - 1 = j
    <3> TAKE j \in F
    <3>1. j + 1 \in G /\ (j + 1) - 1 = j
      BY <1>1 DEF Forgotten
    <3> QED
      BY <3>1
  <2>3. \A i, j \in G : i - 1 = j - 1 => i = j
    BY <1>1 DEF Forgotten
  <2> HIDE DEF F, G
  <2>4. f \in [G -> F]
    BY <2>1
  <2>5. \A i, j \in G : f[i] = f[j] => i = j
    BY <2>3
  <2>6. \A j \in F : \E i \in G : f[i] = j
    BY <2>2
  <2> QED
    <3> HIDE DEF f
    <3> QED
      BY <2>4, <2>5, <2>6 DEF Bijection, Injection, Surjection, IsInjective
<1>3. IsFiniteSet(G)
  BY FS_RemoveElement
<1>4. IsFiniteSet(F) /\ Cardinality(F) = Cardinality(G)
  <2>1. ExistsBijection(G, F)
    BY <1>2 DEF ExistsBijection
  <2> HIDE DEF F, G, f
  <2> QED
    BY <1>3, <2>1, FS_Bijection
<1> QED
  BY <1>1, <1>4

\* What the head of the queue leaves behind.
LEMMA HeadGone ==
    ASSUME IInv, FInv, NEW kind, Serving(kind)
    PROVE  LET h == Head(queue)  rest == Tail(queue)
           IN  /\ \A i, j \in DOMAIN rest : rest[i].live /\ rest[j].live => i = j
               /\ h.live \/ ~Waiting => \A i \in DOMAIN rest : ~rest[i].live
               /\ h.live => Waiting
               /\ h.kind = kind /\ ~Answering /\ ForgottenWork = 0
               /\ ToRollBack(rest) \subseteq ToRollBack(queue)
               /\ ToRollBack(queue) \subseteq ToRollBack(rest) \cup {h.slot}
               /\ h.kind # "rollback" \/ ~h.live => ToRollBack(rest) = ToRollBack(queue)
               /\ h.live => ToRollBack(rest) = {}
               /\ Cardinality(Forgotten(rest)) \in Nat
               /\ Cardinality(Forgotten(rest)) + (IF kind = "spawn" /\ ~h.live THEN 1 ELSE 0)
                     <= Cardinality(Forgotten(queue))
<1> DEFINE h == Head(queue)
           rest == Tail(queue)
<1>1. /\ queue \in Seq(Requests) /\ queue # <<>> /\ h.kind = kind /\ work = NoWork
      /\ IsFiniteSet(Forgotten(queue)) /\ Cardinality(Forgotten(queue)) \in Nat
      /\ h.live \in BOOLEAN
  BY AtRequest, FiniteCounts DEF Serving
<1>2. /\ \A i \in DOMAIN rest : i + 1 \in DOMAIN queue /\ i + 1 # 1 /\ rest[i] = queue[i + 1] /\ i \in Nat
      /\ \A i \in DOMAIN queue : i = 1 \/ (i - 1 \in DOMAIN rest /\ rest[i - 1] = queue[i])
      /\ h = queue[1] /\ 1 \in DOMAIN queue
      /\ IsFiniteSet(Forgotten(rest))
      /\ Cardinality(Forgotten(rest)) = Cardinality(Forgotten(queue) \ {1})
  BY <1>1, Tailed
<1>3. ~Answering /\ ForgottenWork = 0
  BY <1>1 DEF NoWork, Answering, ForgottenWork
<1> HIDE DEF h, rest
<1>4. \A i, j \in DOMAIN rest : rest[i].live /\ rest[j].live => i = j
  <2> SUFFICES ASSUME NEW i \in DOMAIN rest, NEW j \in DOMAIN rest, rest[i].live, rest[j].live
               PROVE  i = j
    OBVIOUS
  <2>1. i + 1 = j + 1 /\ i \in Nat /\ j \in Nat
    BY <1>2 DEF FInv, OneCall
  <2> QED
    BY <2>1
<1>5. h.live \/ ~Waiting => \A i \in DOMAIN rest : ~rest[i].live
  BY <1>2 DEF FInv, OneCall
<1>6. h.live => Waiting
  BY <1>2 DEF FInv, OneCall
<1>7. ToRollBack(rest) \subseteq ToRollBack(queue)
  BY <1>2 DEF ToRollBack
<1>8. ToRollBack(queue) \subseteq ToRollBack(rest) \cup {h.slot}
  BY <1>2 DEF ToRollBack
<1>9. h.kind # "rollback" \/ ~h.live => ToRollBack(rest) = ToRollBack(queue)
  BY <1>2 DEF ToRollBack
<1>10. h.live => ToRollBack(rest) = {}
  BY <1>5 DEF ToRollBack
<1>11. /\ Cardinality(Forgotten(rest)) \in Nat
       /\ Cardinality(Forgotten(rest)) + (IF kind = "spawn" /\ ~h.live THEN 1 ELSE 0)
             <= Cardinality(Forgotten(queue))
  <2>1. Cardinality(Forgotten(rest)) \in Nat
    BY <1>2, FS_CardinalityType
  <2>2. Cardinality(Forgotten(queue) \ {1}) =
            IF 1 \in Forgotten(queue) THEN Cardinality(Forgotten(queue)) - 1
            ELSE Cardinality(Forgotten(queue))
    BY <1>1, FS_RemoveElement
  <2>3. kind = "spawn" /\ ~h.live => 1 \in Forgotten(queue)
    BY <1>1, <1>2 DEF Forgotten
  <2> QED
    BY <1>1, <1>2, <2>1, <2>2, <2>3
<1> QED
  BY <1>1, <1>3, <1>4, <1>5, <1>6, <1>7, <1>8, <1>9, <1>10, <1>11 DEF h, rest

\* The count after a step, from what it has gained and lost.
LEMMA Counted ==
    ASSUME IInv, FInv, NEW x, Owing' \subseteq Owing \cup {x},
           NEW n \in {0, 1}, n = 0 => Owing' \subseteq Owing,
           Cardinality(Forgotten(queue')) \in Nat, ForgottenWork' \in {0, 1}, faults' \in Nat,
           n + Cardinality(Forgotten(queue')) + ForgottenWork' + faults
               <= Cardinality(Forgotten(queue)) + ForgottenWork + faults'
    PROVE  FaultsAreCounted'
<1>1. Cardinality(Owing') \in Nat /\ Cardinality(Owing') <= Cardinality(Owing) + n
  <2>1. CASE n = 0
    BY <2>1, Shrunk, FiniteCounts
  <2>2. CASE n = 1
    BY <2>2, Grown, FiniteCounts
  <2> QED
    BY <2>1, <2>2
<1>2. FaultsAreCounted' <=>
          Cardinality(Owing') + Cardinality(Forgotten(queue')) + ForgottenWork' <= faults'
  BY DEF FaultsAreCounted
<1>3. Cardinality(Owing) + Cardinality(Forgotten(queue)) + ForgottenWork <= faults
  BY DEF FInv, FaultsAreCounted
<1>4. /\ Cardinality(Owing) \in Nat /\ Cardinality(Forgotten(queue)) \in Nat
      /\ ForgottenWork \in {0, 1} /\ faults \in Nat
  BY FiniteCounts
<1> QED
  BY <1>1, <1>2, <1>3, <1>4

\* A step that the plugin does not see, while the roster keeps its length.
LEMMA CountStays ==
    ASSUME IInv, FInv, UNCHANGED <<queue, plugin, placed>>, Len(file'.bots) = Len(file.bots),
           process = "serving" => process' = "serving", Answering' => Answering,
           ForgottenWork' <= ForgottenWork, faults <= faults', faults' \in Nat
    PROVE  FInv'
<1>1. Excused \subseteq Excused'
  BY DEF Excused
<1>2. Owing' \subseteq Owing
  BY <1>1 DEF Owing
<1>3. ForgottenWork' \in {0, 1}
  BY DEF ForgottenWork
<1>4. FaultsAreCounted'
  <2>1. Cardinality(Forgotten(queue')) = Cardinality(Forgotten(queue))
    OBVIOUS
  <2>2. 0 + Cardinality(Forgotten(queue')) + ForgottenWork' + faults
            <= Cardinality(Forgotten(queue)) + ForgottenWork + faults'
    BY <1>3, <2>1, FiniteCounts
  <2>3. Cardinality(Forgotten(queue')) \in Nat
    BY <2>1, FiniteCounts
  <2> HIDE DEF Owing, FaultsAreCounted, ForgottenWork
  <2> QED
    BY <1>2, <1>3, <2>2, <2>3, Counted
<1>5. OneCall'
  BY DEF FInv, OneCall, Waiting
<1> QED
  BY <1>4, <1>5 DEF FInv

\* The request at work is answered: no bot is placed for it.
LEMMA WorkEnds ==
    ASSUME IInv, FInv, process = "serving", process' = "serving", UNCHANGED <<queue, placed>>,
           Len(file'.bots) = Len(file.bots), work' = NoWork,
           work.pc \in {"attaching", "saving", "compensating", "deleting", "forgetting"},
           Answer(work.live, 0), faults <= faults', faults' \in Nat
    PROVE  FInv'
<1>1. work.live \in BOOLEAN
  BY AtSpawning, AtRollingBack DEF Spawnings, RollingBacks
<1>2. ~Answering' /\ ForgottenWork' = 0
  BY DEF NoWork, Answering, ForgottenWork
<1>3. plugin' = IF work.live THEN Idle ELSE plugin
  BY DEF Answer
<1>4. work.live => Waiting /\ \A i \in DOMAIN queue : ~queue[i].live
  BY DEF FInv, OneCall, Answering
<1>5. Excused \subseteq Excused'
  BY <1>3, <1>4 DEF Excused, Waiting, ToRollBack, Idle
<1>6. Owing' \subseteq Owing
  BY <1>5 DEF Owing
<1>7. FaultsAreCounted'
  <2>1. Cardinality(Forgotten(queue')) = Cardinality(Forgotten(queue))
    OBVIOUS
  <2>2. 0 + Cardinality(Forgotten(queue')) + ForgottenWork' + faults
            <= Cardinality(Forgotten(queue)) + ForgottenWork + faults'
    BY <1>2, <2>1, FiniteCounts
  <2>3. Cardinality(Forgotten(queue')) \in Nat
    BY <2>1, FiniteCounts
  <2> QED
    BY <1>2, <1>6, <2>2, <2>3, Counted
<1>8. OneCall'
  BY <1>1, <1>2, <1>3, <1>4 DEF FInv, OneCall, Waiting
<1> QED
  BY <1>7, <1>8 DEF FInv

\* A request is answered without any work.
LEMMA HeadEnds ==
    ASSUME IInv, FInv, NEW kind, Serving(kind), UNCHANGED <<process, work, placed>>,
           Len(file'.bots) = Len(file.bots), queue' = Tail(queue), Answer(Head(queue).live, 0),
           IF kind = "rollback" THEN faults' = faults + 1 ELSE faults <= faults', faults' \in Nat
    PROVE  FInv'
<1> DEFINE h == Head(queue)
<1>1. h.live \in BOOLEAN /\ process = "serving"
  BY AtRequest
<1>2. /\ \A i, j \in DOMAIN queue' : queue'[i].live /\ queue'[j].live => i = j
      /\ h.live \/ ~Waiting => \A i \in DOMAIN queue' : ~queue'[i].live
      /\ h.live => Waiting
      /\ h.kind = kind /\ ~Answering /\ ForgottenWork = 0
      /\ ToRollBack(queue') \subseteq ToRollBack(queue)
      /\ ToRollBack(queue) \subseteq ToRollBack(queue') \cup {h.slot}
      /\ h.kind # "rollback" \/ ~h.live => ToRollBack(queue') = ToRollBack(queue)
      /\ Cardinality(Forgotten(queue')) \in Nat
      /\ Cardinality(Forgotten(queue')) <= Cardinality(Forgotten(queue))
  <2>1. Cardinality(Forgotten(queue)) \in Nat
    BY FiniteCounts
  <2> QED
    BY <2>1, HeadGone
<1>3. plugin' = IF h.live THEN Idle ELSE plugin
  BY DEF Answer
<1> HIDE DEF h
<1>4. ~Answering' /\ ForgottenWork' = 0
  BY <1>2 DEF Answering, ForgottenWork
<1>5. Excused \subseteq Excused' \cup {h.slot} /\ (kind # "rollback" => Excused \subseteq Excused')
  BY <1>1, <1>2, <1>3 DEF Excused, Waiting, Idle
<1>6. Owing' \subseteq Owing \cup {h.slot} /\ (kind # "rollback" => Owing' \subseteq Owing)
  BY <1>5 DEF Owing
<1>7. FaultsAreCounted'
  <2> DEFINE n == IF kind = "rollback" THEN 1 ELSE 0
  <2>1. n + Cardinality(Forgotten(queue')) + ForgottenWork' + faults
            <= Cardinality(Forgotten(queue)) + ForgottenWork + faults'
    BY <1>2, <1>4, FiniteCounts
  <2>2. n \in {0, 1} /\ (n = 0 => kind # "rollback")
    OBVIOUS
  <2> HIDE DEF n
  <2> QED
    BY <1>2, <1>4, <1>6, <2>1, <2>2, Counted
<1>8. OneCall'
  BY <1>1, <1>2, <1>3, <1>4 DEF OneCall, Waiting
<1> QED
  BY <1>7, <1>8 DEF FInv

LEMMA SpawnConnectsCounts ==
    ASSUME IInv, FInv, SpawnConnects
    PROVE  FInv'
<1> DEFINE h == Head(queue)
<1>1. /\ Serving("spawn") /\ queue' = Tail(queue)
      /\ UNCHANGED <<file, process, plugin, placed, faults>>
      /\ work' = [pc |-> "attaching", ordinal |-> memory.next, session |-> minted', live |-> h.live]
  BY DEF SpawnConnects, MaySpawn, pluginVars
<1>2. h.live \in BOOLEAN /\ process = "serving"
  BY <1>1, AtRequest
<1>3. /\ \A i, j \in DOMAIN queue' : queue'[i].live /\ queue'[j].live => i = j
      /\ h.live \/ ~Waiting => \A i \in DOMAIN queue' : ~queue'[i].live
      /\ h.live => Waiting
      /\ h.kind = "spawn" /\ ForgottenWork = 0
      /\ h.kind # "rollback" \/ ~h.live => ToRollBack(queue') = ToRollBack(queue)
      /\ Cardinality(Forgotten(queue')) \in Nat
      /\ Cardinality(Forgotten(queue')) + (IF ~h.live THEN 1 ELSE 0) <= Cardinality(Forgotten(queue))
  BY <1>1, HeadGone
<1> HIDE DEF h
<1>4. ForgottenWork' = (IF ~h.live THEN 1 ELSE 0) /\ Answering' = h.live
  BY <1>1, <1>2 DEF ForgottenWork, Answering
<1>5. Owing' \subseteq Owing
  BY <1>1, <1>3 DEF Owing, Excused
<1>6. FaultsAreCounted'
  <2>1. 0 + Cardinality(Forgotten(queue')) + ForgottenWork' + faults
            <= Cardinality(Forgotten(queue)) + ForgottenWork + faults'
    BY <1>1, <1>3, <1>4, FiniteCounts
  <2>2. ForgottenWork' \in {0, 1} /\ faults' \in Nat
    BY <1>1, <1>4, FiniteCounts
  <2> QED
    BY <1>3, <1>5, <2>1, <2>2, Counted
<1>7. OneCall'
  BY <1>1, <1>2, <1>3, <1>4 DEF OneCall, Waiting
<1> QED
  BY <1>6, <1>7 DEF FInv

\* The roster grows by the bot that the plugin is told to place, or by one that
\* nobody will.
LEMMA SpawnSavesCounts ==
    ASSUME IInv, FInv, SpawnSaves
    PROVE  FInv'
<1>1. /\ process = "serving" /\ work.pc = "saving" /\ file' = WithBot(memory, work.ordinal, work.session)
      /\ work' = NoWork /\ Answer(work.live, work.ordinal)
      /\ UNCHANGED <<process, queue, placed, faults>>
  BY DEF SpawnSaves, Working
<1>2. memory = file /\ work \in Spawnings /\ work.ordinal = Len(file.bots) + 1
  BY <1>1, AtSpawning, FileBots DEF Spawning
<1>3. Len(file'.bots) = Len(file.bots) + 1
  <2> DEFINE r == [ordinal |-> work.ordinal, session |-> work.session]
  <2>1. file'.bots = Append(file.bots, r)
    BY <1>1, <1>2 DEF WithBot
  <2> HIDE DEF r
  <2> QED
    BY <2>1, FileBots
<1>4. work.live \in BOOLEAN /\ work.ordinal \in Ordinals /\ work.ordinal # 0
  BY <1>2 DEF Spawnings, Ordinals
<1>5. plugin' = IF work.live THEN [pc |-> "placing", slot |-> work.ordinal] ELSE plugin
  BY <1>1, <1>4 DEF Answer
<1>6. ~Answering' /\ ForgottenWork' = 0 /\ ForgottenWork = (IF work.live THEN 0 ELSE 1)
      /\ Answering = work.live
  BY <1>1, <1>4 DEF NoWork, Answering, ForgottenWork
<1>7. work.live => Waiting /\ \A i \in DOMAIN queue : ~queue[i].live
  BY <1>6 DEF FInv, OneCall
<1>8. 1..Len(file'.bots) \subseteq 1..Len(file.bots) \cup {work.ordinal}
  BY <1>2, <1>3, FileBots
<1>9. /\ Owing' \subseteq Owing \cup {work.ordinal}
      /\ work.live => Owing' \subseteq Owing
  <2>1. CASE work.live
    <3>1. Excused = {} /\ Excused' = {work.ordinal}
      BY <1>1, <1>5, <1>7, <2>1 DEF Excused, Waiting, ToRollBack
    <3> QED
      BY <1>1, <1>8, <3>1 DEF Owing
  <2>2. CASE ~work.live
    <3>1. Excused' = Excused
      BY <1>1, <1>5, <2>2 DEF Excused
    <3> QED
      BY <1>1, <1>8, <2>2, <3>1 DEF Owing
  <2> QED
    BY <2>1, <2>2
<1>10. FaultsAreCounted'
  <2> DEFINE n == IF work.live THEN 0 ELSE 1
  <2>1. n + Cardinality(Forgotten(queue')) + ForgottenWork' + faults
            <= Cardinality(Forgotten(queue)) + ForgottenWork + faults'
    <3>1. Cardinality(Forgotten(queue')) = Cardinality(Forgotten(queue)) /\ faults' = faults
      BY <1>1
    <3> QED
      BY <1>6, <3>1, FiniteCounts
  <2>2. n \in {0, 1} /\ (n = 0 => work.live)
    OBVIOUS
  <2>3. Cardinality(Forgotten(queue')) \in Nat /\ ForgottenWork' \in {0, 1} /\ faults' \in Nat
    BY <1>1, <1>6, FiniteCounts
  <2> HIDE DEF n
  <2> QED
    BY <1>9, <2>1, <2>2, <2>3, Counted
<1>11. OneCall'
  BY <1>1, <1>4, <1>5, <1>6, <1>7 DEF FInv, OneCall, Waiting
<1> QED
  BY <1>10, <1>11 DEF FInv

\* The roster loses the bot that could not be placed.
LEMMA RollbackSavesCounts ==
    ASSUME IInv, FInv, RollbackSaves
    PROVE  FInv'
<1> DEFINE h == Head(queue)
           n == Len(file.bots)
<1>1. /\ Serving("rollback") /\ file' = WithoutLatest(memory) /\ IsLatest(h.slot)
      /\ placed' = placed \ {h.slot} /\ queue' = Tail(queue)
      /\ work' = [pc |-> "deleting", session |-> LatestSession, live |-> h.live]
      /\ UNCHANGED <<process, plugin, faults>>
  BY DEF RollbackSaves, MayRollback
<1>2. h.live \in BOOLEAN /\ process = "serving" /\ memory = file
  BY <1>1, AtRequest
<1>3. /\ \A i, j \in DOMAIN queue' : queue'[i].live /\ queue'[j].live => i = j
      /\ h.live \/ ~Waiting => \A i \in DOMAIN queue' : ~queue'[i].live
      /\ h.live => Waiting
      /\ ForgottenWork = 0
      /\ ToRollBack(queue) \subseteq ToRollBack(queue') \cup {h.slot}
      /\ Cardinality(Forgotten(queue')) \in Nat
      /\ Cardinality(Forgotten(queue')) <= Cardinality(Forgotten(queue))
  <2>1. Cardinality(Forgotten(queue)) \in Nat
    BY FiniteCounts
  <2> QED
    BY <1>1, <2>1, HeadGone
<1>4. n \in Nat /\ n > 0 /\ h.slot = n
  <2>1. file.bots # <<>> /\ file.bots[n].ordinal = h.slot
    BY <1>1, <1>2 DEF IsLatest
  <2>2. file.bots \in Seq([ordinal : Ordinals, session : Nat])
    BY FileBots
  <2>3. n \in Nat /\ n > 0
    <3> HIDE DEF n
    <3>1. n = Len(file.bots)
      BY DEF n
    <3> QED
      BY <2>1, <2>2, <3>1
  <2> QED
    BY <2>1, <2>3, FileBots
<1>5. Len(file'.bots) = n - 1
  <2>1. file'.bots = SubSeq(file.bots, 1, n - 1)
    BY <1>1, <1>2 DEF WithoutLatest
  <2>2. file.bots \in Seq([ordinal : Ordinals, session : Nat])
    BY FileBots
  <2> QED
    BY <1>4, <2>1, <2>2
<1> HIDE DEF h, n
<1>6. ForgottenWork' = 0 /\ Answering' = h.live
  BY <1>1, <1>2 DEF ForgottenWork, Answering
<1>7. Excused \subseteq Excused' \cup {h.slot}
  BY <1>1, <1>3 DEF Excused
<1>8. Owing' \subseteq Owing
  <2> SUFFICES ASSUME NEW o \in Owing' PROVE o \in Owing
    OBVIOUS
  <2>1. o \in 1..n - 1 /\ o \notin placed' /\ o \notin Excused'
    BY <1>5 DEF Owing
  <2>2. o \in 1..Len(file.bots) /\ o # h.slot
    BY <1>4, <2>1 DEF n
  <2> QED
    BY <1>1, <1>7, <2>1, <2>2 DEF Owing
<1>9. FaultsAreCounted'
  <2>1. 0 + Cardinality(Forgotten(queue')) + ForgottenWork' + faults
            <= Cardinality(Forgotten(queue)) + ForgottenWork + faults'
    BY <1>1, <1>3, <1>6, FiniteCounts
  <2>2. ForgottenWork' \in {0, 1} /\ faults' \in Nat
    BY <1>1, <1>6, FiniteCounts
  <2> QED
    BY <1>3, <1>8, <2>1, <2>2, Counted
<1>10. OneCall'
  BY <1>1, <1>2, <1>3, <1>6 DEF OneCall, Waiting
<1> QED
  BY <1>9, <1>10 DEF FInv

\* One request more.
LEMMA Longer ==
    ASSUME IInv, FInv, process = "serving", NEW kind, NEW o, NEW live \in BOOLEAN, Enqueue(kind, o, live),
           kind \in {"spawn", "rollback", "ready"}, o \in 0..MaxBots,
           plugin.pc \in {"idle", "placing"}, kind = "spawn" => live
    PROVE  /\ Forgotten(queue') = Forgotten(queue)
           /\ ToRollBack(queue') = IF kind = "rollback" /\ live THEN {o} ELSE {}
           /\ \A i \in DOMAIN queue' : queue'[i].live => live /\ i = Len(queue) + 1
           /\ ~Answering
<1> DEFINE q == [kind |-> kind, slot |-> o, live |-> live]
<1>1. queue \in Seq(Requests) /\ queue' = Append(queue, q) /\ q \in Requests
  BY FiniteCounts DEF Enqueue, Requests
<1>2. q.kind = kind /\ q.slot = o /\ q.live = live
  OBVIOUS
<1> HIDE DEF q, Requests
<1>3. /\ DOMAIN queue = 1..Len(queue) /\ DOMAIN queue' = 1..Len(queue) + 1 /\ Len(queue) \in Nat
      /\ \A i \in 1..Len(queue) : queue'[i] = queue[i]
      /\ queue'[Len(queue) + 1] = q
  BY <1>1
<1>4. ~Answering /\ \A i \in 1..Len(queue) : ~queue[i].live
  BY <1>3 DEF FInv, OneCall, Waiting
<1>5. \A i \in DOMAIN queue' : i \in 1..Len(queue) \/ i = Len(queue) + 1
  BY <1>3
<1>6. Len(queue) + 1 \in DOMAIN queue' /\ 1..Len(queue) \subseteq DOMAIN queue'
      /\ Len(queue) + 1 \notin 1..Len(queue)
  BY <1>3
<1>7. \A i \in DOMAIN queue' : queue'[i].live => live /\ i = Len(queue) + 1
  BY <1>2, <1>3, <1>4, <1>5
<1>8. ToRollBack(queue') = IF kind = "rollback" /\ live THEN {o} ELSE {}
  BY <1>2, <1>3, <1>6, <1>7 DEF ToRollBack
<1>9. Forgotten(queue') = Forgotten(queue)
  <2> SUFFICES ASSUME NEW i
               PROVE  i \in Forgotten(queue') <=> i \in Forgotten(queue)
    OBVIOUS
  <2> QED
    BY <1>2, <1>3, <1>5, <1>6 DEF Forgotten
<1> QED
  BY <1>4, <1>7, <1>8, <1>9

\* While the bridge restores the workforce it answers nobody.
LEMMA RestoringIsQuiet ==
    ASSUME IInv', process' # "serving"
    PROVE  ~Answering' /\ ForgottenWork' = 0
<1>1. process' \in {"down", "restoring"}
  BY DEF IInv, TypeOK
<1>2. work'.pc \in {"dropping", "reconnecting", "reattaching"} \/ work' = NoWork
  BY <1>1 DEF IInv, BridgeInv, RestoringInv, DownInv
<1> QED
  BY <1>2 DEF NoWork, Answering, ForgottenWork

LEMMA RestoreCounts ==
    ASSUME IInv, IInv', FInv, Restore \/ RestoreFails
    PROVE  FInv'
<1>1. process # "serving" /\ UNCHANGED <<queue, plugin, placed>>
  BY DEF Restore, RestoreFails, Start, RestoreDrops, RestoreForgets, RestoreFinds, RestoreReplaces,
         RestoreAttaches, RestoreSaves, Restoring, pluginVars
<1>2. faults' \in Nat /\ faults <= faults'
  BY DEF Restore, RestoreFails, Start, RestoreDrops, RestoreForgets, RestoreFinds, RestoreReplaces,
         RestoreAttaches, RestoreSaves, Fault, IInv, TypeOK
<1>3. ~Answering' /\ ForgottenWork' = 0
  <2>1. CASE RestoreSaves
    BY <2>1 DEF RestoreSaves, NoWork, Answering, ForgottenWork
  <2>2. CASE ~RestoreSaves
    <3>1. process' # "serving"
      BY <1>1, <2>2 DEF Restore, RestoreFails, Start, RestoreDrops, RestoreForgets, RestoreFinds,
                        RestoreReplaces, RestoreAttaches
    <3> QED
      BY <3>1, RestoringIsQuiet
  <2> QED
    BY <2>1, <2>2
<1>4. Len(file'.bots) = Len(file.bots)
  <2>1. CASE RestoreSaves
    <3> DEFINE n == Len(file.bots)
               row(i) == [ordinal |-> file.bots[i].ordinal, session |-> active[file.bots[i].ordinal]]
    <3>1. n \in Nat /\ DOMAIN file.bots = 1..n /\ file \in States
      BY FileBots
    <3>2. file'.bots = [i \in 1..n |-> row(i)]
      BY <2>1, <3>1 DEF RestoreSaves, Restored, States
    <3> HIDE DEF row, n
    <3>3. Len(file'.bots) = n
      BY <3>1, <3>2
    <3> QED
      BY <3>3 DEF n
  <2>2. CASE RestoreForgets
    BY <2>2, FileBots DEF RestoreForgets, States
  <2>3. CASE ~RestoreSaves /\ ~RestoreForgets
    BY <2>3 DEF Restore, RestoreFails, Start, RestoreDrops, RestoreFinds, RestoreReplaces, RestoreAttaches
  <2> QED
    BY <2>1, <2>2, <2>3
<1>5. ForgottenWork \in {0, 1}
  BY DEF ForgottenWork
<1> QED
  BY <1>1, <1>2, <1>3, <1>4, <1>5, CountStays

\* A spawn that stops at its last but one call, or a deletion that is done.
LEMMA WorkGoesOn ==
    ASSUME IInv, FInv, SpawnAttaches \/ SpawnSaveFails \/ RollbackDeletes
    PROVE  FInv'
<1>1. /\ process = "serving" /\ process' = "serving" /\ UNCHANGED <<file, queue, plugin, placed>>
      /\ work.pc \in {"attaching", "saving", "deleting"}
      /\ faults' \in Nat /\ faults <= faults'
  BY DEF SpawnAttaches, SpawnSaveFails, RollbackDeletes, Working, Fault, pluginVars, IInv, TypeOK
<1>2. work \in Spawnings \cup RollingBacks
  BY <1>1, AtSpawning, AtRollingBack
<1>3. /\ work'.live = work.live /\ work'.pc \in {"saving", "compensating", "forgetting"}
      /\ work'.pc = "saving" => work.pc = "attaching"
  BY <1>2 DEF SpawnAttaches, SpawnSaveFails, RollbackDeletes, Working, Spawnings, RollingBacks
<1>4. Answering' => Answering
  BY <1>1, <1>3 DEF Answering
<1>5. ForgottenWork' <= ForgottenWork
  BY <1>3 DEF ForgottenWork
<1> QED
  BY <1>1, <1>4, <1>5, CountStays

LEMMA AnswersCount ==
    ASSUME IInv, FInv,
           SpawnAttachFails \/ SpawnCompensates \/ RollbackForgets \/ RollbackFails
    PROVE  FInv'
<1>1. /\ process = "serving" /\ process' = "serving" /\ UNCHANGED <<queue, placed>>
      /\ work' = NoWork /\ Answer(work.live, 0)
      /\ work.pc \in {"attaching", "saving", "compensating", "deleting", "forgetting"}
      /\ faults' \in Nat /\ faults <= faults'
  BY DEF SpawnAttachFails, SpawnCompensates, RollbackForgets, RollbackFails, Working, Fault, IInv, TypeOK
<1>2. Len(file'.bots) = Len(file.bots)
  <2>1. CASE RollbackForgets
    <3>1. memory = file /\ file \in States
      BY <2>1, AtRollingBack, FileBots DEF RollbackForgets, Working
    <3> QED
      BY <2>1, <3>1 DEF RollbackForgets, States
  <2>2. CASE ~RollbackForgets
    BY <2>2 DEF SpawnAttachFails, SpawnCompensates, RollbackFails
  <2> QED
    BY <2>1, <2>2
<1> QED
  BY <1>1, <1>2, WorkEnds

\* A request that is refused, or fails at once; and one that tells the bridge
\* that the bot is there.
LEMMA RefusalsCount ==
    ASSUME IInv, FInv, SpawnRefused \/ SpawnConnectFails \/ RollbackUnsaved
    PROVE  FInv'
<1>1. /\ UNCHANGED <<file, process, work, placed>> /\ queue' = Tail(queue) /\ Answer(Head(queue).live, 0)
      /\ faults \in Nat
  BY DEF SpawnRefused, SpawnConnectFails, RollbackUnsaved, IInv, TypeOK
<1>2. CASE SpawnRefused \/ SpawnConnectFails
  <2>1. Serving("spawn") /\ faults <= faults' /\ faults' \in Nat
    BY <1>1, <1>2 DEF SpawnRefused, SpawnConnectFails, MaySpawn, Fault
  <2>2. "spawn" # "rollback"
    OBVIOUS
  <2> QED
    BY <1>1, <2>1, <2>2, HeadEnds
<1>3. CASE RollbackUnsaved
  <2>1. Serving("rollback") /\ faults' = faults + 1 /\ faults' \in Nat
    BY <1>1, <1>3 DEF RollbackUnsaved, MayRollback, Fault
  <2> QED
    BY <1>1, <2>1, HeadEnds
<1> QED
  BY <1>2, <1>3

\* A step that forgets nobody and cannot fail.
LEMMA NobodyIsForgotten ==
    ASSUME IInv, FInv, Owing' \subseteq Owing, UNCHANGED <<work, faults>>,
           Cardinality(Forgotten(queue')) \in Nat,
           Cardinality(Forgotten(queue')) <= Cardinality(Forgotten(queue))
    PROVE  FaultsAreCounted'
<1>1. ForgottenWork' = ForgottenWork /\ ForgottenWork \in {0, 1} /\ faults' \in Nat
  BY FiniteCounts DEF ForgottenWork
<1>2. 0 + Cardinality(Forgotten(queue')) + ForgottenWork' + faults
          <= Cardinality(Forgotten(queue)) + ForgottenWork + faults'
  BY <1>1, FiniteCounts
<1> QED
  BY <1>1, <1>2, Counted

LEMMA ReadyCounts ==
    ASSUME IInv, FInv, Ready
    PROVE  FInv'
<1>1. /\ Serving("ready") /\ queue' = Tail(queue)
      /\ UNCHANGED <<file, process, work, plugin, placed, faults>>
  BY DEF Ready, pluginVars
<1>2. /\ \A i, j \in DOMAIN queue' : queue'[i].live /\ queue'[j].live => i = j
      /\ ~Waiting => \A i \in DOMAIN queue' : ~queue'[i].live
      /\ ~Answering /\ ToRollBack(queue') = ToRollBack(queue)
      /\ Cardinality(Forgotten(queue')) \in Nat
      /\ Cardinality(Forgotten(queue')) <= Cardinality(Forgotten(queue))
  <2>1. Cardinality(Forgotten(queue)) \in Nat
    BY FiniteCounts
  <2> QED
    BY <1>1, <2>1, HeadGone
<1>3. Owing' \subseteq Owing
  BY <1>1, <1>2 DEF Owing, Excused
<1>4. FaultsAreCounted'
  BY <1>1, <1>2, <1>3, NobodyIsForgotten
<1>5. OneCall'
  BY <1>1, <1>2 DEF OneCall, Waiting, Answering
<1> QED
  BY <1>4, <1>5 DEF FInv

LEMMA SpawnCounts ==
    ASSUME IInv, FInv, Spawn
    PROVE  FInv'
<1>1. /\ process = "serving" /\ plugin.pc = "idle" /\ plugin'.pc = "spawning"
      /\ Enqueue("spawn", 0, TRUE) /\ UNCHANGED <<file, process, work, placed, faults>>
  BY DEF Spawn, Idle
<1>2. /\ Forgotten(queue') = Forgotten(queue) /\ ~Answering
      /\ \A i \in DOMAIN queue' : queue'[i].live => i = Len(queue) + 1
  BY <1>1, PluginTypes, Longer
<1>3. Excused = {}
  BY <1>1 DEF Excused, ToRollBack, FInv, OneCall, Waiting
<1>4. Owing' \subseteq Owing
  BY <1>1, <1>3 DEF Owing
<1>5. FaultsAreCounted'
  BY <1>1, <1>2, <1>4, NobodyIsForgotten, FiniteCounts
<1>6. OneCall'
  BY <1>1, <1>2 DEF OneCall, Waiting, Answering
<1> QED
  BY <1>5, <1>6 DEF FInv

\* The bot that the plugin places is owed to nobody any more, and the one that
\* it cannot place is one to roll back.
LEMMA PlacingCounts ==
    ASSUME IInv, FInv, Place \/ Unplaceable
    PROVE  FInv'
<1> DEFINE o == plugin.slot
<1>1. /\ plugin.pc = "placing" /\ o \in 0..MaxBots
      /\ UNCHANGED <<file, process, work, faults>>
  BY PluginTypes DEF Place, Unplaceable
<1>2. CASE process = "serving"
  <2>1. /\ ~Answering /\ Forgotten(queue') = Forgotten(queue)
        /\ \A i \in DOMAIN queue' : queue'[i].live => Waiting' /\ i = Len(queue) + 1
        /\ Owing' \subseteq Owing
    <3>1. Excused = {o}
      BY <1>1, <1>2 DEF Excused
    <3>2. CASE Place
      <4>1. Enqueue("ready", o, FALSE) /\ placed' = placed \cup {o}
        BY <1>2, <3>2 DEF Place
      <4>2. /\ ~Answering /\ Forgotten(queue') = Forgotten(queue)
            /\ \A i \in DOMAIN queue' : ~queue'[i].live
        BY <1>1, <1>2, <4>1, Longer
      <4> QED
        BY <1>1, <3>1, <4>1, <4>2 DEF Owing
    <3>3. CASE Unplaceable
      <4>1. Enqueue("rollback", o, TRUE) /\ plugin'.pc = "rolling back" /\ UNCHANGED placed
        <5>1. plugin' = [pc |-> "rolling back"] /\ Enqueue("rollback", plugin.slot, TRUE)
              /\ UNCHANGED placed
          BY <1>2, <3>3 DEF Unplaceable
        <5> QED
          BY <5>1
      <4>2. /\ ~Answering /\ Forgotten(queue') = Forgotten(queue) /\ ToRollBack(queue') = {o}
            /\ \A i \in DOMAIN queue' : queue'[i].live => i = Len(queue) + 1
        BY <1>1, <1>2, <4>1, Longer
      <4>3. Excused' = {o}
        BY <1>1, <1>2, <4>1, <4>2 DEF Excused
      <4> QED
        BY <1>1, <3>1, <4>1, <4>2, <4>3 DEF Owing, Waiting
    <3> QED
      BY <3>2, <3>3
  <2>2. FaultsAreCounted'
    BY <1>1, <2>1, NobodyIsForgotten, FiniteCounts
  <2>3. OneCall'
    BY <1>1, <2>1 DEF OneCall, Answering
  <2> QED
    BY <2>2, <2>3 DEF FInv
<1>3. CASE process # "serving"
  <2>1. queue' = queue /\ plugin'.pc = "idle" /\ placed \subseteq placed'
    BY <1>3 DEF Place, Unplaceable, Idle
  <2>2. Owing' \subseteq Owing
    BY <1>1, <1>3, <2>1 DEF Owing, Excused
  <2>3. FaultsAreCounted'
    BY <1>1, <2>1, <2>2, NobodyIsForgotten, FiniteCounts
  <2>4. OneCall'
    BY <1>1, <2>1 DEF FInv, OneCall, Waiting, Answering
  <2> QED
    BY <2>3, <2>4 DEF FInv
<1> QED
  BY <1>2, <1>3

\* At most one bot is about to be placed or rolled back.
LEMMA ExcusedIsOne ==
    ASSUME FInv
    PROVE  \E x : Excused \subseteq {x}
<1>1. CASE process = "serving" /\ plugin.pc = "placing"
  <2>1. Excused = {plugin.slot}
    BY <1>1 DEF Excused
  <2> QED
    BY <2>1
<1>2. CASE process = "serving" /\ plugin.pc # "placing"
  <2>1. Excused = ToRollBack(queue)
    BY <1>2 DEF Excused
  <2>2. CASE \E j \in DOMAIN queue : queue[j].live
    <3>1. PICK j \in DOMAIN queue : queue[j].live
      BY <2>2
    <3>2. Excused \subseteq {queue[j].slot}
      BY <2>1, <3>1 DEF ToRollBack, FInv, OneCall
    <3> QED
      BY <3>2
  <2>3. CASE \A j \in DOMAIN queue : ~queue[j].live
    BY <2>1, <2>3 DEF ToRollBack
  <2> QED
    BY <2>2, <2>3
<1>3. CASE process # "serving"
  BY <1>3 DEF Excused
<1> QED
  BY <1>1, <1>2, <1>3

\* The reply that is lost was for a spawn, whose bot nobody will place, or for
\* a roll-back, which may leave the bot: one at most, and one fault.
LEMMA CallLostCounts ==
    ASSUME IInv, FInv, CallLost
    PROVE  FInv'
<1>1. /\ process = "serving" /\ plugin.pc # "placing" /\ plugin'.pc = "idle"
      /\ UNCHANGED <<file, process, placed>> /\ faults' = faults + 1 /\ faults \in Nat
      /\ queue' = [i \in DOMAIN queue |-> [queue[i] EXCEPT !.live = FALSE]]
  BY DEF CallLost, Fault, Idle, Waiting, IInv, BridgeInv, TypeOK
<1>2. /\ DOMAIN queue' = DOMAIN queue
      /\ \A i \in DOMAIN queue : queue'[i].kind = queue[i].kind /\ ~queue'[i].live
  <2>1. \A i \in DOMAIN queue : queue[i] \in Requests
    BY FiniteCounts
  <2>2. ASSUME NEW i \in DOMAIN queue
        PROVE  queue'[i].kind = queue[i].kind /\ ~queue'[i].live
    <3>1. queue'[i] = [queue[i] EXCEPT !.live = FALSE] /\ queue[i] \in Requests
      BY <1>1, <2>1, <2>2
    <3> QED
      BY <3>1 DEF Requests
  <2> QED
    BY <1>1, <2>2
<1>3. ~Answering' /\ ForgottenWork' \in {0, 1} /\ (~Answering => ForgottenWork' = ForgottenWork)
  <2>1. CASE work = NoWork
    BY <2>1 DEF CallLost, NoWork, Answering, ForgottenWork
  <2>2. CASE work # NoWork
    <3>1. work \in Spawnings \cup RollingBacks
      BY <1>1, <2>2 DEF IInv, BridgeInv, ServingInv, TypeOK, Works, Spawnings, RollingBacks
    <3>2. work' = [work EXCEPT !.live = FALSE]
      BY <2>2 DEF CallLost
    <3>3. work'.pc = work.pc /\ work'.live = FALSE
      BY <3>1, <3>2 DEF Spawnings, RollingBacks
    <3> QED
      BY <3>3 DEF Answering, ForgottenWork
  <2> QED
    BY <2>1, <2>2
<1>4. Excused = ToRollBack(queue)
  BY <1>1 DEF Excused
<1>5. FaultsAreCounted'
  <2>1. CASE Answering
    <3>1. \A i \in DOMAIN queue : ~queue[i].live
      BY <2>1 DEF FInv, OneCall
    <3>2. Forgotten(queue') = Forgotten(queue) /\ ForgottenWork = 0
      BY <1>2, <2>1, <3>1 DEF Forgotten, ForgottenWork, Answering
    <3>3. Owing' \subseteq Owing
      BY <1>1, <1>4, <3>1 DEF Owing, ToRollBack
    <3>4. 0 + Cardinality(Forgotten(queue')) + ForgottenWork' + faults
              <= Cardinality(Forgotten(queue)) + ForgottenWork + faults'
      <4>1. Cardinality(Forgotten(queue')) = Cardinality(Forgotten(queue))
        BY <3>2
      <4> QED
        BY <1>1, <1>3, <3>2, <4>1, FiniteCounts
    <3>5. Cardinality(Forgotten(queue')) \in Nat /\ faults' \in Nat
      BY <1>1, <3>2, FiniteCounts
    <3> QED
      BY <1>3, <3>3, <3>4, <3>5, Counted
  <2>2. CASE ~Answering /\ \E i \in DOMAIN queue : queue[i].live /\ queue[i].kind = "rollback"
    <3>1. PICK i \in DOMAIN queue : queue[i].live /\ queue[i].kind = "rollback"
      BY <2>2
    <3>2. \A j \in DOMAIN queue : queue[j].live => j = i
      BY <3>1 DEF FInv, OneCall
    <3>3. Forgotten(queue') = Forgotten(queue)
      BY <1>2, <3>1, <3>2 DEF Forgotten
    <3>4. Excused \subseteq {queue[i].slot}
      BY <1>4, <3>2 DEF ToRollBack
    <3>5. Owing' \subseteq Owing \cup {queue[i].slot}
      BY <1>1, <3>4 DEF Owing
    <3>6. 1 + Cardinality(Forgotten(queue')) + ForgottenWork' + faults
              <= Cardinality(Forgotten(queue)) + ForgottenWork + faults'
      <4>1. Cardinality(Forgotten(queue')) = Cardinality(Forgotten(queue))
        BY <3>3
      <4> QED
        BY <1>1, <1>3, <2>2, <4>1, FiniteCounts
    <3>7. Cardinality(Forgotten(queue')) \in Nat /\ faults' \in Nat
      BY <1>1, <3>3, FiniteCounts
    <3> QED
      BY <1>3, <3>5, <3>6, <3>7, Counted
  <2>3. CASE ~Answering /\ \A i \in DOMAIN queue : ~(queue[i].live /\ queue[i].kind = "rollback")
    <3>1. Owing' \subseteq Owing
      BY <1>1, <1>4, <2>3 DEF Owing, ToRollBack
    <3>2. \E x : Forgotten(queue') \subseteq Forgotten(queue) \cup {x}
      <4>1. CASE \E i \in DOMAIN queue : queue[i].live
        BY <1>2, <4>1 DEF Forgotten, FInv, OneCall
      <4>2. CASE \A i \in DOMAIN queue : ~queue[i].live
        BY <1>2, <4>2 DEF Forgotten
      <4> QED
        BY <4>1, <4>2
    <3>3. /\ Cardinality(Forgotten(queue')) \in Nat
          /\ Cardinality(Forgotten(queue')) <= Cardinality(Forgotten(queue)) + 1
      BY <3>2, Grown, FiniteCounts
    <3>4. 0 + Cardinality(Forgotten(queue')) + ForgottenWork' + faults
              <= Cardinality(Forgotten(queue)) + ForgottenWork + faults'
      BY <1>1, <1>3, <2>3, <3>3, FiniteCounts
    <3>5. faults' \in Nat
      BY <1>1
    <3> QED
      BY <1>3, <3>1, <3>3, <3>4, <3>5, Counted
  <2> QED
    BY <2>1, <2>2, <2>3
<1>6. OneCall'
  BY <1>2, <1>3 DEF OneCall
<1> QED
  BY <1>5, <1>6 DEF FInv

\* A crash forgets every request, and the bot of the one the plugin waited for.
LEMMA CrashCounts ==
    ASSUME IInv, FInv, Crash
    PROVE  FInv'
<1>1. /\ process' = "down" /\ work' = NoWork /\ queue' = <<>>
      /\ UNCHANGED <<file, placed>> /\ faults' = faults + 1 /\ faults \in Nat
  BY DEF Crash, Fault, IInv, TypeOK
<1>2. PICK x : Excused \subseteq {x}
  BY ExcusedIsOne
<1>3. Owing' \subseteq Owing \cup {x}
  BY <1>1, <1>2 DEF Owing
<1>4. ~Answering' /\ ForgottenWork' = 0
  BY <1>1 DEF NoWork, Answering, ForgottenWork
<1>5. DOMAIN queue' = {}
  BY <1>1
<1>6. Cardinality(Forgotten(queue')) = 0
  BY <1>5, FS_EmptySet DEF Forgotten
<1>7. FaultsAreCounted'
  <2>1. 1 + Cardinality(Forgotten(queue')) + ForgottenWork' + faults
            <= Cardinality(Forgotten(queue)) + ForgottenWork + faults'
    BY <1>1, <1>4, <1>6, FiniteCounts
  <2>2. Cardinality(Forgotten(queue')) \in Nat /\ ForgottenWork' \in {0, 1} /\ faults' \in Nat
    BY <1>1, <1>4, <1>6
  <2> QED
    BY <1>3, <2>1, <2>2, Counted
<1>8. OneCall'
  BY <1>4, <1>5 DEF OneCall
<1> QED
  BY <1>7, <1>8 DEF FInv

LEMMA InitFInv ==
    ASSUME Init
    PROVE  FInv
<1>1. Owing = {} /\ Forgotten(queue) = {} /\ ForgottenWork = 0 /\ faults = 0
  BY DEF Init, Owing, Forgotten, ForgottenWork, NoWork
<1>2. OneCall
  BY DEF Init, OneCall, Answering, NoWork
<1> QED
  BY <1>1, <1>2, FS_EmptySet DEF FInv, FaultsAreCounted

LEMMA NextFInv ==
    ASSUME IInv, FInv, [Next]_vars
    PROVE  FInv'
<1>1. CASE Restore
  BY <1>1, NextInv, RestoreCounts
<1>2. CASE Serve
  BY <1>2, RefusalsCount, SpawnConnectsCounts, WorkGoesOn, SpawnSavesCounts, AnswersCount,
     RollbackSavesCounts, ReadyCounts DEF Serve
<1>3. CASE Failures
  BY <1>3, NextInv, RestoreCounts, RefusalsCount, AnswersCount, WorkGoesOn, CallLostCounts,
     CrashCounts DEF Failures
<1>4. CASE Plugin
  BY <1>4, SpawnCounts, PlacingCounts DEF Plugin
<1>5. CASE (\E s \in 1..MaxSessions : ConsoleDeletes(s)) \/ UNCHANGED vars
  <2>1. UNCHANGED <<file, process, work, queue, plugin, placed, faults>>
    BY <1>5 DEF ConsoleDeletes, vars, bridgeVars, pluginVars
  <2>2. ForgottenWork \in {0, 1} /\ faults \in Nat
    BY FiniteCounts
  <2>3. ForgottenWork' <= ForgottenWork /\ Answering' = Answering /\ faults' \in Nat /\ faults <= faults'
    BY <2>1, <2>2 DEF ForgottenWork, Answering
  <2> QED
    BY <2>1, <2>3, CountStays
<1> QED
  BY <1>1, <1>2, <1>3, <1>4, <1>5 DEF Next

\* A bot that spawnLatest has saved and that the plugin never places takes a
\* fault, and each takes one bot at most: a crash, a failed call, or a reply
\* that came too late, whether it leaves a spawn or a roll-back unfinished.
THEOREM UnplacedBotsAreFaults == Spec => []UnplacedAreFaults
<1>1. ASSUME IInv, FInv
      PROVE  UnplacedAreFaults
  <2> SUFFICES ASSUME process = "serving", work = NoWork, queue = <<>>, plugin = Idle
               PROVE  Cardinality({i \in DOMAIN file.bots : file.bots[i].ordinal \notin placed}) <= faults
    BY DEF UnplacedAreFaults
  <2>1. Excused = {}
    BY DEF Excused, Idle, ToRollBack
  <2>2. {i \in DOMAIN file.bots : file.bots[i].ordinal \notin placed} = Owing
    BY <1>1, <2>1, FileBots DEF Owing
  <2>3. Cardinality(Owing) + Cardinality(Forgotten(queue)) + ForgottenWork <= faults
    BY <1>1 DEF FInv, FaultsAreCounted
  <2>4. Cardinality(Owing) <= faults
    BY <1>1, <2>3, FiniteCounts
  <2> QED
    BY <2>2, <2>4
<1>2. Init => IInv /\ FInv
  BY InitInv, InitFInv
<1>3. IInv /\ FInv /\ [Next]_vars => (IInv /\ FInv)'
  BY NextInv, NextFInv
<1> QED
  BY <1>1, <1>2, <1>3, PTL DEF Spec

=============================================================================
