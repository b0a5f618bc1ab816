----------------------------- MODULE ValueFeed ------------------------------
(***************************************************************************)
(* What the server promises its client about values, with no channel, no   *)
(* task and no message: a source that publishes samples, a client that     *)
(* comes and goes and wants a set of paths, and deliveries.  A delivery    *)
(* brings samples of wanted paths only; each is one that the source really *)
(* published, none older than the latest one at the time the client        *)
(* connected and none that is not published yet.  It need not be newer     *)
(* than what the client already has: the server does not promise that.     *)
(***************************************************************************)
EXTENDS Naturals

CONSTANT Paths

VARIABLES
    latest,   \* the latest sample of each path; 0 when there is none
    online,   \* a client is connected
    wanted,   \* the paths it is subscribed to
    base,     \* latest, when the client connected
    view      \* the last sample of each path it was given

feedVars == <<latest, online, wanted, base, view>>

Nothing == [p \in Paths |-> 0]

FeedInit ==
    /\ latest = Nothing
    /\ online = FALSE
    /\ wanted = {}
    /\ base = Nothing
    /\ view = Nothing

Publish(S) ==
    /\ latest' = [p \in Paths |-> IF p \in S THEN latest[p] + 1 ELSE latest[p]]
    /\ UNCHANGED <<online, wanted, base, view>>

Connect ==
    /\ ~online
    /\ online' = TRUE
    /\ base' = latest
    /\ UNCHANGED <<latest, wanted, view>>

Disconnect ==
    /\ online
    /\ online' = FALSE
    /\ wanted' = {}
    /\ base' = Nothing
    /\ view' = Nothing
    /\ UNCHANGED latest

Choose(S) ==
    /\ online
    /\ wanted' = S
    /\ UNCHANGED <<latest, online, base, view>>

Deliverable(p, v) == p \in wanted /\ 0 < v /\ base[p] <= v /\ v <= latest[p]

Deliver ==
    /\ online
    /\ view' \in [Paths -> Nat]
    /\ \A p \in Paths : view'[p] = view[p] \/ Deliverable(p, view'[p])
    /\ UNCHANGED <<latest, online, wanted, base>>

FeedNext ==
    \/ \E S \in SUBSET Paths : Publish(S) \/ Choose(S)
    \/ Connect
    \/ Disconnect
    \/ Deliver

FeedSpec == FeedInit /\ [][FeedNext]_feedVars

=============================================================================
