---------------------------- MODULE EventStream ----------------------------
(***************************************************************************)
(* How the project server tells a browser page what its runs have come to: *)
(* ApiService and its EventBuffer (api/service.py, api/sse.py), the        *)
(* snapshot and event routes (api/server.py) and the page that follows     *)
(* them (frontend/src/App.tsx).                                            *)
(*                                                                         *)
(* An event carries a run, but the page only takes it as a reason to ask   *)
(* for a snapshot: what is kept of the retained events is which numbers    *)
(* they have.  0 stands for the empty Last-Event-ID.  Writers are the      *)
(* other programs that change runs, and the server's own POST threads,     *)
(* which publish what they did once the run's lock is gone.                *)
(***************************************************************************)
EXTENDS Naturals, Sequences, SequencesExt, FiniteSetsExt

CONSTANTS
    Runs, Pages,
    Limit,              \* events the buffer retains (event_limit)
    MaxReconnects, MaxPolls, \* MAX_RECONNECTS, MAX_FALLBACK_POLLS
    MaxRevision,        \* bound: how often a run changes
    MaxRequests,        \* bound: snapshot requests a page has under way
    MaxFaults,          \* bound: connections and requests that fail
    MaxRestarts,        \* bound: restarts of the server
    None

ASSUME EventStreamAssumption ==
    /\ IsFiniteSet(Runs) /\ None \notin Pages
    /\ Limit \in Nat \ {0} /\ MaxReconnects \in Nat \ {0} /\ MaxPolls \in Nat
    /\ MaxRevision \in Nat /\ MaxRequests \in Nat \ {0}
    /\ MaxFaults \in Nat /\ MaxRestarts \in Nat

VARIABLES
    store,              \* the revision of every run on disk
    seen,               \* _seen_runs: the revisions already published
    published,          \* events published since the server started
    eventLock,          \* _event_lock: the page whose stream holds it
    writers,            \* POST threads that have changed a run
    page,               \* the follower: what App.tsx keeps; history: how many of
                        \* the requests under way a later one has overtaken,
                        \* and whether what it shows is the outcome of such a
                        \* request (outrun) or from an earlier server (old)
    stream,             \* the thread of _events that serves the page
    faults, restarts

server == <<seen, published, eventLock, writers>>
vars == <<store, server, page, stream, faults, restarts>>

Listings == [Runs -> 0..MaxRevision]
Message == [kind : {"open", "closed"}] \cup [kind : {"run"}, id : Nat \ {0}]
           \cup [kind : {"reset"}, view : Listings]

TypeOK ==
    /\ store \in Listings /\ seen \in Listings /\ published \in Nat
    /\ eventLock \in Pages \cup {None}
    /\ writers \subseteq [run : Runs, revision : 0..MaxRevision,
                          at : {"publish", "mark"}]
    /\ \A p \in Pages :
        /\ page[p].view \in Listings \cup {None}
        /\ page[p].last \in 0..published \/ restarts > 0
        /\ page[p].asked \in Seq(Listings \cup {None})
        /\ Len(page[p].asked) <= MaxRequests
        /\ page[p].overtaken \in Nat
        /\ page[p].attempts \in 0..MaxReconnects /\ page[p].polls \in 0..MaxPolls
        /\ {page[p].connected, page[p].old, page[p].outrun, page[p].error} \subseteq BOOLEAN
        /\ stream[p].at \in {"none", "list", "publish", "read"}
        /\ stream[p].sent \in Seq(Message)
        /\ eventLock = p <=> stream[p].at = "publish"
    /\ faults \in 0..MaxFaults /\ restarts \in 0..MaxRestarts
----------------------------------------------------------------------------
(* What the deque still holds.                                             *)
Retained == {id \in 1..published : id > published - Limit}

(* EventBuffer._replay_locked: either a reset, or what follows the cursor. *)
(* Faulty variant: an evicted cursor is served what is left.               *)
FaultyMustReset(cursor) == cursor > published
MustReset(cursor) ==
    /\ cursor # 0
    /\ \/ cursor > published
       \/ Retained # {} /\ cursor + 1 < Min(Retained)

Replay(cursor) == {id \in Retained : id > cursor}

Closed == [at |-> "none", first |-> FALSE, cursor |-> 0, listed |-> None,
           sent |-> <<>>]

(* connection.onerror: close, count, and set the timer to connect again.   *)
Disconnected(follower) ==
    [follower EXCEPT !.connected = FALSE, !.heard = 0, !.attempts = @ + 1]

Fault == faults < MaxFaults /\ faults' = faults + 1

(* The page has loaded: its first refresh is asked for, and connect() is   *)
(* next.  The server saw the runs when it was made.                        *)
Init ==
    /\ store = [run \in Runs |-> 0]
    /\ seen = store
    /\ published = 0
    /\ eventLock = None
    /\ writers = {}
    /\ page = [p \in Pages |->
                [view |-> None, error |-> FALSE, last |-> 0, heard |-> 0, old |-> FALSE,
                 asked |-> <<None>>, overtaken |-> 0, outrun |-> FALSE,
                 connected |-> FALSE, attempts |-> 0, polls |-> 0]]
    /\ stream = [p \in Pages |-> Closed]
    /\ faults = 0
    /\ restarts = 0
----------------------------------------------------------------------------
(* Another program's change, and a POST thread's: lifecycle.start, stop,   *)
(* resume, pause or handoff has returned.                                  *)
Change(run) ==
    /\ store[run] < MaxRevision
    /\ store' = [store EXCEPT ![run] = @ + 1]
    /\ UNCHANGED <<server, page, stream, faults, restarts>>

Mutate(run) ==
    /\ store[run] < MaxRevision
    /\ store' = [store EXCEPT ![run] = @ + 1]
    /\ writers' = writers \cup
        {[run |-> run, revision |-> store[run] + 1, at |-> "publish"]}
    /\ UNCHANGED <<seen, published, eventLock, page, stream, faults, restarts>>

(* _publish_run, in its two steps; neither holds _event_lock.              *)
PublishRun(w) ==
    /\ w.at = "publish"
    /\ published' = published + 1
    /\ writers' = (writers \ {w}) \cup {[w EXCEPT !.at = "mark"]}
    /\ UNCHANGED <<store, seen, eventLock, page, stream, faults, restarts>>

MarkSeen(w) ==
    /\ w.at = "mark"
    /\ seen' = [seen EXCEPT ![w.run] = w.revision]
    /\ writers' = writers \ {w}
    /\ UNCHANGED <<store, published, eventLock, page, stream, faults, restarts>>
----------------------------------------------------------------------------
(* sync_events: the runs are listed and the changed ones published under   *)
(* the event lock.                                                         *)
ListRuns(p) ==
    /\ stream[p].at = "list" /\ eventLock = None
    /\ eventLock' = p
    /\ stream' = [stream EXCEPT ![p].at = "publish", ![p].listed = store]
    /\ UNCHANGED <<store, seen, published, writers, page, faults, restarts>>

(* Faulty variant: what is marked as seen is what the store holds now.     *)
FaultySeenAfter(listing) == store
SeenAfter(listing) == listing

PublishChanges(p) ==
    /\ stream[p].at = "publish"
    /\ published' = published + Quantify(Runs,
                        LAMBDA run : seen[run] # stream[p].listed[run])
    /\ seen' = SeenAfter(stream[p].listed)
    /\ eventLock' = None
    /\ stream' = [stream EXCEPT ![p].at = "read", ![p].listed = None]
    /\ UNCHANGED <<store, writers, page, faults, restarts>>

(* The route opens the stream, or answers with a snapshot and closes; the  *)
(* events it looked at first are sent by the loop.  The loop syncs and     *)
(* waits for what follows the cursor, and ends with a snapshot too when a  *)
(* slow page has let the cursor be evicted.                                *)
Read(p) ==
    LET s == stream[p]
        opening == IF s.first THEN <<[kind |-> "open"]>> ELSE <<>>
        pending == IF s.first THEN {} ELSE Replay(s.cursor)
        events == [i \in 1..Cardinality(pending) |->
                    [kind |-> "run", id |-> Min(pending) + i - 1]]
    IN  /\ s.at = "read"
        /\ stream' = [stream EXCEPT ![p] =
             IF MustReset(s.cursor)
             THEN [Closed EXCEPT !.sent = s.sent \o opening \o
                      <<[kind |-> "reset", view |-> store], [kind |-> "closed"]>>]
             ELSE [s EXCEPT !.at = "list", !.first = FALSE,
                            !.sent = s.sent \o opening \o events,
                            !.cursor = IF pending = {} THEN @ ELSE Max(pending)]]
        /\ UNCHANGED <<store, server, page, faults, restarts>>

(* The snapshot route.                                                     *)
ServeSnapshot(p, i) ==
    /\ page[p].asked[i] = None
    /\ page' = [page EXCEPT ![p].asked[i] = store]
    /\ UNCHANGED <<store, server, stream, faults, restarts>>
----------------------------------------------------------------------------
(* connect()                                                               *)
Connect(p) ==
    /\ ~page[p].connected /\ page[p].attempts < MaxReconnects
    /\ page' = [page EXCEPT ![p].connected = TRUE, ![p].heard = 0]
    /\ stream' = [stream EXCEPT ![p] =
                    [Closed EXCEPT !.at = "list", !.first = TRUE,
                                   !.cursor = page[p].last]]
    /\ UNCHANGED <<store, server, faults, restarts>>

ConnectFails(p) ==
    /\ ~page[p].connected /\ page[p].attempts < MaxReconnects
    /\ Fault
    /\ page' = [page EXCEPT ![p] = Disconnected(@)]
    /\ UNCHANGED <<store, server, stream, restarts>>

(* refresh(): fetch the snapshot, without waiting for the last one asked.  *)
Refresh(follower) == [follower EXCEPT !.asked = Append(@, None)]

(* The event handlers.  A reset has no id of its own: the EventSource      *)
(* reports the last one of this connection, or none.                       *)
OnRun(follower, id) ==
    Refresh([follower EXCEPT !.last = id, !.heard = id,
                             !.old = FALSE, !.attempts = 0, !.polls = 0])

OnReset(follower, view) ==
    [follower EXCEPT !.view = view, !.error = FALSE, !.last = follower.heard,
                     !.old = FALSE, !.outrun = FALSE, !.attempts = 0, !.polls = 0]

Receive(p) ==
    LET message == Head(stream[p].sent)
    IN  /\ stream[p].sent # <<>>
        /\ message.kind = "run" => Len(page[p].asked) < MaxRequests
        /\ page' = [page EXCEPT ![p] =
             CASE message.kind = "open" -> [@ EXCEPT !.attempts = 0, !.polls = 0]
               [] message.kind = "run" -> OnRun(@, message.id)
               [] message.kind = "reset" -> OnReset(@, message.view)
               [] OTHER -> Disconnected(@)]
        /\ stream' = [stream EXCEPT ![p].sent = Tail(@)]
        /\ UNCHANGED <<store, server, faults, restarts>>

(* The connection breaks, and what was sent is lost.  (A thread inside     *)
(* sync_events finishes that first: it notices when it writes.)            *)
Drop(p) ==
    /\ page[p].connected /\ eventLock # p
    /\ Fault
    /\ page' = [page EXCEPT ![p] = Disconnected(@)]
    /\ stream' = [stream EXCEPT ![p] = Closed]
    /\ UNCHANGED <<store, server, restarts>>

(* An answered refresh shows its snapshot, a failed one its error.  The    *)
(* requests are not ordered: a later one may be answered first.            *)
Settled(follower, i) ==
    [follower EXCEPT !.asked = RemoveAt(@, i),
                     !.overtaken = IF i <= @ THEN @ - 1 ELSE i - 1,
                     !.outrun = i <= follower.overtaken]

Refreshed(p, i) ==
    /\ page[p].asked[i] # None
    /\ page' = [page EXCEPT ![p] =
         [Settled(@, i) EXCEPT !.view = page[p].asked[i], !.error = FALSE]]
    /\ UNCHANGED <<store, server, stream, faults, restarts>>

RefreshFails(p) ==
    /\ Fault
    /\ \E i \in DOMAIN page[p].asked :
         page' = [page EXCEPT ![p] = [Settled(@, i) EXCEPT !.error = TRUE]]
    /\ UNCHANGED <<store, server, stream, restarts>>

(* scheduleFallbackPoll, once no reconnect is left: it awaits its refresh. *)
(* Faulty variant: the polls are not counted.                              *)
FaultyPolled(follower) == Refresh(follower)
Polled(follower) == Refresh([follower EXCEPT !.polls = @ + 1])

Poll(p) ==
    /\ ~page[p].connected /\ page[p].attempts >= MaxReconnects
    /\ page[p].polls < MaxPolls /\ page[p].asked = <<>>
    /\ page' = [page EXCEPT ![p] = Polled(@)]
    /\ UNCHANGED <<store, server, stream, faults, restarts>>

(* The server starts again: new numbers, and everything on disk is seen.   *)
(* Connections break and requests fail; the pages stay.                    *)
Restart ==
    /\ restarts < MaxRestarts
    /\ restarts' = restarts + 1
    /\ seen' = store /\ published' = 0 /\ eventLock' = None /\ writers' = {}
    /\ stream' = [p \in Pages |-> Closed]
    /\ page' = [p \in Pages |->
         LET cut == [page[p] EXCEPT !.asked = <<>>, !.overtaken = 0, !.old = TRUE,
                                    !.error = @ \/ page[p].asked # <<>>]
         IN  IF cut.connected THEN Disconnected(cut) ELSE cut]
    /\ UNCHANGED <<store, faults>>
----------------------------------------------------------------------------
ServerStep(p) ==
    \/ ListRuns(p) \/ PublishChanges(p) \/ Read(p)
    \/ \E i \in DOMAIN page[p].asked : ServeSnapshot(p, i)

PageStep(p) ==
    \/ Connect(p) \/ Receive(p) \/ Poll(p)
    \/ \E i \in DOMAIN page[p].asked : Refreshed(p, i)

Next ==
    \/ \E run \in Runs : Change(run) \/ Mutate(run)
    \/ \E w \in writers : PublishRun(w) \/ MarkSeen(w)
    \/ \E p \in Pages : \/ ServerStep(p) \/ PageStep(p)
                        \/ ConnectFails(p) \/ Drop(p) \/ RefreshFails(p)
    \/ Restart

Spec == Init /\ [][Next]_vars

(* Threads and timers go on.  The event lock is held for one listing a     *)
(* second by each stream, so a stream that keeps asking gets it.           *)
Fairness ==
    /\ WF_vars(\E w \in writers : PublishRun(w) \/ MarkSeen(w))
    /\ \A p \in Pages :
        /\ SF_vars(ListRuns(p))
        /\ WF_vars(PublishChanges(p)) /\ WF_vars(Read(p))
        /\ WF_vars(\E i \in DOMAIN page[p].asked : ServeSnapshot(p, i))
        /\ WF_vars(Connect(p)) /\ WF_vars(Receive(p)) /\ WF_vars(Poll(p))
        /\ WF_vars(\E i \in DOMAIN page[p].asked : Refreshed(p, i))

FairSpec == Spec /\ Fairness
----------------------------------------------------------------------------
(* A page that has a cursor hears the very next event, or is told to start *)
(* over: no event is passed over, whatever was lost, evicted or published  *)
(* meanwhile.  About _replay_locked and the cursor of _events.             *)
StreamContiguous ==
    [][\A p \in Pages :
          page[p].last # 0 /\ page'[p].last # page[p].last =>
              page'[p].last \in {0, page[p].last + 1}]_page

(* Once the runs come to rest, every page ends up showing them as they     *)
(* are, unless it shows an error or has given up connecting.  Two pages    *)
(* are left out: one that has heard nothing of the server since it         *)
(* restarted, and one on which the answer to a request that a later one    *)
(* had overtaken came last, and was shown over it.                         *)
UpToDate(p) ==
    page[p].view = store \/ page[p].error \/ page[p].attempts >= MaxReconnects

FollowersCatchUp ==
    <>[](\A p \in Pages : UpToDate(p) \/ page[p].old \/ page[p].outrun)

(* Without the first exception: a page that was connected when the server  *)
(* restarted is reset by the new one, so it is up to date in the end       *)
(* (frontend/tests/e2e/gui.spec.ts:132).                                   *)
RestartNoticed == <>[](\A p \in Pages : UpToDate(p) \/ page[p].outrun)

(* Reconnect attempts and fallback polls are finite: a page comes to rest, *)
(* with nothing asked, and connected if it has not given up.               *)
PagesComeToRest ==
    <>[](\A p \in Pages :
            /\ page[p].asked = <<>>
            /\ page[p].connected \/ page[p].attempts >= MaxReconnects)
=============================================================================
