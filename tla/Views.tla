-------------------------------- MODULE Views --------------------------------
(***************************************************************************)
(* What a viewer shows of a run, or of the list of runs: the server pushes *)
(* a snapshot, bounded to one frame, whenever its projection has changed;  *)
(* the client asks for the pages behind it, one request after the other,   *)
(* and shows the whole once it has them.  Meanwhile the source changes,    *)
(* connections and servers go, and the user moves between list and run.    *)
(*                                                                         *)
(* A snapshot or page is the revision it was read at.  Contents behind a   *)
(* reference are bound to their digest and left out, as are rows that      *)
(* change without the revision of the run (message states).                *)
(***************************************************************************)
EXTENDS Integers, Sequences, FiniteSets

CONSTANTS None,
          MaxPages,         \* pages of a view behind its snapshot
          MaxTries,         \* RECONNECT_MAX_ATTEMPTS
          MaxUnread,        \* snapshots the socket takes before it is full
          MaxSourceChanges, MaxViewFaults, MaxSwitches     \* bounds

VARIABLES source,     \* presentation revision of the run, and revision of the list
          listening,  \* a server accepts connections
          serverSub,  \* connection.subscriptions of the server
          toServer, toClient,   \* the two directions of the socket
          client,     \* WorkflowClient: its connection and the attempts to get it back
          tui,        \* runViewer: mode, subscription and materialization generation
          loads,      \* snapshots whose pages are being collected
          display,    \* what the viewer shows
          newest,     \* ghost: the newest revision it has shown
          viewSpent   \* faults and switches that happened

viewVars == <<source, listening, serverSub, toServer, toClient, client, tui, loads,
              display, newest, viewSpent>>
wireVars == <<serverSub, toServer, toClient>>
viewerVars == <<tui, loads, display, newest>>

Watch(n) == [op |-> "watch", id |-> n]
Unavailable == [kind |-> "unavailable", revs |-> {}, whole |-> FALSE]

\* The viewer starts with the list and has sent its subscription.
ViewsInit ==
    /\ source = 1 /\ listening = TRUE
    /\ serverSub = None /\ toServer = <<Watch(1)>> /\ toClient = << >>
    /\ client = [phase |-> "ready", tries |-> 0]
    /\ tui = [mode |-> "runs", id |-> 1, gen |-> 0, at |-> "subscribing"]
    /\ loads = {} /\ display = [kind |-> "empty", revs |-> {}, whole |-> FALSE]
    /\ newest = 0 /\ viewSpent = [faults |-> 0, switches |-> 0]

Connected == client.phase \in {"ready", "restoring"}
Subscribed == tui.at \in {"watching", "subscribing"}

-----------------------------------------------------------------------------
(* The server.                                                             *)

ChangeSource ==
    /\ source < MaxSourceChanges + 1 /\ source' = source + 1
    /\ UNCHANGED <<listening, wireVars, client, viewerVars, viewSpent>>

\* publishSubscription: nothing is sent while the digest is that of the last
\* snapshot, nor before the socket has drained.
PublishSnapshot ==
    /\ Connected /\ serverSub # None /\ serverSub.sent # source
    /\ Cardinality({i \in DOMAIN toClient : toClient[i].op = "event"}) < MaxUnread
    /\ serverSub' = [serverSub EXCEPT !.sent = source]
    /\ toClient' = Append(toClient, [op |-> "event", id |-> serverSub.id, rev |-> source])
    /\ UNCHANGED <<source, listening, toServer, client, viewerVars, viewSpent>>

\* Variant: the subscription is dropped without a word.
FailQuietly ==
    /\ Connected /\ serverSub # None /\ serverSub.sent # source
    /\ viewSpent.faults < MaxViewFaults
    /\ viewSpent' = [viewSpent EXCEPT !.faults = @ + 1]
    /\ serverSub' = None
    /\ UNCHANGED <<source, listening, toServer, toClient, client, viewerVars>>

\* The projection fails or is too large: its subscription ends with a notice.
FailSubscription ==
    /\ Connected /\ serverSub # None /\ serverSub.sent # source
    /\ viewSpent.faults < MaxViewFaults
    /\ viewSpent' = [viewSpent EXCEPT !.faults = @ + 1]
    /\ serverSub' = None
    /\ toClient' = Append(toClient, [op |-> "event", id |-> serverSub.id, rev |-> None])
    /\ UNCHANGED <<source, listening, toServer, client, viewerVars>>

Request == Head(toServer)

\* view.runs.watch and view.run.watch (addSubscription)
AddSubscription ==
    /\ Connected /\ toServer # << >> /\ Request.op = "watch"
    /\ serverSub' = [id |-> Request.id, sent |-> None]
    /\ toServer' = Tail(toServer) /\ toClient' = Append(toClient, [op |-> "watched"])
    /\ UNCHANGED <<source, listening, client, viewerVars, viewSpent>>

Unwatch ==
    /\ Connected /\ toServer # << >> /\ Request.op = "unwatch"
    /\ serverSub' = None
    /\ toServer' = Tail(toServer) /\ toClient' = Append(toClient, [op |-> "unwatched"])
    /\ UNCHANGED <<source, listening, client, viewerVars, viewSpent>>

\* view.page answers with the revision it was read at, view.runs.page with a
\* conflict when that is not the one asked for.
ServePage ==
    /\ Connected /\ toServer # << >> /\ Request.op = "page"
    /\ toServer' = Tail(toServer)
    /\ toClient' = Append(toClient, [op |-> "page", load |-> Request.load,
          rev |-> IF Request.kind = "runs" /\ Request.rev # source THEN None ELSE source])
    /\ UNCHANGED <<source, listening, serverSub, client, viewerVars, viewSpent>>

-----------------------------------------------------------------------------
(* The client and the viewer.                                              *)

Message == Head(toClient)
Receive(op) ==
    /\ Connected /\ toClient # << >> /\ Message.op = op
    /\ toClient' = Tail(toClient)
    /\ UNCHANGED <<source, listening, serverSub, viewSpent>>

Newer(rev) == newest' = IF rev > newest THEN rev ELSE newest
Ask(l) == toServer' = Append(toServer, [op |-> "page", load |-> l.gen, kind |-> l.kind,
                                        rev |-> l.rev])

\* subscribe, or restoreSubscriptions of a new connection, is done.
ReceiveWatched ==
    /\ Receive("watched")
    /\ client' = [phase |-> "ready", tries |-> 0]
    /\ tui' = [tui EXCEPT !.at = IF @ = "subscribing" THEN "watching" ELSE @]
    /\ UNCHANGED <<toServer, loads, display, newest>>

\* A snapshot: that of a run is drawn at once, that of the list when complete.
ReceiveSnapshot ==
    /\ Receive("event") /\ Message.rev # None
    /\ IF Subscribed /\ Message.id = tui.id
       THEN LET l == [gen |-> tui.gen + 1, kind |-> tui.mode, rev |-> Message.rev,
                      got |-> {Message.rev}, left |-> MaxPages] IN
            /\ tui' = [tui EXCEPT !.gen = l.gen]
            /\ loads' = loads \cup {l} /\ Ask(l)
            /\ IF tui.mode = "run"
               THEN display' = [kind |-> "run", revs |-> l.got, whole |-> FALSE] /\ Newer(l.rev)
               ELSE UNCHANGED <<display, newest>>
       ELSE UNCHANGED <<toServer, viewerVars>>
    /\ UNCHANGED client

ReceiveFailure ==
    /\ Receive("event") /\ Message.rev = None
    /\ IF Subscribed /\ Message.id = tui.id
       THEN /\ display' = Unavailable
            /\ tui' = [tui EXCEPT !.gen = IF tui.mode = "run" THEN @ + 1 ELSE @]
       ELSE UNCHANGED <<display, tui>>
    /\ UNCHANGED <<client, toServer, loads, newest>>

\* The snapshot is still the last one of the subscription that is watched.
StillWanted(l) == l.gen = tui.gen

\* Variant: any page that the server did not refuse.
NotRefused(l, rev) == rev # None

\* A page continues the snapshot when it was read at the same revision.
Continues(l, rev) == rev = l.rev

\* completePage, and the loop of deliverSubscriptionEvent.  A list gives up
\* between two pages when another snapshot has arrived, a run goes on.
ReceivePage ==
    /\ Receive("page") /\ \E l \in loads : l.gen = Message.load
    /\ LET l == CHOOSE x \in loads : x.gen = Message.load
           more == [l EXCEPT !.got = @ \cup {Message.rev}, !.left = @ - 1] IN
       IF ~Continues(l, Message.rev) \/ (l.kind = "runs" /\ ~StillWanted(l))
       THEN loads' = loads \ {l} /\ UNCHANGED <<toServer, display, newest>>
       ELSE IF more.left > 0
       THEN loads' = (loads \ {l}) \cup {more} /\ Ask(more) /\ UNCHANGED <<display, newest>>
       ELSE /\ loads' = loads \ {l} /\ UNCHANGED toServer
            /\ IF StillWanted(l)
               THEN display' = [kind |-> l.kind, revs |-> more.got, whole |-> TRUE] /\ Newer(l.rev)
               ELSE UNCHANGED <<display, newest>>
    /\ UNCHANGED <<client, tui>>

Other(mode) == IF mode = "runs" THEN "run" ELSE "runs"
Subscribe(t) ==
    /\ tui' = [t EXCEPT !.mode = Other(@), !.id = @ + 1, !.at = "subscribing"]
    /\ toServer' = Append(toServer, Watch(t.id + 1))

\* The user opens a run or returns to the list (watchRun, watchRuns): the old
\* subscription is given up first.  Without a connection one is opened; a
\* failure there ends the viewer.  The user waits for a change to be over.
SwitchView ==
    /\ viewSpent.switches < MaxSwitches /\ tui.at = "watching" /\ client.phase # "restoring"
    /\ viewSpent' = [viewSpent EXCEPT !.switches = @ + 1]
    /\ LET t == [tui EXCEPT !.gen = @ + 1] IN
       IF Connected
       THEN /\ tui' = [t EXCEPT !.at = "unwatching"]
            /\ toServer' = Append(toServer, [op |-> "unwatch"]) /\ UNCHANGED client
       ELSE IF listening
       THEN Subscribe(t) /\ client' = [phase |-> "ready", tries |-> 0]
       ELSE tui' = [t EXCEPT !.at = "gone"] /\ UNCHANGED <<toServer, client>>
    /\ UNCHANGED <<source, listening, serverSub, toClient, loads, display, newest>>

ReceiveUnwatched ==
    /\ Receive("unwatched")
    /\ IF tui.at = "unwatching" THEN Subscribe(tui) ELSE UNCHANGED <<tui, toServer>>
    /\ UNCHANGED <<client, loads, display, newest>>

-----------------------------------------------------------------------------
(* Connections.                                                            *)

\* scheduleReconnect
NextTry == IF client.tries < MaxTries THEN [phase |-> "waiting", tries |-> client.tries + 1]
           ELSE [phase |-> "spent", tries |-> client.tries]

\* The connection closes, perhaps with its server.  Requests in flight are
\* rejected, which ends every load, and the viewer while it changes its
\* subscription (nothing catches that rejection); subscribers are told.
LoseView ==
    /\ Connected /\ viewSpent.faults < MaxViewFaults
    /\ viewSpent' = [viewSpent EXCEPT !.faults = @ + 1]
    /\ listening' \in BOOLEAN
    /\ serverSub' = None /\ toServer' = << >> /\ toClient' = << >>
    /\ loads' = {}
    /\ client' = NextTry
    /\ IF tui.at = "watching"
       THEN /\ display' = Unavailable
            /\ tui' = [tui EXCEPT !.gen = IF tui.mode = "run" THEN @ + 1 ELSE @]
       ELSE tui' = [tui EXCEPT !.at = "gone"] /\ UNCHANGED display
    /\ UNCHANGED <<source, newest>>

ServerBack ==
    /\ ~listening /\ listening' = TRUE
    /\ UNCHANGED <<source, wireVars, client, viewerVars, viewSpent>>

\* The timer of scheduleReconnect: connect, which restores the subscription.
Reconnect ==
    /\ client.phase = "waiting" /\ tui.at = "watching"
    /\ IF listening
       THEN /\ client' = [client EXCEPT !.phase = "restoring"]
            /\ toServer' = <<Watch(tui.id)>>
       ELSE client' = NextTry /\ UNCHANGED toServer
    /\ UNCHANGED <<source, listening, serverSub, toClient, viewerVars, viewSpent>>

Handle == AddSubscription \/ Unwatch \/ ServePage
Read == ReceiveWatched \/ ReceiveSnapshot \/ ReceiveFailure \/ ReceivePage \/ ReceiveUnwatched

ViewsNext ==
    \/ ChangeSource \/ PublishSnapshot \/ FailSubscription \/ Handle
    \/ Read \/ SwitchView \/ LoseView \/ ServerBack \/ Reconnect

-----------------------------------------------------------------------------
\* A view that is shown as complete was read at one revision, although its
\* pages are read one by one, and no view replaces a newer one
\* (docs/WORKFLOWS.md:161: "Clients collect a complete run list for one
\* revision and reject stale run pages").
ShownIsWhole ==
    /\ display.whole => Cardinality(display.revs) = 1
    /\ display.kind \in {"run", "runs"} => newest \in display.revs

ShowsSource == display.whole /\ display.revs = {source} /\ display.kind = tui.mode

\* Whatever was lost, refused or overtaken on the way, the viewer ends with
\* the complete view of what there is, or says that it is unavailable; it never
\* stays behind in silence.
ViewerCatchesUp == <>[](ShowsSource \/ display = Unavailable \/ tui.at = "gone")
=============================================================================
