----------------------------- MODULE EventStream -----------------------------
(***************************************************************************)
(* The portal's event stream (portal_api.go): broadcast numbers an event,  *)
(* keeps it for replay and offers it to every listener's queue without     *)
(* waiting; handleEvents replays to a connection what its page has not     *)
(* seen and then writes the queue, and heartbeats between.  The page       *)
(* (web/portal/src/App.tsx) keeps one EventSource, which reconnects with   *)
(* the last ID that it received, while its owner moves between its views.  *)
(* Every view fetches its snapshot when it is opened; the overview, a      *)
(* Team's page and the requests also fetch it again on every event.        *)
(*                                                                         *)
(* One page is modelled: pages share the numbers and the replay only.  An  *)
(* event is its ID, for the page looks at nothing else.  The handler of a  *)
(* connection that broke, which may live on until it writes, changes       *)
(* nothing that a page can see.  A fetch that fails is not modelled.       *)
(***************************************************************************)
EXTENDS Naturals, Sequences, SequencesExt

CONSTANTS
  QueueSize,  \* capacity of a listener's channel (16 in the code)
  ReplaySize, \* events kept for replay (128 in the code)
  MaxEventID  \* bound: IDs handed out

ASSUME StreamAssumption ==
  /\ QueueSize \in Nat \ {0}
  /\ ReplaySize \in Nat \ {0}
  /\ MaxEventID \in Nat

VARIABLES
  events,      \* the IDs of the events kept for replay
  nextEventID, \* the last ID handed out, to an event or a heartbeat
  stream,      \* the page's connection: its listener's queue and its replay
  wire,        \* what was written to the connection and has not arrived
  page         \* the page: the last ID received and the snapshot shown

streamVars == <<events, nextEventID, stream, wire, page>>

EventID == 0..MaxEventID

Closed == [open |-> FALSE, queue |-> <<>>, replay |-> <<>>]

\* live: does the view fetch its snapshot again on every event?  last is
\* EventSource's Last-Event-ID, seen the last broadcast received, and shown the
\* newest broadcast when the snapshot was fetched.  overtaken is for the
\* properties: a heartbeat passed a queued event and no snapshot was fetched
\* since.
NoPage == [on |-> FALSE, live |-> FALSE, last |-> 0, seen |-> 0, shown |-> 0,
           overtaken |-> FALSE]

Frame == [id: EventID, beat: BOOLEAN]

StreamTypeOK ==
  /\ events \in Seq(EventID) /\ Len(events) <= ReplaySize
  /\ nextEventID \in EventID
  /\ stream \in [open: BOOLEAN, queue: Seq(EventID), replay: Seq(EventID)]
  /\ Len(stream.queue) <= QueueSize
  /\ wire \in Seq(Frame)
  /\ page \in [on: BOOLEAN, live: BOOLEAN, last: EventID, seen: EventID,
               shown: EventID, overtaken: BOOLEAN]

StreamInit ==
  /\ events = <<>> /\ nextEventID = 0
  /\ stream = Closed /\ wire = <<>> /\ page = NoPage

LastEvent == IF events = <<>> THEN 0 ELSE Last(events)

\* The events kept for replay with an ID beyond id.  IDs ascend, so that those
\* which handleEvents picks one by one are the rest from some position on.
After(id) ==
  LET first == CHOOSE n \in 1..Len(events) + 1 :
                 \A k \in DOMAIN events : events[k] > id <=> k >= n
  IN SubSeq(events, first, Len(events))

\* Mutant of NotSeen: the event with the very next ID is left out.
NotSeenOffByOne(last) == After(last + 1)

\* Mutant of NotSeen: the last event received is sent again.
NotSeenInclusive(last) == IF last = 0 THEN events ELSE After(last - 1)

\* The events kept for replay that a page has not seen.
NotSeen(last) == After(last)

\* Mutant of Newest: nothing is trimmed.
Untrimmed(s, n) == s

\* The newest n of a sequence.
Newest(s, n) == IF Len(s) <= n THEN s ELSE SubSeq(s, Len(s) - n + 1, Len(s))

-----------------------------------------------------------------------------
(* The server *)

\* broadcast: an event that does not fit into a listener's queue is dropped
\* for that listener.
Broadcast ==
  /\ nextEventID < MaxEventID
  /\ nextEventID' = nextEventID + 1
  /\ events' = Newest(Append(events, nextEventID'), ReplaySize)
  /\ stream' = IF stream.open /\ Len(stream.queue) < QueueSize
               THEN [stream EXCEPT !.queue = Append(@, nextEventID')]
               ELSE stream
  /\ UNCHANGED <<wire, page>>

\* handleEvents registers the listener and copies the replay under one lock.
Connect ==
  /\ page.on /\ ~stream.open
  /\ stream' = [open |-> TRUE, queue |-> <<>>, replay |-> NotSeen(page.last)]
  /\ wire' = <<>>
  /\ UNCHANGED <<events, nextEventID, page>>

WriteReplay ==
  /\ stream.replay # <<>>
  /\ wire' = Append(wire, [id |-> Head(stream.replay), beat |-> FALSE])
  /\ stream' = [stream EXCEPT !.replay = Tail(@)]
  /\ UNCHANGED <<events, nextEventID, page>>

WriteQueued ==
  /\ stream.replay = <<>> /\ stream.queue # <<>>
  /\ wire' = Append(wire, [id |-> Head(stream.queue), beat |-> FALSE])
  /\ stream' = [stream EXCEPT !.queue = Tail(@)]
  /\ UNCHANGED <<events, nextEventID, page>>

\* The select may choose the ticker while events are queued.
Heartbeat ==
  /\ stream.open /\ stream.replay = <<>>
  /\ nextEventID < MaxEventID
  /\ nextEventID' = nextEventID + 1
  /\ wire' = Append(wire, [id |-> nextEventID', beat |-> TRUE])
  /\ page' = [page EXCEPT !.overtaken = @ \/ stream.queue # <<>>]
  /\ UNCHANGED <<events, stream>>

\* The client is gone, or the server's write timeout has passed.  What is on
\* the wire is lost, although it was written.
Break ==
  /\ stream.open
  /\ stream' = Closed /\ wire' = <<>>
  /\ UNCHANGED <<events, nextEventID, page>>

-----------------------------------------------------------------------------
(* The page *)

OpenPage ==
  /\ ~page.on
  /\ \E live \in BOOLEAN :
       page' = [NoPage EXCEPT !.on = TRUE, !.live = live, !.shown = LastEvent]
  /\ UNCHANGED <<events, nextEventID, stream, wire>>

\* Another view takes the place of this one, on the same connection.
Navigate ==
  /\ page.on
  /\ \E live \in BOOLEAN :
       page' = [page EXCEPT !.live = live, !.shown = LastEvent, !.overtaken = FALSE]
  /\ UNCHANGED <<events, nextEventID, stream, wire>>

\* Every frame sets Last-Event-ID; a heartbeat has no handler on the page, and
\* what an event does reaches the views that are live.
Receive ==
  /\ wire # <<>>
  /\ wire' = Tail(wire)
  /\ LET frame == Head(wire)
         event == ~frame.beat
         fetch == event /\ page.live
     IN page' = [page EXCEPT !.last = frame.id,
                             !.seen = IF event THEN frame.id ELSE @,
                             !.shown = IF fetch THEN LastEvent ELSE @,
                             !.overtaken = @ /\ ~fetch]
  /\ UNCHANGED <<events, nextEventID, stream>>

ClosePage ==
  /\ page.on
  /\ page' = NoPage /\ stream' = Closed /\ wire' = <<>>
  /\ UNCHANGED <<events, nextEventID>>

\* The portal process ends; a page of it cannot reach the next one, which has
\* another session.
StreamStops ==
  /\ events' = <<>> /\ nextEventID' = 0
  /\ stream' = Closed /\ wire' = <<>> /\ page' = NoPage

StreamNext ==
  \/ Broadcast \/ Connect \/ WriteReplay \/ WriteQueued \/ Heartbeat \/ Break
  \/ OpenPage \/ Navigate \/ Receive \/ ClosePage \/ StreamStops

StreamSpec == StreamInit /\ [][StreamNext]_streamVars

-----------------------------------------------------------------------------
(* Properties *)

Quiet == page.on /\ stream.open /\ wire = <<>>
         /\ stream.queue = <<>> /\ stream.replay = <<>>

\* The overview, a Team's page or the requests, connected and with nothing
\* under way, show a snapshot that is no older than the last broadcast,
\* although a full queue drops events (portal_api.go:651-656), old ones leave
\* the replay, what was written may be lost, and their owner comes from other
\* views and goes to them.  The exception is a heartbeat that passes a queued
\* event and then a connection that breaks: the reconnection's Last-Event-ID
\* is past an event that never arrived.
PageCurrent == Quiet /\ page.live /\ ~page.overtaken => page.shown >= LastEvent

\* docs/troubleshooting.md:724: "SSE reconnects and refetches typed snapshots".
\* So does not every view: what lists Teams and Services, and what shows a
\* Service, an Application or a Database is not fetched again (App.tsx:56-63,
\* 81-91), and the code breaks this.
EveryViewCurrent == Quiet /\ ~page.overtaken => page.shown >= LastEvent

Ascending(ids) == \A i, j \in DOMAIN ids : i < j => ids[i] < ids[j]

\* A page receives broadcasts in order and none twice, across reconnections
\* and heartbeats that take their IDs out of order: what is on its way to the
\* page, written or not, is newer than what has arrived, and in order.
NoneTwice ==
  LET unwritten == stream.replay \o stream.queue
  IN /\ Ascending(unwritten)
     /\ \A k \in DOMAIN unwritten : page.seen < unwritten[k]
     /\ \A i \in DOMAIN wire :
          ~wire[i].beat =>
            /\ page.seen < wire[i].id
            /\ \A j \in DOMAIN wire : ~wire[j].beat /\ i < j => wire[i].id < wire[j].id
            /\ \A k \in DOMAIN unwritten : wire[i].id < unwritten[k]

-----------------------------------------------------------------------------
(* The inductive invariant behind NoneTwice and PageCurrent *)

\* Without a connection nothing is under way, and without a page there is none.
Connected ==
  /\ ~stream.open => stream = Closed /\ wire = <<>>
  /\ ~page.on => page = NoPage /\ ~stream.open

\* IDs are given out in ascending order, to events and to heartbeats.
Numbered ==
  /\ Ascending(events) /\ \A k \in DOMAIN events : events[k] <= nextEventID
  /\ \A k \in DOMAIN stream.replay : stream.replay[k] <= nextEventID
  /\ \A k \in DOMAIN stream.queue : stream.queue[k] <= nextEventID
  /\ \A i \in DOMAIN wire : wire[i].id <= nextEventID
  /\ page.seen <= page.last /\ page.last <= nextEventID

\* What waits to be written: the replay first, then the queue.
Unwritten ==
  /\ Ascending(stream.replay) /\ Ascending(stream.queue)
  /\ \A k \in DOMAIN stream.replay :
       /\ page.seen < stream.replay[k]
       /\ \A l \in DOMAIN stream.queue : stream.replay[k] < stream.queue[l]
  /\ \A l \in DOMAIN stream.queue : page.seen < stream.queue[l]

\* What was written.  A heartbeat may be ahead of its time, never behind.
Written ==
  \A i \in DOMAIN wire :
    /\ page.seen < wire[i].id
    /\ \A j \in DOMAIN wire : i < j /\ (wire[j].beat \/ ~wire[i].beat) => wire[i].id < wire[j].id
    /\ ~wire[i].beat =>
         /\ \A k \in DOMAIN stream.replay : wire[i].id < stream.replay[k]
         /\ \A k \in DOMAIN stream.queue : wire[i].id < stream.queue[k]

\* A live view has the snapshot of the last broadcast, or a broadcast that makes
\* it fetch another one is under way -- also if the frame that comes next is
\* the heartbeat after which a reconnection would not be sent that broadcast.
UpToDate == page.shown >= LastEvent

Informed ==
  page.on /\ page.live /\ ~page.overtaken =>
    /\ LastEvent <= page.last => UpToDate
    /\ \A i \in DOMAIN wire :
         wire[i].beat /\ (\A j \in DOMAIN wire : j < i => wire[j].beat)
         /\ LastEvent <= wire[i].id => UpToDate
    /\ stream.open /\ stream.replay = <<>> /\ stream.queue = <<>>
       /\ (\A i \in DOMAIN wire : wire[i].beat) => UpToDate

StreamInv == StreamTypeOK /\ Connected /\ Numbered /\ Unwritten /\ Written /\ Informed

=============================================================================
