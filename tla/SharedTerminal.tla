--------------------------- MODULE SharedTerminal ---------------------------
(***************************************************************************)
(* One terminal of a box and its clients: windows of the editor, which     *)
(* come through the server's RemoteTerminalChannel, and streams of the     *)
(* API.  The terminal runs in the pty host, a process of its own, to which *)
(* calls go and from which answers and events come back, each in order.    *)
(*                                                                         *)
(*   the server    which windows hold the terminal, which receive its      *)
(*                 output (TerminalClientState), and whose start is next   *)
(*                 to get a replay (TerminalStartState);                   *)
(*   the pty host  how far each client is with the output                  *)
(*                 (TerminalClients, TerminalDataFlowControl), and the     *)
(*                 process with its one counter of unacknowledged output.  *)
(*                                                                         *)
(* The host answers a start of a terminal that runs already with a replay, *)
(* addressed to nobody in particular, before or after its answer.  A call  *)
(* is handled as it is made: the server has no way to see the host but by  *)
(* what it hears, and hears it late, so a call on its way and what the     *)
(* server does meanwhile may change places.  Output is counted in events.  *)
(* Whose size the terminal has is left out, nothing else depends on it.    *)
(*                                                                         *)
(* Three things windows may do are left out unless Faults names them:      *)
(*                                                                         *)
(*   "joins_fresh"     attaching to a terminal another window has created  *)
(*                     and not started yet;                                *)
(*   "leaves_early"    being closed while its attach is under way;         *)
(*   "crosses_a_leave" attaching while the last window leaves.             *)
(***************************************************************************)
EXTENDS Integers, Sequences, SequencesExt, FiniteSets

CONSTANTS Arrivals,      \* how many windows of the editor come, one visit each
          Streams,       \* streams of the API
          NoClient,
          High, Low,     \* the watermarks of the unacknowledged output
          MaxOutput,     \* bound on the output
          MaxTroubles,   \* bound on closed windows, stuck clients, time-outs, exits
          Faults

Windows == 1..Arrivals   \* in the order they come
Clients == Windows \cup Streams
AllFaults == {"joins_fresh", "leaves_early", "crosses_a_leave"}

ASSUME NamesAssumption ==
  /\ Windows \cap Streams = {} /\ NoClient \notin Clients
  /\ Faults \subseteq AllFaults
ASSUME BoundsAssumption ==
  /\ Arrivals \in Nat /\ High \in Nat /\ Low \in 1..(High + 1)
  /\ MaxOutput \in Nat /\ MaxTroubles \in Nat

VARIABLES
  window,      \* window[w]: where a window's visit stands
  view,        \* view[w]: the output its screen shows, or -1 for nothing
  stream,      \* stream[s]: where the handler of a stream stands
  unread,      \* unread[c]: events sent to a client it has not acknowledged
  stuck,       \* clients that have stopped reading
  attached,    \* TerminalClientState: windows that hold the terminal
  streaming,   \* those of them whose replay has landed
  fresh,       \* the terminal is in _freshPtys
  starts,      \* TerminalStartState: the queue of starts, the head under way
  run,         \* where the start at the head stands
  heard,       \* what its replay waiter has been told
  expecting,   \* windows whose start expects a replay
  events,      \* on their way from the pty host to the server
  process,     \* "unstarted", "running" or "exited"
  held,        \* the host is not waiting to reap the terminal
  replays,     \* starts whose replay is still being put together
  produced, acknowledged,
  position,    \* position[c]: a registered client's place in the output, or -1
  pending,     \* the process's own count of unacknowledged events
  paused,
  troubles     \* how often something has gone wrong

clients == <<window, view, stream, unread, stuck>>
server == <<attached, streaming, fresh, starts, run, heard, expecting>>
flow == <<produced, acknowledged, position, pending, paused>>
host == <<process, held, replays, flow>>
vars == <<clients, server, events, host, troubles>>

-----------------------------------------------------------------------------
(* The states *)

WindowStates == {"away", "attaching", "left_early", "attached", "starting", "live", "failed",
                 "last_to_leave", "gone"}
StreamStates == {"away", "registered", "open", "closed"}
Events == [what : {"data", "replay", "exit", "attached", "started", "refused"},
           client : Clients \cup {NoClient}, n : 0..MaxOutput]
Event(what, client, n) == [what |-> what, client |-> client, n |-> n]

TypeOK ==
  /\ window \in [Windows -> WindowStates] /\ stream \in [Streams -> StreamStates]
  /\ view \in [Windows -> -1..MaxOutput] /\ unread \in [Clients -> Nat]
  /\ stuck \subseteq Clients
  /\ attached \subseteq Windows /\ streaming \subseteq attached /\ fresh \in BOOLEAN
  /\ starts \in Seq(Windows) /\ IsInjective(starts)
  /\ run \in {"idle", "calling", "waiting"} /\ (run # "idle" => starts # <<>>)
  /\ heard \in {"nothing", "replay", "exit"} /\ expecting \subseteq Windows
  /\ events \in Seq(Events)
  /\ process \in {"unstarted", "running", "exited"} /\ held \in BOOLEAN /\ replays \in Nat
  /\ produced \in 0..MaxOutput /\ acknowledged \in 0..produced
  /\ position \in [Clients -> -1..produced]
  /\ pending \in 0..produced /\ paused \in BOOLEAN
  /\ troubles \in 0..MaxTroubles

(* A terminal the API has created and started, or one a window has just    *)
(* created: it holds it and receives its output from the beginning.        *)
Init ==
  /\ \E creator \in {1, NoClient} :
       LET created == {creator} \cap Windows IN
       /\ window = [w \in Windows |-> IF w = creator THEN "attached" ELSE "away"]
       /\ view = [w \in Windows |-> IF w = creator THEN 0 ELSE -1]
       /\ attached = created /\ streaming = created /\ fresh = (created # {})
       /\ position = [c \in Clients |-> IF c = creator THEN 0 ELSE -1]
       /\ process = IF created = {} THEN "running" ELSE "unstarted"
  /\ stream = [s \in Streams |-> "away"]
  /\ unread = [c \in Clients |-> 0] /\ stuck = {}
  /\ starts = <<>> /\ run = "idle" /\ heard = "nothing" /\ expecting = {}
  /\ events = <<>> /\ held = TRUE /\ replays = 0
  /\ produced = 0 /\ acknowledged = 0 /\ pending = 0 /\ paused = FALSE
  /\ troubles = 0

Disturbs == troubles < MaxTroubles /\ troubles' = troubles + 1

-----------------------------------------------------------------------------
(* The pty host: what it does with a call.  It knows no terminal any more  *)
(* once the process has exited.                                            *)

Answer(what, c) == events' = Append(events, Event(what, c, 0))

(* A bug the runs must catch:
   with nobody registered nothing counts as acknowledged. *)
FurthestOrNobody(places, total) ==
  LET registered == {c \in Clients : places[c] # -1} IN
  IF registered = {} THEN acknowledged
  ELSE CHOOSE n \in {places[c] : c \in registered} : \A c \in registered : places[c] <= n

(* TerminalDataFlowControl: the client furthest ahead drives the counter,  *)
(* and with none registered everything counts as acknowledged.             *)
Furthest(places, total) ==
  LET registered == {c \in Clients : places[c] # -1} IN
  IF registered = {} THEN total
  ELSE CHOOSE n \in {places[c] : c \in registered} : \A c \in registered : places[c] <= n

(* _advance, and what the process does with the acknowledgement. *)
Advance(places, total, count, halted) ==
  LET next == Furthest(places, total)
      delta == IF next > acknowledged THEN next - acknowledged ELSE 0
      left == IF count > delta THEN count - delta ELSE 0
  IN /\ acknowledged' = acknowledged + delta
     /\ pending' = left
     /\ paused' = (halted /\ ~(delta > 0 /\ left < Low))

Register(c) ==
  /\ position' = IF process = "exited" \/ position[c] # -1 THEN position
                 ELSE [position EXCEPT ![c] = produced]
  /\ UNCHANGED <<produced, acknowledged, pending, paused>>

(* Output goes on without the client. *)
Unregister(c) ==
  LET left == [position EXCEPT ![c] = -1] IN
     /\ position' = left
     /\ IF position[c] = -1 THEN UNCHANGED <<acknowledged, pending, paused>>
                            ELSE Advance(left, produced, pending, paused)
     /\ UNCHANGED produced

TakeAck(c, n) ==
  LET place == IF position[c] + n < produced THEN position[c] + n ELSE produced
      moved == [position EXCEPT ![c] = place]
  IN /\ position' = moved
     /\ Advance(moved, produced, pending, paused)
     /\ UNCHANGED produced

(* A start launches the process the first time; later it gets a replay. *)
StartProcess ==
  /\ process' = IF process = "unstarted" THEN "running" ELSE process
  /\ replays' = IF process = "running" THEN replays + 1 ELSE replays

-----------------------------------------------------------------------------
(* Windows, through the channel *)

(* AttachToProcess, up to the answer of the host. *)
Attach(w) ==
  /\ window[w] = "away" /\ \A v \in 1..(w - 1) : window[v] # "away"
  /\ "joins_fresh" \in Faults \/ ~fresh
  /\ "crosses_a_leave" \in Faults \/ \A v \in Windows : window[v] # "last_to_leave"
  /\ window' = [window EXCEPT ![w] = "attaching"]
  /\ held' = TRUE
  /\ Answer(IF process = "exited" THEN "refused" ELSE "attached", w)
  /\ UNCHANGED <<view, stream, unread, stuck, server, process, replays, flow, troubles>>

(* A start is queued behind the starts under way; whether it expects a     *)
(* replay is read now.                                                     *)
Start(w) ==
  /\ window[w] = "attached" /\ w \in attached
  /\ window' = [window EXCEPT ![w] = "starting"]
  /\ starts' = Append(starts, w)
  /\ expecting' = IF fresh THEN expecting \ {w} ELSE expecting \cup {w}
  /\ UNCHANGED <<view, stream, unread, stuck, attached, streaming, fresh, run, heard, events,
                 host, troubles>>

CallStart ==
  /\ run = "idle" /\ starts # <<>>
  /\ run' = "calling" /\ heard' = "nothing"
  /\ StartProcess
  /\ Answer(IF process = "exited" THEN "refused" ELSE "started", Head(starts))
  /\ UNCHANGED <<clients, attached, streaming, fresh, starts, expecting, held, flow,
                 troubles>>

(* The finally of a start: the next one may go. *)
StartEnds(outcome) ==
  /\ starts' = Tail(starts) /\ run' = "idle"
  /\ window' = [window EXCEPT ![Head(starts)] = IF @ = "starting" THEN outcome ELSE @]
  /\ fresh' = (fresh /\ outcome # "live")
  /\ UNCHANGED <<view, stream, unread, stuck, attached, streaming, heard, expecting>>

StartReplayed ==
  /\ run = "waiting" /\ heard = "replay" /\ StartEnds("live")
  /\ UNCHANGED <<events, host, troubles>>

StartExited ==
  /\ run = "waiting" /\ heard = "exit" /\ StartEnds("failed")
  /\ UNCHANGED <<events, host, troubles>>

StartTimesOut ==
  /\ run = "waiting" /\ heard = "nothing" /\ StartEnds("failed") /\ Disturbs
  /\ UNCHANGED <<events, host>>

(* A bug the runs must catch:
   every window that leaves lets go of the terminal. *)
EveryoneIsLast(w) == TRUE
IsLast(w) == attached = {w}

(* What is forgotten of a window that leaves; whether it was the last is   *)
(* decided here.                                                           *)
Forget(w) ==
  /\ w \in attached
  /\ \/ "crosses_a_leave" \in Faults \/ ~IsLast(w)
     \/ \A v \in Windows : window[v] # "attaching"
  /\ attached' = attached \ {w} /\ streaming' = streaming \ {w}
  /\ unread' = [unread EXCEPT ![w] = 0] /\ view' = [view EXCEPT ![w] = -1]
  /\ Unregister(w)
  /\ UNCHANGED <<stream, stuck, fresh, starts, run, heard, expecting, events, process, replays>>

(* DetachFromProcess: the last window to leave awaits the host's answer    *)
(* before it has it let go of the terminal.                                *)
Detach(w) ==
  /\ window[w] \in {"live", "failed"} /\ Forget(w)
  /\ window' = [window EXCEPT ![w] = IF IsLast(w) THEN "last_to_leave" ELSE "gone"]
  /\ UNCHANGED <<held, troubles>>

LastDetaches(w) ==
  /\ window[w] = "last_to_leave"
  /\ window' = [window EXCEPT ![w] = "gone"] /\ held' = FALSE
  /\ UNCHANGED <<view, stream, unread, stuck, server, events, process, replays, flow,
                 troubles>>

(* A window is closed, or its connection is lost for good.  One that is    *)
(* attaching holds nothing yet, so nothing is forgotten.                   *)
Closable == {"attached", "starting", "live", "failed"}
              \cup IF "leaves_early" \in Faults THEN {"attaching"} ELSE {}
Close(w) ==
  /\ window[w] \in Closable /\ Disturbs
  /\ IF window[w] = "attaching"
       THEN /\ window' = [window EXCEPT ![w] = "left_early"]
            /\ UNCHANGED <<view, stream, unread, stuck, server, events, host>>
       ELSE /\ window' = [window EXCEPT ![w] = "gone"]
            /\ held' = (held /\ ~IsLast(w)) /\ Forget(w)

-----------------------------------------------------------------------------
(* Streams of the API *)

OpenStream(s) ==
  /\ stream[s] = "away" /\ process # "exited"
  /\ stream' = [stream EXCEPT ![s] = "registered"] /\ Register(s)
  /\ UNCHANGED <<window, view, unread, stuck, server, events, process, held, replays, troubles>>

(* A stream starts the terminal past the queue of the windows. *)
StartStream(s) ==
  /\ stream[s] = "registered" /\ stream' = [stream EXCEPT ![s] = "open"]
  /\ StartProcess
  /\ UNCHANGED <<window, view, unread, stuck, server, events, held, flow, troubles>>

CloseStream(s) ==
  /\ stream[s] \in {"registered", "open"} /\ Disturbs
  /\ stream' = [stream EXCEPT ![s] = "closed"] /\ Unregister(s)
  /\ unread' = [unread EXCEPT ![s] = 0]
  /\ UNCHANGED <<window, view, stuck, server, events, process, held, replays>>

-----------------------------------------------------------------------------
(* What both do: read and acknowledge *)

Present(c) ==
  IF c \in Windows THEN window[c] \in {"attached", "starting", "live", "failed"}
                   ELSE stream[c] \in {"registered", "open"}

Acknowledge(c) ==
  /\ unread[c] > 0 /\ c \notin stuck
  /\ unread' = [unread EXCEPT ![c] = 0]
  /\ IF position[c] = -1 THEN UNCHANGED flow ELSE TakeAck(c, unread[c])
  /\ UNCHANGED <<window, view, stream, stuck, server, events, process, held, replays,
                 troubles>>

GetsStuck(c) ==
  /\ unread[c] > 0 /\ c \notin stuck
  /\ stuck' = stuck \cup {c} /\ Disturbs
  /\ UNCHANGED <<window, view, stream, unread, server, events, host>>

-----------------------------------------------------------------------------
(* The pty host: what it does by itself *)

(* triggerReplay: the replay goes out, and every count begins anew. *)
Replay ==
  /\ replays > 0 /\ replays' = replays - 1
  /\ events' = Append(events, Event("replay", NoClient, produced))
  /\ acknowledged' = produced /\ pending' = 0 /\ paused' = FALSE
  /\ position' = [c \in Clients |-> IF position[c] = -1 THEN -1 ELSE produced]
  /\ UNCHANGED <<clients, server, process, held, produced, troubles>>

Output ==
  /\ process = "running" /\ ~paused /\ produced < MaxOutput
  /\ produced' = produced + 1 /\ UNCHANGED position
  /\ events' = Append(events, Event("data", NoClient, produced + 1))
  /\ Advance(position, produced + 1, pending + 1, pending + 1 > High)
  /\ UNCHANGED <<clients, server, process, held, replays, troubles>>

Exit ==
  /\ process = "running" /\ Disturbs
  /\ process' = "exited" /\ replays' = 0
  /\ events' = Append(events, Event("exit", NoClient, 0))
  /\ UNCHANGED <<clients, server, held, flow>>

-----------------------------------------------------------------------------
(* The server hears from the host *)

(* Output goes to the windows that stream and to every stream that is open. *)
HearData(n) ==
  /\ view' = [w \in Windows |-> IF w \in streaming THEN n ELSE view[w]]
  /\ unread' = [c \in Clients |->
       IF c \in streaming \/ (c \in Streams /\ Present(c)) THEN unread[c] + 1 ELSE unread[c]]
  /\ UNCHANGED <<window, stream, stuck, server, flow>>

(* A replay is taken to be for the start under way, and its window streams *)
(* from then on.                                                           *)
Target == IF run = "idle" THEN {} ELSE {Head(starts)} \cap attached
HearReplay(n) ==
  /\ streaming' = streaming \cup Target
  /\ view' = [w \in Windows |-> IF w \in Target THEN n ELSE view[w]]
  /\ heard' = IF run # "idle" /\ heard = "nothing" THEN "replay" ELSE heard
  /\ UNCHANGED <<window, stream, unread, stuck, attached, fresh, starts, run, expecting, flow>>

(* A bug the runs must catch: no start is told of the exit. *)
ExitUnheard ==
  /\ attached' = {} /\ streaming' = {} /\ fresh' = FALSE
  /\ window' = [w \in Windows |->
       IF w \in attached /\ window[w] # "starting" THEN "gone" ELSE window[w]]
  /\ stream' = [s \in Streams |-> IF Present(s) THEN "closed" ELSE stream[s]]
  /\ unread' = [c \in Clients |-> 0]
  /\ UNCHANGED <<view, stuck, starts, run, heard, expecting, flow>>

(* The windows drop an exited terminal and the streams close. *)
HearExit ==
  /\ heard' = IF run # "idle" /\ heard = "nothing" THEN "exit" ELSE heard
  /\ attached' = {} /\ streaming' = {} /\ fresh' = FALSE
  /\ window' = [w \in Windows |->
       IF w \in attached /\ window[w] # "starting" THEN "gone" ELSE window[w]]
  /\ stream' = [s \in Streams |-> IF Present(s) THEN "closed" ELSE stream[s]]
  /\ unread' = [c \in Clients |-> 0]
  /\ UNCHANGED <<view, stuck, starts, run, expecting, flow>>

(* A bug the runs must catch:
   output reaches a window as soon as it is attached. *)
AttachedStreams(w) ==
  /\ attached' = attached \cup {w} /\ streaming' = streaming \cup {w} /\ Register(w)
  /\ window' = [window EXCEPT ![w] = IF @ = "attaching" THEN "attached" ELSE "gone"]
  /\ UNCHANGED <<view, stream, unread, stuck, fresh, starts, run, heard, expecting>>

(* An attach goes on: the window, or what is left of it, is a client now. *)
HearAttached(w) ==
  /\ attached' = attached \cup {w} /\ Register(w)
  /\ window' = [window EXCEPT ![w] = IF @ = "attaching" THEN "attached" ELSE "gone"]
  /\ UNCHANGED <<view, stream, unread, stuck, streaming, fresh, starts, run, heard, expecting>>

(* A bug the runs must catch: no start waits for its replay. *)
StartUnawaited(w) == StartEnds("live") /\ UNCHANGED flow

(* A start that expects a replay waits for it. *)
HearStarted(w) ==
  /\ IF w \in expecting THEN run' = "waiting"
       /\ UNCHANGED <<clients, attached, streaming, fresh, starts, heard, expecting>>
     ELSE StartEnds("live")
  /\ UNCHANGED flow

HearRefused(w) ==
  /\ IF run = "calling" /\ Head(starts) = w THEN StartEnds("failed")
     ELSE window' = [window EXCEPT ![w] = "gone"] /\ UNCHANGED <<view, stream, unread, stuck, server>>
  /\ UNCHANGED flow

ServerHears ==
  /\ events # <<>> /\ events' = Tail(events)
  /\ LET e == Head(events) IN
     \/ e.what = "data" /\ HearData(e.n)
     \/ e.what = "replay" /\ HearReplay(e.n)
     \/ e.what = "exit" /\ HearExit
     \/ e.what = "attached" /\ HearAttached(e.client)
     \/ e.what = "started" /\ HearStarted(e.client)
     \/ e.what = "refused" /\ HearRefused(e.client)
  /\ UNCHANGED <<process, held, replays, troubles>>

WindowStep(w) ==
  Attach(w) \/ Start(w) \/ Detach(w) \/ LastDetaches(w) \/ Close(w)
StreamStep(s) == OpenStream(s) \/ StartStream(s) \/ CloseStream(s)
StartStep == CallStart \/ StartReplayed \/ StartExited \/ StartTimesOut
HostStep == Replay \/ Output \/ Exit

Next ==
  \/ \E w \in Windows : WindowStep(w)
  \/ \E s \in Streams : StreamStep(s)
  \/ \E c \in Clients : Acknowledge(c) \/ GetsStuck(c)
  \/ StartStep \/ HostStep \/ ServerHears

Spec == Init /\ [][Next]_vars

(* Messages arrive, the code goes on after its awaits, every client starts *)
(* the terminal it has attached to, a window whose start failed leaves it  *)
(* (the server keeps it registered), and one that is not stuck reads.      *)
Starts == (\E w \in Windows : Start(w)) \/ (\E s \in Streams : StartStream(s))
FairSpec ==
  /\ Spec
  /\ WF_vars(Replay) /\ WF_vars(ServerHears)
  /\ WF_vars(CallStart \/ StartReplayed \/ StartExited) /\ WF_vars(Starts)
  /\ WF_vars(\E w \in Windows : window[w] = "failed" /\ Detach(w))
  /\ \A c \in Clients : WF_vars(Acknowledge(c))

-----------------------------------------------------------------------------
(* What is promised *)

(* A window is shown the output without a gap: what it is sent live goes   *)
(* on where its replay, or the last output it was sent, ended              *)
(* (terminalStartState.ts, terminalClientState.ts).                        *)
NothingIsMissed ==
  [][\A w \in Windows :
       events # <<>> /\ Head(events).what = "data" /\ events' = Tail(events) /\ w \in streaming
         => view'[w] = view[w] + 1]_vars

(* No start that succeeded leaves its window attached to a terminal it has *)
(* never seen and whose output it will not receive (the comment at the     *)
(* head of terminalStartState.ts).                                         *)
StartedWindowsStream ==
  \A w \in Windows : window[w] = "live" /\ w \in attached => w \in streaming

(* The terminal is not left to be reaped while a window holds it           *)
(* (terminal-sharing.diff: only the final detach releases the pty).        *)
HeldWhileAttached == attached # {} => held

(* A start comes to its end, with a replay or without. *)
StartsEnd == \A w \in Windows : window[w] = "starting" ~> window[w] # "starting"

(* Output that is held back flows again, unless every client that is there *)
(* has stopped reading; nobody there holds nothing back                    *)
(* (terminalDataFlowControl.ts).                                           *)
OutputFlows ==
  paused ~> \/ ~paused \/ process = "exited"
            \/ (\E c \in Clients : Present(c)) /\ (\A d \in Clients : Present(d) => d \in stuck)

(* Replays are bound to the window that asked for them: none is sent one   *)
(* when it has had its own, or has seen the output from the beginning.     *)
(* No run checks it: an API stream starts the terminal past the queue, and *)
(* its replay goes to whichever window is starting (terminals.ts:868).     *)
OneReplayPerStart ==
  [][events # <<>> /\ Head(events).what = "replay" /\ events' = Tail(events)
       => Target \cap streaming = {}]_vars
=============================================================================
