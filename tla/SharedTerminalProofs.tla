------------------------- MODULE SharedTerminalProofs ------------------------
(***************************************************************************)
(* Proofs about a shared terminal, for any windows, streams, watermarks    *)
(* and bounds: its type invariant; that a window misses no output, and     *)
(* that one that has started receives it.                                  *)
(***************************************************************************)
EXTENDS SharedTerminal, FiniteSetTheorems, WellFoundedInduction, SequenceTheorems, TLAPS

(* The type invariant in parts: the clients, the server, the host, the flow. *)
ClientsOK ==
  /\ window \in [Windows -> WindowStates] /\ stream \in [Streams -> StreamStates]
  /\ view \in [Windows -> -1..MaxOutput] /\ unread \in [Clients -> Nat]
  /\ stuck \subseteq Clients

ServerOK ==
  /\ attached \subseteq Windows /\ streaming \subseteq attached /\ fresh \in BOOLEAN
  /\ expecting \subseteq Windows /\ heard \in {"nothing", "replay", "exit"}

StartsOK ==
  /\ starts \in Seq(Windows) /\ IsInjective(starts)
  /\ run \in {"idle", "calling", "waiting"} /\ (run # "idle" => starts # <<>>)

HostOK ==
  /\ process \in {"unstarted", "running", "exited"} /\ held \in BOOLEAN /\ replays \in Nat
  /\ troubles \in 0..MaxTroubles

FlowOK ==
  /\ produced \in 0..MaxOutput /\ acknowledged \in 0..produced
  /\ position \in [Clients -> -1..produced]
  /\ pending \in 0..produced /\ paused \in BOOLEAN

(* They are the type invariant ... *)
LEMMA TypeParts ==
  TypeOK <=> ClientsOK /\ ServerOK /\ StartsOK /\ HostOK /\ FlowOK /\ events \in Seq(Events)
BY DEF TypeOK, ClientsOK, ServerOK, StartsOK, HostOK, FlowOK

(* ... in the next state as well. *)
LEMMA TypePartsNext ==
  TypeOK' <=> /\ ClientsOK' /\ ServerOK' /\ StartsOK' /\ HostOK' /\ FlowOK'
              /\ events' \in Seq(Events)
BY DEF TypeOK, ClientsOK, ServerOK, StartsOK, HostOK, FlowOK
-----------------------------------------------------------------------------
(* The flow of the output *)

(* A set of places has one that is furthest: the one with the fewest above it. *)
LEMMA FurthestPlace ==
  ASSUME NEW n \in Nat, NEW S, S \subseteq 0..n, S # {}
  PROVE  \E m \in S : \A k \in S : k <= m
<1> DEFINE Above(x) == {y \in S : y > x}
           T == {Above(x) : x \in S}
           R == StrictSubsetOrdering(S)
<1>1. IsFiniteSet(S)
  <2>1. IsFiniteSet(0..n)
    BY FS_Interval
  <2> QED BY <2>1, FS_Subset
<1>2. FiniteSubsetsOf(S) = SUBSET S
  BY <1>1, FS_FiniteSubsetsOfFinite
<1>3. IsWellFoundedOn(R, SUBSET S)
  BY <1>2, FS_StrictSubsetOrderingWellFounded
<1>4. T \subseteq SUBSET S /\ T # {}
  OBVIOUS
<1>5. \E A \in T : \A B \in T : ~ (<<B, A>> \in R)
  <2> HIDE DEF T, R
  <2> QED BY <1>3, <1>4, WFMin
<1>6. PICK m \in S : \A x \in S : ~ (<<Above(x), Above(m)>> \in R)
  BY <1>5
<1>7. ASSUME NEW k \in S, ~(k <= m) PROVE FALSE
  <2>1. k \in Int /\ m \in Int /\ k > m
    BY <1>7
  <2>2. Above(k) \subseteq Above(m)
    <3> SUFFICES ASSUME NEW y \in S, y > k PROVE y > m
      OBVIOUS
    <3>1. y \in Int
      OBVIOUS
    <3> QED BY <2>1, <3>1
  <2>3. k \in Above(m) /\ k \notin Above(k)
    BY <2>1
  <2>4. Above(k) \in SUBSET S /\ Above(m) \in SUBSET S
    OBVIOUS
  <2>5. <<Above(k), Above(m)>> \in R
    <3> HIDE DEF Above
    <3> QED BY <2>2, <2>3, <2>4 DEF StrictSubsetOrdering
  <2> QED BY <1>6, <2>5
<1> QED BY <1>7

(* How far the client furthest ahead is, which is no further than the output *)
LEMMA FurthestBound ==
  ASSUME NEW total \in Nat, NEW places \in [Clients -> -1..total]
  PROVE  Furthest(places, total) \in 0..total
<1> DEFINE registered == {c \in Clients : places[c] # -1}
           S == {places[c] : c \in registered}
<1>1. CASE registered = {}
  BY <1>1 DEF Furthest
<1>2. CASE registered # {}
  <2>1. S \subseteq 0..total /\ S # {}
    BY <1>2
  <2>2. \E m \in S : \A k \in S : k <= m
    <3> HIDE DEF S
    <3> QED BY <2>1, FurthestPlace
  <2>3. \E m \in S : \A c \in registered : places[c] <= m
    BY <2>2
  <2>4. (CHOOSE m \in S : \A c \in registered : places[c] <= m) \in S
    BY <2>3
  <2>5. Furthest(places, total) = CHOOSE m \in S : \A c \in registered : places[c] <= m
    BY <1>2 DEF Furthest
  <2> QED BY <2>1, <2>4, <2>5
<1> QED BY <1>1, <1>2

(* The counts after an advance *)
LEMMA AdvanceEffect ==
  ASSUME NEW total \in Nat, NEW places \in [Clients -> -1..total], NEW count \in 0..total,
         NEW halted, acknowledged \in 0..total,
         Advance(places, total, count, halted)
  PROVE  acknowledged' \in 0..total /\ pending' \in 0..total /\ paused' \in BOOLEAN
<1> DEFINE next == Furthest(places, total)
           delta == IF next > acknowledged THEN next - acknowledged ELSE 0
           left == IF count > delta THEN count - delta ELSE 0
<1>1. next \in 0..total
  BY FurthestBound
<1> HIDE DEF next
<1>2. delta \in 0..total /\ acknowledged + delta \in 0..total /\ left \in 0..total
  BY <1>1
<1>3. /\ acknowledged' = acknowledged + delta /\ pending' = left
      /\ paused' = (halted /\ ~(delta > 0 /\ left < Low))
  BY DEF Advance, next
<1> HIDE DEF delta, left
<1>4. paused' \in BOOLEAN
  BY <1>3, Zenon
<1> QED BY <1>2, <1>3, <1>4

(* A client comes ... *)
LEMMA RegisterEffect ==
  ASSUME FlowOK, NEW c \in Clients, Register(c)
  PROVE  FlowOK' /\ produced' = produced
<1>1. position' = position \/ position' = [position EXCEPT ![c] = produced]
  BY DEF Register
<1>2. position' \in [Clients -> -1..produced]
  BY <1>1 DEF FlowOK
<1> QED BY <1>2 DEF Register, FlowOK

(* ... and goes ... *)
LEMMA UnregisterEffect ==
  ASSUME FlowOK, NEW c \in Clients, Unregister(c)
  PROVE  FlowOK' /\ produced' = produced
<1> DEFINE left == [position EXCEPT ![c] = -1]
<1>1. /\ position' = left /\ produced' = produced
      /\ UNCHANGED <<acknowledged, pending, paused>> \/ Advance(left, produced, pending, paused)
  BY DEF Unregister
<1>2. left \in [Clients -> -1..produced] /\ produced \in Nat
  BY DEF FlowOK
<1> HIDE DEF left
<1>3. acknowledged' \in 0..produced /\ pending' \in 0..produced /\ paused' \in BOOLEAN
  <2>1. CASE UNCHANGED <<acknowledged, pending, paused>>
    BY <2>1 DEF FlowOK
  <2>2. CASE Advance(left, produced, pending, paused)
    BY <1>2, <2>2, AdvanceEffect DEF FlowOK
  <2> QED BY <1>1, <2>1, <2>2
<1> QED BY <1>1, <1>2, <1>3 DEF FlowOK

(* ... and acknowledges what it has read. *)
LEMMA TakeAckEffect ==
  ASSUME FlowOK, NEW c \in Clients, NEW n \in Nat, position[c] # -1, TakeAck(c, n)
  PROVE  FlowOK' /\ produced' = produced
<1> DEFINE place == IF position[c] + n < produced THEN position[c] + n ELSE produced
           moved == [position EXCEPT ![c] = place]
<1>1. /\ position' = moved /\ produced' = produced
      /\ Advance(moved, produced, pending, paused)
  BY DEF TakeAck
<1>2. produced \in Nat /\ position[c] \in 0..produced
  BY DEF FlowOK
<1>3. place \in 0..produced
  BY <1>2
<1> HIDE DEF place
<1>4. moved \in [Clients -> -1..produced]
  BY <1>3 DEF FlowOK
<1> HIDE DEF moved
<1>5. acknowledged' \in 0..produced /\ pending' \in 0..produced /\ paused' \in BOOLEAN
  BY <1>1, <1>2, <1>4, AdvanceEffect DEF FlowOK
<1> QED BY <1>1, <1>4, <1>5 DEF FlowOK

(* Output begins every count anew or adds one to it. *)
LEMMA OutputEffect ==
  ASSUME FlowOK, Output \/ Replay
  PROVE  FlowOK'
<1>0. MaxOutput \in Nat
  BY BoundsAssumption
<1>1. CASE Output
  <2> DEFINE total == produced + 1
             count == pending + 1
  <2>1. /\ produced < MaxOutput /\ produced' = total /\ position' = position
        /\ Advance(position, total, count, pending + 1 > High)
    BY <1>1 DEF Output
  <2>2. /\ total \in 0..MaxOutput /\ total \in Nat /\ position \in [Clients -> -1..total]
        /\ acknowledged \in 0..total /\ count \in 0..total
    BY <1>0, <2>1 DEF FlowOK
  <2> HIDE DEF total, count
  <2>3. acknowledged' \in 0..total /\ pending' \in 0..total /\ paused' \in BOOLEAN
    BY <2>1, <2>2, AdvanceEffect
  <2> QED BY <2>1, <2>2, <2>3 DEF FlowOK
<1>2. CASE Replay
  <2>1. position \in [Clients -> -1..produced] /\ produced \in 0..MaxOutput
    BY DEF FlowOK
  <2>2. position' = [c \in Clients |-> IF position[c] = -1 THEN -1 ELSE produced]
    BY <1>2 DEF Replay
  <2>3. produced' = produced /\ acknowledged' = produced /\ pending' = 0
    BY <1>2 DEF Replay
  <2>4. paused' \in BOOLEAN
    <3>1. paused' = FALSE
      BY <1>2 DEF Replay
    <3> QED BY <3>1, Zenon
  <2>5. position' \in [Clients -> -1..produced]
    <3>1. -1 \in -1..produced /\ produced \in -1..produced
      BY <1>0, <2>1
    <3>2. \A c \in Clients : (IF position[c] = -1 THEN -1 ELSE produced) \in -1..produced
      BY <3>1, Zenon
    <3> QED BY <2>2, <3>2, Zenon
  <2>6. produced' \in 0..MaxOutput /\ acknowledged' \in 0..produced' /\ pending' \in 0..produced'
    BY <1>0, <2>1, <2>3
  <2> QED BY <2>3, <2>4, <2>5, <2>6 DEF FlowOK
<1> QED BY <1>1, <1>2
-----------------------------------------------------------------------------
(* Calls and their answers *)

Answers == {"attached", "started", "refused"}
Attaching == {"attaching", "left_early"}

(* Who is in the queue has asked for a start, or is gone since. *)
StartersInv ==
  \A k \in 1..Len(starts) : window[starts[k]] \in {"starting", "gone"}

(* Who holds the terminal has been told so. *)
AttachedInv ==
  \A w \in attached : window[w] \in {"attached", "starting", "live", "failed", "gone"}

(* An answer on its way is to the attach of a window or to the start under way,
   and there is but one for each window. *)
AnswersInv ==
  /\ \A i \in 1..Len(events) :
       LET e == events[i] IN
         /\ e.what \in Answers => e.client \in Windows
         /\ e.what = "attached" => window[e.client] \in Attaching
         /\ e.what = "started" => run = "calling" /\ e.client = Head(starts)
         /\ e.what = "refused" =>
              window[e.client] \in Attaching \/ (run = "calling" /\ e.client = Head(starts))
  /\ \A i, j \in 1..Len(events) :
       events[i].what \in Answers /\ events[j].what \in Answers
         /\ events[i].client = events[j].client => i = j

CallsInv == TypeOK /\ StartersInv /\ AttachedInv /\ AnswersInv

(* The server hears an event of one kind. *)
Hears(what) ==
  /\ events # <<>> /\ events' = Tail(events) /\ Head(events).what = what
  /\ UNCHANGED <<process, held, replays, troubles>>

(* What is heard *)
LEMMA HeardEvent ==
  ASSUME events \in Seq(Events), NEW what, Hears(what)
  PROVE  /\ Len(events) \in Nat /\ Len(events) > 0
         /\ Head(events) = events[1] /\ Head(events) \in Events
         /\ events' \in Seq(Events) /\ Len(events') = Len(events) - 1
         /\ \A i \in 1..Len(events') : events'[i] = events[i + 1]
         /\ Head(events).n \in 0..MaxOutput /\ Head(events).client \in Clients \cup {NoClient}
<1>1. events # <<>> /\ events' = Tail(events)
  BY DEF Hears
<1>2. Len(events) \in Nat /\ Len(events) > 0
  BY <1>1, EmptySeq, LenProperties
<1>3. Head(events) = events[1] /\ Head(events) \in Events
  BY <1>1, HeadTailProperties
<1>4. /\ events' \in Seq(Events) /\ Len(events') = Len(events) - 1
      /\ \A i \in 1..Len(events') : events'[i] = events[i + 1]
  BY <1>1, HeadTailProperties
<1>5. Head(events).n \in 0..MaxOutput /\ Head(events).client \in Clients \cup {NoClient}
  BY <1>3 DEF Events
<1> QED BY <1>2, <1>3, <1>4, <1>5

(* Whom an answer is to, and who is at the head of the queue *)
LEMMA HeardAnswer ==
  ASSUME CallsInv, NEW what \in Answers, Hears(what)
  PROVE  /\ Head(events).client \in Windows
         /\ what = "attached" => window[Head(events).client] \in Attaching
         /\ what = "started" => run = "calling" /\ Head(events).client = Head(starts)
         /\ what = "refused" =>
              \/ window[Head(events).client] \in Attaching
              \/ run = "calling" /\ Head(events).client = Head(starts)
         /\ \A i \in 1..Len(events') :
              events'[i].what \in Answers => events'[i].client # Head(events).client
<1>1. events \in Seq(Events)
  BY DEF CallsInv, TypeOK
<1>2. /\ Len(events) \in Nat /\ Len(events) > 0 /\ Head(events) = events[1]
      /\ Len(events') = Len(events) - 1
      /\ \A i \in 1..Len(events') : events'[i] = events[i + 1]
  BY <1>1, HeardEvent
<1>3. events[1].what = what /\ 1 \in 1..Len(events)
  BY <1>2 DEF Hears
<1>4. \A i \in 1..Len(events') : i + 1 \in 1..Len(events) /\ i + 1 # 1
  BY <1>2
<1>5. \A i \in 1..Len(events') :
        events'[i].what \in Answers => events'[i].client # Head(events).client
  BY <1>2, <1>3, <1>4 DEF CallsInv, AnswersInv
<1> QED BY <1>2, <1>3, <1>5 DEF CallsInv, AnswersInv, Answers

(* The queue when a start is added ... *)
LEMMA QueueGrows ==
  ASSUME starts \in Seq(Windows), NEW w \in Windows, starts' = Append(starts, w)
  PROVE  /\ starts' \in Seq(Windows) /\ starts' # <<>>
         /\ Len(starts) \in Nat /\ Len(starts') = Len(starts) + 1
         /\ \A k \in 1..Len(starts) : starts'[k] = starts[k]
         /\ starts'[Len(starts) + 1] = w
         /\ starts # <<>> => Head(starts') = Head(starts)
<1>1. Len(starts) \in Nat
  BY LenProperties
<1>2. starts # <<>> => Head(starts') = Head(starts)
  BY HeadTailAppend
<1> QED BY <1>1, <1>2, AppendProperties

(* ... and when one is over *)
LEMMA QueueShrinks ==
  ASSUME starts \in Seq(Windows), starts # <<>>, starts' = Tail(starts)
  PROVE  /\ starts' \in Seq(Windows) /\ Head(starts) \in Windows
         /\ Head(starts) = starts[1] /\ 1 \in 1..Len(starts)
         /\ Len(starts) \in Nat /\ Len(starts') = Len(starts) - 1
         /\ \A k \in 1..Len(starts') : starts'[k] = starts[k + 1] /\ k + 1 \in 1..Len(starts)
<1>1. Len(starts) \in Nat /\ Len(starts) > 0
  BY EmptySeq, LenProperties
<1>2. /\ starts' \in Seq(Windows) /\ Head(starts) \in Windows
      /\ Len(starts') = Len(starts) - 1
      /\ \A k \in 1..Len(starts') : starts'[k] = starts[k + 1]
  BY HeadTailProperties
<1>3. Head(starts) = starts[1]
  BY HeadTailProperties
<1> QED BY <1>1, <1>2, <1>3
-----------------------------------------------------------------------------
(* Typing *)

(* What a client has not read when it leaves counts no more. *)
LEMMA ReadUp ==
  ASSUME CallsInv, NEW c, unread' = unread \/ unread' = [unread EXCEPT ![c] = 0]
  PROVE  unread' \in [Clients -> Nat]
<1>1. unread \in [Clients -> Nat]
  BY DEF CallsInv, TypeOK
<1>2. CASE unread' = unread
  BY <1>1, <1>2
<1>3. CASE unread' = [unread EXCEPT ![c] = 0]
  BY <1>1, <1>3
<1> QED BY <1>2, <1>3

(* The clients *)
LEMMA ClientsStep ==
  ASSUME CallsInv, [Next]_vars
  PROVE  ClientsOK'
<1>0. ClientsOK /\ events \in Seq(Events) /\ Clients = Windows \cup Streams
  BY DEF CallsInv, TypeOK, ClientsOK, Clients
<1>1. ASSUME NEW w \in Windows, Attach(w) \/ Start(w) \/ LastDetaches(w)
      PROVE  ClientsOK'
  BY <1>0, <1>1 DEF Attach, Start, LastDetaches, ClientsOK, WindowStates
<1>2. ASSUME NEW w \in Windows, Detach(w) \/ Close(w)
      PROVE  ClientsOK'
  <2>1. \/ unread' = [unread EXCEPT ![w] = 0] /\ view' = [view EXCEPT ![w] = -1]
        \/ UNCHANGED <<unread, view>>
    BY <1>2 DEF Detach, Close, Forget
  <2>2. \E st \in {"left_early", "last_to_leave", "gone"} : window' = [window EXCEPT ![w] = st]
    BY <1>2 DEF Detach, Close
  <2>3. UNCHANGED <<stream, stuck>>
    BY <1>2 DEF Detach, Close, Forget
  <2>4. view' \in [Windows -> -1..MaxOutput]
    <3>1. -1 \in -1..MaxOutput
      BY BoundsAssumption
    <3> QED BY <1>0, <2>1, <3>1 DEF ClientsOK
  <2>5. window' \in [Windows -> WindowStates]
    BY <1>0, <2>2 DEF ClientsOK, WindowStates
  <2>6. unread' \in [Clients -> Nat]
    BY <2>1, ReadUp DEF ClientsOK
  <2> QED BY <1>0, <2>3, <2>4, <2>5, <2>6 DEF ClientsOK
<1>3. ASSUME NEW s \in Streams, OpenStream(s) \/ StartStream(s) \/ CloseStream(s)
      PROVE  ClientsOK'
  <2>1. \E st \in StreamStates : stream' = [stream EXCEPT ![s] = st]
    BY <1>3 DEF OpenStream, StartStream, CloseStream, StreamStates
  <2>2. unread' = [unread EXCEPT ![s] = 0] \/ unread' = unread
    BY <1>3 DEF OpenStream, StartStream, CloseStream
  <2>3. UNCHANGED <<window, view, stuck>>
    BY <1>3 DEF OpenStream, StartStream, CloseStream
  <2>4. stream' \in [Streams -> StreamStates]
    BY <1>0, <2>1 DEF ClientsOK
  <2>5. unread' \in [Clients -> Nat]
    BY <2>2, ReadUp DEF ClientsOK
  <2> QED BY <1>0, <2>3, <2>4, <2>5 DEF ClientsOK
<1>4. ASSUME NEW c \in Clients, Acknowledge(c) \/ GetsStuck(c)
      PROVE  ClientsOK'
  BY <1>0, <1>4 DEF Acknowledge, GetsStuck, ClientsOK
<1>5. ASSUME NEW outcome \in {"live", "failed"}, StartEnds(outcome)
      PROVE  ClientsOK'
  <2>1. /\ UNCHANGED <<view, stream, unread, stuck>>
        /\ window' = [window EXCEPT ![Head(starts)] = IF @ = "starting" THEN outcome ELSE @]
    BY <1>5 DEF StartEnds
  <2> QED BY <1>0, <2>1 DEF ClientsOK, WindowStates
<1>6. CASE Hears("data") /\ HearData(Head(events).n)
  <2>1. Head(events).n \in -1..MaxOutput
    BY <1>0, <1>6, HeardEvent
  <2>2. view' \in [Windows -> -1..MaxOutput]
    BY <1>0, <1>6, <2>1 DEF HearData, ClientsOK
  <2>3. unread' \in [Clients -> Nat]
    BY <1>0, <1>6 DEF HearData, ClientsOK
  <2> QED BY <1>0, <1>6, <2>2, <2>3 DEF HearData, ClientsOK
<1>7. CASE Hears("replay") /\ HearReplay(Head(events).n)
  <2>1. Head(events).n \in -1..MaxOutput
    BY <1>0, <1>7, HeardEvent
  <2>2. view' \in [Windows -> -1..MaxOutput]
    BY <1>0, <1>7, <2>1 DEF HearReplay, ClientsOK
  <2> QED BY <1>0, <1>7, <2>2 DEF HearReplay, ClientsOK
<1>8. CASE Hears("exit") /\ HearExit
  <2>1. window' \in [Windows -> WindowStates] /\ stream' \in [Streams -> StreamStates]
    BY <1>0, <1>8 DEF HearExit, ClientsOK, WindowStates, StreamStates
  <2> QED BY <1>0, <1>8, <2>1 DEF HearExit, ClientsOK
<1>9. CASE Hears("attached") /\ HearAttached(Head(events).client)
  BY <1>0, <1>9 DEF HearAttached, ClientsOK, WindowStates
<1>10. CASE Hears("started") /\ HearStarted(Head(events).client)
  BY <1>0, <1>5, <1>10 DEF HearStarted, ClientsOK, clients
<1>11. CASE Hears("refused") /\ HearRefused(Head(events).client)
  BY <1>0, <1>5, <1>11 DEF HearRefused, ClientsOK, WindowStates
<1>12. CASE StartReplayed \/ StartExited \/ StartTimesOut
  BY <1>5, <1>12 DEF StartReplayed, StartExited, StartTimesOut
<1>13. CASE UNCHANGED clients
  BY <1>0, <1>13 DEF clients, ClientsOK
<1>14. CallStart \/ Replay \/ Output \/ Exit \/ UNCHANGED vars => UNCHANGED clients
  BY DEF CallStart, Replay, Output, Exit, vars
<1> QED BY <1>1, <1>2, <1>3, <1>4, <1>6, <1>7, <1>8, <1>9, <1>10, <1>11, <1>12, <1>13, <1>14
        DEF Next, WindowStep, StreamStep, StartStep, HostStep, ServerHears, Hears

(* What the server keeps of them *)
LEMMA ServerStep ==
  ASSUME CallsInv, [Next]_vars
  PROVE  ServerOK'
<1>0. ServerOK /\ events \in Seq(Events)
  BY DEF CallsInv, TypeOK, ServerOK
<1>1. ASSUME NEW w \in Windows, Start(w) PROVE ServerOK'
  BY <1>0, <1>1 DEF Start, ServerOK
<1>2. ASSUME NEW w \in Windows, Forget(w) PROVE ServerOK'
  BY <1>0, <1>2 DEF Forget, ServerOK
<1>3. ASSUME NEW w \in Windows, Detach(w) \/ Close(w) PROVE ServerOK'
  <2>1. Forget(w) \/ UNCHANGED server
    BY <1>3 DEF Detach, Close
  <2> QED BY <1>0, <1>2, <2>1 DEF server, ServerOK
<1>4. ASSUME NEW outcome \in {"live", "failed"}, StartEnds(outcome) PROVE ServerOK'
  <2>1. /\ UNCHANGED <<attached, streaming, heard, expecting>>
        /\ fresh' = (fresh /\ outcome # "live")
    BY <1>4 DEF StartEnds
  <2>2. fresh' \in BOOLEAN
    BY <2>1, Zenon
  <2> QED BY <1>0, <2>1, <2>2 DEF ServerOK
<1>5. CASE CallStart
  BY <1>0, <1>5 DEF CallStart, ServerOK
<1>6. CASE StartReplayed \/ StartExited \/ StartTimesOut
  BY <1>4, <1>6 DEF StartReplayed, StartExited, StartTimesOut
<1>7. CASE HearReplay(Head(events).n)
  <2>1. Target \subseteq attached
    BY DEF Target
  <2> QED BY <1>0, <1>7, <2>1 DEF HearReplay, ServerOK
<1>8. CASE HearExit
  <2>1. fresh' \in BOOLEAN
    <3>1. fresh' = FALSE
      BY <1>8 DEF HearExit
    <3> QED BY <3>1, Zenon
  <2> QED BY <1>0, <1>8, <2>1 DEF HearExit, ServerOK
<1>9. CASE Hears("attached") /\ HearAttached(Head(events).client)
  <2>1. Head(events).client \in Windows
    BY <1>9, HeardAnswer DEF Answers
  <2> QED BY <1>0, <1>9, <2>1 DEF HearAttached, ServerOK
<1>10. CASE HearStarted(Head(events).client)
  BY <1>0, <1>4, <1>10 DEF HearStarted, ServerOK
<1>11. CASE HearRefused(Head(events).client)
  BY <1>0, <1>4, <1>11 DEF HearRefused, ServerOK, server
<1>12. CASE UNCHANGED server
  BY <1>0, <1>12 DEF server, ServerOK
<1>13. ASSUME NEW w \in Windows, Attach(w) \/ LastDetaches(w) PROVE UNCHANGED server
  BY <1>13 DEF Attach, LastDetaches
<1>14. ASSUME NEW s \in Streams, OpenStream(s) \/ StartStream(s) \/ CloseStream(s)
       PROVE  UNCHANGED server
  BY <1>14 DEF OpenStream, StartStream, CloseStream
<1>15. ASSUME NEW c \in Clients, Acknowledge(c) \/ GetsStuck(c) PROVE UNCHANGED server
  BY <1>15 DEF Acknowledge, GetsStuck
<1>16. Replay \/ Output \/ Exit \/ HearData(Head(events).n) \/ UNCHANGED vars => UNCHANGED server
  BY DEF Replay, Output, Exit, HearData, vars
<1> QED BY <1>1, <1>3, <1>5, <1>6, <1>7, <1>8, <1>9, <1>10, <1>11, <1>12, <1>13, <1>14,
           <1>15, <1>16
        DEF Next, WindowStep, StreamStep, StartStep, HostStep, ServerHears, Hears

(* A start that ends is out of the queue. *)
LEMMA EndedStart ==
  ASSUME CallsInv, run # "idle", NEW outcome \in {"live", "failed"}, StartEnds(outcome)
  PROVE  StartsOK' /\ run' = "idle"
<1>1. /\ starts \in Seq(Windows) /\ IsInjective(starts) /\ starts # <<>>
      /\ starts' = Tail(starts) /\ run' = "idle"
  BY DEF CallsInv, TypeOK, StartEnds
<1>2. /\ starts' \in Seq(Windows) /\ Len(starts') = Len(starts) - 1
      /\ \A k \in 1..Len(starts') : starts'[k] = starts[k + 1] /\ k + 1 \in 1..Len(starts)
  BY <1>1, QueueShrinks
<1>3. DOMAIN starts = 1..Len(starts) /\ DOMAIN starts' = 1..Len(starts')
  BY <1>1, <1>2, LenProperties
<1>4. IsInjective(starts')
  <2> SUFFICES ASSUME NEW j \in 1..Len(starts'), NEW k \in 1..Len(starts'),
                      starts'[j] = starts'[k]
               PROVE  j = k
    BY <1>3 DEF IsInjective
  <2>1. j + 1 = k + 1
    BY <1>1, <1>2, <1>3 DEF IsInjective
  <2> QED BY <2>1
<1> QED BY <1>1, <1>2, <1>4 DEF StartsOK

(* The queue of starts *)
LEMMA StartsStep ==
  ASSUME CallsInv, [Next]_vars
  PROVE  StartsOK'
<1>0. StartsOK
  BY DEF CallsInv, TypeOK, StartsOK
<1>1. ASSUME NEW w \in Windows, Start(w) PROVE StartsOK'
  <2>1. starts' = Append(starts, w) /\ window[w] = "attached" /\ run' = run
    BY <1>1 DEF Start
  <2>2. /\ starts' \in Seq(Windows) /\ starts' # <<>>
        /\ Len(starts) \in Nat /\ Len(starts') = Len(starts) + 1
        /\ \A k \in 1..Len(starts) : starts'[k] = starts[k]
        /\ starts'[Len(starts) + 1] = w
    BY <1>0, <2>1, QueueGrows DEF StartsOK
  <2>3. \A k \in 1..Len(starts) : starts[k] # w
    BY <2>1 DEF CallsInv, StartersInv
  <2>4. DOMAIN starts = 1..Len(starts) /\ DOMAIN starts' = 1..Len(starts')
    BY <1>0, <2>2, LenProperties DEF StartsOK
  <2>5. IsInjective(starts')
    <3> SUFFICES ASSUME NEW j \in 1..Len(starts'), NEW k \in 1..Len(starts'),
                        starts'[j] = starts'[k]
                 PROVE  j = k
      BY <2>4 DEF IsInjective
    <3>1. \A i \in 1..Len(starts') : i \in 1..Len(starts) \/ i = Len(starts) + 1
      BY <2>2
    <3> QED BY <1>0, <2>2, <2>3, <2>4, <3>1 DEF StartsOK, IsInjective
  <2> QED BY <1>0, <2>1, <2>2, <2>5 DEF StartsOK
<1>2. CASE CallStart
  BY <1>0, <1>2 DEF CallStart, StartsOK
<1>3. CASE StartReplayed \/ StartExited \/ StartTimesOut
  <2>1. run = "waiting"
    BY <1>3 DEF StartReplayed, StartExited, StartTimesOut
  <2>2. StartEnds("live") \/ StartEnds("failed")
    BY <1>3 DEF StartReplayed, StartExited, StartTimesOut
  <2> QED BY <2>1, <2>2, EndedStart
<1>4. CASE Hears("started") /\ HearStarted(Head(events).client)
  <2>1. run = "calling"
    BY <1>4, HeardAnswer DEF Answers
  <2>2. StartEnds("live") \/ (run' = "waiting" /\ starts' = starts)
    BY <1>4 DEF HearStarted
  <2>3. CASE StartEnds("live")
    BY <2>1, <2>3, EndedStart
  <2>4. CASE run' = "waiting" /\ starts' = starts
    BY <1>0, <2>1, <2>4 DEF StartsOK
  <2> QED BY <2>2, <2>3, <2>4
<1>5. CASE HearRefused(Head(events).client)
  <2>1. (run = "calling" /\ StartEnds("failed")) \/ UNCHANGED <<starts, run>>
    BY <1>5 DEF HearRefused, server
  <2>2. CASE run = "calling" /\ StartEnds("failed")
    BY <2>2, EndedStart
  <2>3. CASE UNCHANGED <<starts, run>>
    BY <1>0, <2>3 DEF StartsOK
  <2> QED BY <2>1, <2>2, <2>3
<1>6. CASE UNCHANGED <<starts, run>>
  BY <1>0, <1>6 DEF StartsOK
<1>7. ASSUME NEW w \in Windows, Attach(w) \/ Detach(w) \/ LastDetaches(w) \/ Close(w)
      PROVE  UNCHANGED <<starts, run>>
  BY <1>7 DEF Attach, Detach, LastDetaches, Close, Forget, server
<1>8. ASSUME NEW s \in Streams, OpenStream(s) \/ StartStream(s) \/ CloseStream(s)
      PROVE  UNCHANGED <<starts, run>>
  BY <1>8 DEF OpenStream, StartStream, CloseStream, server
<1>9. ASSUME NEW c \in Clients, Acknowledge(c) \/ GetsStuck(c)
      PROVE  UNCHANGED <<starts, run>>
  BY <1>9 DEF Acknowledge, GetsStuck, server
<1>10. Replay \/ Output \/ Exit \/ HearData(Head(events).n) \/ HearReplay(Head(events).n)
         \/ HearExit \/ HearAttached(Head(events).client) \/ UNCHANGED vars
         => UNCHANGED <<starts, run>>
  BY DEF Replay, Output, Exit, HearData, HearReplay, HearExit, HearAttached, server, vars
<1> QED BY <1>1, <1>2, <1>3, <1>4, <1>5, <1>6, <1>7, <1>8, <1>9, <1>10
        DEF Next, WindowStep, StreamStep, StartStep, HostStep, ServerHears, Hears

(* The host and what has gone wrong *)
LEMMA HostTypeStep ==
  ASSUME CallsInv, [Next]_vars
  PROVE  HostOK'
<1>0. HostOK
  BY DEF CallsInv, TypeOK, HostOK
<1>1. process' \in {"unstarted", "running", "exited"} /\ replays' \in Nat
  <2>1. \/ UNCHANGED <<process, replays>> \/ StartProcess
        \/ (replays > 0 /\ process' = process /\ replays' = replays - 1)
        \/ (process' = "exited" /\ replays' = 0)
    BY DEF Next, WindowStep, StreamStep, StartStep, HostStep, ServerHears, Attach, Start, Detach,
       LastDetaches, Close, Forget, OpenStream, StartStream, CloseStream, Acknowledge, GetsStuck,
       CallStart, StartReplayed, StartExited, StartTimesOut, Replay, Output, Exit, vars, host
  <2> QED BY <1>0, <2>1 DEF HostOK, StartProcess
<1>2. troubles' \in 0..MaxTroubles
  <2>1. troubles' = troubles \/ (troubles < MaxTroubles /\ troubles' = troubles + 1)
    BY DEF Next, WindowStep, StreamStep, StartStep, HostStep, ServerHears, Attach, Start, Detach,
       LastDetaches, Close, Forget, OpenStream, StartStream, CloseStream, Acknowledge, GetsStuck,
       CallStart, StartReplayed, StartExited, StartTimesOut, Replay, Output, Exit, vars, Disturbs
  <2> QED BY <1>0, <2>1, BoundsAssumption DEF HostOK
<1>3. held' \in BOOLEAN
  <2>1. held' = held \/ held' = TRUE \/ held' = FALSE
          \/ \E w \in Windows : held' = (held /\ ~IsLast(w))
    BY DEF Next, WindowStep, StreamStep, StartStep, HostStep, ServerHears, Attach, Start, Detach,
       LastDetaches, Close, OpenStream, StartStream, CloseStream, Acknowledge, GetsStuck,
       CallStart, StartReplayed, StartExited, StartTimesOut, Replay, Output, Exit, vars, host
  <2>2. held \in BOOLEAN
    BY <1>0 DEF HostOK
  <2> QED BY <2>1, <2>2, Zenon
<1> QED BY <1>1, <1>2, <1>3 DEF HostOK

(* The counts of the output *)
LEMMA FlowStep ==
  ASSUME CallsInv, [Next]_vars
  PROVE  FlowOK'
<1>0. FlowOK /\ Windows \subseteq Clients /\ Streams \subseteq Clients
  BY DEF CallsInv, TypeOK, FlowOK, Clients
<1>1. ASSUME NEW w \in Windows, Detach(w) \/ Close(w) PROVE FlowOK'
  <2>1. Unregister(w) \/ UNCHANGED flow
    BY <1>1 DEF Detach, Close, Forget, host
  <2>2. CASE UNCHANGED flow
    BY <1>0, <2>2 DEF flow, FlowOK
  <2> QED BY <1>0, <2>1, <2>2, UnregisterEffect
<1>2. ASSUME NEW s \in Streams, OpenStream(s) \/ CloseStream(s) PROVE FlowOK'
  <2>1. Register(s) \/ Unregister(s)
    BY <1>2 DEF OpenStream, CloseStream
  <2> QED BY <1>0, <2>1, RegisterEffect, UnregisterEffect
<1>3. ASSUME NEW c \in Clients, Acknowledge(c) PROVE FlowOK'
  <2>1. (position[c] # -1 /\ TakeAck(c, unread[c])) \/ UNCHANGED flow
    BY <1>3 DEF Acknowledge
  <2>2. unread[c] \in Nat
    BY DEF CallsInv, TypeOK
  <2>3. CASE UNCHANGED flow
    BY <1>0, <2>3 DEF flow, FlowOK
  <2> QED BY <1>0, <2>1, <2>2, <2>3, TakeAckEffect
<1>4. CASE Output \/ Replay
  BY <1>0, <1>4, OutputEffect
<1>5. CASE Hears("attached") /\ HearAttached(Head(events).client)
  <2>1. Head(events).client \in Clients /\ Register(Head(events).client)
    BY <1>0, <1>5, HeardAnswer DEF Answers, HearAttached
  <2> QED BY <1>0, <2>1, RegisterEffect
<1>6. CASE UNCHANGED flow
  BY <1>0, <1>6 DEF flow, FlowOK
<1>7. ASSUME NEW w \in Windows, Attach(w) \/ Start(w) \/ LastDetaches(w) PROVE UNCHANGED flow
  BY <1>7 DEF Attach, Start, LastDetaches, host
<1>8. ASSUME NEW s \in Streams, StartStream(s) PROVE UNCHANGED flow
  BY <1>8 DEF StartStream
<1>9. ASSUME NEW c \in Clients, GetsStuck(c) PROVE UNCHANGED flow
  BY <1>9 DEF GetsStuck, host
<1>10. StartStep \/ Exit \/ HearData(Head(events).n) \/ HearReplay(Head(events).n) \/ HearExit
         \/ HearStarted(Head(events).client) \/ HearRefused(Head(events).client) \/ UNCHANGED vars
         => UNCHANGED flow
  BY DEF StartStep, CallStart, StartReplayed, StartExited, StartTimesOut, Exit, HearData,
     HearReplay, HearExit, HearStarted, HearRefused, host, vars
<1> QED BY <1>1, <1>2, <1>3, <1>4, <1>5, <1>6, <1>7, <1>8, <1>9, <1>10
        DEF Next, WindowStep, StreamStep, HostStep, ServerHears, Hears
-----------------------------------------------------------------------------
(* Events *)

(* An event is added, heard, or there are the same as before; an answer is added
   by an attach or a start. *)
LEMMA EventSteps ==
  ASSUME CallsInv, [Next]_vars
  PROVE  \/ UNCHANGED events
         \/ ServerHears /\ Hears(Head(events).what)
         \/ \E w \in Windows, what \in Answers :
              /\ Attach(w) \/ (CallStart /\ w = Head(starts))
              /\ Event(what, w, 0) \in Events /\ events' = Append(events, Event(what, w, 0))
         \/ /\ Replay \/ Output \/ Exit
            /\ \E e \in Events : e.what \notin Answers /\ events' = Append(events, e)
<1>0. MaxOutput \in Nat /\ produced \in 0..MaxOutput /\ Windows \subseteq Clients
  BY BoundsAssumption DEF CallsInv, TypeOK, Clients
<1>1. ASSUME NEW w \in Windows, NEW what \in Answers
      PROVE  Event(what, w, 0) \in Events
  BY <1>0 DEF Event, Events, Answers
<1>2. ASSUME NEW w \in Windows, Attach(w)
      PROVE  \E what \in Answers : events' = Append(events, Event(what, w, 0))
  BY <1>2 DEF Attach, Answer, Answers
<1>3. ASSUME CallStart
      PROVE  /\ Head(starts) \in Windows
             /\ \E what \in Answers : events' = Append(events, Event(what, Head(starts), 0))
  <2>1. Head(starts) \in Windows
    BY <1>3, HeadTailProperties DEF CallStart, CallsInv, TypeOK
  <2> QED BY <1>3, <2>1 DEF CallStart, Answer, Answers
<1>4. ASSUME Replay
      PROVE  \E e \in Events : e.what \notin Answers /\ events' = Append(events, e)
  <2>1. Event("replay", NoClient, produced) \in Events
    BY <1>0 DEF Event, Events
  <2> QED BY <1>4, <2>1 DEF Replay, Event, Answers
<1>5. ASSUME Output
      PROVE  \E e \in Events : e.what \notin Answers /\ events' = Append(events, e)
  <2>1. Event("data", NoClient, produced + 1) \in Events
    BY <1>0, <1>5 DEF Event, Events, Output
  <2> QED BY <1>5, <2>1 DEF Output, Event, Answers
<1>6. ASSUME Exit
      PROVE  \E e \in Events : e.what \notin Answers /\ events' = Append(events, e)
  <2>1. Event("exit", NoClient, 0) \in Events
    BY <1>0 DEF Event, Events
  <2> QED BY <1>6, <2>1 DEF Exit, Event, Answers
<1>7. ASSUME ServerHears PROVE Hears(Head(events).what)
  BY <1>7 DEF ServerHears, Hears
<1>8. \/ UNCHANGED events \/ ServerHears \/ Replay \/ Output \/ Exit \/ CallStart
      \/ \E w \in Windows : Attach(w)
  BY DEF Next, WindowStep, StreamStep, StartStep, HostStep, Start, Detach, LastDetaches, Close,
     Forget, OpenStream, StartStream, CloseStream, Acknowledge, GetsStuck, StartReplayed,
     StartExited, StartTimesOut, vars
<1> QED BY <1>1, <1>2, <1>3, <1>4, <1>5, <1>6, <1>7, <1>8

(* What an added event does to the events on their way *)
LEMMA AddedEvent ==
  ASSUME events \in Seq(Events), NEW e \in Events, events' = Append(events, e)
  PROVE  /\ events' \in Seq(Events)
         /\ Len(events) \in Nat /\ Len(events') = Len(events) + 1
         /\ \A i \in 1..Len(events) : events'[i] = events[i]
         /\ events'[Len(events) + 1] = e
         /\ \A i \in 1..Len(events') : i \in 1..Len(events) \/ i = Len(events) + 1
<1>1. Len(events) \in Nat
  BY LenProperties
<1>2. /\ events' \in Seq(Events) /\ Len(events') = Len(events) + 1
      /\ \A i \in 1..Len(events) : events'[i] = events[i]
      /\ events'[Len(events) + 1] = e
  BY AppendProperties
<1> QED BY <1>1, <1>2

(* Events are events. *)
LEMMA EventsStep ==
  ASSUME CallsInv, [Next]_vars
  PROVE  events' \in Seq(Events)
<1>1. events \in Seq(Events)
  BY DEF CallsInv, TypeOK
<1>2. UNCHANGED events \/ (\E what : Hears(what)) \/ \E e \in Events : events' = Append(events, e)
  BY EventSteps
<1> QED BY <1>1, <1>2, HeardEvent, AddedEvent

(* The type invariant is kept. *)
LEMMA TypeStep ==
  ASSUME CallsInv, [Next]_vars
  PROVE  TypeOK'
BY ClientsStep, ServerStep, StartsStep, HostTypeStep, FlowStep, EventsStep, TypePartsNext
-----------------------------------------------------------------------------
(* Whoever waits for an answer *)

(* In a step other than hearing an answer nobody who attaches or is starting is
   done, and the queue is left alone but for its end. *)
StillWaiting ==
  /\ \A w \in Windows : window[w] \in Attaching => window'[w] \in Attaching
  /\ run = "calling" => run' = "calling" /\ Head(starts') = Head(starts)

(* It is so in every step but the answer's. *)
LEMMA WaitingSteps ==
  ASSUME CallsInv, [Next]_vars, ~Hears("attached"), ~Hears("started"), ~Hears("refused")
  PROVE  StillWaiting
<1>0. window \in [Windows -> WindowStates] /\ starts \in Seq(Windows)
        /\ (run # "idle" => starts # <<>>) /\ attached \subseteq Windows
  BY DEF CallsInv, TypeOK
<1>1. ASSUME NEW w \in Windows, Attach(w) \/ Detach(w) \/ LastDetaches(w) \/ Close(w)
      PROVE  StillWaiting
  <2>1. UNCHANGED <<starts, run>>
    BY <1>1 DEF Attach, Detach, LastDetaches, Close, Forget, server
  <2>2. \E st : window' = [window EXCEPT ![w] = st]
                  /\ (window[w] \in Attaching => st \in Attaching)
    <3>1. CASE Attach(w)
      BY <3>1 DEF Attach, Attaching
    <3>2. CASE Detach(w)
      BY <3>2 DEF Detach, Attaching
    <3>3. CASE LastDetaches(w)
      BY <3>3 DEF LastDetaches, Attaching
    <3>4. CASE Close(w)
      <4>1. window[w] # "left_early"
        BY <3>4 DEF Close, Closable
      <4> QED BY <3>4, <4>1 DEF Close, Attaching
    <3> QED BY <1>1, <3>1, <3>2, <3>3, <3>4
  <2>3. PICK st : /\ window' = [window EXCEPT ![w] = st]
                  /\ window[w] \in Attaching => st \in Attaching
    BY <2>2
  <2>4. \A v \in Windows : window'[v] = IF v = w THEN st ELSE window[v]
    BY <1>0, <2>3
  <2>5. \A v \in Windows : window[v] \in Attaching => window'[v] \in Attaching
    BY <2>3, <2>4
  <2> QED BY <2>1, <2>5 DEF StillWaiting
<1>2. ASSUME NEW w \in Windows, Start(w) PROVE StillWaiting
  <2>1. starts' = Append(starts, w) /\ run' = run
    BY <1>2 DEF Start
  <2>2. run = "calling" => Head(starts') = Head(starts)
    BY <1>0, <2>1, QueueGrows
  <2>3. window' = [window EXCEPT ![w] = "starting"] /\ window[w] = "attached"
    BY <1>2 DEF Start
  <2> QED BY <1>0, <2>1, <2>2, <2>3 DEF StillWaiting, Attaching
<1>3. CASE StartReplayed \/ StartExited \/ StartTimesOut
  <2>1. run = "waiting"
    BY <1>3 DEF StartReplayed, StartExited, StartTimesOut
  <2>2. \E outcome \in {"live", "failed"} : StartEnds(outcome)
    BY <1>3 DEF StartReplayed, StartExited, StartTimesOut
  <2>3. \E outcome \in {"live", "failed"} :
          window' = [window EXCEPT ![Head(starts)] = IF @ = "starting" THEN outcome ELSE @]
    BY <2>2 DEF StartEnds
  <2> QED BY <1>0, <2>1, <2>3 DEF StillWaiting, Attaching
<1>4. CASE CallStart
  <2>1. run = "idle" /\ UNCHANGED window
    BY <1>4 DEF CallStart, clients
  <2> QED BY <2>1 DEF StillWaiting
<1>5. CASE HearExit
  <2>1. UNCHANGED <<starts, run>>
    BY <1>5 DEF HearExit
  <2>2. \A w \in Windows : window'[w] =
          IF w \in attached /\ window[w] # "starting" THEN "gone" ELSE window[w]
    BY <1>5 DEF HearExit
  <2> QED BY <2>1, <2>2 DEF StillWaiting, Attaching, CallsInv, AttachedInv
<1>6. CASE UNCHANGED <<window, starts, run>>
  BY <1>6 DEF StillWaiting
<1>7. ASSUME NEW s \in Streams, OpenStream(s) \/ StartStream(s) \/ CloseStream(s)
      PROVE  UNCHANGED <<window, starts, run>>
  BY <1>7 DEF OpenStream, StartStream, CloseStream, server
<1>8. ASSUME NEW c \in Clients, Acknowledge(c) \/ GetsStuck(c)
      PROVE  UNCHANGED <<window, starts, run>>
  BY <1>8 DEF Acknowledge, GetsStuck, server
<1>9. Replay \/ Output \/ Exit \/ HearData(Head(events).n) \/ HearReplay(Head(events).n)
         \/ UNCHANGED vars => UNCHANGED <<window, starts, run>>
  BY DEF Replay, Output, Exit, HearData, HearReplay, server, clients, vars
<1> QED BY <1>1, <1>2, <1>3, <1>4, <1>5, <1>6, <1>7, <1>8, <1>9
        DEF Next, WindowStep, StreamStep, StartStep, HostStep, ServerHears, Hears

(* Answers that were on their way are still due. *)
LEMMA AnswersKept ==
  ASSUME AnswersInv, NEW d \in {0, 1},
         \A i \in 1..Len(events') :
           LET e == events'[i] IN
             e.what \in Answers =>
               /\ i + d \in 1..Len(events) /\ e = events[i + d]
               /\ window[e.client] \in Attaching => window'[e.client] \in Attaching
               /\ run = "calling" /\ e.client = Head(starts)
                    => run' = "calling" /\ e.client = Head(starts')
  PROVE  AnswersInv'
<1>1. ASSUME NEW i \in 1..Len(events'), events'[i].what \in Answers
      PROVE  /\ events'[i].client \in Windows
             /\ events'[i].what = "attached" => window'[events'[i].client] \in Attaching
             /\ events'[i].what = "started" =>
                  run' = "calling" /\ events'[i].client = Head(starts')
             /\ events'[i].what = "refused" =>
                  \/ window'[events'[i].client] \in Attaching
                  \/ run' = "calling" /\ events'[i].client = Head(starts')
  BY <1>1 DEF AnswersInv
<1>2. ASSUME NEW i \in 1..Len(events'), NEW j \in 1..Len(events'),
             events'[i].what \in Answers, events'[j].what \in Answers,
             events'[i].client = events'[j].client
      PROVE  i = j
  <2>1. i + d = j + d
    BY <1>2 DEF AnswersInv
  <2> QED BY <2>1
<1> QED BY <1>1, <1>2 DEF AnswersInv, Answers

(* What is heard the server hears. *)
LEMMA EventIsHeard ==
  ASSUME CallsInv, [Next]_vars, NEW what, Hears(what)
  PROVE  ServerHears
<1>1. events \in Seq(Events)
  BY DEF CallsInv, TypeOK
<1>2. Len(events) \in Nat /\ Len(events') = Len(events) - 1
  BY <1>1, HeardEvent
<1>3. UNCHANGED events \/ ServerHears \/ \E e \in Events : events' = Append(events, e)
  BY EventSteps
<1>4. ASSUME NEW e \in Events, events' = Append(events, e)
      PROVE  Len(events') = Len(events) + 1
  BY <1>1, <1>4, AddedEvent
<1> QED BY <1>2, <1>3, <1>4

(* The head of the queue is in the queue. *)
LEMMA QueueHead ==
  ASSUME starts \in Seq(Windows), starts # <<>>
  PROVE  Head(starts) \in Windows /\ Head(starts) = starts[1] /\ 1 \in 1..Len(starts)
<1>1. Len(starts) \in Nat /\ Len(starts) > 0
  BY EmptySeq, LenProperties
<1> QED BY <1>1, HeadTailProperties

(* Answers are due when one is added ... *)
LEMMA AnswersAdded ==
  ASSUME CallsInv, StillWaiting, NEW w \in Windows, NEW e \in Events, e.what \in Answers,
         e.client = w, events' = Append(events, e),
         \A i \in 1..Len(events) : events[i].what \in Answers => events[i].client # w,
         e.what = "attached" => window'[w] \in Attaching,
         e.what = "started" => run' = "calling" /\ w = Head(starts'),
         e.what = "refused" =>
           window'[w] \in Attaching \/ (run' = "calling" /\ w = Head(starts'))
  PROVE  AnswersInv'
<1>1. /\ Len(events) \in Nat /\ Len(events') = Len(events) + 1
      /\ \A i \in 1..Len(events) : events'[i] = events[i]
      /\ events'[Len(events) + 1] = e
      /\ \A i \in 1..Len(events') : i \in 1..Len(events) \/ i = Len(events) + 1
  BY AddedEvent DEF CallsInv, TypeOK
<1>2. ASSUME NEW i \in 1..Len(events), events[i].what \in Answers
      PROVE  /\ events[i].client \in Windows
             /\ events[i].what = "attached" => window'[events[i].client] \in Attaching
             /\ events[i].what = "started" =>
                  run' = "calling" /\ events[i].client = Head(starts')
             /\ events[i].what = "refused" =>
                  \/ window'[events[i].client] \in Attaching
                  \/ run' = "calling" /\ events[i].client = Head(starts')
  BY <1>2 DEF CallsInv, AnswersInv, StillWaiting
<1>3. ASSUME NEW i \in 1..Len(events'), NEW j \in 1..Len(events'),
             events'[i].what \in Answers, events'[j].what \in Answers,
             events'[i].client = events'[j].client
      PROVE  i = j
  BY <1>1, <1>3 DEF CallsInv, AnswersInv
<1>4. ASSUME NEW i \in 1..Len(events'), events'[i].what \in Answers
      PROVE  /\ events'[i].client \in Windows
             /\ events'[i].what = "attached" => window'[events'[i].client] \in Attaching
             /\ events'[i].what = "started" =>
                  run' = "calling" /\ events'[i].client = Head(starts')
             /\ events'[i].what = "refused" =>
                  \/ window'[events'[i].client] \in Attaching
                  \/ run' = "calling" /\ events'[i].client = Head(starts')
  <2>1. CASE i \in 1..Len(events)
    BY <1>1, <1>2, <1>4, <2>1
  <2>2. CASE i = Len(events) + 1
    BY <1>1, <2>2
  <2> QED BY <1>1, <2>1, <2>2
<1> QED BY <1>3, <1>4 DEF AnswersInv, Answers

(* ... and after every step. *)
LEMMA AnswersStep ==
  ASSUME CallsInv, [Next]_vars
  PROVE  AnswersInv'
<1>0. /\ window \in [Windows -> WindowStates] /\ starts \in Seq(Windows) /\ AnswersInv
      /\ events \in Seq(Events) /\ (run # "idle" => starts # <<>>)
  BY DEF CallsInv, TypeOK
<1>1. ASSUME NEW what, Hears(what), what \notin Answers PROVE AnswersInv'
  <2>1. /\ Len(events) \in Nat /\ Len(events') = Len(events) - 1
        /\ \A i \in 1..Len(events') : events'[i] = events[i + 1]
    BY <1>0, <1>1, HeardEvent
  <2>2. StillWaiting
    BY <1>1, WaitingSteps DEF Hears, Answers
  <2>3. \A i \in 1..Len(events') : i + 1 \in 1..Len(events)
    BY <2>1
  <2>4. \A i \in 1..Len(events') : events'[i].what \in Answers => events'[i].client \in Windows
    BY <1>0, <2>1, <2>3 DEF AnswersInv
  <2> QED BY <1>0, <2>1, <2>2, <2>3, <2>4, AnswersKept DEF StillWaiting
<1>2. ASSUME NEW what \in Answers, Hears(what) PROVE AnswersInv'
  <2> DEFINE w == Head(events).client
  <2>1. /\ Len(events) \in Nat /\ Len(events') = Len(events) - 1
        /\ \A i \in 1..Len(events') : events'[i] = events[i + 1]
    BY <1>0, <1>2, HeardEvent
  <2>2. /\ w \in Windows
        /\ what = "attached" => window[w] \in Attaching
        /\ what = "started" => run = "calling" /\ w = Head(starts)
        /\ what = "refused" => window[w] \in Attaching \/ (run = "calling" /\ w = Head(starts))
        /\ \A i \in 1..Len(events') : events'[i].what \in Answers => events'[i].client # w
    BY <1>2, HeardAnswer
  <2>3. \A i \in 1..Len(events') : i + 1 \in 1..Len(events)
    BY <2>1
  <2>4. \A i \in 1..Len(events') : events'[i].what \in Answers => events'[i].client \in Windows
    BY <1>0, <2>1, <2>3 DEF AnswersInv
  <2>5. /\ Head(events).what = what
        /\ (what = "attached" /\ HearAttached(w)) \/ (what = "started" /\ HearStarted(w))
             \/ (what = "refused" /\ HearRefused(w))
    <3>1. ServerHears
      BY <1>2, EventIsHeard
    <3> QED BY <1>2, <3>1 DEF ServerHears, Hears, Answers
  <2> HIDE DEF w
  <2>6. /\ \A v \in Windows \ {w} : window[v] \in Attaching => window'[v] \in Attaching
        /\ run = "calling" => (run' = "calling" /\ Head(starts') = Head(starts)) \/ w = Head(starts)
    <3>1. CASE HearAttached(w)
      BY <1>0, <3>1 DEF HearAttached
    <3>2. CASE what = "started" /\ HearStarted(w)
      BY <1>0, <2>2, <3>2 DEF HearStarted, StartEnds, clients
    <3>3. CASE HearRefused(w)
      BY <1>0, <3>3 DEF HearRefused, StartEnds, server
    <3> QED BY <2>5, <3>1, <3>2, <3>3
  <2> QED BY <1>0, <2>1, <2>2, <2>3, <2>4, <2>6, AnswersKept
<1>3. ASSUME NEW e \in Events, e.what \notin Answers, events' = Append(events, e), 
             Replay \/ Output \/ Exit
      PROVE  AnswersInv'
  <2>1. /\ Len(events) \in Nat /\ Len(events') = Len(events) + 1
        /\ \A i \in 1..Len(events) : events'[i] = events[i]
        /\ events'[Len(events) + 1] = e
        /\ \A i \in 1..Len(events') : i \in 1..Len(events) \/ i = Len(events) + 1
    BY <1>0, <1>3, AddedEvent
  <2>2. UNCHANGED <<window, starts, run>>
    BY <1>3 DEF Replay, Output, Exit, clients, server
  <2>3. \A i \in 1..Len(events') : events'[i].what \in Answers =>
          i + 0 \in 1..Len(events) /\ events'[i] = events[i + 0]
    BY <1>3, <2>1
  <2> QED BY <1>0, <2>2, <2>3, AnswersKept
<1>4. ASSUME NEW w \in Windows, NEW what \in Answers, Event(what, w, 0) \in Events,
             events' = Append(events, Event(what, w, 0)),
             Attach(w) \/ (CallStart /\ w = Head(starts))
      PROVE  AnswersInv'
  <2>1. Event(what, w, 0).what = what /\ Event(what, w, 0).client = w
    BY DEF Event
  <2>2. ~Hears("attached") /\ ~Hears("started") /\ ~Hears("refused")
    BY <1>0, <1>4, AddedEvent, HeardEvent
  <2>3. StillWaiting
    BY <2>2, WaitingSteps
  <2>4. \A i \in 1..Len(events) : events[i].what \in Answers => events[i].client # w
    <3>1. CASE Attach(w)
      <4>1. window[w] = "away"
        BY <3>1 DEF Attach
      <4>2. run # "idle" => window[Head(starts)] \in {"starting", "gone"}
        BY <1>0, QueueHead DEF CallsInv, StartersInv
      <4> QED BY <1>0, <4>1, <4>2 DEF AnswersInv, Answers, Attaching
    <3>2. CASE CallStart /\ w = Head(starts)
      <4>1. run = "idle" /\ starts # <<>>
        BY <3>2 DEF CallStart
      <4>2. window[w] \in {"starting", "gone"}
        BY <1>0, <3>2, <4>1, QueueHead DEF CallsInv, StartersInv
      <4> QED BY <1>0, <4>1, <4>2 DEF AnswersInv, Answers, Attaching
    <3> QED BY <1>4, <3>1, <3>2
  <2>5. /\ what = "attached" => window'[w] \in Attaching
        /\ what = "started" => run' = "calling" /\ w = Head(starts')
        /\ what = "refused" => window'[w] \in Attaching \/ (run' = "calling" /\ w = Head(starts'))
    <3>1. CASE Attach(w)
      <4>1. window'[w] \in Attaching
        BY <1>0, <3>1 DEF Attach, Attaching
      <4>2. what # "started"
        <5>1. \E a \in {"refused", "attached"} : events' = Append(events, Event(a, w, 0))
          BY <3>1 DEF Attach, Answer
        <5>2. PICK a \in {"refused", "attached"} : events' = Append(events, Event(a, w, 0))
          BY <5>1
        <5>3. Event(a, w, 0) \in Events
          BY <1>4 DEF Event, Events
        <5>4. Event(a, w, 0) = Event(what, w, 0)
          BY <1>0, <1>4, <5>2, <5>3, AddedEvent
        <5> QED BY <5>4 DEF Event
      <4> QED BY <4>1, <4>2
    <3>2. CASE CallStart /\ w = Head(starts)
      <4>1. run' = "calling" /\ starts' = starts
        BY <3>2 DEF CallStart
      <4>2. what # "attached"
        <5>1. \E a \in {"refused", "started"} : events' = Append(events, Event(a, w, 0))
          BY <3>2 DEF CallStart, Answer
        <5>2. PICK a \in {"refused", "started"} : events' = Append(events, Event(a, w, 0))
          BY <5>1
        <5>3. Event(a, w, 0) \in Events
          BY <1>4 DEF Event, Events
        <5>4. Event(a, w, 0) = Event(what, w, 0)
          BY <1>0, <1>4, <5>2, <5>3, AddedEvent
        <5> QED BY <5>4 DEF Event
      <4> QED BY <3>2, <4>1, <4>2
    <3> QED BY <1>4, <3>1, <3>2
  <2> HIDE DEF Event
  <2> QED BY <1>4, <2>1, <2>3, <2>4, <2>5, AnswersAdded
<1>5. CASE UNCHANGED events
  <2>1. StillWaiting
    <3>1. \A what : ~Hears(what)
      BY <1>0, <1>5, HeardEvent
    <3> QED BY <3>1, WaitingSteps
  <2>2. \A i \in 1..Len(events) : i + 0 = i
    BY <1>0, LenProperties
  <2>3. \A i \in 1..Len(events') : events'[i].what \in Answers =>
          /\ i + 0 \in 1..Len(events) /\ events'[i] = events[i + 0]
          /\ events'[i].client \in Windows
    BY <1>0, <1>5, <2>2 DEF AnswersInv
  <2> QED BY <1>0, <2>1, <2>3, AnswersKept DEF StillWaiting
<1> QED BY <1>1, <1>2, <1>3, <1>4, <1>5, EventSteps
-----------------------------------------------------------------------------
(* Who starts, and who holds the terminal *)

(* How a window's visit goes on when it comes, leaves or is closed *)
LEMMA VisitSteps ==
  ASSUME CallsInv, NEW w \in Windows, Attach(w) \/ Detach(w) \/ LastDetaches(w) \/ Close(w)
  PROVE  /\ UNCHANGED <<starts, run, heard, expecting, fresh>>
         /\ \A v \in Windows \ {w} : window'[v] = window[v]
         /\ window[w] \notin {"attached"} \/ window'[w] = "gone"
         /\ window[w] = "starting" => window'[w] = "gone"
         /\ window[w] # "gone" /\ window'[w] # "live"
         /\ \/ attached' = attached \ {w} /\ streaming' = streaming \ {w} /\ w \in attached
            \/ /\ attached' = attached /\ streaming' = streaming
               /\ window[w] \in {"away", "attaching", "last_to_leave"}
<1>1. window \in [Windows -> WindowStates]
  BY DEF CallsInv, TypeOK
<1>2. CASE Attach(w)
  BY <1>1, <1>2 DEF Attach, server
<1>3. CASE Detach(w)
  BY <1>1, <1>3 DEF Detach, Forget
<1>4. CASE LastDetaches(w)
  BY <1>1, <1>4 DEF LastDetaches, server
<1>5. CASE Close(w)
  <2>1. window[w] \notin {"gone", "away", "last_to_leave"}
    BY <1>5 DEF Close, Closable
  <2> QED BY <1>1, <1>5, <2>1 DEF Close, Forget, server
<1> QED BY <1>2, <1>3, <1>4, <1>5

(* What the end of a start does to the windows *)
LEMMA EndSteps ==
  ASSUME CallsInv, run # "idle", NEW outcome \in {"live", "failed"}, StartEnds(outcome)
  PROVE  /\ Head(starts) \in Windows /\ Head(starts) = starts[1]
         /\ \A v \in Windows \ {Head(starts)} : window'[v] = window[v]
         /\ window'[Head(starts)] =
              IF window[Head(starts)] = "starting" THEN outcome ELSE window[Head(starts)]
         /\ UNCHANGED <<attached, streaming, view>>
         /\ Len(starts) \in Nat /\ Len(starts') = Len(starts) - 1
         /\ \A k \in 1..Len(starts') :
              /\ starts'[k] = starts[k + 1] /\ k + 1 \in 1..Len(starts)
              /\ starts'[k] # Head(starts) /\ starts'[k] \in Windows
<1>1. /\ starts \in Seq(Windows) /\ starts # <<>> /\ starts' = Tail(starts)
      /\ IsInjective(starts) /\ window \in [Windows -> WindowStates]
  BY DEF CallsInv, TypeOK, StartEnds
<1>2. /\ starts' \in Seq(Windows) /\ Head(starts) \in Windows
      /\ Head(starts) = starts[1] /\ 1 \in 1..Len(starts)
      /\ Len(starts) \in Nat /\ Len(starts') = Len(starts) - 1
      /\ \A k \in 1..Len(starts') : starts'[k] = starts[k + 1] /\ k + 1 \in 1..Len(starts)
  BY <1>1, QueueShrinks
<1>3. DOMAIN starts = 1..Len(starts) /\ DOMAIN starts' = 1..Len(starts')
  BY <1>1, <1>2, LenProperties
<1>4. \A k \in 1..Len(starts') : k + 1 # 1
  BY <1>2
<1>5. \A k \in 1..Len(starts') : starts'[k] # Head(starts)
  BY <1>1, <1>2, <1>3, <1>4 DEF IsInjective
<1>6. \A k \in 1..Len(starts') : starts'[k] \in Windows
  BY <1>2, <1>3, ElementOfSeq
<1>7. /\ \A v \in Windows \ {Head(starts)} : window'[v] = window[v]
      /\ window'[Head(starts)] =
           IF window[Head(starts)] = "starting" THEN outcome ELSE window[Head(starts)]
      /\ UNCHANGED <<attached, streaming, view>>
  BY <1>1, <1>2 DEF StartEnds
<1> QED BY <1>2, <1>5, <1>6, <1>7

(* The three ways a start may end, and when *)
LEMMA EndingSteps ==
  ASSUME CallsInv,
         \/ StartReplayed \/ StartExited \/ StartTimesOut
         \/ Hears("started") /\ HearStarted(Head(events).client)
         \/ Hears("refused") /\ HearRefused(Head(events).client)
  PROVE  \/ run # "idle" /\ (StartEnds("live") \/ StartEnds("failed"))
         \/ /\ UNCHANGED clients /\ UNCHANGED <<attached, streaming, fresh, starts, expecting, heard>>
            /\ run = "calling" /\ run' = "waiting" /\ Head(starts) \in expecting
         \/ /\ UNCHANGED <<view, stream, unread, stuck, server>>
            /\ Head(events).client \in Windows
            /\ window' = [window EXCEPT ![Head(events).client] = "gone"]
<1>1. CASE StartReplayed \/ StartExited \/ StartTimesOut
  BY <1>1 DEF StartReplayed, StartExited, StartTimesOut
<1>2. CASE Hears("started") /\ HearStarted(Head(events).client)
  <2>1. run = "calling" /\ Head(events).client = Head(starts)
    BY <1>2, HeardAnswer DEF Answers
  <2> QED BY <1>2, <2>1 DEF HearStarted
<1>3. CASE Hears("refused") /\ HearRefused(Head(events).client)
  <2>1. Head(events).client \in Windows
    BY <1>3, HeardAnswer DEF Answers
  <2> QED BY <1>3, <2>1 DEF HearRefused
<1> QED BY <1>1, <1>2, <1>3

(* What an attach that is answered does *)
LEMMA AttachSteps ==
  ASSUME CallsInv, Hears("attached"), HearAttached(Head(events).client)
  PROVE  LET w == Head(events).client IN
         /\ w \in Windows /\ window[w] \in Attaching
         /\ \A v \in Windows \ {w} : window'[v] = window[v]
         /\ window'[w] = IF window[w] = "attaching" THEN "attached" ELSE "gone"
         /\ attached' = attached \cup {w}
         /\ UNCHANGED <<view, streaming, fresh, starts, run, heard, expecting>>
<1> DEFINE w == Head(events).client
<1>1. w \in Windows /\ window[w] \in Attaching
  BY HeardAnswer DEF Answers
<1>2. window \in [Windows -> WindowStates]
  BY DEF CallsInv, TypeOK
<1> HIDE DEF w
<1>3. HearAttached(w)
  BY DEF w
<1>4. /\ \A v \in Windows \ {w} : window'[v] = window[v]
      /\ window'[w] = IF window[w] = "attaching" THEN "attached" ELSE "gone"
      /\ attached' = attached \cup {w}
      /\ UNCHANGED <<view, streaming, fresh, starts, run, heard, expecting>>
  BY <1>1, <1>2, <1>3 DEF HearAttached
<1> QED BY <1>1, <1>4 DEF w

(* The steps in which no window's visit goes on *)
Onlookers ==
  \/ \E s \in Streams : OpenStream(s) \/ StartStream(s) \/ CloseStream(s)
  \/ \E c \in Clients : Acknowledge(c) \/ GetsStuck(c)
  \/ Replay \/ Output \/ Exit
  \/ Hears("data") /\ HearData(Head(events).n)
  \/ UNCHANGED vars

(* They leave windows, starts and the server alone. *)
LEMMA OnlookersEffect ==
  ASSUME Onlookers
  PROVE  UNCHANGED <<window, server>>
<1>1. ASSUME NEW s \in Streams, OpenStream(s) \/ StartStream(s) \/ CloseStream(s)
      PROVE  UNCHANGED <<window, server>>
  BY <1>1 DEF OpenStream, StartStream, CloseStream
<1>2. ASSUME NEW c \in Clients, Acknowledge(c) \/ GetsStuck(c)
      PROVE  UNCHANGED <<window, server>>
  BY <1>2 DEF Acknowledge, GetsStuck
<1>3. Replay \/ Output \/ Exit \/ HearData(Head(events).n) \/ UNCHANGED vars
        => UNCHANGED <<window, server>>
  BY DEF Replay, Output, Exit, HearData, clients, vars
<1> QED BY <1>1, <1>2, <1>3 DEF Onlookers

(* All the steps there are *)
LEMMA AllSteps ==
  ASSUME [Next]_vars
  PROVE  \/ \E w \in Windows : Attach(w) \/ Detach(w) \/ LastDetaches(w) \/ Close(w)
         \/ \E w \in Windows : Start(w)
         \/ CallStart
         \/ \/ StartReplayed \/ StartExited \/ StartTimesOut
            \/ Hears("started") /\ HearStarted(Head(events).client)
            \/ Hears("refused") /\ HearRefused(Head(events).client)
         \/ Hears("attached") /\ HearAttached(Head(events).client)
         \/ Hears("replay") /\ HearReplay(Head(events).n)
         \/ Hears("exit") /\ HearExit
         \/ Onlookers
BY DEF Next, WindowStep, StreamStep, StartStep, HostStep, ServerHears, Hears, Onlookers

(* The queue is of windows that have asked for a start. *)
LEMMA StartersStep ==
  ASSUME CallsInv, [Next]_vars
  PROVE  StartersInv'
<1>0. /\ starts \in Seq(Windows) /\ StartersInv /\ DOMAIN starts = 1..Len(starts)
      /\ window \in [Windows -> WindowStates] /\ \A k \in 1..Len(starts) : starts[k] \in Windows
  BY LenProperties, ElementOfSeq DEF CallsInv, TypeOK
<1>1. ASSUME NEW w \in Windows, Attach(w) \/ Detach(w) \/ LastDetaches(w) \/ Close(w)
      PROVE  StartersInv'
  BY <1>0, <1>1, VisitSteps DEF StartersInv
<1>2. ASSUME NEW w \in Windows, Start(w) PROVE StartersInv'
  <2>1. starts' = Append(starts, w) /\ window' = [window EXCEPT ![w] = "starting"]
    BY <1>2 DEF Start
  <2>2. /\ Len(starts) \in Nat /\ Len(starts') = Len(starts) + 1
        /\ \A k \in 1..Len(starts) : starts'[k] = starts[k]
        /\ starts'[Len(starts) + 1] = w
    BY <1>0, <2>1, QueueGrows
  <2>3. \A k \in 1..Len(starts') : k \in 1..Len(starts) \/ k = Len(starts) + 1
    BY <2>2
  <2> QED BY <1>0, <2>1, <2>2, <2>3 DEF StartersInv
<1>3. ASSUME run # "idle", NEW outcome \in {"live", "failed"}, StartEnds(outcome)
      PROVE  StartersInv'
  <2>1. /\ \A v \in Windows \ {Head(starts)} : window'[v] = window[v]
        /\ \A k \in 1..Len(starts') :
             /\ starts'[k] = starts[k + 1] /\ k + 1 \in 1..Len(starts)
             /\ starts'[k] # Head(starts) /\ starts'[k] \in Windows
    BY <1>3, EndSteps
  <2>2. ASSUME NEW k \in 1..Len(starts') PROVE window'[starts'[k]] \in {"starting", "gone"}
    <3>1. window'[starts'[k]] = window[starts[k + 1]] /\ k + 1 \in 1..Len(starts)
      BY <2>1, <2>2
    <3> QED BY <1>0, <3>1 DEF StartersInv
  <2> QED BY <2>2 DEF StartersInv
<1>4. CASE \/ StartReplayed \/ StartExited \/ StartTimesOut
           \/ Hears("started") /\ HearStarted(Head(events).client)
           \/ Hears("refused") /\ HearRefused(Head(events).client)
  <2>1. CASE UNCHANGED clients /\ UNCHANGED starts
    BY <1>0, <2>1 DEF clients, StartersInv
  <2>2. CASE /\ UNCHANGED server /\ Head(events).client \in Windows
             /\ window' = [window EXCEPT ![Head(events).client] = "gone"]
    BY <1>0, <2>2 DEF server, StartersInv
  <2> QED BY <1>3, <1>4, <2>1, <2>2, EndingSteps
<1>5. CASE Hears("attached") /\ HearAttached(Head(events).client)
  BY <1>0, <1>5, AttachSteps DEF StartersInv, Attaching
<1>6. CASE HearExit
  <2>1. \A w \in Windows : window'[w] = "gone" \/ window'[w] = window[w]
    BY <1>6 DEF HearExit
  <2> QED BY <1>0, <1>6, <2>1 DEF HearExit, StartersInv
<1>7. CallStart \/ HearReplay(Head(events).n) => UNCHANGED <<window, starts>>
  BY DEF CallStart, HearReplay, clients
<1>8. Onlookers => UNCHANGED <<window, starts>>
  BY OnlookersEffect DEF server
<1>9. CASE UNCHANGED <<window, starts>>
  BY <1>0, <1>9 DEF StartersInv
<1> QED BY <1>1, <1>2, <1>4, <1>5, <1>6, <1>7, <1>8, <1>9, AllSteps

(* Who holds the terminal has been told. *)
LEMMA AttachedStep ==
  ASSUME CallsInv, [Next]_vars
  PROVE  AttachedInv'
<1>0. AttachedInv /\ window \in [Windows -> WindowStates] /\ attached \subseteq Windows
  BY DEF CallsInv, TypeOK
<1>1. ASSUME NEW w \in Windows, Attach(w) \/ Detach(w) \/ LastDetaches(w) \/ Close(w)
      PROVE  AttachedInv'
  BY <1>0, <1>1, VisitSteps DEF AttachedInv
<1>2. ASSUME NEW w \in Windows, Start(w) PROVE AttachedInv'
  BY <1>0, <1>2 DEF Start, AttachedInv
<1>3. ASSUME run # "idle", NEW outcome \in {"live", "failed"}, StartEnds(outcome)
      PROVE  AttachedInv'
  BY <1>0, <1>3, EndSteps DEF AttachedInv
<1>4. CASE \/ StartReplayed \/ StartExited \/ StartTimesOut
           \/ Hears("started") /\ HearStarted(Head(events).client)
           \/ Hears("refused") /\ HearRefused(Head(events).client)
  <2>1. CASE UNCHANGED clients /\ UNCHANGED attached
    BY <1>0, <2>1 DEF clients, AttachedInv
  <2>2. CASE /\ UNCHANGED server /\ Head(events).client \in Windows
             /\ window' = [window EXCEPT ![Head(events).client] = "gone"]
    BY <1>0, <2>2 DEF server, AttachedInv
  <2> QED BY <1>3, <1>4, <2>1, <2>2, EndingSteps
<1>5. CASE Hears("attached") /\ HearAttached(Head(events).client)
  BY <1>0, <1>5, AttachSteps DEF AttachedInv, Attaching
<1>6. CASE HearExit
  BY <1>6 DEF HearExit, AttachedInv
<1>7. CallStart \/ HearReplay(Head(events).n) => UNCHANGED <<window, attached>>
  BY DEF CallStart, HearReplay, clients
<1>8. Onlookers => UNCHANGED <<window, attached>>
  BY OnlookersEffect DEF server
<1>9. CASE UNCHANGED <<window, attached>>
  BY <1>0, <1>9 DEF AttachedInv
<1> QED BY <1>1, <1>2, <1>4, <1>5, <1>6, <1>7, <1>8, <1>9, AllSteps

(* The invariant holds when the system starts ... *)
LEMMA CallsInit == Init => CallsInv
<1> SUFFICES ASSUME Init PROVE CallsInv
  OBVIOUS
<1>0. PICK creator \in {1, NoClient} :
       LET created == {creator} \cap Windows IN
       /\ window = [w \in Windows |-> IF w = creator THEN "attached" ELSE "away"]
       /\ view = [w \in Windows |-> IF w = creator THEN 0 ELSE -1]
       /\ attached = created /\ streaming = created /\ fresh = (created # {})
       /\ position = [c \in Clients |-> IF c = creator THEN 0 ELSE -1]
       /\ process = IF created = {} THEN "running" ELSE "unstarted"
  BY DEF Init
<1>1. MaxOutput \in Nat /\ MaxTroubles \in Nat
  BY BoundsAssumption
<1>2. ClientsOK
  <2>1. view \in [Windows -> -1..MaxOutput]
    BY <1>0, <1>1
  <2>2. window \in [Windows -> WindowStates] /\ stream \in [Streams -> StreamStates]
    BY <1>0 DEF Init, WindowStates, StreamStates
  <2>3. unread \in [Clients -> Nat] /\ stuck \subseteq Clients
    BY DEF Init
  <2> QED BY <2>1, <2>2, <2>3 DEF ClientsOK
<1>3. ServerOK
  <2>1. fresh \in BOOLEAN
    BY <1>0, Zenon
  <2> QED BY <1>0, <2>1 DEF Init, ServerOK
<1>4. StartsOK
  <2>1. starts = <<>> /\ run = "idle"
    BY DEF Init
  <2>2. <<>> \in Seq(Windows) /\ DOMAIN <<>> = {}
    BY EmptySeq
  <2> QED BY <2>1, <2>2 DEF StartsOK, IsInjective
<1>5. HostOK
  <2>1. held \in BOOLEAN
    BY Zenon DEF Init
  <2> QED BY <1>0, <1>1, <2>1 DEF Init, HostOK
<1>6. FlowOK
  <2>1. paused \in BOOLEAN
    BY Zenon DEF Init
  <2>2. produced = 0 /\ acknowledged = 0 /\ pending = 0
    BY DEF Init
  <2>3. position \in [Clients -> -1..0]
    BY <1>0
  <2> QED BY <1>1, <2>1, <2>2, <2>3 DEF FlowOK
<1>7. events \in Seq(Events) /\ Len(events) = 0 /\ Len(starts) = 0
  BY EmptySeq DEF Init
<1>8. StartersInv /\ AnswersInv
  BY <1>7 DEF StartersInv, AnswersInv
<1>9. AttachedInv
  BY <1>0 DEF AttachedInv
<1> QED BY <1>2, <1>3, <1>4, <1>5, <1>6, <1>7, <1>8, <1>9, TypeParts DEF CallsInv

(* ... and always. *)
LEMMA CallsInvHolds == Spec => []CallsInv
<1>1. CallsInv /\ [Next]_vars => CallsInv'
  BY TypeStep, StartersStep, AttachedStep, AnswersStep DEF CallsInv
<1> QED BY <1>1, CallsInit, PTL DEF Spec

(* The type invariant of a shared terminal, whatever windows come and whatever goes
   wrong. *)
THEOREM TerminalTypeCorrect == Spec => []TypeOK
<1>1. CallsInv => TypeOK
  BY DEF CallsInv
<1> QED BY <1>1, CallsInvHolds, PTL
-----------------------------------------------------------------------------
(* Windows that have started receive the output *)

(* Nobody joins a fresh terminal, so whoever holds it receives its output already; a
   start that expects no replay was asked for on a fresh one, and one that has heard
   of a replay heard of its own. *)
StreamInv ==
  /\ fresh => attached \subseteq streaming /\ \A w \in Windows : window[w] \notin Attaching
  /\ \A w \in attached : window[w] = "starting" /\ w \notin expecting => w \in streaming
  /\ run # "idle" /\ heard = "replay" /\ Head(starts) \in attached => Head(starts) \in streaming
  /\ StartedWindowsStream

(* A step that begins no start and lets nobody attach or start keeps it so, *)
LEMMA StreamKept ==
  ASSUME CallsInv, StreamInv, UNCHANGED <<fresh, starts, heard, expecting>>,
         run' = run \/ run = "calling",
         attached' \subseteq attached, attached' \cap streaming \subseteq streaming',
         \A w \in Windows : window'[w] # window[w]
           => window'[w] \notin {"attaching", "left_early", "starting", "live"}
  PROVE  StreamInv'
<1>0. attached \subseteq Windows
  BY DEF CallsInv, TypeOK
<1>1. fresh' => attached' \subseteq streaming' /\ \A w \in Windows : window'[w] \notin Attaching
  <2>1. fresh' => attached' \subseteq streaming'
    BY DEF StreamInv
  <2>2. fresh' => \A w \in Windows : window'[w] \notin Attaching
    BY DEF StreamInv, Attaching
  <2> QED BY <2>1, <2>2
<1>2. \A w \in attached' : window'[w] = "starting" /\ w \notin expecting' => w \in streaming'
  BY <1>0 DEF StreamInv
<1>3. run' # "idle" /\ heard' = "replay" /\ Head(starts') \in attached'
        => Head(starts') \in streaming'
  BY DEF StreamInv
<1>4. StartedWindowsStream'
  BY <1>0 DEF StreamInv, StartedWindowsStream
<1> QED BY <1>1, <1>2, <1>3, <1>4 DEF StreamInv

(* and so does a start that ends with the replay it expected, or expected none. *)
LEMMA StreamEnds ==
  ASSUME CallsInv, StreamInv, run # "idle", NEW outcome \in {"live", "failed"},
         StartEnds(outcome),
         outcome = "live" => heard = "replay" \/ Head(starts) \notin expecting
  PROVE  StreamInv'
<1>0. attached \subseteq Windows
  BY DEF CallsInv, TypeOK
<1>1. /\ Head(starts) \in Windows
      /\ \A v \in Windows \ {Head(starts)} : window'[v] = window[v]
      /\ window'[Head(starts)] =
           IF window[Head(starts)] = "starting" THEN outcome ELSE window[Head(starts)]
      /\ UNCHANGED <<attached, streaming>>
  BY EndSteps
<1>2. run' = "idle" /\ (fresh' => fresh) /\ expecting' = expecting
  BY DEF StartEnds
<1>3. \A v \in Windows : window'[v] # window[v] =>
        v = Head(starts) /\ window[v] = "starting" /\ window'[v] = outcome
  BY <1>1
<1>4. fresh' => attached' \subseteq streaming' /\ \A w \in Windows : window'[w] \notin Attaching
  BY <1>1, <1>2, <1>3 DEF StreamInv, Attaching
<1>5. \A w \in attached' : window'[w] = "starting" /\ w \notin expecting' => w \in streaming'
  BY <1>0, <1>1, <1>2, <1>3 DEF StreamInv
<1>6. ASSUME NEW w \in Windows, window'[w] = "live", w \in attached' PROVE w \in streaming'
  <2>1. CASE window[w] = "live"
    BY <1>1, <1>6, <2>1 DEF StreamInv, StartedWindowsStream
  <2>2. CASE window[w] # "live"
    <3>1. w = Head(starts) /\ window[w] = "starting" /\ outcome = "live"
      BY <1>3, <1>6, <2>2
    <3> QED BY <1>1, <1>6, <3>1 DEF StreamInv
  <2> QED BY <2>1, <2>2
<1>7. StartedWindowsStream'
  BY <1>6 DEF StartedWindowsStream
<1> QED BY <1>2, <1>4, <1>5, <1>7 DEF StreamInv

(* It is kept unless a window joins a fresh terminal. *)
LEMMA StreamInvStep ==
  ASSUME "joins_fresh" \notin Faults, CallsInv, StreamInv, [Next]_vars
  PROVE  StreamInv'
<1>0. /\ window \in [Windows -> WindowStates] /\ attached \subseteq Windows
      /\ streaming \subseteq attached /\ starts \in Seq(Windows)
      /\ (run # "idle" => starts # <<>>) /\ expecting \subseteq Windows
  BY DEF CallsInv, TypeOK
<1>1. ASSUME NEW w \in Windows, Attach(w) PROVE StreamInv'
  <2>1. ~fresh
    BY <1>1 DEF Attach
  <2>2. /\ window' = [window EXCEPT ![w] = "attaching"] /\ UNCHANGED server
    BY <1>1 DEF Attach
  <2>3. \A v \in Windows : window'[v] = window[v] \/ window'[v] = "attaching"
    BY <1>0, <2>2
  <2> QED BY <1>0, <2>1, <2>2, <2>3 DEF StreamInv, StartedWindowsStream, server
<1>2. ASSUME NEW w \in Windows, Detach(w) \/ LastDetaches(w) \/ Close(w) PROVE StreamInv'
  <2>1. \/ ~fresh
        \/ window'[w] \notin Attaching
    <3>1. fresh => window[w] # "attaching"
      BY DEF StreamInv, Attaching
    <3> QED BY <1>0, <1>2, <3>1 DEF Detach, LastDetaches, Close, Attaching
  <2>2. /\ UNCHANGED <<starts, run, heard, expecting, fresh>>
        /\ \A v \in Windows \ {w} : window'[v] = window[v]
        /\ \/ attached' = attached \ {w} /\ streaming' = streaming \ {w}
           \/ attached' = attached /\ streaming' = streaming
    BY <1>2, VisitSteps
  <2>3. window'[w] \in {"left_early", "last_to_leave", "gone"}
    BY <1>0, <1>2 DEF Detach, LastDetaches, Close
  <2>4. fresh' => attached' \subseteq streaming' /\ \A v \in Windows : window'[v] \notin Attaching
    <3>1. fresh' => attached' \subseteq streaming'
      BY <2>2 DEF StreamInv
    <3>2. fresh' => \A v \in Windows : window'[v] \notin Attaching
      BY <2>1, <2>2 DEF StreamInv
    <3> QED BY <3>1, <3>2
  <2>5. \A v \in attached' : window'[v] = "starting" /\ v \notin expecting' => v \in streaming'
    BY <1>0, <2>2, <2>3 DEF StreamInv
  <2>6. run' # "idle" /\ heard' = "replay" /\ Head(starts') \in attached'
          => Head(starts') \in streaming'
    BY <2>2 DEF StreamInv
  <2>7. StartedWindowsStream'
    BY <1>0, <2>2, <2>3 DEF StreamInv, StartedWindowsStream
  <2> QED BY <2>4, <2>5, <2>6, <2>7 DEF StreamInv
<1>3. ASSUME NEW w \in Windows, Start(w) PROVE StreamInv'
  <2>1. /\ w \in attached /\ starts' = Append(starts, w)
        /\ expecting' = (IF fresh THEN expecting \ {w} ELSE expecting \cup {w})
        /\ UNCHANGED <<attached, streaming, fresh, run, heard>>
        /\ window' = [window EXCEPT ![w] = "starting"]
    BY <1>3 DEF Start
  <2>2. \A v \in Windows : window'[v] = IF v = w THEN "starting" ELSE window[v]
    BY <1>0, <2>1
  <2>3. fresh' => attached' \subseteq streaming' /\ \A v \in Windows : window'[v] \notin Attaching
    BY <2>1, <2>2 DEF StreamInv, Attaching
  <2>4. \A v \in attached' : window'[v] = "starting" /\ v \notin expecting' => v \in streaming'
    BY <1>0, <2>1, <2>2 DEF StreamInv
  <2>5. run # "idle" => Head(starts') = Head(starts)
    BY <1>0, <2>1, QueueGrows
  <2>6. run' # "idle" /\ heard' = "replay" /\ Head(starts') \in attached'
          => Head(starts') \in streaming'
    BY <2>1, <2>5 DEF StreamInv
  <2>7. StartedWindowsStream'
    BY <2>1, <2>2 DEF StreamInv, StartedWindowsStream
  <2> QED BY <2>3, <2>4, <2>6, <2>7 DEF StreamInv
<1>4. CASE CallStart
  <2>1. heard' = "nothing" /\ UNCHANGED <<window, attached, streaming, fresh, expecting>>
    BY <1>4 DEF CallStart, clients
  <2> QED BY <2>1 DEF StreamInv, StartedWindowsStream
<1>5. CASE StartReplayed \/ StartExited \/ StartTimesOut
  <2>1. CASE StartReplayed
    BY <2>1, StreamEnds DEF StartReplayed
  <2>2. CASE StartExited
    BY <2>2, StreamEnds DEF StartExited
  <2>3. CASE StartTimesOut
    BY <2>3, StreamEnds DEF StartTimesOut
  <2> QED BY <1>5, <2>1, <2>2, <2>3
<1>6. CASE Hears("started") /\ HearStarted(Head(events).client)
  <2>1. run = "calling" /\ Head(events).client = Head(starts)
    BY <1>6, HeardAnswer DEF Answers
  <2>2. CASE Head(starts) \in expecting
    <3>1. UNCHANGED clients /\ UNCHANGED <<attached, streaming, fresh, starts, heard, expecting>>
      BY <1>6, <2>1, <2>2 DEF HearStarted
    <3> QED BY <2>1, <3>1, StreamKept DEF clients
  <2>3. CASE Head(starts) \notin expecting
    BY <1>6, <2>1, <2>3, StreamEnds DEF HearStarted
  <2> QED BY <2>2, <2>3
<1>7. CASE Hears("refused") /\ HearRefused(Head(events).client)
  <2>1. Head(events).client \in Windows
    BY <1>7, HeardAnswer DEF Answers
  <2>2. CASE run = "calling" /\ StartEnds("failed")
    BY <2>2, StreamEnds
  <2>3. CASE UNCHANGED server /\ window' = [window EXCEPT ![Head(events).client] = "gone"]
    BY <1>0, <2>1, <2>3, StreamKept DEF server
  <2> QED BY <1>7, <2>2, <2>3 DEF HearRefused
<1>8. CASE Hears("attached") /\ HearAttached(Head(events).client)
  <2> DEFINE w == Head(events).client
  <2>1. /\ w \in Windows /\ window[w] \in Attaching
        /\ \A v \in Windows \ {w} : window'[v] = window[v]
        /\ window'[w] = IF window[w] = "attaching" THEN "attached" ELSE "gone"
        /\ attached' = attached \cup {w}
        /\ UNCHANGED <<view, streaming, fresh, starts, run, heard, expecting>>
    BY <1>8, AttachSteps
  <2> HIDE DEF w
  <2>2. ~fresh
    BY <2>1 DEF StreamInv
  <2>3. \A v \in attached' : window'[v] = "starting" /\ v \notin expecting' => v \in streaming'
    BY <1>0, <2>1 DEF StreamInv
  <2>4. run # "idle" => Head(starts) # w
    BY <1>0, <2>1, QueueHead DEF CallsInv, StartersInv, Attaching
  <2>5. run' # "idle" /\ heard' = "replay" /\ Head(starts') \in attached'
          => Head(starts') \in streaming'
    BY <2>1, <2>4 DEF StreamInv
  <2>6. StartedWindowsStream'
    BY <1>0, <2>1 DEF StreamInv, StartedWindowsStream
  <2> QED BY <2>1, <2>2, <2>3, <2>5, <2>6 DEF StreamInv
<1>9. CASE Hears("replay") /\ HearReplay(Head(events).n)
  <2>1. /\ streaming' = streaming \cup Target
        /\ heard' = (IF run # "idle" /\ heard = "nothing" THEN "replay" ELSE heard)
        /\ UNCHANGED <<window, attached, fresh, starts, run, expecting>>
    BY <1>9 DEF HearReplay
  <2>2. run # "idle" /\ Head(starts) \in attached => Head(starts) \in streaming'
    BY <2>1 DEF Target
  <2> QED BY <2>1, <2>2 DEF StreamInv, StartedWindowsStream
<1>10. CASE HearExit
  <2>1. ~fresh' /\ attached' = {}
    BY <1>10 DEF HearExit
  <2> QED BY <2>1 DEF StreamInv, StartedWindowsStream
<1>11. CASE Onlookers
  BY <1>11, OnlookersEffect, StreamKept DEF server
<1> QED BY <1>1, <1>2, <1>3, <1>4, <1>5, <1>6, <1>7, <1>8, <1>9, <1>10, <1>11, AllSteps

(* No start that succeeded leaves its window attached to a terminal whose output it
   will not receive, provided no window attaches to a terminal another has created
   and not started yet: a start that expects no replay is of a window that receives
   the output from the beginning. *)
THEOREM StartedWindowsStreamCorrect ==
  ASSUME "joins_fresh" \notin Faults
  PROVE  Spec => []StartedWindowsStream
<1>1. Init => StreamInv
  <2> SUFFICES ASSUME Init PROVE StreamInv
    OBVIOUS
  <2>1. /\ attached = streaming /\ run = "idle"
        /\ \A w \in Windows : window[w] \in {"attached", "away"}
    BY DEF Init
  <2>2. attached \subseteq Windows
    BY DEF Init
  <2> QED BY <2>1, <2>2 DEF StreamInv, StartedWindowsStream, Attaching
<1>2. StreamInv /\ CallsInv /\ [Next]_vars => StreamInv'
  BY StreamInvStep
<1>3. StreamInv => StartedWindowsStream
  BY DEF StreamInv
<1> QED BY <1>1, <1>2, <1>3, CallsInvHolds, PTL DEF Spec
-----------------------------------------------------------------------------
(* No output is missed *)

(* After event k comes the output that follows v: the next one on its way is the one
   after v, or there is none on its way and v is all the output there is. *)
Follows(s, total, v, k) ==
  \/ \E j \in (k + 1)..Len(s) :
       /\ s[j].what = "data" /\ s[j].n = v + 1
       /\ \A i \in (k + 1)..(j - 1) : s[i].what # "data"
  \/ v = total /\ \A i \in (k + 1)..Len(s) : s[i].what # "data"

(* What each output and each replay on its way shows is followed by what comes after
   it, and so is what each window that receives the output shows. *)
SeenInv ==
  /\ \A k \in 1..Len(events) :
       events[k].what \in {"data", "replay"} => Follows(events, produced, events[k].n, k)
  /\ \A w \in streaming : Follows(events, produced, view[w], 0)

(* What follows is the same once another event has been heard ... *)
LEMMA FollowsTail ==
  ASSUME events \in Seq(Events), NEW what, Hears(what),
         NEW total, NEW v, NEW k \in Nat, Follows(events, total, v, k + 1)
  PROVE  Follows(events', total, v, k)
<1>0. /\ Len(events) \in Nat /\ Len(events') = Len(events) - 1
      /\ \A i \in 1..Len(events') : events'[i] = events[i + 1]
  BY HeardEvent
<1>1. CASE \E j \in (k + 2)..Len(events) :
             /\ events[j].what = "data" /\ events[j].n = v + 1
             /\ \A i \in (k + 2)..(j - 1) : events[i].what # "data"
  <2>1. PICK j \in (k + 2)..Len(events) :
             /\ events[j].what = "data" /\ events[j].n = v + 1
             /\ \A i \in (k + 2)..(j - 1) : events[i].what # "data"
    BY <1>1
  <2> DEFINE h == j - 1
  <2>2. h \in (k + 1)..Len(events') /\ h \in 1..Len(events') /\ h + 1 = j
    BY <1>0
  <2>3. ASSUME NEW i \in (k + 1)..(h - 1) PROVE events'[i].what # "data"
    <3>1. i \in 1..Len(events') /\ i + 1 \in (k + 2)..(j - 1)
      BY <1>0, <2>2
    <3> QED BY <1>0, <2>1, <3>1
  <2>4. events'[h].what = "data" /\ events'[h].n = v + 1
    BY <1>0, <2>1, <2>2
  <2> HIDE DEF h
  <2> QED BY <2>2, <2>3, <2>4 DEF Follows
<1>2. CASE v = total /\ \A i \in (k + 2)..Len(events) : events[i].what # "data"
  <2>1. ASSUME NEW i \in (k + 1)..Len(events') PROVE events'[i].what # "data"
    <3>1. i \in 1..Len(events') /\ i + 1 \in (k + 2)..Len(events)
      BY <1>0
    <3> QED BY <1>0, <1>2, <3>1
  <2> QED BY <1>2, <2>1 DEF Follows
<1>3. (k + 1) + 1 = k + 2
  OBVIOUS
<1> QED BY <1>1, <1>2, <1>3 DEF Follows

(* ... which, unless it was output, changes nothing; if it was, it is what followed. *)
LEMMA FollowsHead ==
  ASSUME events \in Seq(Events), NEW what, Hears(what),
         NEW total, NEW v, Follows(events, total, v, 0)
  PROVE  /\ what # "data" => Follows(events', total, v, 0)
         /\ what = "data" => Head(events).n = v + 1
<1>0. /\ Len(events) \in Nat /\ Len(events) > 0
      /\ Head(events) = events[1] /\ events[1].what = what
  BY HeardEvent DEF Hears
<1>1. 0 \in Nat /\ 0 + 1 = 1 /\ 1 + 1 = 2
  OBVIOUS
<1>2. CASE \E j \in 1..Len(events) :
             /\ events[j].what = "data" /\ events[j].n = v + 1
             /\ \A i \in 1..(j - 1) : events[i].what # "data"
  <2>1. PICK j \in 1..Len(events) :
             /\ events[j].what = "data" /\ events[j].n = v + 1
             /\ \A i \in 1..(j - 1) : events[i].what # "data"
    BY <1>2
  <2>2. CASE j = 1
    BY <1>0, <2>1, <2>2
  <2>3. CASE j # 1
    <3>1. 1 \in 1..(j - 1) /\ j \in 2..Len(events)
      BY <1>0, <2>3
    <3>2. \A i \in 2..(j - 1) : i \in 1..(j - 1)
      BY <3>1
    <3>3. Follows(events, total, v, 1)
      BY <1>1, <2>1, <3>1, <3>2 DEF Follows
    <3>4. what # "data"
      BY <1>0, <2>1, <3>1
    <3> QED BY <1>1, <3>3, <3>4, FollowsTail
  <2> QED BY <2>2, <2>3
<1>3. CASE v = total /\ \A i \in 1..Len(events) : events[i].what # "data"
  <2>1. what # "data"
    BY <1>0, <1>3
  <2>2. \A i \in 2..Len(events) : i \in 1..Len(events)
    BY <1>0
  <2>3. Follows(events, total, v, 1)
    BY <1>1, <1>3, <2>2 DEF Follows
  <2> QED BY <1>1, <2>1, <2>3, FollowsTail
<1> QED BY <1>1, <1>2, <1>3 DEF Follows

(* What follows is the same with another event on its way, and if that is the next
   output it follows what was last. *)
LEMMA FollowsAdded ==
  ASSUME events \in Seq(Events), NEW e \in Events, events' = Append(events, e),
         NEW total, NEW more, NEW v, NEW k \in 0..Len(events),
         IF e.what = "data" THEN more = total + 1 /\ e.n = more ELSE more = total,
         Follows(events, total, v, k)
  PROVE  Follows(events', more, v, k)
<1>0. /\ Len(events) \in Nat /\ Len(events') = Len(events) + 1 /\ k \in Nat
      /\ \A i \in 1..Len(events) : events'[i] = events[i]
      /\ events'[Len(events) + 1] = e
  BY AddedEvent
<1>1. \A i \in (k + 1)..Len(events) : i \in 1..Len(events) /\ events'[i] = events[i]
  BY <1>0
<1>2. CASE \E j \in (k + 1)..Len(events) :
             /\ events[j].what = "data" /\ events[j].n = v + 1
             /\ \A i \in (k + 1)..(j - 1) : events[i].what # "data"
  <2>1. PICK j \in (k + 1)..Len(events) :
             /\ events[j].what = "data" /\ events[j].n = v + 1
             /\ \A i \in (k + 1)..(j - 1) : events[i].what # "data"
    BY <1>2
  <2>2. \A i \in (k + 1)..(j - 1) : i \in (k + 1)..Len(events)
    BY <1>0
  <2>3. j \in (k + 1)..Len(events')
    BY <1>0
  <2>4. \A i \in (k + 1)..(j - 1) : events'[i].what # "data"
    BY <1>1, <2>1, <2>2
  <2> QED BY <1>1, <2>1, <2>3, <2>4 DEF Follows
<1>3. CASE v = total /\ \A i \in (k + 1)..Len(events) : events[i].what # "data"
  <2> DEFINE h == Len(events) + 1
  <2>1. /\ h \in (k + 1)..Len(events') /\ h - 1 = Len(events)
        /\ \A i \in (k + 1)..Len(events') : i \in (k + 1)..Len(events) \/ i = h
    BY <1>0
  <2>2. \A i \in (k + 1)..Len(events) : events'[i].what # "data"
    BY <1>1, <1>3
  <2>3. events'[h] = e
    BY <1>0
  <2> HIDE DEF h
  <2>4. CASE e.what = "data"
    <3>1. events'[h].n = v + 1
      BY <1>3, <2>3, <2>4
    <3>2. \A i \in (k + 1)..(h - 1) : events'[i].what # "data"
      BY <2>1, <2>2
    <3> QED BY <2>1, <2>3, <2>4, <3>1, <3>2 DEF Follows
  <2>5. CASE e.what # "data"
    <3>1. \A i \in (k + 1)..Len(events') : events'[i].what # "data"
      BY <2>1, <2>2, <2>3, <2>5
    <3>2. v = more
      BY <1>3, <2>5
    <3> QED BY <3>1, <3>2 DEF Follows
  <2> QED BY <2>4, <2>5
<1> QED BY <1>2, <1>3 DEF Follows

(* Without hearing of it no window's screen changes or begins to, and only output adds
   to the output. *)
LEMMA UnseenSteps ==
  ASSUME CallsInv, [Next]_vars
  PROVE  /\ \/ ServerHears
            \/ \A w \in streaming' : w \in streaming /\ view'[w] = view[w]
         /\ Output \/ produced' = produced
<1>0. view \in [Windows -> -1..MaxOutput] /\ streaming \subseteq Windows
  BY DEF CallsInv, TypeOK
<1>1. ASSUME NEW w \in Windows, Detach(w) \/ Close(w)
      PROVE  \A v \in streaming' : v \in streaming /\ view'[v] = view[v]
  <2>1. \/ streaming' = streaming \ {w} /\ view' = [view EXCEPT ![w] = -1]
        \/ UNCHANGED <<streaming, view>>
    BY <1>1 DEF Detach, Close, Forget, server
  <2> QED BY <1>0, <2>1
<1>2. \/ \E w \in Windows : Detach(w) \/ Close(w)
      \/ ServerHears
      \/ UNCHANGED <<streaming, view>>
  BY DEF Next, WindowStep, StreamStep, StartStep, HostStep, Attach, Start, LastDetaches,
     OpenStream, StartStream, CloseStream, Acknowledge, GetsStuck, CallStart, StartReplayed,
     StartExited, StartTimesOut, StartEnds, Replay, Output, Exit, server, clients, vars
<1>3. Output \/ produced' = produced
  <2>1. ASSUME NEW w \in Windows, WindowStep(w) PROVE produced' = produced
    BY <2>1 DEF WindowStep, Attach, Start, LastDetaches, Detach, Close, Forget, Unregister,
       host, flow
  <2>2. ASSUME NEW s \in Streams, StreamStep(s) PROVE produced' = produced
    BY <2>2 DEF StreamStep, OpenStream, StartStream, CloseStream, Register, Unregister, flow
  <2>3. ASSUME NEW c \in Clients, Acknowledge(c) \/ GetsStuck(c) PROVE produced' = produced
    BY <2>3 DEF Acknowledge, GetsStuck, TakeAck, host, flow
  <2>4. StartStep \/ Replay \/ Exit => produced' = produced
    BY DEF StartStep, CallStart, StartReplayed, StartExited, StartTimesOut, Replay, Exit,
       host, flow
  <2>5. ServerHears => produced' = produced
    BY DEF ServerHears, HearData, HearReplay, HearExit, HearAttached, Register, HearStarted,
       HearRefused, flow
  <2> QED BY <2>1, <2>2, <2>3, <2>4, <2>5 DEF Next, HostStep, vars, host, flow
<1> QED BY <1>1, <1>2, <1>3

(* An event is added. *)
LEMMA SeenAdded ==
  ASSUME CallsInv, SeenInv, NEW e \in Events, events' = Append(events, e),
         \A w \in streaming' : w \in streaming /\ view'[w] = view[w],
         IF e.what = "data" THEN produced' = produced + 1 ELSE produced' = produced,
         e.what \in {"data", "replay"} => e.n = produced'
  PROVE  SeenInv'
<1>0. events \in Seq(Events)
  BY DEF CallsInv, TypeOK
<1>1. /\ Len(events) \in Nat /\ Len(events') = Len(events) + 1
      /\ \A i \in 1..Len(events) : events'[i] = events[i]
      /\ events'[Len(events) + 1] = e
      /\ \A i \in 1..Len(events') : i \in 1..Len(events) \/ i = Len(events) + 1
  BY <1>0, AddedEvent
<1>2. ASSUME NEW v, NEW k \in 0..Len(events), Follows(events, produced, v, k)
      PROVE  Follows(events', produced', v, k)
  BY <1>0, <1>2, FollowsAdded
<1>3. ASSUME NEW k \in 1..Len(events'), events'[k].what \in {"data", "replay"}
      PROVE  Follows(events', produced', events'[k].n, k)
  <2>1. CASE k \in 1..Len(events)
    <3>1. Follows(events, produced, events[k].n, k) /\ k \in 0..Len(events)
      BY <1>1, <1>3, <2>1 DEF SeenInv
    <3> QED BY <1>1, <1>2, <2>1, <3>1
  <2>2. CASE k = Len(events) + 1
    <3>1. events'[k].n = produced'
      BY <1>1, <1>3, <2>2
    <3>2. \A i \in (k + 1)..Len(events') : FALSE
      BY <1>1, <2>2
    <3> QED BY <3>1, <3>2 DEF Follows
  <2> QED BY <1>1, <2>1, <2>2
<1>4. ASSUME NEW w \in streaming' PROVE Follows(events', produced', view'[w], 0)
  BY <1>1, <1>2 DEF SeenInv
<1> QED BY <1>3, <1>4 DEF SeenInv

(* Output adds an event: none is heard with it, nor are they left alone. *)
LEMMA OutputIsAdded ==
  ASSUME events \in Seq(Events), produced \in Nat, Output
  PROVE  Len(events) \in Nat /\ Len(events') = Len(events) + 1
<1> DEFINE e == Event("data", NoClient, produced + 1)
<1>1. events' = Append(events, e) /\ produced < MaxOutput
  BY DEF Output
<1>2. e \in Events
  BY <1>1, BoundsAssumption DEF Event, Events
<1> HIDE DEF e
<1> QED BY <1>1, <1>2, AddedEvent

(* The server hears an event. *)
LEMMA SeenHeard ==
  ASSUME CallsInv, SeenInv, [Next]_vars, ServerHears
  PROVE  SeenInv'
<1> DEFINE e == Head(events)
<1>0. events \in Seq(Events) /\ streaming \subseteq attached /\ attached \subseteq Windows
  BY DEF CallsInv, TypeOK
<1>1. Hears(e.what)
  BY DEF ServerHears, Hears
<1>2. /\ Len(events) \in Nat /\ Len(events) > 0 /\ e = events[1]
      /\ Len(events') = Len(events) - 1
      /\ \A i \in 1..Len(events') : events'[i] = events[i + 1]
  BY <1>0, <1>1, HeardEvent
<1>3. produced' = produced
  <2>1. produced \in Nat
    BY BoundsAssumption DEF CallsInv, TypeOK
  <2>2. ~Output
    BY <1>0, <1>2, <2>1, OutputIsAdded
  <2> QED BY <2>2, UnseenSteps
<1>4. ASSUME NEW v, NEW k \in Nat, Follows(events, produced, v, k + 1)
      PROVE  Follows(events', produced', v, k)
  BY <1>0, <1>1, <1>3, <1>4, FollowsTail
<1>5. ASSUME NEW k \in 1..Len(events'), events'[k].what \in {"data", "replay"}
      PROVE  Follows(events', produced', events'[k].n, k)
  <2>1. k + 1 \in 1..Len(events) /\ k \in Nat /\ events'[k] = events[k + 1]
    BY <1>2
  <2>2. Follows(events, produced, events[k + 1].n, k + 1)
    BY <1>5, <2>1 DEF SeenInv
  <2> QED BY <1>4, <2>1, <2>2
<1>6. e.what \in {"data", "replay"} => Follows(events', produced', e.n, 0)
  <2>1. e.what \in {"data", "replay"} => Follows(events, produced, e.n, 1)
    BY <1>2 DEF SeenInv
  <2> QED BY <1>4, <2>1
<1>7. ASSUME NEW w \in streaming, e.what # "data"
      PROVE  Follows(events', produced', view[w], 0)
  BY <1>0, <1>1, <1>3, <1>7, FollowsHead DEF SeenInv
<1> HIDE DEF e
<1>8. ASSUME NEW w \in streaming' PROVE Follows(events', produced', view'[w], 0)
  <2>1. CASE e.what = "data" /\ HearData(e.n)
    <3>1. w \in streaming /\ view'[w] = e.n
      BY <1>0, <2>1 DEF HearData, server
    <3> QED BY <1>6, <2>1, <3>1
  <2>2. CASE e.what = "replay" /\ HearReplay(e.n)
    <3>1. /\ w \in streaming \/ w \in Target
          /\ view'[w] = IF w \in Target THEN e.n ELSE view[w]
      BY <1>0, <2>2 DEF HearReplay, Target
    <3> QED BY <1>6, <1>7, <2>2, <3>1
  <2>3. CASE HearExit
    BY <2>3 DEF HearExit
  <2>4. CASE e.what # "data" /\ UNCHANGED <<streaming, view>>
    BY <1>7, <2>4
  <2>5. CASE e.what \in Answers
          /\ (HearAttached(e.client) \/ HearStarted(e.client) \/ HearRefused(e.client))
    <3>1. UNCHANGED <<streaming, view>>
      BY <2>5 DEF HearAttached, HearStarted, HearRefused, StartEnds, clients, server
    <3> QED BY <2>4, <2>5, <3>1 DEF Answers
  <2> QED BY <2>1, <2>2, <2>3, <2>5 DEF ServerHears, Answers, e
<1> QED BY <1>5, <1>8 DEF SeenInv

(* What each window is shown goes on where it ended, whatever happens. *)
LEMMA SeenStep ==
  ASSUME CallsInv, SeenInv, [Next]_vars
  PROVE  SeenInv'
<1>0. events \in Seq(Events) /\ produced \in Nat
  BY BoundsAssumption DEF CallsInv, TypeOK
<1>1. CASE ServerHears
  BY <1>1, SeenHeard
<1>2. CASE ~ServerHears
  <2>1. \A w \in streaming' : w \in streaming /\ view'[w] = view[w]
    BY <1>2, UnseenSteps
  <2>2. CASE UNCHANGED events
    <3>1. produced' = produced
      BY <1>0, <2>2, OutputIsAdded, UnseenSteps
    <3> QED BY <2>1, <2>2, <3>1 DEF SeenInv
  <2>3. ASSUME NEW w \in Windows, NEW what \in Answers, Event(what, w, 0) \in Events,
               events' = Append(events, Event(what, w, 0)), Attach(w) \/ CallStart
        PROVE  SeenInv'
    <3>1. Event(what, w, 0).what = what
      BY DEF Event
    <3>2. produced' = produced
      BY <2>3 DEF Attach, CallStart, flow
    <3> HIDE DEF Event
    <3> QED BY <2>1, <2>3, <3>1, <3>2, SeenAdded DEF Answers
  <2>4. CASE Output
    <3> DEFINE e == Event("data", NoClient, produced + 1)
    <3>1. produced' = produced + 1 /\ events' = Append(events, e)
      BY <2>4 DEF Output
    <3>2. e \in Events /\ e.what = "data" /\ e.n = produced + 1
      BY <1>0, <2>4, BoundsAssumption DEF Event, Events, Output
    <3> HIDE DEF e
    <3> QED BY <2>1, <3>1, <3>2, SeenAdded
  <2>5. CASE Replay
    <3> DEFINE e == Event("replay", NoClient, produced)
    <3>1. produced' = produced /\ events' = Append(events, e)
      BY <2>5 DEF Replay
    <3>2. e \in Events /\ e.what = "replay" /\ e.n = produced
      BY DEF Event, Events, CallsInv, TypeOK
    <3> HIDE DEF e
    <3> QED BY <2>1, <3>1, <3>2, SeenAdded
  <2>6. CASE Exit
    <3> DEFINE e == Event("exit", NoClient, 0)
    <3>1. produced' = produced /\ events' = Append(events, e)
      BY <2>6 DEF Exit, flow
    <3>2. e \in Events /\ e.what = "exit"
      BY BoundsAssumption DEF Event, Events
    <3> HIDE DEF e
    <3> QED BY <2>1, <3>1, <3>2, SeenAdded
  <2> QED BY <1>2, <2>2, <2>3, <2>4, <2>5, <2>6, EventSteps
<1> QED BY <1>1, <1>2

(* A window is shown the output without a gap, whatever windows come and whatever goes
   wrong: what it is sent live goes on where its replay, or what it was sent before,
   ended. *)
THEOREM NothingIsMissedCorrect == Spec => NothingIsMissed
<1>1. Init => SeenInv
  <2> SUFFICES ASSUME Init PROVE SeenInv
    OBVIOUS
  <2>1. Len(events) = 0 /\ produced = 0
    BY EmptySeq DEF Init
  <2>2. \A w \in streaming : view[w] = 0
    BY DEF Init
  <2>3. \A i \in 1..Len(events) : FALSE
    BY <2>1
  <2>4. 0 + 1 = 1
    OBVIOUS
  <2> QED BY <2>1, <2>2, <2>3, <2>4 DEF SeenInv, Follows
<1>2. SeenInv /\ CallsInv /\ [Next]_vars => SeenInv'
  BY SeenStep
<1>3. SeenInv /\ CallsInv /\ [Next]_vars
        => [\A w \in Windows :
              events # <<>> /\ Head(events).what = "data" /\ events' = Tail(events)
                /\ w \in streaming => view'[w] = view[w] + 1]_vars
  <2> SUFFICES ASSUME SeenInv, CallsInv, [Next]_vars, NEW w \in Windows,
                      events # <<>>, Head(events).what = "data", events' = Tail(events),
                      w \in streaming
               PROVE  UNCHANGED vars \/ view'[w] = view[w] + 1
    OBVIOUS
  <2>1. events \in Seq(Events)
    BY DEF CallsInv, TypeOK
  <2>2. /\ Len(events) \in Nat /\ Len(events) > 0 /\ Len(events') = Len(events) - 1
    BY <2>1, EmptySeq, LenProperties, HeadTailProperties
  <2>3. ServerHears
    <3>1. ~UNCHANGED events
      <4> SUFFICES ASSUME events' = events PROVE FALSE
        OBVIOUS
      <4>1. Len(events') = Len(events)
        OBVIOUS
      <4>2. Len(events) = Len(events) - 1
        BY <2>2, <4>1, Zenon
      <4> QED BY <2>2, <4>2
    <3>2. ASSUME NEW e \in Events, events' = Append(events, e) PROVE FALSE
      <4>1. Len(events') = Len(events) + 1
        BY <2>1, <3>2, AddedEvent
      <4> QED BY <2>2, <4>1
    <3> QED BY <3>1, <3>2, EventSteps
  <2>4. Hears("data") /\ HearData(Head(events).n)
    BY <2>3 DEF ServerHears, Hears
  <2>5. Head(events).n = view[w] + 1
    BY <2>1, <2>4, FollowsHead DEF SeenInv
  <2> QED BY <2>4, <2>5 DEF HearData
<1> QED BY <1>1, <1>2, <1>3, CallsInvHolds, PTL DEF Spec, NothingIsMissed
=============================================================================
