---------------------------- MODULE ConnectorProofs ----------------------------
(***************************************************************************)
(* Theorems about the connection of a device, for every sequence of calls, *)
(* faults and messages: a machine that has lost its socket will hear of    *)
(* it, no answer meets the machine in a state that does not expect it, and *)
(* none is taken for one of another connection.                            *)
(***************************************************************************)
EXTENDS Connector, SequenceTheorems, TLAPS

--------------------------------------------------------------------------------
(* The invariant.                                                            *)

\* The events that end a connection in every active state.
Cut == {"disconnected", "reconnect", "basicError", "fatalError"}

CutAfter(r, p) == \E j \in 1..Len(r.events) : p < j /\ r.events[j] \in Cut

\* Without a socket, nobody takes the connected event of an earlier one for news.
Overtaken(r) ==
  r.socket = "none" =>
    \A k \in 1..Len(r.events) : r.events[k] = "connected" => CutAfter(r, k)

\* An active machine without a socket has an end of the connection waiting.  While
\* it runs, it may still have to close, or have just refused to connect.
Ending(r) ==
  r.state \in Active /\ r.socket = "none" =>
    \/ CutAfter(r, 0)
    \/ /\ r.activity = "events"
       /\ \/ r.closing
          \/ /\ r.state = "Connecting"
             /\ \E k \in 1..Len(r.events) : r.events[k] = "noConnect"

ConnectorInv == TypeOK /\ Overtaken(rc) /\ Ending(rc)

--------------------------------------------------------------------------------
(* What the slots return.                                                    *)

LEMMA Submitted ==
  ASSUME NEW r \in Connection, NEW e \in Events
  PROVE  LET n == submitEventSync(r, e) IN
         /\ n \in Connection
         /\ n.events = Append(r.events, e)
         /\ n.state = r.state /\ n.socket = r.socket /\ n.activity = r.activity
         /\ n.closing = r.closing
<1> DEFINE posted == IF r.activity = "events" THEN r.posted ELSE Append(r.posted, "process")
           events == Append(r.events, e)
<1>1. submitEventSync(r, e) = [r EXCEPT !.blocked = TRUE, !.events = events, !.posted = posted]
  BY DEF submitEventSync, Connection
<1>2. events \in Seq(Events)
  BY DEF Connection
<1>3. posted \in Seq({"process", "ready", "disconnected", "tryClose"} \cup AllCalls)
  BY DEF Connection
<1> HIDE DEF posted, events
<1>4. LET n == [r EXCEPT !.blocked = TRUE, !.events = events, !.posted = posted] IN
      /\ n \in Connection /\ n.events = events
      /\ n.state = r.state /\ n.socket = r.socket /\ n.activity = r.activity
      /\ n.closing = r.closing
  BY <1>2, <1>3 DEF Connection
<1> QED
  BY <1>1, <1>4 DEF events

LEMMA Forgotten ==
  ASSUME NEW r \in Connection
  PROVE  LET n == Forget(r) IN
         /\ n \in Connection /\ n.socket = "none"
         /\ n.state = r.state /\ n.events = r.events /\ n.activity = r.activity
         /\ n.closing = r.closing
<1> DEFINE Message == [type : Messages, fresh : BOOLEAN]
           buffer == [k \in DOMAIN r.buffer |-> [r.buffer[k] EXCEPT !.fresh = FALSE]]
<1>1. r.buffer \in Seq(Message)
  BY DEF Connection
<1>2. Forget(r) = [r EXCEPT !.socket = "none", !.ping = "off", !.buffer = buffer]
  BY DEF Forget, Connection
<1>3. \A m \in Message : [m EXCEPT !.fresh = FALSE] \in Message
  OBVIOUS
<1> HIDE DEF Message
<1>4. /\ DOMAIN r.buffer = 1..Len(r.buffer) /\ Len(r.buffer) \in Nat
      /\ \A k \in 1..Len(r.buffer) : r.buffer[k] \in Message
  BY <1>1
<1>5. buffer = [k \in 1..Len(r.buffer) |-> [r.buffer[k] EXCEPT !.fresh = FALSE]]
  BY <1>4
<1>6. \A k \in 1..Len(r.buffer) : [r.buffer[k] EXCEPT !.fresh = FALSE] \in Message
  BY <1>3, <1>4
<1>7. buffer \in [1..Len(r.buffer) -> Message]
  BY <1>5, <1>6
<1> HIDE DEF buffer
<1>8. \A n \in Nat : \A s \in [1..n -> Message] : s \in Seq(Message)
  OBVIOUS
<1>9. buffer \in Seq(Message)
  BY <1>4, <1>7, <1>8
<1> QED
  BY <1>2, <1>9 DEF Connection, Message

LEMMA Remote ==
  ASSUME NEW r \in Connection, NEW engine \in {"Initializing", "Disconnected", "Ready", "Error"}
  PROVE  LET n == remoteEvent(r, engine) IN
         /\ n \in Connection
         /\ n.state = r.state /\ n.events = r.events /\ n.activity = r.activity
         /\ n.closing = r.closing /\ n.socket = r.socket
<1>1. LET n == [r EXCEPT !.engine = engine] IN
      /\ n \in Connection
      /\ n.state = r.state /\ n.events = r.events /\ n.activity = r.activity
      /\ n.closing = r.closing /\ n.socket = r.socket
  BY DEF Connection
<1>2. remoteEvent(r, engine) = r \/ remoteEvent(r, engine) = [r EXCEPT !.engine = engine]
  BY DEF remoteEvent
<1> QED
  BY <1>1, <1>2

\* n differs from r by an event e at the end, or by nothing that counts here.
Same(r, n) ==
  /\ n \in Connection
  /\ n.state = r.state /\ n.events = r.events /\ n.activity = r.activity
  /\ n.closing = r.closing /\ n.socket = r.socket

\* The connection ends, and the machine is told by an event.
Ends(r, n) ==
  /\ n \in Connection
  /\ n.state = r.state /\ n.activity = r.activity /\ n.closing = r.closing
  /\ \/ n.events = Append(r.events, "disconnected")
     \/ n.events = r.events /\ (n.socket = "none" => r.socket = "none")

LEMMA Disconnects ==
  ASSUME NEW r \in Connection
  PROVE  Ends(r, doDisconnect(r)) /\ Ends(r, disconnected(r))
<1>1. ASSUME NEW n \in Connection, n.state = r.state, n.events = r.events,
             n.activity = r.activity, n.closing = r.closing
      PROVE  Ends(r, submitEventSync(n, "disconnected"))
  <2>1. "disconnected" \in Events
    BY DEF Events
  <2> DEFINE s == submitEventSync(n, "disconnected")
  <2>2. /\ s \in Connection /\ s.events = Append(n.events, "disconnected")
        /\ s.state = n.state /\ s.activity = n.activity /\ s.closing = n.closing
    BY <2>1, Submitted
  <2> HIDE DEF s
  <2>3. Ends(r, s)
    BY <1>1, <2>2 DEF Ends
  <2> QED
    BY <2>3 DEF s
<1>2. Ends(r, submitEventSync(r, "disconnected"))
  BY <1>1
<1>3. Ends(r, submitEventSync(Forget(r), "disconnected"))
  BY <1>1, Forgotten
<1>4. /\ [r EXCEPT !.socket = "closing", !.op = "special"] \in Connection
      /\ Ends(r, [r EXCEPT !.socket = "closing", !.op = "special"])
  BY DEF Connection, Ends
<1>5. Ends(r, r)
  BY DEF Ends
<1>6. r.socket \in {"none", "connecting", "connected", "closing", "unconnected"}
  BY DEF Connection
<1>7. Ends(r, doDisconnect(r))
  <2>1. CASE r.socket = "none"
    BY <1>2, <2>1 DEF doDisconnect
  <2>2. CASE r.socket \in {"connecting", "unconnected"}
    BY <1>3, <2>2 DEF doDisconnect
  <2>3. CASE r.socket = "closing"
    BY <1>5, <2>3 DEF doDisconnect
  <2>4. CASE r.socket = "connected"
    BY <1>4, <2>4 DEF doDisconnect
  <2> QED
    BY <1>6, <2>1, <2>2, <2>3, <2>4
<1>8. Ends(r, disconnected(r))
  <2> DEFINE f == Forget(r)
             n == [f EXCEPT !.op = "none"]
  <2>1. /\ f \in Connection /\ f.state = r.state /\ f.events = r.events
        /\ f.activity = r.activity /\ f.closing = r.closing
    BY Forgotten
  <2> HIDE DEF f
  <2>2. /\ n \in Connection /\ n.state = r.state /\ n.events = r.events
        /\ n.activity = r.activity /\ n.closing = r.closing
    BY <2>1 DEF Connection
  <2> HIDE DEF n
  <2>3. disconnected(r) = submitEventSync(n, "disconnected")
    BY DEF disconnected, f, n
  <2> QED
    BY <1>1, <2>2, <2>3
<1> QED
  BY <1>7, <1>8

\* A refused attempt to connect is an event; otherwise there is a new socket.
LEMMA Connects ==
  ASSUME NEW r \in Connection, NEW can \in BOOLEAN
  PROVE  LET n == doConnect(r, can) IN
         /\ n \in Connection
         /\ n.state = r.state /\ n.activity = r.activity /\ n.closing = r.closing
         /\ IF can THEN n.socket = "connecting" /\ n.events = r.events
            ELSE n.socket = r.socket /\ n.events = Append(r.events, "noConnect")
<1> DEFINE s == remoteEvent(r, "Initializing")
<1>1. Same(r, s)
  BY Remote DEF Same
<1>2. doConnect(r, can) = IF ~can THEN submitEventSync(s, "noConnect")
                          ELSE [Forget(s) EXCEPT !.socket = "connecting", !.op = "special"]
  BY DEF doConnect
<1> HIDE DEF s
<1>3. CASE ~can
  <2>1. "noConnect" \in Events
    BY DEF Events
  <2> QED
    BY <1>1, <1>2, <1>3, <2>1, Submitted DEF Same
<1>4. CASE can
  <2> DEFINE f == Forget(s)
             n == [f EXCEPT !.socket = "connecting", !.op = "special"]
  <2>1. /\ f \in Connection /\ f.state = s.state /\ f.events = s.events
        /\ f.activity = s.activity /\ f.closing = s.closing
    BY <1>1, Forgotten DEF Same
  <2>2. doConnect(r, can) = n
    BY <1>2, <1>4
  <2> HIDE DEF f
  <2>3. /\ n \in Connection /\ n.state = f.state /\ n.events = f.events
        /\ n.activity = f.activity /\ n.closing = f.closing /\ n.socket = "connecting"
    BY <2>1 DEF Connection
  <2> HIDE DEF n
  <2> QED
    BY <1>1, <1>4, <2>1, <2>2, <2>3 DEF Same
<1> QED
  BY <1>3, <1>4

\* Leaving the active states changes nothing that counts here.
LEMMA Leaves ==
  ASSUME NEW r \in Connection, NEW to
  PROVE  Same(r, Exited(r, to))
<1> DEFINE n == [r EXCEPT !.op = "none"]
<1>1. Same(r, n)
  BY DEF Same, Connection
<1>2. onExitActiveState(r) = remoteEvent(n, "Disconnected")
  BY DEF onExitActiveState
<1> HIDE DEF n
<1>3. Same(r, onExitActiveState(r))
  BY <1>1, <1>2, Remote DEF Same
<1>4. Same(r, r)
  BY DEF Same
<1> QED
  BY <1>3, <1>4 DEF Exited

\* Another state is entered, and the connection may end.
MovesTo(r, n, to) ==
  /\ n \in Connection /\ n.state = to
  /\ n.activity = r.activity /\ n.closing = r.closing
  /\ \/ n.events = Append(r.events, "disconnected")
     \/ n.events = r.events /\ (n.socket = "none" => r.socket = "none")
  /\ to \in Active => n.events = r.events /\ (n.socket = "none" => r.socket = "none")

LEMMA MovedShape ==
  ASSUME NEW r \in Connection, NEW to \in States
  PROVE  MovesTo(r, Moved(r, to), to)
<1> DEFINE x == Exited(r, to)
           s == [x EXCEPT !.state = to]
           n == Moved(r, to)
<1>1. Same(r, x)
  BY Leaves
<1>2. n = Entered(x, r.state, to)
  BY DEF Moved
<1> HIDE DEF x
<1>3. /\ s \in Connection /\ s.state = to /\ s.events = x.events /\ s.activity = x.activity
      /\ s.closing = x.closing /\ s.socket = x.socket
  BY <1>1 DEF Same, Connection
<1>4. \/ n = doDisconnect(s) /\ to \notin Active
      \/ n = s
      \/ n = scheduleRetry(s) /\ to = "Retry"
      \/ n = onEntryIdleState(s)
  <2>1. to \in {"Reconnecting", "BasicError", "FatalError", "Closing"} => to \notin Active
    BY DEF Active
  <2> HIDE DEF s, n
  <2> QED
    BY <1>2, <2>1 DEF Entered, s
<1> HIDE DEF s, n
<1>5. ASSUME n = doDisconnect(s), to \notin Active
      PROVE  MovesTo(r, n, to)
  <2>1. Ends(s, n)
    BY <1>3, <1>5, Disconnects
  <2> QED
    BY <1>1, <1>3, <1>5, <2>1 DEF Same, Ends, MovesTo
<1>6. Same(s, n) => MovesTo(r, n, to)
  BY <1>1, <1>3 DEF Same, MovesTo
<1>7. ASSUME n = s
      PROVE  MovesTo(r, n, to)
  BY <1>3, <1>6, <1>7 DEF Same
<1>8. ASSUME n = scheduleRetry(s)
      PROVE  MovesTo(r, n, to)
  <2> DEFINE index == IF s.retryIndex < RetrySteps THEN s.retryIndex + 1 ELSE s.retryIndex
  <2>1. n = [s EXCEPT !.retryIndex = index, !.retries = s.retries + 1]
    BY <1>3, <1>8 DEF scheduleRetry, Connection
  <2>2. index \in 0..RetrySteps /\ s.retries + 1 \in Nat
    BY <1>3, ConnectorAssumption DEF Connection
  <2> HIDE DEF index
  <2>3. Same(s, n)
    BY <1>3, <2>1, <2>2 DEF Same, Connection
  <2> QED
    BY <1>6, <2>3
<1>9. ASSUME n = onEntryIdleState(s)
      PROVE  MovesTo(r, n, to)
  <2> DEFINE z == [s EXCEPT !.retryIndex = 0]
  <2>1. Same(s, z)
    <3>1. 0 \in 0..RetrySteps
      BY ConnectorAssumption
    <3> QED
      BY <1>3, <3>1 DEF Same, Connection
  <2>2. n = remoteEvent(z, "Ready")
    BY <1>9 DEF onEntryIdleState
  <2> HIDE DEF z
  <2>3. Same(s, n)
    BY <2>1, <2>2, Remote DEF Same
  <2> QED
    BY <1>6, <2>3
<1>10. MovesTo(r, n, to)
  BY <1>4, <1>5, <1>7, <1>8, <1>9
<1> QED
  BY <1>10 DEF n

--------------------------------------------------------------------------------
(* Events.                                                                   *)

LEMMA Longer ==
  ASSUME NEW r \in Connection, NEW n \in Connection, NEW e \in Events,
         n.events = Append(r.events, e)
  PROVE  /\ Len(r.events) \in Nat /\ Len(n.events) = Len(r.events) + 1
         /\ \A k \in 1..Len(r.events) : n.events[k] = r.events[k]
         /\ n.events[Len(r.events) + 1] = e
  BY DEF Connection

\* A slot of the connector leaves the machine's state alone, or ends it.
LEMMA SlotKeeps ==
  ASSUME NEW r \in Connection, NEW n \in Connection, Overtaken(r), Ending(r),
         n.activity = r.activity \/ r.activity # "events",
         n.state = r.state \/ n.state \notin Active,
         r.closing => n.closing,
         \/ n.events = r.events /\ (n.socket = "none" => r.socket = "none")
         \/ \E e \in Events :
              /\ n.events = Append(r.events, e)
              /\ n.socket = "none" => e \in Cut \/ (r.socket = "none" /\ e # "connected")
  PROVE  Overtaken(n) /\ Ending(n)
<1>1. CASE n.events = r.events /\ (n.socket = "none" => r.socket = "none")
  BY <1>1 DEF Overtaken, Ending, CutAfter
<1>2. ASSUME NEW e \in Events, n.events = Append(r.events, e), n.socket = "none",
             e \in Cut \/ (r.socket = "none" /\ e # "connected")
      PROVE  Overtaken(n) /\ Ending(n)
  <2>1. /\ Len(r.events) \in Nat /\ Len(n.events) = Len(r.events) + 1
        /\ \A k \in 1..Len(r.events) : n.events[k] = r.events[k]
        /\ n.events[Len(r.events) + 1] = e
    BY <1>2, Longer
  <2>2. /\ \A k \in 1..Len(r.events) : k \in 1..Len(n.events)
        /\ \A k \in 1..Len(n.events) : k \in 1..Len(r.events) \/ k = Len(r.events) + 1
        /\ Len(r.events) + 1 \in 1..Len(n.events)
    BY <2>1
  <2>3. \A p : CutAfter(r, p) => CutAfter(n, p)
    BY <2>1, <2>2 DEF CutAfter
  <2>4. e \in Cut => \A p \in 0..Len(r.events) : CutAfter(n, p)
    BY <2>1, <2>2 DEF CutAfter
  <2>5. e \in Cut => e # "connected"
    BY DEF Cut
  <2>6. Overtaken(n)
    <3> SUFFICES ASSUME NEW k \in 1..Len(n.events), n.events[k] = "connected"
                 PROVE  CutAfter(n, k)
      BY DEF Overtaken
    <3>1. k \in 1..Len(r.events) /\ r.events[k] = "connected"
      BY <1>2, <2>1, <2>2, <2>5
    <3> QED
      BY <1>2, <2>3, <2>4, <3>1 DEF Overtaken
  <2>7. Ending(n)
    <3>1. CASE e \in Cut
      BY <2>1, <2>4, <3>1 DEF Ending
    <3>2. CASE r.socket = "none"
      <4>1. \A k \in 1..Len(r.events) : r.events[k] = "noConnect" =>
              k \in 1..Len(n.events) /\ n.events[k] = "noConnect"
        BY <2>1, <2>2
      <4> QED
        BY <2>3, <3>2, <4>1 DEF Ending
    <3> QED
      BY <1>2, <3>1, <3>2
  <2> QED
    BY <2>6, <2>7
<1>3. CASE n.socket # "none"
  BY <1>3 DEF Overtaken, Ending
<1> QED
  BY <1>1, <1>2, <1>3

\* The first event is taken from the queue.
LEMMA Shorter ==
  ASSUME NEW r \in Connection, r.events # << >>
  PROVE  LET s == [r EXCEPT !.events = Tail(@)] IN
         /\ s \in Connection /\ s.events = Tail(r.events)
         /\ s.state = r.state /\ s.socket = r.socket /\ s.activity = r.activity
         /\ s.closing = r.closing
         /\ Overtaken(r) => Overtaken(s)
         /\ \A p \in Nat : CutAfter(r, p + 1) => CutAfter(s, p)
         /\ CutAfter(r, 0) /\ Head(r.events) \notin Cut => CutAfter(s, 0)
         /\ \A e : (\E k \in 1..Len(r.events) : r.events[k] = e) /\ Head(r.events) # e =>
              \E k \in 1..Len(s.events) : s.events[k] = e
         /\ Overtaken(r) /\ r.socket = "none" /\ Head(r.events) = "connected" => CutAfter(s, 0)
<1> DEFINE tail == Tail(r.events)
           s == [r EXCEPT !.events = tail]
<1>1. /\ r.events \in Seq(Events) /\ tail \in Seq(Events) /\ Head(r.events) = r.events[1]
      /\ Len(r.events) \in Nat \ {0} /\ Len(tail) = Len(r.events) - 1
      /\ \A k \in 1..Len(tail) : tail[k] = r.events[k + 1]
  BY DEF Connection
<1> HIDE DEF tail
<1>2. /\ s \in Connection /\ s.events = tail
      /\ s.state = r.state /\ s.socket = r.socket /\ s.activity = r.activity
      /\ s.closing = r.closing
  BY <1>1 DEF Connection
<1> HIDE DEF s
<1>3. \A j \in 1..Len(r.events) : j = 1 \/ (j - 1 \in 1..Len(tail) /\ tail[j - 1] = r.events[j])
  BY <1>1
<1>4. ASSUME NEW p \in Nat, CutAfter(r, p + 1)
      PROVE  CutAfter(s, p)
  <2>1. PICK j \in 1..Len(r.events) : p + 1 < j /\ r.events[j] \in Cut
    BY <1>4 DEF CutAfter
  <2>2. j - 1 \in 1..Len(tail) /\ tail[j - 1] = r.events[j] /\ p < j - 1
    BY <1>1, <1>3, <2>1
  <2> QED
    BY <1>2, <2>1, <2>2 DEF CutAfter
<1>5. CutAfter(r, 0) /\ Head(r.events) \notin Cut => CutAfter(r, 1)
  BY <1>1 DEF CutAfter
<1>6. ASSUME NEW e, NEW k \in 1..Len(r.events), r.events[k] = e, Head(r.events) # e
      PROVE  \E l \in 1..Len(s.events) : s.events[l] = e
  BY <1>1, <1>2, <1>3, <1>6
<1>7. ASSUME Overtaken(r)
      PROVE  Overtaken(s)
  <2> SUFFICES ASSUME s.socket = "none", NEW k \in 1..Len(s.events), s.events[k] = "connected"
               PROVE  CutAfter(s, k)
    BY DEF Overtaken
  <2>1. k + 1 \in 1..Len(r.events) /\ r.events[k + 1] = "connected" /\ k \in Nat
    BY <1>1, <1>2
  <2>2. CutAfter(r, k + 1)
    BY <1>2, <1>7, <2>1 DEF Overtaken
  <2> QED
    BY <1>4, <2>1, <2>2
<1>8. ASSUME Overtaken(r), r.socket = "none", Head(r.events) = "connected"
      PROVE  CutAfter(s, 0)
  <2>1. 1 \in 1..Len(r.events) /\ r.events[1] = "connected"
    BY <1>1, <1>8
  <2>2. CutAfter(r, 0 + 1)
    BY <1>8, <2>1 DEF Overtaken
  <2> QED
    BY <1>4, <2>2
<1>9. CutAfter(r, 1) => CutAfter(s, 0)
  <2>1. CutAfter(r, 0 + 1) => CutAfter(s, 0)
    BY <1>4
  <2> QED
    BY <2>1
<1> QED
  BY <1>2, <1>4, <1>5, <1>6, <1>7, <1>8, <1>9 DEF s, tail

--------------------------------------------------------------------------------
(* Steps of the machine.                                                     *)

\* Every event that ends a connection is handled in every active state.
LEMMA CutsAreHandled ==
  ASSUME NEW from \in Active, NEW e \in Cut
  PROVE  \E to \in States \ Active : <<from, e, to>> \in Transitions
<1>1. /\ "Retry" \in States \ Active /\ "Reconnecting" \in States \ Active
      /\ "BasicError" \in States \ Active /\ "FatalError" \in States \ Active
  BY DEF States, Active
<1>2. /\ <<from, "disconnected", "Retry">> \in Transitions
      /\ <<from, "reconnect", "Reconnecting">> \in Transitions
      /\ <<from, "basicError", "BasicError">> \in Transitions
      /\ <<from, "fatalError", "FatalError">> \in Transitions
  BY DEF Transitions
<1> QED
  BY <1>1, <1>2 DEF Cut

\* Where transitions lead to.
LEMMA TransitionTypes ==
  ASSUME NEW t \in Transitions
  PROVE  /\ t[1] \in States /\ t[3] \in States
         /\ t[3] \in Active \ {"Connecting"} => t[1] \in Active /\ t[2] \notin Cut
         /\ t[3] \in Active /\ t[1] = "Connecting" => t[2] = "connected"
         /\ t[3] = "Connecting" => t[1] \notin Active
<1>1. \/ t \in Active \X {"reconnect"} \X {"Reconnecting"}
      \/ t \in Active \X {"disconnected"} \X {"Retry"}
      \/ t \in Active \X {"basicError"} \X {"BasicError"}
      \/ t \in Active \X {"fatalError"} \X {"FatalError"}
      \/ t \in {"Registering", "LoggingIn", "Granting"} \X {"account"} \X {"Idle"}
      \/ t \in {"Disconnected", "Retry"} \X {"reconnect"} \X {"Connecting"}
      \/ t \in {"BasicError", "FatalError"} \X {"reconnect"} \X {"Reconnecting"}
      \/ t \in {<<"Connecting", "connected", "Connected">>,
                <<"Connecting", "noConnect", "Disconnected">>,
                <<"Connected", "awaitRegister", "Registering">>,
                <<"Connected", "awaitLogin", "LoggingIn">>,
                <<"Connected", "awaitGranted", "Granting">>,
                <<"Reconnecting", "disconnected", "Connecting">>,
                <<"BasicError", "disconnected", "Retry">>,
                <<"FatalError", "disconnected", "Disconnected">>,
                <<"Closing", "disconnected", "Final">>}
  BY DEF Transitions
<1> QED
  BY <1>1 DEF States, Active, Cut

\* Connecting, with a new socket or without.
LEMMA ConnectStep ==
  ASSUME TypeOK, NEW r \in Connection, Overtaken(r), r.activity = "events", Connect(r)
  PROVE  /\ rc' \in Connection /\ Overtaken(rc') /\ Ending(rc')
         /\ wire' \in Seq(Messages)
         /\ peer' \in {"silent", peer} /\ alive' \in BOOLEAN
<1> DEFINE id == IF r.closing THEN r.id ELSE settings.id
           s == [r EXCEPT !.state = "Connecting", !.id = id]
           can == ~s.closing /\ settings.enabled
           n == doConnect(s, can)
<1>1. /\ rc' = doConnect([r EXCEPT !.state = "Connecting", !.id = id], can)
      /\ wire' = IF can THEN << >> ELSE wire
      /\ peer' = IF can THEN "silent" ELSE peer
      /\ alive' = (can \/ alive)
  BY DEF Connect, Connection
<1>2. id \in BOOLEAN
  BY DEF TypeOK, Connection
<1> HIDE DEF id
<1>3. "Connecting" \in States
  BY DEF States, Active
<1>4. /\ s \in Connection /\ s.state = "Connecting" /\ s.events = r.events
      /\ s.activity = r.activity /\ s.closing = r.closing /\ s.socket = r.socket
  BY <1>2, <1>3 DEF Connection
<1>5. rc' = n
  BY <1>1
<1> HIDE DEF s
<1>6. can \in BOOLEAN
  BY <1>4 DEF Connection, TypeOK
<1> HIDE DEF can
<1>7. /\ n \in Connection
      /\ n.state = s.state /\ n.activity = s.activity /\ n.closing = s.closing
      /\ IF can THEN n.socket = "connecting" /\ n.events = s.events
         ELSE n.socket = s.socket /\ n.events = Append(s.events, "noConnect")
  BY <1>4, <1>6, Connects
<1> HIDE DEF n
<1>8. wire' \in Seq(Messages) /\ peer' \in {"silent", peer} /\ alive' \in BOOLEAN
  <2>1. wire \in Seq(Messages) /\ alive \in BOOLEAN
    BY DEF TypeOK
  <2> QED
    BY <1>1, <1>6, <2>1
<1>9. ASSUME can
      PROVE  Overtaken(n) /\ Ending(n)
  BY <1>7, <1>9 DEF Overtaken, Ending
<1>10. ASSUME ~can
       PROVE  Overtaken(n) /\ Ending(n)
  <2>1. "noConnect" \in Events
    BY DEF Events
  <2>2. /\ Len(s.events) \in Nat /\ Len(n.events) = Len(s.events) + 1
        /\ \A k \in 1..Len(s.events) : n.events[k] = s.events[k]
        /\ n.events[Len(s.events) + 1] = "noConnect"
    BY <1>4, <1>7, <1>10, <2>1, Longer
  <2>3. Ending(n)
    <3>1. Len(s.events) + 1 \in 1..Len(n.events)
      BY <2>2
    <3> QED
      BY <1>4, <1>7, <2>2, <3>1 DEF Ending
  <2>4. Overtaken(n)
    <3> SUFFICES ASSUME n.socket = "none", NEW k \in 1..Len(n.events), n.events[k] = "connected"
                 PROVE  CutAfter(n, k)
      BY DEF Overtaken
    <3>1. k \in 1..Len(s.events) /\ s.events[k] = "connected"
      BY <2>2
    <3>2. CutAfter(r, k)
      BY <1>4, <1>7, <1>10, <3>1 DEF Overtaken
    <3> QED
      BY <1>4, <2>2, <3>2 DEF CutAfter
  <2> QED
    BY <2>3, <2>4
<1> QED
  BY <1>5, <1>7, <1>8, <1>9, <1>10

LEMMA EventKeeps ==
  ASSUME ConnectorInv, EventStep
  PROVE  /\ rc' \in Connection /\ Overtaken(rc') /\ Ending(rc')
         /\ wire' \in Seq(Messages)
         /\ peer' \in {"silent", peer} /\ alive' \in BOOLEAN
<1> DEFINE r == [rc EXCEPT !.events = Tail(@)]
           h == Head(rc.events)
           to == {t[3] : t \in {t \in Transitions : t[1] = rc.state /\ t[2] = h}}
<1>1. /\ rc \in Connection /\ Overtaken(rc) /\ Ending(rc)
      /\ rc.activity = "events" /\ ~Eventless /\ Running /\ rc.events # << >>
  BY DEF ConnectorInv, TypeOK, EventStep
<1>2. /\ r \in Connection
      /\ r.state = rc.state /\ r.socket = rc.socket /\ r.activity = rc.activity
      /\ r.closing = rc.closing
      /\ Overtaken(r)
      /\ CutAfter(rc, 0) /\ h \notin Cut => CutAfter(r, 0)
      /\ \A e : (\E k \in 1..Len(rc.events) : rc.events[k] = e) /\ h # e =>
           \E k \in 1..Len(r.events) : r.events[k] = e
      /\ rc.socket = "none" /\ h = "connected" => CutAfter(r, 0)
  BY <1>1, Shorter
<1>3. \/ "Connecting" \in to /\ Connect(Exited(r, "Connecting"))
      \/ (\E t \in to \ {"Connecting"} : rc' = Moved(r, t)) /\ UNCHANGED <<wire, peer, alive>>
      \/ to = {} /\ rc' = r /\ UNCHANGED <<wire, peer, alive>>
  BY DEF EventStep
<1>4. rc.state \in Active => ~rc.closing
  BY <1>1 DEF Eventless
<1> HIDE DEF r
<1>5. CASE "Connecting" \in to /\ Connect(Exited(r, "Connecting"))
  <2> DEFINE x == Exited(r, "Connecting")
  <2>1. Same(r, x)
    BY <1>2, Leaves
  <2>2. x \in Connection /\ Overtaken(x) /\ x.activity = "events"
    BY <1>1, <1>2, <2>1 DEF Same, Overtaken, CutAfter
  <2> HIDE DEF x
  <2>3. Connect(x)
    BY <1>5 DEF x
  <2> QED
    BY <2>2, <2>3, ConnectStep DEF ConnectorInv
<1>6. ASSUME NEW t \in Transitions, t[1] = rc.state, t[2] = h, t[3] # "Connecting",
             rc' = Moved(r, t[3])
      PROVE  rc' \in Connection /\ Overtaken(rc') /\ Ending(rc')
  <2>1. /\ t[3] \in States
        /\ t[3] \in Active => rc.state \in Active /\ h \notin Cut
        /\ t[3] \in Active /\ rc.state = "Connecting" => h = "connected"
    BY <1>6, TransitionTypes
  <2>2. MovesTo(r, rc', t[3])
    BY <1>2, <1>6, <2>1, MovedShape
  <2>3. CASE t[3] \in Active
    <3>1. /\ rc' \in Connection /\ rc'.state = t[3] /\ rc'.events = r.events
          /\ rc'.socket = "none" => rc.socket = "none"
      BY <1>2, <2>2, <2>3 DEF MovesTo
    <3>2. Overtaken(rc')
      BY <1>2, <3>1 DEF Overtaken, CutAfter
    <3>3. rc.socket = "none" => CutAfter(r, 0)
      <4> SUFFICES ASSUME rc.socket = "none"
                   PROVE  CutAfter(r, 0)
        OBVIOUS
      <4>1. CutAfter(rc, 0) \/ rc.state = "Connecting"
        BY <1>1, <1>4, <2>1, <2>3 DEF Ending
      <4> QED
        BY <1>2, <2>1, <2>3, <4>1
    <3>4. Ending(rc')
      BY <3>1, <3>3 DEF Ending, CutAfter
    <3> QED
      BY <3>1, <3>2, <3>4
  <2>4. CASE t[3] \notin Active
    <3>1. /\ rc' \in Connection /\ rc'.state = t[3]
          /\ \/ rc'.events = Append(r.events, "disconnected")
             \/ rc'.events = r.events /\ (rc'.socket = "none" => r.socket = "none")
      BY <2>2 DEF MovesTo
    <3>2. Ending(rc')
      BY <2>4, <3>1 DEF Ending
    <3>3. Overtaken(rc')
      <4>1. CASE rc'.events = r.events /\ (rc'.socket = "none" => r.socket = "none")
        BY <1>2, <4>1 DEF Overtaken, CutAfter
      <4>2. CASE rc'.events = Append(r.events, "disconnected")
        <5>1. "disconnected" \in Events /\ "disconnected" \in Cut
          BY DEF Events, Cut
        <5>2. /\ Len(r.events) \in Nat /\ Len(rc'.events) = Len(r.events) + 1
              /\ rc'.events[Len(r.events) + 1] = "disconnected"
          BY <1>2, <3>1, <4>2, <5>1, Longer
        <5>3. \A k \in 1..Len(rc'.events) : rc'.events[k] = "connected" =>
                k < Len(r.events) + 1 /\ Len(r.events) + 1 \in 1..Len(rc'.events)
          BY <5>2
        <5> QED
          BY <5>1, <5>2, <5>3 DEF Overtaken, CutAfter
      <4> QED
        BY <3>1, <4>1, <4>2
    <3> QED
      BY <3>1, <3>2, <3>3
  <2> QED
    BY <2>3, <2>4
<1>7. ASSUME to = {}, rc' = r
      PROVE  rc' \in Connection /\ Overtaken(rc') /\ Ending(rc')
  <2>1. \A t \in Transitions : ~(t[1] = rc.state /\ t[2] = h)
    BY <1>7
  <2>2. rc.state \in Active => h \notin Cut
    <3> SUFFICES ASSUME rc.state \in Active, h \in Cut
                 PROVE  FALSE
      OBVIOUS
    <3>1. PICK u \in States \ Active : <<rc.state, h, u>> \in Transitions
      BY CutsAreHandled
    <3> HIDE DEF h
    <3> QED
      BY <2>1, <3>1
  <2>3. rc.state = "Connecting" => h # "noConnect"
    <3>1. <<"Connecting", "noConnect", "Disconnected">> \in Transitions
      BY DEF Transitions
    <3> QED
      BY <2>1, <3>1
  <2>4. Ending(r)
    BY <1>1, <1>2, <1>4, <2>2, <2>3 DEF Ending
  <2> QED
    BY <1>2, <1>7, <2>4
<1>8. wire \in Seq(Messages) /\ alive \in BOOLEAN
  BY DEF ConnectorInv, TypeOK
<1> QED
  BY <1>3, <1>5, <1>6, <1>7, <1>8

--------------------------------------------------------------------------------
(* Steps outside the machine.                                                *)

Good(r) == r \in Connection /\ Overtaken(r) /\ Ending(r)

\* A slot that submits nothing.
Quiet(r, n) ==
  /\ n \in Connection /\ n.events = r.events
  /\ n.activity = r.activity \/ r.activity # "events"
  /\ n.state = r.state \/ n.state \notin Active
  /\ r.closing => n.closing
  /\ n.socket = "none" => r.socket = "none"

LEMMA QuietIsGood ==
  ASSUME NEW r, NEW n, Good(r), Quiet(r, n)
  PROVE  Good(n)
  BY SlotKeeps DEF Good, Quiet

LEMMA SubmittedIsGood ==
  ASSUME NEW r, Good(r), NEW e \in Events, e = "connected" => r.socket # "none"
  PROVE  Good(submitEventSync(r, e))
<1> DEFINE n == submitEventSync(r, e)
<1>1. /\ n \in Connection /\ n.events = Append(r.events, e)
      /\ n.state = r.state /\ n.socket = r.socket /\ n.activity = r.activity
      /\ n.closing = r.closing
  BY Submitted DEF Good
<1> HIDE DEF n
<1>2. Overtaken(n) /\ Ending(n)
  BY <1>1, SlotKeeps DEF Good
<1>3. Good(n)
  BY <1>1, <1>2 DEF Good
<1> QED
  BY <1>3 DEF n

LEMMA EndedIsGood ==
  ASSUME NEW r, NEW n, Good(r), Ends(r, n)
  PROVE  Good(n)
<1>1. "disconnected" \in Events /\ "disconnected" \in Cut
  BY DEF Events, Cut
<1> QED
  BY <1>1, SlotKeeps DEF Good, Ends

LEMMA EventNames ==
  /\ {"reconnect", "basicError", "fatalError", "account", "close", "awaitLogin",
      "awaitGranted", "awaitRegister", "connected"} \subseteq Events
  BY DEF Events

LEMMA RemoteIsGood ==
  ASSUME NEW r, Good(r), NEW engine \in {"Initializing", "Disconnected", "Ready", "Error"}
  PROVE  Good(remoteEvent(r, engine))
  BY Remote, QuietIsGood DEF Quiet, Good

LEMMA ErrorIsGood ==
  ASSUME NEW r, Good(r)
  PROVE  Good(controllerError(r))
<1> DEFINE n == [r EXCEPT !.engine = "Error"]
<1>1. Quiet(r, n)
  BY DEF Quiet, Good, Connection
<1>2. controllerError(r) = submitEventSync(n, "fatalError")
  BY DEF controllerError
<1> HIDE DEF n
<1> QED
  BY <1>1, <1>2, QuietIsGood, SubmittedIsGood, EventNames

\* A posted call is taken from the event loop.
LEMMA ReturnedIsGood ==
  ASSUME NEW r, Good(r), r.posted # << >>
  PROVE  /\ Good(Returned(r))
         /\ Returned(r).socket = r.socket /\ Returned(r).state = r.state
<1> DEFINE posted == Tail(r.posted)
           n == [r EXCEPT !.posted = posted]
<1>1. posted \in Seq({"process", "ready", "disconnected", "tryClose"} \cup AllCalls)
  BY DEF Good, Connection
<1>2. Returned(r) = n
  BY DEF Returned
<1> HIDE DEF posted
<1>3. Quiet(r, n) /\ n.socket = r.socket /\ n.state = r.state
  BY <1>1 DEF Quiet, Good, Connection
<1> HIDE DEF n
<1> QED
  BY <1>2, <1>3, QuietIsGood

\* More calls are posted.
LEMMA PostedIsGood ==
  ASSUME NEW r, Good(r),
         NEW calls \in Seq({"process", "ready", "disconnected", "tryClose"} \cup AllCalls)
  PROVE  /\ Good([r EXCEPT !.posted = r.posted \o calls])
         /\ r.state # "Final" /\ r.socket # "none" =>
              Good([r EXCEPT !.socket = "unconnected", !.ping = "off", !.posted = r.posted \o calls])
<1> DEFINE posted == r.posted \o calls
<1>1. posted \in Seq({"process", "ready", "disconnected", "tryClose"} \cup AllCalls)
  BY DEF Good, Connection
<1> HIDE DEF posted
<1>2. Quiet(r, [r EXCEPT !.posted = posted])
  BY <1>1 DEF Quiet, Good, Connection
<1>3. Quiet(r, [r EXCEPT !.socket = "unconnected", !.ping = "off", !.posted = posted])
  BY <1>1 DEF Quiet, Good, Connection
<1> QED
  BY <1>2, <1>3, QuietIsGood DEF posted

Settings == [id : BOOLEAN, import : BOOLEAN, enabled : BOOLEAN]
Peers == {"silent", "identify", "waiting", "login", "register", "access", "ready",
          "remove", "refuse"}

LEMMA AlteredSettings ==
  ASSUME NEW s \in Settings, NEW v \in BOOLEAN
  PROVE  /\ [s EXCEPT !.id = v] \in Settings /\ [s EXCEPT !.enabled = v] \in Settings
         /\ \A w \in BOOLEAN : [s EXCEPT !.id = w, !.import = v] \in Settings
  BY DEF Settings

LEMMA MessageKeeps ==
  ASSUME NEW r, Good(r), NEW message \in [type : Messages, fresh : BOOLEAN],
         HandleMessage(r, message), settings \in Settings, peer \in Peers,
         history \in [refused : BOOLEAN, failed : BOOLEAN]
  PROVE  /\ Good(rc') /\ settings' \in Settings /\ peer' \in Peers
         /\ history' \in [refused : BOOLEAN, failed : BOOLEAN]
<1>1. history' \in [refused : BOOLEAN, failed : BOOLEAN]
  BY DEF HandleMessage
<1>2. r \in Connection
  BY DEF Good
<1> DEFINE known == [r EXCEPT !.id = TRUE]
           lost == [r EXCEPT !.id = FALSE]
<1>3. Good(known) /\ Good(lost)
  <2>1. Quiet(r, known) /\ Quiet(r, lost)
    BY <1>2 DEF Quiet, Connection
  <2> HIDE DEF known, lost
  <2> QED
    BY <2>1, QuietIsGood
<1>4. \A op \in {"none", "op", "special"} : Good([r EXCEPT !.op = op])
  <2>1. \A op \in {"none", "op", "special"} : Quiet(r, [r EXCEPT !.op = op])
    BY <1>2 DEF Quiet, Connection
  <2> QED
    BY <2>1, QuietIsGood
<1>5. ASSUME onIdentify(r, message.fresh)
      PROVE  Good(rc') /\ settings' \in Settings /\ peer' \in Peers
  <2>1. PICK event \in {"awaitLogin", "awaitGranted", "awaitRegister"} : rc' = submitEventSync(r, event)
    BY <1>5 DEF onIdentify
  <2>2. peer' \in Peers /\ settings' \in Settings
    BY <1>5 DEF onIdentify, Send, Peers
  <2> QED
    BY <2>1, <2>2, SubmittedIsGood, EventNames
<1>6. ASSUME onWelcome(r)
      PROVE  Good(rc') /\ settings' \in Settings /\ peer' \in Peers
  BY <1>6, SubmittedIsGood, EventNames DEF onWelcome
<1>7. ASSUME onAccount(r) \/ onGrant(r)
      PROVE  Good(rc') /\ settings' \in Settings /\ peer' \in Peers
  <2>1. rc' = submitEventSync(known, "account") /\ UNCHANGED peer
    BY <1>7 DEF onAccount, onGrant
  <2>2. settings' \in Settings
    BY <1>7, AlteredSettings DEF onAccount, onGrant
  <2> HIDE DEF known
  <2> QED
    BY <1>3, <2>1, <2>2, SubmittedIsGood, EventNames
<1>8. ASSUME onChanged(r) \/ onLastChanged(r)
      PROVE  Good(rc') /\ settings' \in Settings /\ peer' \in Peers
  <2>1. PICK op \in {"none", "op", r.op} : rc' = remoteEvent([r EXCEPT !.op = op], "Ready")
    BY <1>8 DEF onChanged, onLastChanged
  <2>2. op \in {"none", "op", "special"}
    BY <1>2 DEF Connection
  <2>3. settings' \in Settings /\ peer' \in Peers
    BY <1>8 DEF onChanged, onLastChanged
  <2> QED
    BY <1>4, <2>1, <2>2, <2>3, RemoteIsGood
<1>9. ASSUME onRemoveAck(r)
      PROVE  Good(rc') /\ settings' \in Settings /\ peer' \in Peers
  <2>1. rc' = submitEventSync(lost, "reconnect") /\ UNCHANGED <<settings, peer>>
    BY <1>9 DEF onRemoveAck
  <2> HIDE DEF lost
  <2> QED
    BY <1>3, <2>1, SubmittedIsGood, EventNames
<1>10. ASSUME onError(r, message.type) \/ (rc' = Unexpected(r) /\ UNCHANGED <<settings, peer>>)
       PROVE  Good(rc') /\ settings' \in Settings /\ peer' \in Peers
  <2>1. Good(submitEventSync(r, "basicError")) /\ Good(submitEventSync(r, "fatalError"))
    BY SubmittedIsGood, EventNames
  <2>2. Good(controllerError(submitEventSync(r, "fatalError")))
    BY <2>1, ErrorIsGood
  <2>3. UNCHANGED <<settings, peer>>
    BY <1>10 DEF onError
  <2>4. \/ rc' = submitEventSync(r, "basicError")
        \/ rc' = controllerError(submitEventSync(r, "fatalError"))
    BY <1>10 DEF onError, Unexpected
  <2> QED
    BY <2>1, <2>2, <2>3, <2>4
<1> QED
  BY <1>1, <1>5, <1>6, <1>7, <1>8, <1>9, <1>10 DEF HandleMessage

\* What is left of the types besides the connector's.
Others ==
  /\ settings \in Settings /\ wire \in Seq(Messages) /\ peer \in Peers
  /\ alive \in BOOLEAN /\ history \in [refused : BOOLEAN, failed : BOOLEAN] /\ turns \in Nat

LEMMA Parts == ConnectorInv <=> Good(rc) /\ Others
  BY DEF ConnectorInv, Good, Others, TypeOK, Settings, Peers

LEMMA MachineKeeps ==
  ASSUME Good(rc), Others, Machine
  PROVE  Good(rc') /\ Others'
<1>1. ConnectorInv
  BY Parts
<1>2. CASE start
  <2> DEFINE r == [rc EXCEPT !.activity = "events"]
  <2>1. /\ r \in Connection /\ r.activity = "events"
        /\ r.events = rc.events /\ r.socket = rc.socket
    BY DEF Good, Connection
  <2>2. Connect(r) /\ UNCHANGED <<settings, history, turns>>
    BY <1>2 DEF start
  <2> HIDE DEF r
  <2>3. Overtaken(r)
    BY <2>1 DEF Good, Overtaken, CutAfter
  <2>4. /\ Good(rc') /\ wire' \in Seq(Messages)
        /\ peer' \in {"silent", peer} /\ alive' \in BOOLEAN
    BY <1>1, <2>1, <2>2, <2>3, ConnectStep DEF Good, ConnectorInv
  <2> QED
    BY <2>2, <2>4 DEF Others, Peers
<1>3. CASE CloseStep
  <2>1. PICK to \in {"Closing", "Final"} : rc' = Moved(rc, to)
    BY <1>3 DEF CloseStep, ClosingTransitions
  <2>2. to \in States \ Active
    BY DEF States, Active
  <2>3. MovesTo(rc, rc', to)
    BY <2>1, <2>2, MovedShape DEF Good
  <2>4. "disconnected" \in Events /\ "disconnected" \in Cut
    BY DEF Events, Cut
  <2>5. Good(rc')
    BY <2>2, <2>3, <2>4, SlotKeeps DEF Good, MovesTo
  <2> QED
    BY <1>3, <2>5 DEF CloseStep, Others
<1>4. CASE EventStep
  <2>1. /\ Good(rc') /\ wire' \in Seq(Messages)
        /\ peer' \in {"silent", peer} /\ alive' \in BOOLEAN
    BY <1>1, <1>4, EventKeeps DEF Good
  <2> QED
    BY <1>4, <2>1 DEF EventStep, Others, Peers
<1>5. CASE reachedStableState
  <2> DEFINE calls == Append(rc.posted, "ready")
             n == [rc EXCEPT !.activity = "none", !.posted = calls]
  <2>1. rc' = n /\ UNCHANGED <<settings, wire, peer, alive, history, turns>>
    BY <1>5 DEF reachedStableState
  <2>2. calls \in Seq({"process", "ready", "disconnected", "tryClose"} \cup AllCalls)
    BY DEF Good, Connection
  <2> HIDE DEF calls
  <2>3. /\ n \in Connection /\ n.state = rc.state /\ n.socket = rc.socket
        /\ n.events = rc.events /\ n.closing = rc.closing
    BY <2>2 DEF Good, Connection
  <2> HIDE DEF n
  <2>4. Overtaken(n)
    BY <2>3 DEF Good, Overtaken, CutAfter
  <2>5. rc.state \in Active => rc.events = << >> /\ ~rc.closing
    BY <1>5 DEF reachedStableState, Running, Eventless, Active
  <2>6. rc.events = << >> => 1..Len(rc.events) = {}
    OBVIOUS
  <2>7. Ending(n)
    BY <2>3, <2>5, <2>6 DEF Good, Ending, CutAfter
  <2> QED
    BY <2>1, <2>3, <2>4, <2>7 DEF Good, Others
<1>6. CASE processEvents
  <2> DEFINE calls == Tail(rc.posted)
             activity == IF Running THEN "events" ELSE rc.activity
             n == [rc EXCEPT !.posted = calls, !.activity = activity]
  <2>1. /\ rc' = n /\ UNCHANGED <<settings, wire, peer, alive, history, turns>>
        /\ rc.activity = "none" /\ rc.posted # << >>
    BY <1>6 DEF processEvents, Good, Connection
  <2>2. calls \in Seq({"process", "ready", "disconnected", "tryClose"} \cup AllCalls)
    BY <2>1 DEF Good, Connection
  <2>3. activity \in {"none", "events"}
    BY <2>1
  <2> HIDE DEF calls, activity
  <2>4. Quiet(rc, n)
    BY <2>1, <2>2, <2>3 DEF Quiet, Good, Connection
  <2> HIDE DEF n
  <2> QED
    BY <2>1, <2>4, QuietIsGood DEF Others
<1> QED
  BY <1>2, <1>3, <1>4, <1>5, <1>6 DEF Machine

LEMMA LoopKeeps ==
  ASSUME Good(rc), Others, Loop
  PROVE  Good(rc') /\ Others'
<1>1. CASE machineReady
  <2> DEFINE calls == Tail(rc.posted)
             n == [rc EXCEPT !.posted = calls, !.blocked = FALSE, !.activity = "buffer"]
  <2>1. /\ rc' = n /\ UNCHANGED <<settings, wire, peer, alive, history, turns>>
        /\ rc.activity = "none" /\ rc.posted # << >>
    BY <1>1 DEF machineReady
  <2>2. calls \in Seq({"process", "ready", "disconnected", "tryClose"} \cup AllCalls)
    BY <2>1 DEF Good, Connection
  <2> HIDE DEF calls
  <2>3. Quiet(rc, n)
    BY <2>1, <2>2 DEF Quiet, Good, Connection
  <2> HIDE DEF n
  <2> QED
    BY <2>1, <2>3, QuietIsGood DEF Others
<1>2. CASE Drained
  <2> DEFINE n == [rc EXCEPT !.activity = "none"]
  <2>1. /\ rc' = n /\ UNCHANGED <<settings, wire, peer, alive, history, turns>>
        /\ rc.activity = "buffer"
    BY <1>2 DEF Drained
  <2>2. Quiet(rc, n)
    BY <2>1 DEF Quiet, Good, Connection
  <2> HIDE DEF n
  <2> QED
    BY <2>1, <2>2, QuietIsGood DEF Others
<1>3. CASE HandleDisconnected \/ tryClose
  <2> DEFINE r == Returned(rc)
  <2>1. /\ rc.posted # << >> /\ UNCHANGED <<settings, peer, wire, alive, turns>>
        /\ history' = [history EXCEPT !.failed = @ \/ FALSE]
        /\ \/ rc' = disconnected(r)
           \/ rc' = [r EXCEPT !.socket = IF r.socket = "connected" THEN "closing" ELSE r.socket]
    BY <1>3 DEF HandleDisconnected, tryClose, Called
  <2>2. Good(r)
    BY <2>1, ReturnedIsGood
  <2> HIDE DEF r
  <2>3. Good(disconnected(r))
    BY <2>2, Disconnects, EndedIsGood DEF Good
  <2>4. Quiet(r, [r EXCEPT !.socket = IF r.socket = "connected" THEN "closing" ELSE r.socket])
    <3> DEFINE socket == IF r.socket = "connected" THEN "closing" ELSE r.socket
    <3>1. /\ socket \in {"none", "connecting", "connected", "closing", "unconnected"}
          /\ socket = "none" => r.socket = "none"
      BY <2>2 DEF Good, Connection
    <3> HIDE DEF socket
    <3>2. Quiet(r, [r EXCEPT !.socket = socket])
      BY <2>2, <3>1 DEF Quiet, Good, Connection
    <3> QED
      BY <3>2 DEF socket
  <2>5. Good(rc')
    BY <2>1, <2>2, <2>3, <2>4, QuietIsGood
  <2> QED
    BY <2>1, <2>5 DEF Others
<1> QED
  BY <1>1, <1>2, <1>3 DEF Loop

LEMMA CallKeeps ==
  ASSUME Good(rc), Others, Call
  PROVE  Good(rc') /\ Others'
<1> DEFINE r == Returned(rc)
<1>1. /\ rc.posted # << >> /\ UNCHANGED <<wire, alive, turns>>
      /\ history' \in [refused : BOOLEAN, failed : BOOLEAN]
  BY DEF Call, reconnect, setSyncEnabled, resetAccount, Fail, finalize, Called, Others
<1>2. Good(r) /\ r.socket = rc.socket
  BY <1>1, ReturnedIsGood
<1>3. ASSUME Good(rc'), settings' \in Settings, peer' \in Peers
      PROVE  Good(rc') /\ Others'
  BY <1>1, <1>3 DEF Others
<1>4. /\ Good(submitEventSync(r, "reconnect")) /\ Good(submitEventSync(r, "fatalError"))
      /\ Good(controllerError(r))
  BY <1>2, SubmittedIsGood, EventNames, ErrorIsGood
<1>5. settings \in Settings /\ peer \in Peers
  BY DEF Others
<1> DEFINE lost == [r EXCEPT !.id = FALSE]
           closing == [r EXCEPT !.closing = TRUE, !.ping = "off"]
<1> HIDE DEF r
<1>6. Good(submitEventSync(lost, "reconnect")) /\ Good(submitEventSync(closing, "close"))
  <2>1. Quiet(r, lost)
    BY <1>2 DEF Quiet, Good, Connection
  <2>2. /\ closing \in Connection /\ closing.state = r.state /\ closing.events = r.events
        /\ closing.socket = r.socket /\ closing.activity = r.activity /\ closing.closing
    BY <1>2 DEF Good, Connection
  <2> HIDE DEF lost, closing
  <2>3. Quiet(r, closing)
    BY <2>2 DEF Quiet
  <2>4. Good(lost) /\ Good(closing)
    BY <1>2, <2>1, <2>3, QuietIsGood
  <2> QED
    BY <2>4, SubmittedIsGood, EventNames
<1> HIDE DEF lost, closing
<1>7. CASE reconnect
  BY <1>3, <1>4, <1>5, <1>7 DEF reconnect, r
<1>8. CASE setSyncEnabled
  <2>1. /\ UNCHANGED peer
        /\ rc' \in {r, submitEventSync(r, "reconnect"), submitEventSync(r, "fatalError")}
    BY <1>8 DEF setSyncEnabled, r
  <2>2. settings' \in Settings
    BY <1>5, <1>8, AlteredSettings DEF setSyncEnabled
  <2> QED
    BY <1>2, <1>3, <1>4, <1>5, <2>1, <2>2
<1>9. CASE resetAccount
  <2>1. settings' \in Settings
    BY <1>5, <1>9, AlteredSettings DEF resetAccount
  <2>2. peer' \in Peers
    BY <1>5, <1>9 DEF resetAccount, Send, Peers
  <2>3. rc' \in {r, submitEventSync(lost, "reconnect")}
    BY <1>9 DEF resetAccount, r, lost
  <2> QED
    BY <1>2, <1>3, <1>6, <2>1, <2>2, <2>3
<1>10. CASE Fail
  BY <1>3, <1>4, <1>5, <1>10 DEF Fail, r
<1>11. CASE finalize
  <2>1. rc' \in {r, submitEventSync(closing, "close")} /\ UNCHANGED <<settings, peer>>
    BY <1>11 DEF finalize, r, closing
  <2> QED
    BY <1>2, <1>3, <1>5, <1>6, <2>1
<1> QED
  BY <1>7, <1>8, <1>9, <1>10, <1>11 DEF Call

LEMMA TimerKeeps ==
  ASSUME Good(rc), Others, Timer
  PROVE  Good(rc') /\ Others'
<1>1. UNCHANGED <<settings, wire, peer, alive, history>>
  BY DEF Timer, onTimeout, retry, PingTimeout, ping, Fires
<1>2. turns' \in Nat
  BY DEF Timer, onTimeout, retry, PingTimeout, ping, Turn, Others
<1>3. /\ \A op \in {"none", "op", "special"} : Good([rc EXCEPT !.op = op])
      /\ \A status \in {"on", "awaiting"} : Good([rc EXCEPT !.ping = status])
      /\ rc.retries > 0 => Good([rc EXCEPT !.retries = rc.retries - 1])
  <2>1. \A op \in {"none", "op", "special"} : Quiet(rc, [rc EXCEPT !.op = op])
    BY DEF Quiet, Good, Connection
  <2>2. \A status \in {"on", "awaiting"} : Quiet(rc, [rc EXCEPT !.ping = status])
    BY DEF Quiet, Good, Connection
  <2>3. ASSUME rc.retries > 0
        PROVE  Quiet(rc, [rc EXCEPT !.retries = rc.retries - 1])
    <3>1. rc.retries - 1 \in Nat
      BY <2>3 DEF Good, Connection
    <3> QED
      BY <3>1 DEF Quiet, Good, Connection
  <2> QED
    BY <2>1, <2>2, <2>3, QuietIsGood
<1>4. CASE onTimeout
  <2>1. PICK e \in {"basicError", "reconnect"} : rc' = submitEventSync([rc EXCEPT !.op = "none"], e)
    BY <1>4 DEF onTimeout
  <2>2. Good([rc EXCEPT !.op = "none"])
    BY <1>3
  <2>3. Good(rc')
    BY <2>1, <2>2, SubmittedIsGood, EventNames
  <2> QED
    BY <1>1, <1>2, <2>3 DEF Others
<1>5. CASE retry
  <2> DEFINE r == [rc EXCEPT !.retries = rc.retries - 1]
  <2>1. rc' \in {r, submitEventSync(r, "reconnect")} /\ Good(r)
    BY <1>3, <1>5 DEF retry, Fires
  <2> HIDE DEF r
  <2>2. Good(rc')
    BY <2>1, SubmittedIsGood, EventNames
  <2> QED
    BY <1>1, <1>2, <2>2 DEF Others
<1>6. CASE ping \/ PingTimeout
  <2> DEFINE on == [rc EXCEPT !.ping = "on"]
             awaiting == [rc EXCEPT !.ping = "awaiting"]
  <2>1. rc' \in {awaiting, submitEventSync(on, "reconnect")}
    BY <1>6 DEF ping, PingTimeout
  <2>2. Good(awaiting) /\ Good(on)
    BY <1>3
  <2> HIDE DEF on, awaiting
  <2>3. Good(rc')
    BY <2>1, <2>2, SubmittedIsGood, EventNames
  <2> QED
    BY <1>1, <1>2, <2>3 DEF Others
<1> QED
  BY <1>4, <1>5, <1>6 DEF Timer

LEMMA ClosedKeeps ==
  ASSUME Good(rc), Others, SocketClosed \/ SocketFails
  PROVE  Good(rc') /\ Others'
<1>1. /\ rc.state # "Final" /\ rc.socket # "none"
      /\ UNCHANGED <<settings, alive, history>> /\ wire' = << >> /\ peer' = "silent"
      /\ turns' \in Nat
  BY DEF SocketClosed, SocketFails, Network, Running, Turn, Others
<1>2. PICK calls \in {<<"disconnected">>, <<"tryClose", "disconnected">>} :
        rc' = [rc EXCEPT !.socket = "unconnected", !.ping = "off", !.posted = rc.posted \o calls]
  <2>1. CASE SocketFails
    BY <2>1 DEF SocketFails
  <2>2. CASE SocketClosed
    <3>1. rc' = [rc EXCEPT !.socket = "unconnected", !.ping = "off",
                           !.posted = Append(rc.posted, "disconnected")]
      BY <2>2 DEF SocketClosed
    <3>2. rc.posted \in Seq({"process", "ready", "disconnected", "tryClose"} \cup AllCalls)
      BY DEF Good, Connection
    <3>3. Append(rc.posted, "disconnected") = rc.posted \o <<"disconnected">>
      BY <3>2, AppendIsConcat
    <3> QED
      BY <3>1, <3>3
  <2> QED
    BY <2>1, <2>2
<1>3. calls \in Seq({"process", "ready", "disconnected", "tryClose"} \cup AllCalls)
  <2>1. /\ <<"disconnected">> \in Seq({"disconnected", "tryClose"})
        /\ <<"tryClose", "disconnected">> \in Seq({"disconnected", "tryClose"})
    OBVIOUS
  <2>2. \A s \in Seq({"disconnected", "tryClose"}) :
          s \in Seq({"process", "ready", "disconnected", "tryClose"} \cup AllCalls)
    OBVIOUS
  <2> QED
    BY <2>1, <2>2
<1>4. Good(rc')
  BY <1>1, <1>2, <1>3, PostedIsGood
<1>5. wire' \in Seq(Messages) /\ peer' \in Peers
  BY <1>1 DEF Peers
<1> QED
  BY <1>1, <1>4, <1>5 DEF Others

LEMMA InputKeeps ==
  ASSUME Good(rc), Others, Input
  PROVE  Good(rc') /\ Others'
<1> DEFINE Message == [type : Messages, fresh : BOOLEAN]
<1>1. wire # << >> => Head(wire) \in Messages /\ Tail(wire) \in Seq(Messages)
  BY DEF Others
<1>2. wire # << >> => [type |-> Head(wire), fresh |-> TRUE] \in Message
  BY <1>1
<1>3. rc.buffer \in Seq(Message)
  BY DEF Good, Connection
<1>4. rc.buffer # << >> => Head(rc.buffer) \in Message /\ Tail(rc.buffer) \in Seq(Message)
  BY <1>3, HeadTailProperties
<1>5. \A buffer \in Seq(Message) : Good([rc EXCEPT !.buffer = buffer])
  <2>1. \A buffer \in Seq(Message) : Quiet(rc, [rc EXCEPT !.buffer = buffer])
    BY DEF Quiet, Good, Connection
  <2> QED
    BY <2>1, QuietIsGood
<1> HIDE DEF Message
<1>6. CASE BufferMessage
  <2> DEFINE message == [type |-> Head(wire), fresh |-> TRUE]
             buffer == Append(rc.buffer, message)
  <2>1. /\ wire # << >> /\ wire' = Tail(wire) /\ rc' = [rc EXCEPT !.buffer = buffer]
        /\ UNCHANGED <<settings, peer, alive, history, turns>>
    BY <1>6 DEF BufferMessage, Readable
  <2>2. message \in Message
    BY <1>2, <2>1
  <2> HIDE DEF message
  <2>3. buffer \in Seq(Message)
    BY <1>3, <2>2
  <2> HIDE DEF buffer
  <2>4. Good(rc')
    BY <1>5, <2>1, <2>3
  <2> QED
    BY <1>1, <2>1, <2>4 DEF Others
<1>7. CASE binaryMessageReceived
  <2>1. UNCHANGED <<alive, turns>>
    BY <1>7 DEF binaryMessageReceived
  <2>2. PICK r \in Connection, message \in Message :
          Good(r) /\ HandleMessage(r, message) /\ wire' \in Seq(Messages)
    <3>1. CASE rc.activity = "buffer"
      <4>1. /\ rc.buffer # << >> /\ wire' = wire
            /\ HandleMessage([rc EXCEPT !.buffer = Tail(rc.buffer)], Head(rc.buffer))
        BY <1>7, <3>1 DEF binaryMessageReceived
      <4>2. wire' \in Seq(Messages)
        BY <4>1 DEF Others
      <4>3. Good([rc EXCEPT !.buffer = Tail(rc.buffer)])
        BY <1>4, <1>5, <4>1
      <4>4. Head(rc.buffer) \in Message
        BY <1>4, <4>1
      <4> QED
        BY <4>1, <4>2, <4>3, <4>4 DEF Good
    <3>2. CASE rc.activity # "buffer"
      <4>1. /\ wire # << >> /\ wire' = Tail(wire)
            /\ HandleMessage(rc, [type |-> Head(wire), fresh |-> TRUE])
        BY <1>7, <3>2 DEF binaryMessageReceived, Readable
      <4>2. [type |-> Head(wire), fresh |-> TRUE] \in Message /\ wire' \in Seq(Messages)
        BY <1>1, <1>2, <4>1
      <4> QED
        BY <4>1, <4>2 DEF Good
    <3> QED
      BY <3>1, <3>2
  <2>3. /\ Good(rc') /\ settings' \in Settings /\ peer' \in Peers
        /\ history' \in [refused : BOOLEAN, failed : BOOLEAN]
    BY <2>2, MessageKeeps DEF Others, Message
  <2> QED
    BY <2>1, <2>2, <2>3 DEF Others
<1>8. CASE SocketConnected
  <2> DEFINE r == [rc EXCEPT !.socket = "connected", !.op = "none", !.ping = "on"]
  <2>1. /\ rc' = submitEventSync(r, "connected") /\ peer' = "identify"
        /\ UNCHANGED <<settings, wire, alive, history, turns>>
    BY <1>8 DEF SocketConnected, Network
  <2>2. Quiet(rc, r) /\ r.socket = "connected"
    BY DEF Quiet, Good, Connection
  <2> HIDE DEF r
  <2>3. Good(rc')
    BY <2>1, <2>2, QuietIsGood, SubmittedIsGood, EventNames
  <2>4. peer' \in Peers
    BY <2>1 DEF Peers
  <2> QED
    BY <2>1, <2>3, <2>4 DEF Others
<1>9. CASE SocketClosed
  BY <1>9, ClosedKeeps
<1>10. CASE ServerAnswers
  <2>1. /\ UNCHANGED <<rc, alive, turns, settings, history>>
        /\ peer' \in {"waiting", "ready", "silent"}
        /\ \/ \E type \in {"identify", "welcome", "account", "grant", "removeAck", "error"} :
                wire' = Append(wire, type)
           \/ wire' = wire \o <<"welcome", "changed">>
    BY <1>10 DEF ServerAnswers, Serves, Network
  <2>2. /\ \A type \in Messages : Append(wire, type) \in Seq(Messages)
        /\ wire \o <<"welcome", "changed">> \in Seq(Messages)
    BY DEF Others, Messages
  <2>3. wire' \in Seq(Messages) /\ peer' \in Peers
    BY <2>1, <2>2 DEF Messages, Peers
  <2> QED
    BY <2>1, <2>3 DEF Others
<1> QED
  BY <1>6, <1>7, <1>8, <1>9, <1>10 DEF Input

\* What is left: calls of other threads, faults, and the end of an engine that waited.
LEMMA RestKeeps ==
  ASSUME ConnectorAssumption, Good(rc), Others,
         PostCall \/ FinalizeTimeout \/ SocketError \/ LinkDies \/ ServerSends
  PROVE  Good(rc') /\ Others'
<1>1. CASE PostCall \/ SocketError
  <2>1. PICK call \in AllCalls \cup {"tryClose"} :
          rc' = [rc EXCEPT !.posted = Append(rc.posted, call)]
    BY <1>1, ConnectorAssumption DEF PostCall, SocketError, ConnectorAssumption
  <2> DEFINE Posts == {"process", "ready", "disconnected", "tryClose"} \cup AllCalls
  <2>2. rc.posted \in Seq(Posts) /\ call \in Posts
    BY DEF Good, Connection
  <2>5. Append(rc.posted, call) = rc.posted \o <<call>> /\ <<call>> \in Seq(Posts)
    BY <2>2, AppendIsConcat
  <2>3. Good(rc')
    BY <2>1, <2>5, PostedIsGood
  <2>4. /\ UNCHANGED <<settings, wire, peer, alive, history>> /\ turns' \in Nat
    BY <1>1 DEF PostCall, SocketError, Network, Turn, Others
  <2> QED
    BY <2>3, <2>4 DEF Others
<1>2. CASE FinalizeTimeout
  <2> DEFINE socket == IF rc.socket = "connected" THEN "closing" ELSE rc.socket
             n == [rc EXCEPT !.state = "Final", !.socket = socket]
  <2>1. /\ rc' = n /\ rc.activity = "none"
        /\ UNCHANGED <<settings, wire, peer, alive, history, turns>>
    BY <1>2 DEF FinalizeTimeout
  <2>2. /\ socket \in {"none", "connecting", "connected", "closing", "unconnected"}
        /\ socket = "none" => rc.socket = "none"
    BY DEF Good, Connection
  <2> HIDE DEF socket
  <2>3. "Final" \in States /\ "Final" \notin Active
    BY DEF States, Active
  <2>4. Quiet(rc, n)
    BY <2>2, <2>3 DEF Quiet, Good, Connection
  <2> HIDE DEF n
  <2> QED
    BY <2>1, <2>4, QuietIsGood DEF Others
<1>3. CASE LinkDies
  <2>1. /\ UNCHANGED <<rc, peer, settings, history>> /\ wire' = << >>
        /\ alive' = FALSE /\ turns' \in Nat
    BY <1>3 DEF LinkDies, Network, Turn, Others
  <2>2. alive' \in BOOLEAN
    BY <2>1
  <2>3. << >> \in Seq(Messages)
    OBVIOUS
  <2> QED
    BY <2>1, <2>2, <2>3 DEF Others
<1>4. CASE ServerSends
  <2>1. UNCHANGED <<rc, peer, alive, settings, history>>
    BY <1>4 DEF ServerSends, Serves, Network
  <2>2. turns' \in Nat
    BY <1>4 DEF ServerSends, Turn, Others
  <2>3. PICK type \in {"changed", "lastChanged", "error", "fatal"} : wire' = Append(wire, type)
    BY <1>4 DEF ServerSends
  <2>4. type \in Messages
    BY DEF Messages
  <2>5. wire' \in Seq(Messages)
    BY <2>3, <2>4 DEF Others
  <2> QED
    BY <2>1, <2>2, <2>5 DEF Others
<1> QED
  BY <1>1, <1>2, <1>3, <1>4

--------------------------------------------------------------------------------
(* The theorems.                                                             *)

LEMMA InitEstablishes == ASSUME ConnectorAssumption, Init PROVE ConnectorInv
<1>1. /\ rc.events = << >> /\ rc.state = "Stopped" /\ "Stopped" \notin Active
  BY DEF Init, Active
<1>2. Overtaken(rc) /\ Ending(rc)
  BY <1>1 DEF Overtaken, Ending
<1>3. rc \in Connection
  BY ConnectorAssumption DEF Init, Connection, States, ConnectorAssumption
<1>4. /\ settings \in [id : BOOLEAN, import : BOOLEAN, enabled : BOOLEAN]
      /\ history \in [refused : BOOLEAN, failed : BOOLEAN]
  BY DEF Init
<1>5. wire \in Seq(Messages) /\ alive \in BOOLEAN /\ turns \in Nat /\ peer = "silent"
  BY DEF Init
<1>6. TypeOK
  BY <1>3, <1>4, <1>5 DEF TypeOK
<1> QED
  BY <1>2, <1>6 DEF ConnectorInv

LEMMA NextKeeps ==
  ASSUME ConnectorAssumption, ConnectorInv, [Next]_vars
  PROVE  ConnectorInv'
<1>1. Good(rc) /\ Others
  BY Parts
<1>2. ASSUME Good(rc'), Others'
      PROVE  ConnectorInv'
  BY <1>2 DEF ConnectorInv, Good, Others, TypeOK, Settings, Peers
<1>3. CASE UNCHANGED vars
  BY <1>1, <1>2, <1>3 DEF vars, Others
<1>4. CASE Next
  BY <1>1, <1>2, <1>4, MachineKeeps, LoopKeeps, CallKeeps, TimerKeeps, InputKeeps,
     ClosedKeeps, RestKeeps DEF Next
<1> QED
  BY <1>3, <1>4

LEMMA Invariance == Spec => []ConnectorInv
<1> USE ConnectorAssumption
<1> QED
  BY InitEstablishes, NextKeeps, PTL DEF Spec

\* Whatever the network, the server, the timers and other threads do, the
\* connector's queues hold only events, calls and messages there are slots for.
THEOREM ConnectorTyping == Spec => []TypeOK
<1>1. ConnectorInv => TypeOK
  BY DEF ConnectorInv
<1> QED
  BY <1>1, Invariance, PTL

\* disconnected() gives the socket up before the machine knows: whenever control
\* is back in the event loop and an active machine has no socket, an event that
\* leaves every active state is waiting, so no loss of a connection goes unnoticed.
THEOREM LossStaysAnnounced == Spec => []LossIsAnnounced
<1>1. ASSUME ConnectorInv
      PROVE  LossIsAnnounced
  <2>1. SUFFICES ASSUME rc.activity = "none", rc.state \in Active, rc.socket = "none"
                 PROVE  \E k \in 1..Len(rc.events) : rc.events[k] \in Cut
    BY DEF LossIsAnnounced, Cut
  <2>2. CutAfter(rc, 0)
    BY <1>1, <2>1 DEF ConnectorInv, Ending
  <2> QED
    BY <2>2 DEF CutAfter
<1> QED
  BY <1>1, Invariance, PTL

--------------------------------------------------------------------------------
(* What a message may find.  Between two turns of the machine, the events, the *)
(* buffer and the messages on the wire fit together: this is the invariant     *)
(* that makes buffering work.                                                  *)

Has(s, X) == \E k \in 1..Len(s) : s[k] \in X
Before(s, X, Y) == \E k, l \in 1..Len(s) : k < l /\ s[k] \in X /\ s[l] \in Y

\* Buffered messages of some types, all of them or those of the present socket.
Any(X) == [type : X, fresh : BOOLEAN]
Fresh(X) == [type : X, fresh : {TRUE}]
Stale(X) == [type : X, fresh : {FALSE}]

Attempts == {"Registering", "LoggingIn", "Granting"}
Requests == {"register", "login", "access"}
Openings == {"account", "welcome", "grant"}
Awaits == {"awaitRegister", "awaitLogin", "awaitGranted"}
Errors == {"reconnect", "basicError", "fatalError"}

\* What belongs together: a request, its event, its state and its answer.
Attempt(p) == IF p = "login" THEN "LoggingIn" ELSE IF p = "register" THEN "Registering" ELSE "Granting"
Await(p) == IF p = "login" THEN "awaitLogin" ELSE IF p = "register" THEN "awaitRegister" ELSE "awaitGranted"
Opening(s) == IF s = "LoggingIn" THEN "welcome" ELSE IF s = "Registering" THEN "account" ELSE "grant"
Request(id, import) == IF id THEN "login" ELSE IF import THEN "access" ELSE "register"

\* The server has answered the login: on the wire, in the buffer, or handled.
Served(w, p) == p \in {"ready", "remove"} \/ Has(w, Answers)
Answered(r, w, p) == Served(w, p) \/ Has(r.buffer, Fresh(Answers))
Late(r, w, p) ==
  \/ Answered(r, w, p)
  \/ r.state \in Attempts /\ Has(r.buffer, Stale(Answers))
  \/ Has(r.events, {"account"})
  \/ r.state = "Idle"

\* The machine exists and does not run.
Awake(r) == r.state \notin {"Stopped", "Final"} /\ r.activity # "events"

\* The machine will run for every event, and unblock afterwards.
Scheduled(r) ==
  /\ Awake(r) => /\ r.events # << >> => Has(r.posted, {"process"})
                 /\ r.blocked => Has(r.posted, {"process"}) \/ Has(r.posted, {"ready"})
  /\ r.buffer # << >> => (r.blocked \/ r.activity = "buffer") /\ r.state # "Stopped"

\* A new socket has brought nothing yet.
Sockets(r, w, p) ==
  /\ r.socket \in {"none", "connecting"} => ~Has(r.buffer, Fresh(Messages))
  /\ r.socket \in {"connecting", "unconnected"} => p = "silent" /\ w = << >>
  /\ Served(w, p) => r.socket \in {"connected", "closing"} /\ ~Has(r.posted, {"disconnected"})

\* Once the server has answered, the handshake is over.
Settled(r, w, p) ==
  Late(r, w, p) =>
    /\ ~Has(r.events, {"connected"}) /\ ~Has(r.events, Awaits)
    /\ ~Has(r.buffer, Any({"identify"})) /\ ~Has(w, {"identify"})
    /\ p \in {"silent", "ready", "remove"}
    /\ r.state # "Connected"

\* The answers of an earlier connection are met before the next handshake.
Queued(r) ==
  /\ Has(r.buffer, Any(Answers)) => ~Has(r.events, Awaits)
  /\ ~Before(r.buffer, Any({"identify"}), Any(Answers))
  /\ r.state \in Attempts \cup {"Idle"} /\ Has(r.buffer, Stale(Answers)) => r.socket = "none"

\* The first answer is handled once, and nothing like it follows.
Opened(r, w) ==
  /\ Has(r.events, {"account"}) /\ Awake(r) => r.state \in Attempts
  /\ r.socket = "connecting" => r.state # "Idle"
  /\ r.socket = "connecting" /\ Has(r.events, {"account"}) => r.state \notin Attempts
  /\ Has(r.events, {"account"}) \/ r.state = "Idle" =>
       /\ ~Has(w, Openings) /\ ~Has(r.buffer, Fresh(Openings))
       /\ r.socket = "connected" => ~Has(r.posted, {"disconnected"})

\* With an old socket, Connecting is left again in the same run.
Refusing(r, w, p) ==
  Answered(r, w, p) /\ r.state = "Connecting" =>
    r.activity = "events" /\ Has(r.events, {"noConnect"})

\* The machine awaits what the server has been asked for, or leaves.
Requested(r, p) ==
  r.socket = "connected" /\ p \in Requests =>
    /\ r.state \in Active
    /\ ~Has(r.events, {"noConnect"}) /\ ~Has(r.events, {"disconnected"})
    /\ \/ Has(r.events, Errors)
       \/ /\ ~Has(r.events, Awaits \ {Await(p)})
          /\ \/ r.state = Attempt(p)
             \/ r.state = "Connected" /\ Has(r.events, {Await(p)})
             \/ r.state = "Connecting" /\ Before(r.events, {"connected"}, {Await(p)})

\* What waits for the machine while it does not run.
Pending(r, import) ==
  /\ r.state = "Connecting" /\ r.socket = "connected" =>
       \/ Has(r.events, {"connected"})
       \/ r.activity = "events" /\ Has(r.events, {"noConnect"})
  /\ Awake(r) =>
       /\ ~Has(r.events, {"noConnect"})
       /\ Has(r.events, {"disconnected"}) => r.socket = "none"
       /\ Has(r.events, {"reconnect"}) \/ ~Has(r.events, Awaits \ {Await(Request(r.id, import))})

\* The machine will leave the state in which the first answer is awaited, and
\* before that nothing is unblocked.
Moving(r) == r.closing \/ Has(r.events, Cut) \/ Has(r.events, {"account"})

Awaiting(r, w, p, al) ==
  /\ ~Before(w, Answers, Openings)
  /\ Answered(r, w, p) /\ r.state \in Attempts =>
       /\ r.activity # "buffer" /\ ~Has(r.posted, {"ready"})
       /\ r.activity = "events" \/ r.blocked \/ Has(r.posted, {"process"}) => Moving(r)
       /\ ~r.blocked => \/ w = << >> /\ ~al
                        \/ /\ Has(w, {Opening(r.state)})
                           /\ ~Has(w, Openings \ {Opening(r.state)})

\* A socket brings one greeting, and no request is sent before it.
Greeted(r, w, p) ==
  /\ Has(w, {"identify"}) \/ Has(r.buffer, Fresh({"identify"})) => p \notin Requests \cup {"identify"}
  /\ ~Before(w, {"identify"}, {"identify"})
  /\ ~Before(r.buffer, Fresh({"identify"}), Fresh({"identify"}))
  /\ ~(Has(w, {"identify"}) /\ Has(r.buffer, Fresh({"identify"})))

Sound(r, w, p, import, al) ==
  /\ Scheduled(r) /\ Sockets(r, w, p) /\ Settled(r, w, p) /\ Queued(r) /\ Opened(r, w)
  /\ Refusing(r, w, p) /\ Requested(r, p) /\ Pending(r, import)
  /\ Awaiting(r, w, p, al) /\ Greeted(r, w, p)

MessagesInv == Sound(rc, wire, peer, settings.import, alive) /\ ~history.refused

--------------------------------------------------------------------------------
(* Sequences, by what they contain.                                          *)

LEMMA HasNone == \A X, Y : ~Has(<< >>, X) /\ ~Before(<< >>, X, Y)
  BY DEF Has, Before

LEMMA HasAppended ==
  ASSUME NEW S, NEW s \in Seq(S), NEW x \in S
  PROVE  /\ \A X : Has(Append(s, x), X) <=> Has(s, X) \/ x \in X
         /\ \A X, Y : Before(Append(s, x), X, Y) <=> Before(s, X, Y) \/ (Has(s, X) /\ x \in Y)
<1> DEFINE t == Append(s, x)
<1>1. /\ Len(s) \in Nat /\ Len(t) = Len(s) + 1
      /\ \A k \in 1..Len(s) : t[k] = s[k]
      /\ t[Len(s) + 1] = x
  OBVIOUS
<1> HIDE DEF t
<1>2. /\ \A k \in 1..Len(t) : k \in 1..Len(s) \/ k = Len(s) + 1
      /\ \A k \in 1..Len(s) : k \in 1..Len(t) /\ k < Len(s) + 1
      /\ Len(s) + 1 \in 1..Len(t)
  BY <1>1
<1>3. ASSUME NEW X
      PROVE  Has(t, X) <=> Has(s, X) \/ x \in X
  <2>1. ASSUME Has(t, X)
        PROVE  Has(s, X) \/ x \in X
    BY <1>1, <1>2, <2>1 DEF Has
  <2>2. Has(s, X) \/ x \in X => Has(t, X)
    BY <1>1, <1>2 DEF Has
  <2> QED
    BY <2>1, <2>2
<1>4. ASSUME NEW X, NEW Y
      PROVE  Before(t, X, Y) <=> Before(s, X, Y) \/ (Has(s, X) /\ x \in Y)
  <2>1. ASSUME Before(t, X, Y)
        PROVE  Before(s, X, Y) \/ (Has(s, X) /\ x \in Y)
    <3>1. PICK k \in 1..Len(t), l \in 1..Len(t) : k < l /\ t[k] \in X /\ t[l] \in Y
      BY <2>1 DEF Before
    <3>2. k \in 1..Len(s) /\ s[k] \in X
      BY <1>1, <3>1
    <3>3. CASE l \in 1..Len(s)
      BY <1>1, <3>1, <3>2, <3>3 DEF Before
    <3>4. CASE l = Len(s) + 1
      BY <1>1, <3>1, <3>2, <3>4 DEF Has
    <3> QED
      BY <1>2, <3>3, <3>4
  <2>2. Before(s, X, Y) => Before(t, X, Y)
    BY <1>1, <1>2 DEF Before
  <2>3. Has(s, X) /\ x \in Y => Before(t, X, Y)
    BY <1>1, <1>2 DEF Before, Has
  <2> QED
    BY <2>1, <2>2, <2>3
<1> QED
  BY <1>3, <1>4 DEF t

LEMMA HasHead ==
  ASSUME NEW S, NEW s \in Seq(S), s # << >>
  PROVE  /\ \A X : Has(s, X) <=> Head(s) \in X \/ Has(Tail(s), X)
         /\ \A X, Y : Before(s, X, Y) <=> (Head(s) \in X /\ Has(Tail(s), Y)) \/ Before(Tail(s), X, Y)
<1> DEFINE t == Tail(s)
<1>1. /\ Len(s) \in Nat \ {0} /\ Len(t) = Len(s) - 1 /\ Head(s) = s[1]
      /\ \A k \in 1..Len(t) : t[k] = s[k + 1]
  OBVIOUS
<1> HIDE DEF t
<1>2. /\ \A k \in 1..Len(s) : k = 1 \/ (k - 1 \in 1..Len(t) /\ t[k - 1] = s[k])
      /\ \A k \in 1..Len(t) : k + 1 \in 1..Len(s) /\ 1 < k + 1
      /\ 1 \in 1..Len(s)
  BY <1>1
<1>3. ASSUME NEW X
      PROVE  Has(s, X) <=> Head(s) \in X \/ Has(t, X)
  <2>1. ASSUME Has(s, X)
        PROVE  Head(s) \in X \/ Has(t, X)
    <3>1. PICK k \in 1..Len(s) : s[k] \in X
      BY <2>1 DEF Has
    <3> QED
      BY <1>1, <1>2, <3>1 DEF Has
  <2>2. Has(t, X) => Has(s, X)
    BY <1>1, <1>2 DEF Has
  <2>3. Head(s) \in X => Has(s, X)
    BY <1>1, <1>2 DEF Has
  <2> QED
    BY <2>1, <2>2, <2>3
<1>4. ASSUME NEW X, NEW Y
      PROVE  Before(s, X, Y) <=> (Head(s) \in X /\ Has(t, Y)) \/ Before(t, X, Y)
  <2>1. ASSUME Before(s, X, Y)
        PROVE  (Head(s) \in X /\ Has(t, Y)) \/ Before(t, X, Y)
    <3>1. PICK k \in 1..Len(s), l \in 1..Len(s) : k < l /\ s[k] \in X /\ s[l] \in Y
      BY <2>1 DEF Before
    <3>2. l - 1 \in 1..Len(t) /\ t[l - 1] \in Y
      BY <1>1, <1>2, <3>1
    <3>3. CASE k = 1
      BY <1>1, <3>1, <3>2, <3>3 DEF Has
    <3>4. CASE k # 1
      <4>1. k - 1 \in 1..Len(t) /\ t[k - 1] \in X /\ k - 1 < l - 1
        BY <1>1, <1>2, <3>1, <3>4
      <4> QED
        BY <3>2, <4>1 DEF Before
    <3> QED
      BY <3>3, <3>4
  <2>2. Before(t, X, Y) => Before(s, X, Y)
    <3> SUFFICES ASSUME Before(t, X, Y)
                 PROVE  Before(s, X, Y)
      OBVIOUS
    <3>1. PICK k \in 1..Len(t), l \in 1..Len(t) : k < l /\ t[k] \in X /\ t[l] \in Y
      BY DEF Before
    <3>2. k + 1 < l + 1 /\ s[k + 1] \in X /\ s[l + 1] \in Y
      BY <1>1, <3>1
    <3> QED
      BY <1>2, <3>2 DEF Before
  <2>3. Head(s) \in X /\ Has(t, Y) => Before(s, X, Y)
    <3> SUFFICES ASSUME Head(s) \in X, Has(t, Y)
                 PROVE  Before(s, X, Y)
      OBVIOUS
    <3>1. PICK k \in 1..Len(t) : t[k] \in Y
      BY DEF Has
    <3>2. 1 < k + 1 /\ s[1] \in X /\ s[k + 1] \in Y
      BY <1>1, <3>1
    <3> QED
      BY <1>2, <3>2 DEF Before
  <2> QED
    BY <2>1, <2>2, <2>3
<1> QED
  BY <1>3, <1>4 DEF t

\* Has distributes over the set that is looked for.
LEMMA HasSome ==
  ASSUME NEW s
  PROVE  /\ \A X, Y : X \subseteq Y /\ Has(s, X) => Has(s, Y)
         /\ \A X, Y : Has(s, X \cup Y) => Has(s, X) \/ Has(s, Y)
  BY DEF Has

LEMMA BufferKinds ==
  ASSUME NEW B \in Seq(Any(Messages)), NEW X \in SUBSET Messages
  PROVE  /\ Has(B, Any(X)) <=> Has(B, Fresh(X)) \/ Has(B, Stale(X))
         /\ B = << >> => ~Has(B, Any(X))
<1>1. Any(X) = Fresh(X) \cup Stale(X)
  BY DEF Any, Fresh, Stale
<1>2. Has(B, Fresh(X)) \/ Has(B, Stale(X)) <=> Has(B, Any(X))
  BY <1>1 DEF Has
<1> QED
  BY <1>2, HasNone

\* Giving a socket up makes its messages stale.
LEMMA HasForgotten ==
  ASSUME NEW r \in Connection
  PROVE  LET n == Forget(r) IN
         /\ n.posted = r.posted /\ n.blocked = r.blocked /\ n.id = r.id
         /\ n.buffer = << >> <=> r.buffer = << >>
         /\ \A X : ~Has(n.buffer, Fresh(X))
         /\ \A X \in SUBSET Messages : Has(n.buffer, Any(X)) <=> Has(r.buffer, Any(X))
         /\ \A X \in SUBSET Messages : Has(n.buffer, Stale(X)) <=> Has(r.buffer, Any(X))
         /\ \A X, Y : ~Before(n.buffer, Fresh(X), Fresh(Y))
         /\ \A X \in SUBSET Messages, Y \in SUBSET Messages :
              Before(n.buffer, Any(X), Any(Y)) <=> Before(r.buffer, Any(X), Any(Y))
<1> DEFINE n == Forget(r)
           b == [k \in DOMAIN r.buffer |-> [r.buffer[k] EXCEPT !.fresh = FALSE]]
<1>1. r.buffer \in Seq(Any(Messages))
  BY DEF Connection, Any
<1>2. /\ DOMAIN r.buffer = 1..Len(r.buffer) /\ Len(r.buffer) \in Nat
      /\ \A k \in 1..Len(r.buffer) : r.buffer[k] \in Any(Messages)
  BY <1>1
<1>3. n.buffer = b /\ n.posted = r.posted /\ n.blocked = r.blocked /\ n.id = r.id
  BY DEF Forget, Connection
<1>4. b = [k \in 1..Len(r.buffer) |-> [r.buffer[k] EXCEPT !.fresh = FALSE]]
  BY <1>2
<1>5. \A m \in Any(Messages) : LET f == [m EXCEPT !.fresh = FALSE] IN
        f \in Any(Messages) /\ f.type = m.type /\ f.fresh = FALSE
  BY DEF Any
<1> HIDE DEF b
<1>6. /\ \A k \in 1..Len(r.buffer) :
           b[k] \in Any(Messages) /\ b[k].type = r.buffer[k].type /\ b[k].fresh = FALSE
  BY <1>2, <1>4, <1>5
<1>7. b \in [1..Len(r.buffer) -> Any(Messages)]
  BY <1>4, <1>6
<1>8. \A l \in Nat : \A s \in [1..l -> Any(Messages)] : s \in Seq(Any(Messages)) /\ Len(s) = l
  OBVIOUS
<1>9. b \in Seq(Any(Messages)) /\ Len(b) = Len(r.buffer)
  BY <1>2, <1>7, <1>8
<1>10. /\ \A m \in Any(Messages), X \in SUBSET Messages : m \in Any(X) <=> m.type \in X
       /\ \A m \in Any(Messages), X \in SUBSET Messages : m.fresh = FALSE => (m \in Stale(X) <=> m.type \in X)
       /\ \A m \in Any(Messages) : \A X : m \in Fresh(X) => m.fresh
  BY DEF Any, Stale, Fresh
<1>11. /\ \A k \in 1..Len(r.buffer), X \in SUBSET Messages :
            (b[k] \in Any(X) <=> r.buffer[k] \in Any(X)) /\ (b[k] \in Stale(X) <=> r.buffer[k] \in Any(X))
       /\ \A k \in 1..Len(r.buffer) : \A X : b[k] \notin Fresh(X)
  BY <1>2, <1>6, <1>10
<1>12. n.buffer = << >> <=> r.buffer = << >>
  BY <1>1, <1>3, <1>9
<1> HIDE DEF n
<1>13. /\ \A X : ~Has(b, Fresh(X))
       /\ \A X \in SUBSET Messages : Has(b, Any(X)) <=> Has(r.buffer, Any(X))
       /\ \A X \in SUBSET Messages : Has(b, Stale(X)) <=> Has(r.buffer, Any(X))
  BY <1>9, <1>11 DEF Has
<1>14. /\ \A X, Y : ~Before(b, Fresh(X), Fresh(Y))
       /\ \A X \in SUBSET Messages, Y \in SUBSET Messages :
            Before(b, Any(X), Any(Y)) <=> Before(r.buffer, Any(X), Any(Y))
  BY <1>9, <1>11 DEF Before
<1> QED
  BY <1>3, <1>12, <1>13, <1>14 DEF n

--------------------------------------------------------------------------------
(* What the slots do to the queues.                                          *)

\* n differs from r by nothing that messages may find.
Alike(r, n) ==
  /\ n \in Connection
  /\ n.state = r.state /\ n.closing = r.closing /\ n.events = r.events /\ n.posted = r.posted
  /\ n.activity = r.activity /\ n.blocked = r.blocked /\ n.buffer = r.buffer
  /\ n.socket = r.socket /\ n.id = r.id

\* n is r after an event was submitted.
Plus(r, n, e) ==
  /\ n \in Connection
  /\ n.state = r.state /\ n.closing = r.closing /\ n.activity = r.activity
  /\ n.buffer = r.buffer /\ n.socket = r.socket /\ n.id = r.id
  /\ n.blocked /\ n.events # << >>
  /\ \A X : Has(n.events, X) <=> Has(r.events, X) \/ e \in X
  /\ \A X, Y : Before(n.events, X, Y) <=> Before(r.events, X, Y) \/ (Has(r.events, X) /\ e \in Y)
  /\ r.activity = "events" => n.posted = r.posted
  /\ r.activity # "events" => \A X : Has(n.posted, X) <=> Has(r.posted, X) \/ "process" \in X

LEMMA SubmittedPlus ==
  ASSUME NEW r \in Connection, NEW e \in Events
  PROVE  Plus(r, submitEventSync(r, e), e)
<1> DEFINE n == submitEventSync(r, e)
           Posts == {"process", "ready", "disconnected", "tryClose"} \cup AllCalls
<1>1. /\ n \in Connection /\ n.events = Append(r.events, e)
      /\ n.state = r.state /\ n.socket = r.socket /\ n.activity = r.activity
      /\ n.closing = r.closing
  BY Submitted
<1>2. /\ n.blocked = TRUE /\ n.buffer = r.buffer /\ n.id = r.id
      /\ n.posted = IF r.activity = "events" THEN r.posted ELSE Append(r.posted, "process")
  BY DEF submitEventSync, Connection
<1>3. r.events \in Seq(Events) /\ r.posted \in Seq(Posts) /\ "process" \in Posts
  BY DEF Connection
<1> HIDE DEF n, Posts
<1>4. /\ \A X : Has(n.events, X) <=> Has(r.events, X) \/ e \in X
      /\ \A X, Y : Before(n.events, X, Y) <=> Before(r.events, X, Y) \/ (Has(r.events, X) /\ e \in Y)
  BY <1>1, <1>3, HasAppended
<1>5. r.activity # "events" => \A X : Has(n.posted, X) <=> Has(r.posted, X) \/ "process" \in X
  BY <1>2, <1>3, HasAppended
<1>6. n.events # << >>
  <2>1. Has(n.events, {e})
    BY <1>4
  <2> QED
    BY <2>1, HasNone
<1> QED
  BY <1>1, <1>2, <1>4, <1>5, <1>6 DEF Plus, n

LEMMA RemoteAlike ==
  ASSUME NEW r \in Connection, NEW engine \in {"Initializing", "Disconnected", "Ready", "Error"}
  PROVE  Alike(r, remoteEvent(r, engine))
<1>1. Alike(r, [r EXCEPT !.engine = engine]) /\ Alike(r, r)
  BY DEF Alike, Connection
<1>2. remoteEvent(r, engine) = r \/ remoteEvent(r, engine) = [r EXCEPT !.engine = engine]
  BY DEF remoteEvent
<1> QED
  BY <1>1, <1>2

LEMMA OperationAlike ==
  ASSUME NEW r \in Connection
  PROVE  /\ \A op \in {"none", "op", "special"} : Alike(r, [r EXCEPT !.op = op])
         /\ \A status \in {"off", "on", "awaiting"} : Alike(r, [r EXCEPT !.ping = status])
         /\ \A m \in Nat : Alike(r, [r EXCEPT !.retries = m])
<1>1. \A op \in {"none", "op", "special"} : Alike(r, [r EXCEPT !.op = op])
  BY DEF Alike, Connection
<1>2. \A status \in {"off", "on", "awaiting"} : Alike(r, [r EXCEPT !.ping = status])
  BY DEF Alike, Connection
<1>3. \A m \in Nat : Alike(r, [r EXCEPT !.retries = m])
  BY DEF Alike, Connection
<1> QED
  BY <1>1, <1>2, <1>3

\* t holds no more than s, in the same order.
Within(t, s) ==
  /\ s = << >> => t = << >>
  /\ \A X : Has(t, X) => Has(s, X)
  /\ \A X, Y : Before(t, X, Y) => Before(s, X, Y)

LEMMA WithinItself == \A s : Within(s, s)
  BY DEF Within

LEMMA TailWithin ==
  ASSUME NEW S, NEW s \in Seq(S), s # << >>
  PROVE  Within(Tail(s), s)
  BY HasHead DEF Within

\* A step that submits nothing, and at most takes a message or a call.
LEMMA CalmIsSound ==
  ASSUME NEW r, NEW n, NEW w, NEW v, NEW p, NEW import, NEW al,
         Sound(r, w, p, import, al),
         n.state = r.state, n.closing = r.closing, n.events = r.events, n.activity = r.activity,
         n.blocked = r.blocked, n.socket = r.socket, n.id = r.id,
         \A x \in {"process", "ready", "disconnected"} : Has(n.posted, {x}) <=> Has(r.posted, {x}),
         Within(n.buffer, r.buffer), Within(v, w),
         v = w \/ r.state \notin Attempts
  PROVE  Sound(n, v, p, import, al)
<1> USE DEF Within
<1>0. /\ Awake(n) <=> Awake(r)
      /\ Served(v, p) => Served(w, p)
      /\ Answered(n, v, p) => Answered(r, w, p)
      /\ Late(n, v, p) => Late(r, w, p)
  BY DEF Awake, Served, Answered, Late
<1>1. Scheduled(n)
  BY <1>0 DEF Sound, Scheduled
<1>2. Sockets(n, v, p)
  BY <1>0 DEF Sound, Sockets
<1>3. Settled(n, v, p)
  BY <1>0 DEF Sound, Settled
<1>4. Queued(n)
  BY <1>0 DEF Sound, Queued
<1>5. Opened(n, v)
  BY <1>0 DEF Sound, Opened
<1>6. Refusing(n, v, p)
  BY <1>0 DEF Sound, Refusing
<1>7. Requested(n, p)
  BY <1>0 DEF Sound, Requested
<1>8. Pending(n, import)
  BY <1>0 DEF Sound, Pending
<1>9. Awaiting(n, v, p, al)
  BY <1>0 DEF Sound, Awaiting, Moving
<1>10. Greeted(n, v, p)
  BY <1>0 DEF Sound, Greeted
<1> QED
  BY <1>1, <1>2, <1>3, <1>4, <1>5, <1>6, <1>7, <1>8, <1>9, <1>10 DEF Sound

\* A step that submits an event that ends the connection, or closes.
LEMMA EndIsSound ==
  ASSUME NEW r, NEW n, NEW w, NEW v, NEW p, NEW import, NEW other, NEW al, NEW e,
         Sound(r, w, p, import, al), r.activity # "events",
         e \in Errors \cup {"close"},
         n.state = r.state, n.activity = r.activity, n.socket = r.socket, n.blocked,
         r.closing \/ e = "close" => n.closing,
         \A X : Has(n.events, X) <=> Has(r.events, X) \/ e \in X,
         \A X, Y : Before(n.events, X, Y) <=> Before(r.events, X, Y) \/ (Has(r.events, X) /\ e \in Y),
         Has(n.posted, {"process"}),
         \A x \in {"ready", "disconnected"} : Has(n.posted, {x}) => Has(r.posted, {x}),
         Within(n.buffer, r.buffer), Within(v, w),
         e = "reconnect" \/ (n.id = r.id /\ other = import)
  PROVE  Sound(n, v, p, other, al)
<1> USE DEF Within
<1>0. /\ Awake(n) <=> Awake(r)
      /\ Served(v, p) => Served(w, p)
      /\ Answered(n, v, p) => Answered(r, w, p)
      /\ \A X : e \notin X => (Has(n.events, X) <=> Has(r.events, X))
      /\ \A X : Has(r.events, X) => Has(n.events, X)
      /\ \A X : e \in X => Has(n.events, X)
  BY DEF Awake, Served, Answered
<1>a. /\ e \notin {"account"} /\ e \notin {"connected"} /\ e \notin {"noConnect"}
      /\ e \notin {"disconnected"} /\ e \notin Awaits
      /\ \A x : e \notin Awaits \ {x}
  BY DEF Errors, Awaits
<1>b. Late(n, v, p) => Late(r, w, p)
  BY <1>0, <1>a DEF Late
<1>1. Scheduled(n)
  BY <1>0 DEF Sound, Scheduled
<1>2. Sockets(n, v, p)
  BY <1>0 DEF Sound, Sockets
<1>3. Settled(n, v, p)
  BY <1>0, <1>a, <1>b DEF Sound, Settled
<1>4. Queued(n)
  BY <1>0, <1>a DEF Sound, Queued
<1>5. Opened(n, v)
  BY <1>0, <1>a DEF Sound, Opened
<1>6. Refusing(n, v, p)
  BY <1>0 DEF Sound, Refusing
<1>7. Requested(n, p)
  BY <1>0, <1>a DEF Sound, Requested
<1>8. Pending(n, other)
  BY <1>0, <1>a DEF Sound, Pending
<1>9. Awaiting(n, v, p, al)
  <2>1. Moving(n)
    BY <1>0 DEF Moving, Errors, Cut
  <2> QED
    BY <1>0, <2>1 DEF Sound, Awaiting
<1>10. Greeted(n, v, p)
  BY <1>0 DEF Sound, Greeted
<1> QED
  BY <1>1, <1>2, <1>3, <1>4, <1>5, <1>6, <1>7, <1>8, <1>9, <1>10 DEF Sound

--------------------------------------------------------------------------------
(* The machine runs.                                                         *)

\* c is the buffer b after the socket was given up.
Faded(b, c) ==
  /\ c = << >> <=> b = << >>
  /\ \A X : ~Has(c, Fresh(X))
  /\ \A X \in {Answers, {"identify"}} :
       /\ Has(c, Any(X)) <=> Has(b, Any(X))
       /\ Has(c, Stale(X)) <=> Has(b, Any(X))
  /\ Before(c, Any({"identify"}), Any(Answers)) <=> Before(b, Any({"identify"}), Any(Answers))
  /\ \A X, Y : ~Before(c, Fresh(X), Fresh(Y))

LEMMA ForgetFades ==
  ASSUME NEW r \in Connection
  PROVE  Faded(r.buffer, Forget(r).buffer)
<1>1. Answers \in SUBSET Messages /\ {"identify"} \in SUBSET Messages
  BY DEF Answers, Messages
<1> QED
  BY <1>1, HasForgotten DEF Faded

\* The machine's slots close the connection, or find that there is none.
Drops(r, n) ==
  /\ n \in Connection
  /\ n.state = r.state /\ n.closing = r.closing /\ n.activity = r.activity /\ n.id = r.id
  /\ n.blocked = r.blocked \/ n.blocked
  /\ \A X : Has(n.events, X) => Has(r.events, X) \/ "disconnected" \in X
  /\ r.activity = "events" => n.posted = r.posted
  /\ n.socket \in {"none", "closing"}
  /\ r.socket \in {"connected", "closing"} => n.socket = "closing"
  /\ \/ n.buffer = r.buffer /\ (n.socket = "none" => r.socket = "none")
     \/ Faded(r.buffer, n.buffer)

LEMMA DisconnectDrops ==
  ASSUME NEW r \in Connection
  PROVE  Drops(r, doDisconnect(r))
<1>1. "disconnected" \in Events
  BY DEF Events
<1>2. CASE r.socket = "none"
  <2>1. Plus(r, submitEventSync(r, "disconnected"), "disconnected")
    BY <1>1, SubmittedPlus
  <2> QED
    BY <1>2, <2>1 DEF doDisconnect, Plus, Drops
<1>3. CASE r.socket \in {"connecting", "unconnected"}
  <2> DEFINE f == Forget(r)
  <2>1. /\ f \in Connection /\ f.socket = "none"
        /\ f.state = r.state /\ f.events = r.events /\ f.activity = r.activity
        /\ f.closing = r.closing
    BY Forgotten
  <2>2. f.posted = r.posted /\ f.blocked = r.blocked /\ f.id = r.id
    BY HasForgotten
  <2>3. Faded(r.buffer, f.buffer)
    BY ForgetFades
  <2>4. doDisconnect(r) = submitEventSync(f, "disconnected")
    BY <1>3 DEF doDisconnect
  <2> HIDE DEF f
  <2>5. Plus(f, submitEventSync(f, "disconnected"), "disconnected")
    BY <1>1, <2>1, SubmittedPlus
  <2> QED
    BY <1>3, <2>1, <2>2, <2>3, <2>4, <2>5 DEF Plus, Drops
<1>4. CASE r.socket = "closing"
  BY <1>4 DEF doDisconnect, Drops
<1>5. CASE r.socket = "connected"
  <2> DEFINE n == [r EXCEPT !.socket = "closing", !.op = "special"]
  <2>1. doDisconnect(r) = n
    BY <1>5 DEF doDisconnect
  <2>2. Drops(r, n)
    BY <1>5 DEF Drops, Connection
  <2> QED
    BY <2>1, <2>2
<1>6. r.socket \in {"none", "connecting", "connected", "closing", "unconnected"}
  BY DEF Connection
<1> QED
  BY <1>2, <1>3, <1>4, <1>5, <1>6

\* Another state, and nothing else.
Turned(r, n, to) ==
  /\ n \in Connection /\ n.state = to
  /\ n.closing = r.closing /\ n.events = r.events /\ n.posted = r.posted
  /\ n.activity = r.activity /\ n.blocked = r.blocked /\ n.buffer = r.buffer
  /\ n.socket = r.socket /\ n.id = r.id

LEMMA LeavesAlike ==
  ASSUME NEW r \in Connection, NEW to
  PROVE  Alike(r, Exited(r, to))
<1> DEFINE n == [r EXCEPT !.op = "none"]
<1>1. Alike(r, n)
  BY OperationAlike
<1>2. onExitActiveState(r) = remoteEvent(n, "Disconnected")
  BY DEF onExitActiveState
<1> HIDE DEF n
<1>3. Alike(r, onExitActiveState(r))
  BY <1>1, <1>2, RemoteAlike DEF Alike
<1>4. Alike(r, r)
  BY DEF Alike
<1> QED
  BY <1>3, <1>4 DEF Exited

\* A transition closes the connection, or only leads to its target.
Closes(from, to) ==
  to \in {"BasicError", "FatalError", "Closing"} \/ (to = "Reconnecting" /\ from \in Active)

LEMMA MovedKinds ==
  ASSUME NEW r \in Connection, NEW to \in States
  PROVE  IF Closes(r.state, to)
         THEN \E s \in Connection : Turned(r, s, to) /\ Drops(s, Moved(r, to))
         ELSE Turned(r, Moved(r, to), to)
<1> DEFINE x == Exited(r, to)
           s == [x EXCEPT !.state = to]
           n == Moved(r, to)
<1>1. Alike(r, x)
  BY LeavesAlike
<1>2. n = Entered(x, r.state, to)
  BY DEF Moved
<1> HIDE DEF x
<1>3. Turned(r, s, to)
  BY <1>1 DEF Alike, Turned, Connection
<1>4. /\ Closes(r.state, to) => n = doDisconnect(s)
      /\ ~Closes(r.state, to) => n \in {s, scheduleRetry(s), onEntryIdleState(s)}
  <2> HIDE DEF n, s
  <2> QED
    BY <1>2 DEF Entered, Closes, s
<1> HIDE DEF s, n
<1>5. s \in Connection
  BY <1>3 DEF Turned
<1>6. Closes(r.state, to) => Drops(s, n)
  BY <1>4, <1>5, DisconnectDrops
<1>7. Alike(s, scheduleRetry(s))
  <2> DEFINE index == IF s.retryIndex < RetrySteps THEN s.retryIndex + 1 ELSE s.retryIndex
  <2>1. scheduleRetry(s) = [s EXCEPT !.retryIndex = index, !.retries = s.retries + 1]
    BY <1>5 DEF scheduleRetry, Connection
  <2>2. index \in 0..RetrySteps /\ s.retries + 1 \in Nat
    BY <1>5, ConnectorAssumption DEF Connection
  <2> HIDE DEF index
  <2> QED
    BY <1>5, <2>1, <2>2 DEF Alike, Connection
<1>8. Alike(s, onEntryIdleState(s))
  <2> DEFINE z == [s EXCEPT !.retryIndex = 0]
  <2>1. 0 \in 0..RetrySteps
    BY ConnectorAssumption
  <2>2. Alike(s, z)
    BY <1>5, <2>1 DEF Alike, Connection
  <2>3. onEntryIdleState(s) = remoteEvent(z, "Ready")
    BY DEF onEntryIdleState
  <2> HIDE DEF z
  <2> QED
    BY <2>2, <2>3, RemoteAlike DEF Alike
<1>9. Alike(s, s)
  BY <1>5 DEF Alike
<1>10. ~Closes(r.state, to) => Turned(r, n, to)
  BY <1>3, <1>4, <1>7, <1>8, <1>9 DEF Alike, Turned
<1> QED
  BY <1>3, <1>5, <1>6, <1>10 DEF n

\* An active state is left for good, or a state outside for another one.
LEMMA OutIsSound ==
  ASSUME NEW r, NEW n, NEW w, NEW p, NEW import, NEW al,
         Sound(r, w, p, import, al), r.activity = "events", n.activity = "events",
         n.state \notin Active \cup {"Stopped"},
         n.blocked = r.blocked \/ n.blocked, n.posted = r.posted,
         \A X : Has(n.events, X) => Has(r.events, X) \/ "disconnected" \in X,
         r.socket \in {"connected", "closing"} => n.socket \in {"connected", "closing"},
         n.socket \in {"connecting", "unconnected"} => r.socket = n.socket,
         n.socket = "connected" => r.socket = "connected" /\ p \notin Requests,
         \/ n.buffer = r.buffer /\ (n.socket \in {"none", "connecting"} => r.socket = n.socket)
         \/ Faded(r.buffer, n.buffer)
  PROVE  Sound(n, w, p, import, al)
<1>0. /\ ~Awake(n) /\ ~Awake(r)
      /\ n.state \notin Attempts \cup {"Idle", "Connecting", "Connected"}
      /\ \A X : "disconnected" \notin X => (Has(n.events, X) => Has(r.events, X))
      /\ \A X : Has(n.buffer, Fresh(X)) => Has(r.buffer, Fresh(X))
  BY DEF Awake, Active, Attempts, Faded
<1>1. Answered(n, w, p) => Answered(r, w, p)
  BY <1>0 DEF Answered
<1>2. Late(n, w, p) => Late(r, w, p)
  BY <1>0, <1>1 DEF Late
<1>3. /\ "disconnected" \notin Awaits /\ "disconnected" \notin {"account"}
      /\ "disconnected" \notin {"connected"}
  BY DEF Awaits
<1>4. \A X \in {Answers, {"identify"}} : Has(n.buffer, Any(X)) <=> Has(r.buffer, Any(X))
  BY DEF Faded
<1>5. Scheduled(n)
  BY <1>0 DEF Sound, Scheduled, Faded
<1>6. Sockets(n, w, p)
  BY <1>0 DEF Sound, Sockets, Faded
<1>7. Settled(n, w, p)
  BY <1>0, <1>2, <1>3, <1>4 DEF Sound, Settled
<1>8. Queued(n)
  BY <1>0, <1>3, <1>4 DEF Sound, Queued, Faded
<1>9. Opened(n, w)
  BY <1>0, <1>3 DEF Sound, Opened
<1>10. Refusing(n, w, p)
  BY <1>0 DEF Refusing
<1>11. Requested(n, p)
  BY DEF Requested
<1>12. Pending(n, import)
  BY <1>0 DEF Pending
<1>13. Awaiting(n, w, p, al)
  BY <1>0 DEF Sound, Awaiting
<1>14. Greeted(n, w, p)
  BY <1>0 DEF Sound, Greeted, Faded
<1> QED
  BY <1>5, <1>6, <1>7, <1>8, <1>9, <1>10, <1>11, <1>12, <1>13, <1>14 DEF Sound

\* The first event e is taken, t is what is left.
Taken(E, e, t) ==
  /\ \A X : Has(E, X) <=> e \in X \/ Has(t, X)
  /\ \A X, Y : Before(E, X, Y) <=> (e \in X /\ Has(t, Y)) \/ Before(t, X, Y)

\* A transition to a state in which a connection is used.
LEMMA InIsSound ==
  ASSUME NEW r, NEW n, NEW w, NEW p, NEW import, NEW al, NEW e,
         Sound(r, w, p, import, al), r.activity = "events",
         Taken(r.events, e, n.events),
         n.activity = r.activity, n.blocked = r.blocked, n.posted = r.posted,
         n.buffer = r.buffer, n.socket = r.socket, n.closing = r.closing,
         \/ r.state = "Connecting" /\ e = "connected" /\ n.state = "Connected"
         \/ r.state = "Connected" /\ \E q \in Requests : e = Await(q) /\ n.state = Attempt(q)
         \/ r.state \in Attempts /\ e = "account" /\ n.state = "Idle"
  PROVE  Sound(n, w, p, import, al)
<1>0. /\ ~Awake(n)
      /\ \A X : Has(n.events, X) => Has(r.events, X)
      /\ \A X : e \in X => Has(r.events, X)
      /\ \A X : e \notin X => (Has(r.events, X) <=> Has(n.events, X))
      /\ Answered(n, w, p) <=> Answered(r, w, p)
  BY DEF Awake, Taken, Answered
<1>a. /\ \A q \in Requests : Await(q) \in Awaits /\ Attempt(q) \in Attempts
      /\ \A s \in Attempts : s \notin {"Idle", "Connecting", "Connected", "Stopped"}
      /\ Attempts \subseteq Active /\ {"Connecting", "Connected", "Idle"} \subseteq Active
      /\ \A x \in Awaits \cup {"connected", "account"} : x \notin Errors
      /\ \A q \in Requests, x \in Requests : Await(q) = Await(x) => q = x
      /\ "connected" \notin Awaits /\ "account" \notin Awaits
      /\ \A x \in Awaits : x \notin {"connected", "account"}
  BY DEF Requests, Attempts, Awaits, Await, Attempt, Active, Errors
<1>1. CASE r.state = "Connecting" /\ e = "connected" /\ n.state = "Connected"
  <2>1. ~Late(r, w, p)
    BY <1>0, <1>1 DEF Sound, Settled
  <2>2. ~Late(n, w, p)
    BY <1>0, <1>1, <1>a, <2>1 DEF Late
  <2>3. ~Answered(n, w, p)
    BY <2>2 DEF Late
  <2>4. Scheduled(n) /\ Sockets(n, w, p)
    BY <1>0, <1>1 DEF Sound, Scheduled, Sockets
  <2>5. Settled(n, w, p) /\ Refusing(n, w, p)
    BY <2>2, <2>3 DEF Settled, Refusing
  <2>6. Queued(n)
    BY <1>0, <1>1, <1>a DEF Sound, Queued
  <2>7. Opened(n, w)
    BY <1>0, <1>1, <1>a, <2>2 DEF Opened, Late
  <2>8. Requested(n, p)
    <3> SUFFICES ASSUME n.socket = "connected", p \in Requests
                 PROVE  /\ n.state \in Active
                        /\ ~Has(n.events, {"noConnect"}) /\ ~Has(n.events, {"disconnected"})
                        /\ \/ Has(n.events, Errors)
                           \/ /\ ~Has(n.events, Awaits \ {Await(p)})
                              /\ n.state = "Connected" /\ Has(n.events, {Await(p)})
      BY DEF Requested
    <3>1. /\ ~Has(r.events, {"noConnect"}) /\ ~Has(r.events, {"disconnected"})
          /\ \/ Has(r.events, Errors)
             \/ /\ ~Has(r.events, Awaits \ {Await(p)})
                /\ Before(r.events, {"connected"}, {Await(p)})
      BY <1>1, <1>a DEF Sound, Requested
    <3>2. Before(r.events, {"connected"}, {Await(p)}) => Has(n.events, {Await(p)})
      <4>1. \A Y : Before(n.events, {"connected"}, Y) => Has(n.events, Y)
        BY DEF Before, Has
      <4> QED
        BY <4>1 DEF Taken
    <3> QED
      BY <1>0, <1>1, <1>a, <3>1, <3>2
  <2>9. Pending(n, import)
    BY <1>0, <1>1 DEF Pending
  <2>10. Awaiting(n, w, p, al)
    BY <2>3 DEF Sound, Awaiting
  <2>11. Greeted(n, w, p)
    BY DEF Sound, Greeted
  <2> QED
    BY <2>4, <2>5, <2>6, <2>7, <2>8, <2>9, <2>10, <2>11 DEF Sound
<1>2. ASSUME r.state = "Connected", NEW q \in Requests, e = Await(q), n.state = Attempt(q)
      PROVE  Sound(n, w, p, import, al)
  <2>1. ~Late(r, w, p) /\ Has(r.events, Awaits)
    BY <1>0, <1>2, <1>a DEF Sound, Settled
  <2>2. ~Has(r.buffer, Any(Answers))
    BY <2>1 DEF Sound, Queued
  <2>3. ~Has(n.buffer, Stale(Answers))
    BY <2>2 DEF Has, Any, Stale
  <2>4. ~Late(n, w, p)
    BY <1>0, <1>2, <1>a, <2>1, <2>3 DEF Late
  <2>5. ~Answered(n, w, p)
    BY <2>4 DEF Late
  <2>6. Scheduled(n) /\ Sockets(n, w, p)
    BY <1>0, <1>2, <1>a DEF Sound, Scheduled, Sockets
  <2>7. Settled(n, w, p) /\ Refusing(n, w, p)
    BY <2>4, <2>5 DEF Settled, Refusing
  <2>8. Queued(n)
    BY <1>0, <2>3 DEF Sound, Queued
  <2>9. Opened(n, w)
    BY <1>0, <1>2, <1>a, <2>4 DEF Opened, Late
  <2>10. Requested(n, p)
    <3> SUFFICES ASSUME n.socket = "connected", p \in Requests
                 PROVE  /\ n.state \in Active
                        /\ ~Has(n.events, {"noConnect"}) /\ ~Has(n.events, {"disconnected"})
                        /\ \/ Has(n.events, Errors)
                           \/ /\ ~Has(n.events, Awaits \ {Await(p)})
                              /\ n.state = Attempt(p)
      BY DEF Requested
    <3>1. /\ ~Has(r.events, {"noConnect"}) /\ ~Has(r.events, {"disconnected"})
          /\ \/ Has(r.events, Errors)
             \/ ~Has(r.events, Awaits \ {Await(p)})
      BY <1>2, <1>a DEF Sound, Requested
    <3>2. Has(r.events, Errors) => Has(n.events, Errors)
      BY <1>0, <1>2, <1>a
    <3>3. ~Has(r.events, Awaits \ {Await(p)}) => n.state = Attempt(p)
      BY <1>0, <1>2, <1>a
    <3> QED
      BY <1>0, <1>2, <1>a, <3>1, <3>2, <3>3
  <2>11. Pending(n, import)
    BY <1>0, <1>2, <1>a DEF Pending
  <2>12. Awaiting(n, w, p, al)
    BY <2>5 DEF Sound, Awaiting
  <2>13. Greeted(n, w, p)
    BY DEF Sound, Greeted
  <2> QED
    BY <2>6, <2>7, <2>8, <2>9, <2>10, <2>11, <2>12, <2>13 DEF Sound
<1>3. CASE r.state \in Attempts /\ e = "account" /\ n.state = "Idle"
  <2>1. Late(r, w, p) /\ Has(r.events, {"account"})
    BY <1>0, <1>3 DEF Late
  <2>2. Scheduled(n) /\ Sockets(n, w, p)
    BY <1>0, <1>3 DEF Sound, Scheduled, Sockets
  <2>3. Settled(n, w, p)
    BY <1>0, <1>3, <2>1 DEF Sound, Settled
  <2>4. Refusing(n, w, p)
    BY <1>3 DEF Refusing
  <2>5. Queued(n)
    BY <1>0, <1>3 DEF Sound, Queued
  <2>6. Opened(n, w)
    BY <1>0, <1>3, <2>1 DEF Sound, Opened
  <2>7. Requested(n, p)
    <3>1. p \notin Requests
      BY <2>1 DEF Sound, Settled, Requests
    <3> QED
      BY <3>1 DEF Requested
  <2>8. Pending(n, import)
    BY <1>0, <1>3 DEF Pending
  <2>9. Awaiting(n, w, p, al)
    BY <1>3, <1>a DEF Sound, Awaiting
  <2>10. Greeted(n, w, p)
    BY DEF Sound, Greeted
  <2> QED
    BY <2>2, <2>3, <2>4, <2>5, <2>6, <2>7, <2>8, <2>9, <2>10 DEF Sound
<1> QED
  BY <1>1, <1>2, <1>3

\* An event for which there is no transition.
LEMMA IgnoredIsSound ==
  ASSUME NEW r, NEW n, NEW w, NEW p, NEW import, NEW al, NEW e,
         Sound(r, w, p, import, al), r.activity = "events",
         Taken(r.events, e, n.events),
         n.activity = r.activity, n.blocked = r.blocked, n.posted = r.posted, n.state = r.state,
         n.buffer = r.buffer, n.socket = r.socket, n.closing = r.closing,
         r.state \in Active => e \notin Cut,
         r.state = "Connecting" => e \notin {"connected", "noConnect"},
         r.state = "Connected" => e \notin Awaits,
         r.state \in Attempts => e # "account"
  PROVE  Sound(n, w, p, import, al)
<1>0. /\ ~Awake(n)
      /\ \A X : Has(n.events, X) => Has(r.events, X)
      /\ \A X : e \in X => Has(r.events, X)
      /\ \A X : e \notin X => (Has(r.events, X) <=> Has(n.events, X))
      /\ Answered(n, w, p) <=> Answered(r, w, p)
      /\ Late(n, w, p) => Late(r, w, p)
  BY DEF Awake, Taken, Answered, Late
<1>1. Scheduled(n) /\ Sockets(n, w, p)
  BY <1>0 DEF Sound, Scheduled, Sockets
<1>2. Settled(n, w, p)
  BY <1>0 DEF Sound, Settled
<1>3. Refusing(n, w, p)
  BY <1>0 DEF Sound, Refusing
<1>4. Queued(n)
  BY <1>0 DEF Sound, Queued
<1>5. Opened(n, w)
  BY <1>0 DEF Sound, Opened
<1>6. Requested(n, p)
  <2> SUFFICES ASSUME n.socket = "connected", p \in Requests
               PROVE  /\ n.state \in Active
                      /\ ~Has(n.events, {"noConnect"}) /\ ~Has(n.events, {"disconnected"})
                      /\ \/ Has(n.events, Errors)
                         \/ /\ ~Has(n.events, Awaits \ {Await(p)})
                            /\ \/ n.state = Attempt(p)
                               \/ n.state = "Connected" /\ Has(n.events, {Await(p)})
                               \/ n.state = "Connecting" /\ Before(n.events, {"connected"}, {Await(p)})
    BY DEF Requested
  <2>1. /\ r.state \in Active
        /\ ~Has(r.events, {"noConnect"}) /\ ~Has(r.events, {"disconnected"})
        /\ \/ Has(r.events, Errors)
           \/ /\ ~Has(r.events, Awaits \ {Await(p)})
              /\ \/ r.state = Attempt(p)
                 \/ r.state = "Connected" /\ Has(r.events, {Await(p)})
                 \/ r.state = "Connecting" /\ Before(r.events, {"connected"}, {Await(p)})
    BY DEF Sound, Requested
  <2>2. e \notin Errors /\ Await(p) \in Awaits
    BY <2>1 DEF Errors, Cut, Requests, Await, Awaits
  <2>3. r.state = "Connected" => (Has(r.events, {Await(p)}) => Has(n.events, {Await(p)}))
    BY <1>0, <2>2
  <2>4. r.state = "Connecting" => (Before(r.events, {"connected"}, {Await(p)})
                                     => Before(n.events, {"connected"}, {Await(p)}))
    BY DEF Taken
  <2> QED
    BY <1>0, <2>1, <2>2, <2>3, <2>4
<1>7. Pending(n, import)
  BY <1>0 DEF Sound, Pending
<1>8. Awaiting(n, w, p, al)
  <2>1. r.state \in Attempts => r.state \in Active
    BY DEF Attempts, Active
  <2>2. r.state \in Attempts /\ Moving(r) => Moving(n)
    BY <1>0, <2>1 DEF Moving
  <2> QED
    BY <1>0, <2>2 DEF Sound, Awaiting
<1>9. Greeted(n, w, p)
  BY DEF Sound, Greeted
<1> QED
  BY <1>1, <1>2, <1>3, <1>4, <1>5, <1>6, <1>7, <1>8, <1>9 DEF Sound

\* A new socket is opened; what is left of the old one is stale.
LEMMA ConnectingIsSound ==
  ASSUME NEW r, NEW n, NEW w, NEW p, NEW import, NEW al, NEW other,
         Sound(r, w, p, import, al), r.activity = "events",
         n.activity = "events", n.state = "Connecting", n.socket = "connecting",
         n.blocked = r.blocked, n.posted = r.posted,
         \A X : Has(n.events, X) => Has(r.events, X),
         Faded(r.buffer, n.buffer)
  PROVE  Sound(n, << >>, "silent", import, other)
<1>0. /\ ~Awake(n)
      /\ \A X : ~Has(n.buffer, Fresh(X)) /\ ~Has(<< >>, X)
      /\ \A X, Y : ~Before(<< >>, X, Y)
      /\ \A X \in {Answers, {"identify"}} : Has(n.buffer, Any(X)) <=> Has(r.buffer, Any(X))
      /\ "Connecting" \notin Attempts
  BY HasNone DEF Awake, Faded, Attempts
<1>1. ~Answered(n, << >>, "silent") /\ ~Served(<< >>, "silent")
  BY <1>0 DEF Answered, Served
<1>2. Late(n, << >>, "silent") => Late(r, w, p)
  BY <1>0, <1>1 DEF Late
<1>3. Scheduled(n)
  BY <1>0 DEF Sound, Scheduled, Faded
<1>4. Sockets(n, << >>, "silent")
  BY <1>0, <1>1 DEF Sockets
<1>5. Settled(n, << >>, "silent")
  BY <1>0, <1>2 DEF Sound, Settled
<1>6. Queued(n)
  BY <1>0 DEF Sound, Queued, Faded
<1>7. Opened(n, << >>)
  BY <1>0 DEF Opened
<1>8. Refusing(n, << >>, "silent") /\ Requested(n, "silent") /\ Pending(n, import)
  BY <1>0, <1>1 DEF Refusing, Requested, Pending
<1>9. Awaiting(n, << >>, "silent", other)
  BY <1>0, <1>1 DEF Awaiting
<1>10. Greeted(n, << >>, "silent")
  BY <1>0 DEF Greeted, Faded
<1> QED
  BY <1>3, <1>4, <1>5, <1>6, <1>7, <1>8, <1>9, <1>10 DEF Sound

\* Nothing is opened, and the machine is told.
LEMMA RefusingIsSound ==
  ASSUME NEW r, NEW n, NEW w, NEW p, NEW import, NEW al, NEW other,
         Sound(r, w, p, import, al), r.activity = "events", r.state \notin Active,
         n.activity = "events", n.state = "Connecting", n.socket = r.socket,
         n.blocked, n.posted = r.posted, n.buffer = r.buffer,
         \A X : Has(n.events, X) => Has(r.events, X) \/ "noConnect" \in X,
         Has(n.events, {"noConnect"})
  PROVE  Sound(n, w, p, import, other)
<1>0. /\ ~Awake(n)
      /\ \A X : "noConnect" \notin X => (Has(n.events, X) => Has(r.events, X))
      /\ "noConnect" \notin {"account"} /\ "noConnect" \notin Awaits /\ "noConnect" \notin {"connected"}
      /\ "Connecting" \notin Attempts
      /\ Answered(n, w, p) <=> Answered(r, w, p)
      /\ Late(n, w, p) => Late(r, w, p)
  BY DEF Awake, Awaits, Attempts, Answered, Late
<1>1. Scheduled(n) /\ Sockets(n, w, p)
  BY <1>0 DEF Sound, Scheduled, Sockets
<1>2. Settled(n, w, p)
  BY <1>0 DEF Sound, Settled
<1>3. Queued(n)
  BY <1>0 DEF Sound, Queued
<1>4. Opened(n, w)
  BY <1>0 DEF Sound, Opened
<1>5. Refusing(n, w, p) /\ Pending(n, import)
  BY <1>0 DEF Refusing, Pending
<1>6. Requested(n, p)
  BY DEF Sound, Requested
<1>7. Awaiting(n, w, p, other)
  BY <1>0 DEF Sound, Awaiting
<1>8. Greeted(n, w, p)
  BY DEF Sound, Greeted
<1> QED
  BY <1>1, <1>2, <1>3, <1>4, <1>5, <1>6, <1>7, <1>8 DEF Sound

\* What a transition can be.
LEMMA TransitionForms ==
  ASSUME NEW t \in Transitions
  PROVE  /\ t[1] \in States /\ t[3] \in States \ {"Stopped"}
         /\ \/ t[3] = "Connecting" /\ t[1] \notin Active
            \/ t[3] \notin Active /\ Closes(t[1], t[3])
            \/ /\ t[3] \notin Active /\ ~Closes(t[1], t[3])
               /\ t[1] \notin Active \/ t[2] \in {"disconnected", "noConnect"}
            \/ /\ t[3] \in Active \ {"Connecting"} /\ ~Closes(t[1], t[3])
               /\ \/ t[1] = "Connecting" /\ t[2] = "connected" /\ t[3] = "Connected"
                  \/ t[1] = "Connected" /\ \E q \in Requests : t[2] = Await(q) /\ t[3] = Attempt(q)
                  \/ t[1] \in Attempts /\ t[2] = "account" /\ t[3] = "Idle"
<1>1. \/ t \in Active \X {"reconnect"} \X {"Reconnecting"}
      \/ t \in Active \X {"disconnected"} \X {"Retry"}
      \/ t \in Active \X {"basicError"} \X {"BasicError"}
      \/ t \in Active \X {"fatalError"} \X {"FatalError"}
      \/ t \in {"Registering", "LoggingIn", "Granting"} \X {"account"} \X {"Idle"}
      \/ t \in {"Disconnected", "Retry"} \X {"reconnect"} \X {"Connecting"}
      \/ t \in {"BasicError", "FatalError"} \X {"reconnect"} \X {"Reconnecting"}
      \/ t \in {<<"Connecting", "connected", "Connected">>,
                <<"Connecting", "noConnect", "Disconnected">>,
                <<"Connected", "awaitRegister", "Registering">>,
                <<"Connected", "awaitLogin", "LoggingIn">>,
                <<"Connected", "awaitGranted", "Granting">>,
                <<"Reconnecting", "disconnected", "Connecting">>,
                <<"BasicError", "disconnected", "Retry">>,
                <<"FatalError", "disconnected", "Disconnected">>,
                <<"Closing", "disconnected", "Final">>}
  BY DEF Transitions
<1>2. /\ Await("register") = "awaitRegister" /\ Attempt("register") = "Registering"
      /\ Await("login") = "awaitLogin" /\ Attempt("login") = "LoggingIn"
      /\ Await("access") = "awaitGranted" /\ Attempt("access") = "Granting"
      /\ Requests = {"register", "login", "access"}
  BY DEF Await, Attempt, Requests
<1>3. t[1] \in States /\ t[3] \in States \ {"Stopped"}
  BY <1>1, TransitionTypes
<1>4. CASE t[1] = "Connected" /\ t[3] \in Attempts
  BY <1>1, <1>2, <1>3, <1>4 DEF Active, Closes, Attempts
<1>5. CASE ~(t[1] = "Connected" /\ t[3] \in Attempts)
  BY <1>1, <1>3, <1>5 DEF Active, Closes, Attempts
<1> QED
  BY <1>4, <1>5

\* Events that are never ignored.
LEMMA Handled ==
  /\ <<"Connecting", "connected", "Connected">> \in Transitions
  /\ <<"Connecting", "noConnect", "Disconnected">> \in Transitions
  /\ \A e \in Awaits : \E to : <<"Connected", e, to>> \in Transitions
  /\ \A from \in Attempts : <<from, "account", "Idle">> \in Transitions
<1>1. /\ <<"Connecting", "connected", "Connected">> \in Transitions
      /\ <<"Connecting", "noConnect", "Disconnected">> \in Transitions
      /\ <<"Connected", "awaitRegister", "Registering">> \in Transitions
      /\ <<"Connected", "awaitLogin", "LoggingIn">> \in Transitions
      /\ <<"Connected", "awaitGranted", "Granting">> \in Transitions
  BY DEF Transitions
<1>2. \A from \in Attempts : <<from, "account", "Idle">> \in Transitions
  BY DEF Transitions, Attempts
<1> QED
  BY <1>1, <1>2 DEF Awaits

\* Connecting is entered.
LEMMA ConnectIsSound ==
  ASSUME NEW r \in Connection, TypeOK, Connect(r), r.activity = "events", r.state \notin Active,
         Sound(r, wire, peer, settings.import, alive), settings' = settings
  PROVE  Sound(rc', wire', peer', settings'.import, alive')
<1> DEFINE id == IF r.closing THEN r.id ELSE settings.id
           s == [r EXCEPT !.state = "Connecting", !.id = id]
           can == ~s.closing /\ settings.enabled
           i == remoteEvent(s, "Initializing")
           f == Forget(i)
<1>1. /\ rc' = doConnect(s, can)
      /\ wire' = IF can THEN << >> ELSE wire
      /\ peer' = IF can THEN "silent" ELSE peer
  BY DEF Connect, Connection
<1>2. id \in BOOLEAN /\ "Connecting" \in States
  BY DEF TypeOK, Connection, States, Active
<1> HIDE DEF id
<1>3. /\ s \in Connection /\ s.state = "Connecting" /\ s.events = r.events /\ s.posted = r.posted
      /\ s.activity = r.activity /\ s.closing = r.closing /\ s.socket = r.socket
      /\ s.blocked = r.blocked /\ s.buffer = r.buffer
  BY <1>2 DEF Connection
<1>4. rc' = IF ~can THEN submitEventSync(i, "noConnect")
            ELSE [f EXCEPT !.socket = "connecting", !.op = "special"]
  BY <1>1 DEF doConnect
<1> HIDE DEF s, can
<1>5. /\ i \in Connection /\ i.state = "Connecting" /\ i.events = r.events /\ i.posted = r.posted
      /\ i.activity = r.activity /\ i.closing = r.closing /\ i.socket = r.socket
      /\ i.blocked = r.blocked /\ i.buffer = r.buffer
  BY <1>3, RemoteAlike DEF Alike
<1> HIDE DEF i
<1>6. CASE can
  <2>1. /\ f \in Connection /\ f.state = i.state /\ f.events = i.events /\ f.activity = i.activity
        /\ f.posted = i.posted /\ f.blocked = i.blocked /\ Faded(i.buffer, f.buffer)
    BY <1>5, Forgotten, HasForgotten, ForgetFades
  <2> HIDE DEF f
  <2> DEFINE n == [f EXCEPT !.socket = "connecting", !.op = "special"]
  <2>2. /\ n.socket = "connecting" /\ n.state = f.state /\ n.events = f.events
        /\ n.activity = f.activity /\ n.posted = f.posted /\ n.blocked = f.blocked
        /\ n.buffer = f.buffer
    BY <2>1 DEF Connection
  <2>3. rc' = n /\ wire' = << >> /\ peer' = "silent"
    BY <1>1, <1>4, <1>6
  <2> HIDE DEF n
  <2>4. Sound(n, << >>, "silent", settings.import, alive')
    BY <1>5, <2>1, <2>2, ConnectingIsSound
  <2> QED
    BY <2>3, <2>4
<1>7. CASE ~can
  <2>1. "noConnect" \in Events
    BY DEF Events
  <2> DEFINE n == submitEventSync(i, "noConnect")
  <2>2. Plus(i, n, "noConnect")
    BY <1>5, <2>1, SubmittedPlus
  <2>3. rc' = n /\ wire' = wire /\ peer' = peer
    BY <1>1, <1>4, <1>7
  <2> HIDE DEF n
  <2>4. Sound(n, wire, peer, settings.import, alive')
    BY <1>5, <2>2, RefusingIsSound DEF Plus
  <2> QED
    BY <2>3, <2>4
<1> QED
  BY <1>6, <1>7

LEMMA EventStepIsSound ==
  ASSUME TypeOK, Sound(rc, wire, peer, settings.import, alive), EventStep
  PROVE  Sound(rc', wire', peer', settings'.import, alive')
<1> DEFINE tail == Tail(rc.events)
           r == [rc EXCEPT !.events = tail]
           h == Head(rc.events)
           to == {t[3] : t \in {t \in Transitions : t[1] = rc.state /\ t[2] = h}}
<1>1. /\ rc \in Connection /\ rc.activity = "events" /\ rc.events # << >>
      /\ rc.events \in Seq(Events)
  BY DEF TypeOK, EventStep, Connection
<1>2. settings' = settings
  BY DEF EventStep
<1>3. Taken(rc.events, h, tail) /\ tail \in Seq(Events)
  BY <1>1, HasHead DEF Taken
<1>4. /\ r = [rc EXCEPT !.events = Tail(@)]
      /\ \/ "Connecting" \in to /\ Connect(Exited(r, "Connecting"))
         \/ (\E t \in to \ {"Connecting"} : rc' = Moved(r, t)) /\ UNCHANGED <<wire, peer, alive>>
         \/ to = {} /\ rc' = r /\ UNCHANGED <<wire, peer, alive>>
  BY DEF EventStep
<1> HIDE DEF tail
<1>5. /\ r \in Connection /\ r.events = tail /\ r.state = rc.state /\ r.socket = rc.socket
      /\ r.activity = rc.activity /\ r.closing = rc.closing /\ r.posted = rc.posted
      /\ r.blocked = rc.blocked /\ r.buffer = rc.buffer /\ r.id = rc.id
  BY <1>1, <1>3 DEF Connection
<1>6. /\ \A X : Has(r.events, X) => Has(rc.events, X)
      /\ \A X : h \in X => Has(rc.events, X)
  BY <1>3, <1>5 DEF Taken
<1>7. rc.socket = "connected" /\ peer \in Requests =>
        rc.state \in Active /\ h \notin {"disconnected", "noConnect"}
  BY <1>6 DEF Sound, Requested
<1> HIDE DEF r, h
<1>8. ASSUME NEW t \in Transitions, t[1] = rc.state, t[2] = h, t[3] # "Connecting",
             rc' = Moved(r, t[3]), UNCHANGED <<wire, peer, alive>>
      PROVE  Sound(rc', wire', peer', settings'.import, alive')
  <2>1. t[3] \in States \ {"Stopped"}
    BY TransitionForms
  <2>2. CASE Closes(t[1], t[3])
    <3>1. t[3] \notin Active
      BY <2>2 DEF Closes, Active
    <3>2. PICK s \in Connection : Turned(r, s, t[3]) /\ Drops(s, rc')
      BY <1>5, <1>8, <2>1, <2>2, MovedKinds
    <3>3. /\ rc'.state \notin Active \cup {"Stopped"} /\ rc'.activity = "events" /\ rc'.posted = rc.posted
          /\ rc'.blocked = rc.blocked \/ rc'.blocked
          /\ \A X : Has(rc'.events, X) => Has(rc.events, X) \/ "disconnected" \in X
          /\ rc'.socket \in {"none", "closing"}
          /\ rc.socket \in {"connected", "closing"} => rc'.socket = "closing"
          /\ \/ rc'.buffer = rc.buffer /\ (rc'.socket = "none" => rc.socket = "none")
             \/ Faded(rc.buffer, rc'.buffer)
      BY <1>1, <1>5, <1>6, <2>1, <3>1, <3>2 DEF Turned, Drops
    <3>4. Sound(rc', wire, peer, settings.import, alive)
      BY <1>1, <3>3, OutIsSound
    <3> QED
      BY <1>2, <1>8, <3>4
  <2>3. CASE ~Closes(t[1], t[3])
    <3>1. Turned(r, rc', t[3])
      BY <1>5, <1>8, <2>1, <2>3, MovedKinds
    <3>2. CASE t[3] \notin Active
      <4>1. t[1] \notin Active \/ t[2] \in {"disconnected", "noConnect"}
        BY <1>8, <2>3, <3>2, TransitionForms
      <4>2. rc'.socket = "connected" => peer \notin Requests
        BY <1>5, <1>7, <1>8, <3>1, <4>1 DEF Turned
      <4>3. Sound(rc', wire, peer, settings.import, alive)
        BY <1>1, <1>5, <1>6, <2>1, <3>1, <3>2, <4>2, OutIsSound DEF Turned
      <4> QED
        BY <1>2, <1>8, <4>3
    <3>3. CASE t[3] \in Active
      <4>1. \/ rc.state = "Connecting" /\ h = "connected" /\ rc'.state = "Connected"
            \/ rc.state = "Connected" /\ \E q \in Requests : h = Await(q) /\ rc'.state = Attempt(q)
            \/ rc.state \in Attempts /\ h = "account" /\ rc'.state = "Idle"
        BY <1>8, <2>3, <3>1, <3>3, TransitionForms DEF Turned
      <4>2. Taken(rc.events, h, rc'.events)
        BY <1>3, <1>5, <3>1 DEF Turned, h
      <4>3. Sound(rc', wire, peer, settings.import, alive)
        BY <1>1, <1>5, <3>1, <4>1, <4>2, InIsSound DEF Turned
      <4> QED
        BY <1>2, <1>8, <4>3
    <3> QED
      BY <3>2, <3>3
  <2> QED
    BY <2>2, <2>3
<1>9. ASSUME to = {}, rc' = r, UNCHANGED <<wire, peer, alive>>
      PROVE  Sound(rc', wire', peer', settings'.import, alive')
  <2>1. \A u : <<rc.state, h, u>> \notin Transitions
    BY <1>9
  <2>2. /\ rc.state \in Active => h \notin Cut
        /\ rc.state = "Connecting" => h \notin {"connected", "noConnect"}
        /\ rc.state = "Connected" => h \notin Awaits
        /\ rc.state \in Attempts => h # "account"
    BY <2>1, CutsAreHandled, Handled
  <2>3. Taken(rc.events, h, rc'.events)
    BY <1>3, <1>5, <1>9 DEF h
  <2>4. Sound(rc', wire, peer, settings.import, alive)
    BY <1>1, <1>5, <1>9, <2>2, <2>3, IgnoredIsSound
  <2> QED
    BY <1>2, <1>9, <2>4
<1>10. CASE "Connecting" \in to /\ Connect(Exited(r, "Connecting"))
  <2> DEFINE x == Exited(r, "Connecting")
  <2>1. PICK t \in Transitions : t[1] = rc.state /\ t[2] = h /\ t[3] = "Connecting"
    BY <1>10
  <2>2. rc.state \notin Active \cup {"Stopped"}
    BY <1>1, <2>1, TransitionForms DEF Active, EventStep, Running
  <2>3. Alike(r, x)
    BY <1>5, LeavesAlike
  <2> HIDE DEF x
  <2>4. rc.socket = "connected" => peer \notin Requests
    BY <1>7, <2>2
  <2>5. Sound(x, wire, peer, settings.import, alive)
    BY <1>1, <1>5, <1>6, <2>2, <2>3, <2>4, OutIsSound DEF Alike
  <2>6. Connect(x)
    BY <1>10 DEF x
  <2>7. x \in Connection /\ x.activity = "events" /\ x.state \notin Active
    BY <1>1, <1>5, <2>2, <2>3 DEF Alike
  <2> QED
    BY <1>2, <2>5, <2>6, <2>7, ConnectIsSound
<1> QED
  BY <1>4, <1>8, <1>9, <1>10

\* Closing needs no event.
LEMMA CloseStepIsSound ==
  ASSUME TypeOK, Sound(rc, wire, peer, settings.import, alive), CloseStep
  PROVE  Sound(rc', wire', peer', settings'.import, alive')
<1>1. /\ rc \in Connection /\ rc.activity = "events"
      /\ UNCHANGED <<settings, wire, peer, alive>>
  BY DEF TypeOK, CloseStep
<1>2. PICK t \in ClosingTransitions : t[1] = rc.state /\ rc' = Moved(rc, t[2])
  BY DEF CloseStep
<1>3. \/ rc.state \in Active /\ t[2] = "Closing"
      \/ rc.state \notin Active /\ t[2] = "Final"
  BY <1>2 DEF ClosingTransitions, Active
<1>4. t[2] \in States /\ t[2] \notin Active \cup {"Stopped"}
  BY <1>3 DEF States, Active
<1>5. CASE t[2] = "Closing"
  <2>1. PICK s \in Connection : Turned(rc, s, t[2]) /\ Drops(s, rc')
    BY <1>1, <1>2, <1>4, <1>5, MovedKinds DEF Closes
  <2>2. Sound(rc', wire, peer, settings.import, alive)
    BY <1>1, <1>4, <2>1, OutIsSound DEF Turned, Drops
  <2> QED
    BY <1>1, <2>2
<1>6. CASE t[2] = "Final"
  <2>1. Turned(rc, rc', t[2])
    BY <1>1, <1>2, <1>4, <1>6, MovedKinds DEF Closes
  <2>2. rc'.socket = "connected" => peer \notin Requests
    BY <1>3, <1>6, <2>1 DEF Turned, Sound, Requested
  <2>3. Sound(rc', wire, peer, settings.import, alive)
    BY <1>1, <1>4, <2>1, <2>2, OutIsSound DEF Turned
  <2> QED
    BY <1>1, <2>3
<1> QED
  BY <1>3, <1>5, <1>6

\* The machine is started.
LEMMA StartIsSound ==
  ASSUME TypeOK, Sound(rc, wire, peer, settings.import, alive), start
  PROVE  Sound(rc', wire', peer', settings'.import, alive')
<1> DEFINE r == [rc EXCEPT !.activity = "events"]
<1>1. rc.state = "Stopped" /\ Connect(r) /\ settings' = settings
  BY DEF start
<1>2. /\ r \in Connection /\ r.state = rc.state /\ r.closing = rc.closing /\ r.events = rc.events
      /\ r.posted = rc.posted /\ r.activity = "events" /\ r.blocked = rc.blocked
      /\ r.buffer = rc.buffer /\ r.socket = rc.socket /\ r.id = rc.id
  BY DEF TypeOK, Connection
<1> HIDE DEF r
<1>3. /\ ~Awake(r) /\ r.state = "Stopped" /\ "Stopped" \notin Attempts
      /\ Answered(r, wire, peer) <=> Answered(rc, wire, peer)
      /\ Late(r, wire, peer) <=> Late(rc, wire, peer)
  BY <1>1, <1>2 DEF Awake, Attempts, Answered, Late
<1>4. Scheduled(r) /\ Sockets(r, wire, peer)
  BY <1>1, <1>2, <1>3 DEF Sound, Scheduled, Sockets
<1>5. Settled(r, wire, peer) /\ Queued(r) /\ Opened(r, wire)
  BY <1>1, <1>2, <1>3 DEF Sound, Settled, Queued, Opened
<1>6. Refusing(r, wire, peer) /\ Requested(r, peer) /\ Pending(r, settings.import)
  BY <1>1, <1>2, <1>3 DEF Sound, Refusing, Requested, Pending
<1>7. Awaiting(r, wire, peer, alive) /\ Greeted(r, wire, peer)
  BY <1>1, <1>2, <1>3 DEF Sound, Awaiting, Greeted
<1>8. Sound(r, wire, peer, settings.import, alive)
  BY <1>4, <1>5, <1>6, <1>7 DEF Sound
<1>9. r.state \notin Active
  BY <1>3 DEF Active
<1> QED
  BY <1>1, <1>2, <1>8, <1>9, ConnectIsSound

\* When the machine has nothing left to do, the loop of messages is posted.
LEMMA StableIsSound ==
  ASSUME TypeOK, Sound(rc, wire, peer, settings.import, alive), reachedStableState
  PROVE  Sound(rc', wire', peer', settings'.import, alive')
<1> DEFINE posted == Append(rc.posted, "ready")
           n == [rc EXCEPT !.activity = "none", !.posted = posted]
           Posts == {"process", "ready", "disconnected", "tryClose"} \cup AllCalls
<1>1. /\ rc.activity = "events" /\ rc' = n
      /\ Running => ~Eventless /\ rc.events = << >>
      /\ UNCHANGED <<settings, wire, peer, alive>>
  BY DEF reachedStableState
<1>2. rc \in Connection /\ rc.posted \in Seq(Posts) /\ "ready" \in Posts
  BY DEF TypeOK, Connection
<1>3. \A X : Has(posted, X) <=> Has(rc.posted, X) \/ "ready" \in X
  BY <1>2, HasAppended
<1> HIDE DEF posted
<1>4. /\ n.state = rc.state /\ n.closing = rc.closing /\ n.events = rc.events
      /\ n.posted = posted /\ n.activity = "none" /\ n.blocked = rc.blocked
      /\ n.buffer = rc.buffer /\ n.socket = rc.socket /\ n.id = rc.id
  BY <1>2 DEF Connection
<1> HIDE DEF n, Posts
<1>5. Awake(n) => \A X : ~Has(n.events, X)
  BY <1>1, <1>4, HasNone DEF Awake, Running
<1>6. /\ Answered(n, wire, peer) <=> Answered(rc, wire, peer)
      /\ Late(n, wire, peer) <=> Late(rc, wire, peer)
  BY <1>4 DEF Answered, Late
<1>7. n.state \in Active => Awake(n) /\ ~n.closing
  BY <1>1, <1>4 DEF Awake, Active, Running, Eventless
<1>8. Scheduled(n)
  BY <1>1, <1>3, <1>4, <1>5, HasNone DEF Sound, Scheduled, Awake, Running
<1>9. Sockets(n, wire, peer) /\ Settled(n, wire, peer)
  BY <1>3, <1>4, <1>6 DEF Sound, Sockets, Settled
<1>10. Queued(n) /\ Opened(n, wire)
  BY <1>1, <1>3, <1>4, <1>5 DEF Sound, Queued, Opened
<1>11. Refusing(n, wire, peer) /\ Requested(n, peer)
  BY <1>1, <1>4, <1>5, <1>6, <1>7 DEF Sound, Refusing, Requested, Active
<1>12. Pending(n, settings.import)
  BY <1>4, <1>5, <1>7 DEF Sound, Pending, Active
<1>13. Awaiting(n, wire, peer, alive)
  <2>1. ~(Answered(n, wire, peer) /\ n.state \in Attempts)
    <3>1. n.state \in Attempts => n.state \in Active
      BY DEF Attempts, Active
    <3>2. n.state \in Attempts => ~Moving(rc)
      BY <1>4, <1>5, <1>7, <3>1 DEF Moving
    <3> QED
      BY <1>1, <1>4, <1>6, <3>2 DEF Sound, Awaiting
  <2> QED
    BY <2>1 DEF Sound, Awaiting
<1>14. Greeted(n, wire, peer)
  BY <1>4 DEF Sound, Greeted
<1> QED
  BY <1>1, <1>8, <1>9, <1>10, <1>11, <1>12, <1>13, <1>14 DEF Sound

\* A call is taken from the event loop.
LEMMA Popped ==
  ASSUME NEW r \in Connection, r.posted # << >>
  PROVE  /\ Tail(r.posted) \in Seq({"process", "ready", "disconnected", "tryClose"} \cup AllCalls)
         /\ \A X : Has(r.posted, X) <=> Head(r.posted) \in X \/ Has(Tail(r.posted), X)
<1> DEFINE Posts == {"process", "ready", "disconnected", "tryClose"} \cup AllCalls
<1>1. r.posted \in Seq(Posts)
  BY DEF Connection
<1> HIDE DEF Posts
<1>2. Tail(r.posted) \in Seq(Posts)
  BY <1>1
<1>3. \A X : Has(r.posted, X) <=> Head(r.posted) \in X \/ Has(Tail(r.posted), X)
  BY <1>1, HasHead
<1> QED
  BY <1>2, <1>3 DEF Posts

\* doProcessEvents.
LEMMA ProcessIsSound ==
  ASSUME TypeOK, Sound(rc, wire, peer, settings.import, alive), processEvents
  PROVE  Sound(rc', wire', peer', settings'.import, alive')
<1> DEFINE posted == Tail(rc.posted)
           activity == IF Running THEN "events" ELSE rc.activity
           n == [rc EXCEPT !.posted = posted, !.activity = activity]
<1>1. /\ rc.activity = "none" /\ rc.posted # << >> /\ Head(rc.posted) = "process"
      /\ rc' = n
      /\ UNCHANGED <<settings, wire, peer, alive>>
  BY DEF processEvents
<1>2. rc \in Connection
  BY DEF TypeOK
<1>3. \A X : Has(rc.posted, X) <=> "process" \in X \/ Has(posted, X)
  BY <1>1, <1>2, Popped
<1>4. /\ n.state = rc.state /\ n.closing = rc.closing /\ n.events = rc.events
      /\ n.posted = posted /\ n.activity = activity /\ n.blocked = rc.blocked
      /\ n.buffer = rc.buffer /\ n.socket = rc.socket /\ n.id = rc.id
  BY <1>2 DEF Connection
<1> HIDE DEF posted, n
<1>5. /\ ~Awake(n) /\ activity # "buffer"
      /\ Answered(n, wire, peer) <=> Answered(rc, wire, peer)
      /\ Late(n, wire, peer) <=> Late(rc, wire, peer)
  BY <1>1, <1>4 DEF Awake, Running, Answered, Late
<1>6. n.state \in Active => activity = "events"
  BY <1>4 DEF Active, Running
<1> HIDE DEF activity
<1>7. Scheduled(n)
  BY <1>1, <1>4, <1>5 DEF Sound, Scheduled
<1>8. Sockets(n, wire, peer) /\ Settled(n, wire, peer)
  BY <1>3, <1>4, <1>5 DEF Sound, Sockets, Settled
<1>9. Queued(n) /\ Opened(n, wire)
  BY <1>3, <1>4, <1>5 DEF Sound, Queued, Opened
<1>10. Refusing(n, wire, peer) /\ Requested(n, peer)
  BY <1>1, <1>4, <1>5 DEF Sound, Refusing, Requested
<1>11. Pending(n, settings.import)
  BY <1>1, <1>4, <1>5 DEF Sound, Pending
<1>12. Awaiting(n, wire, peer, alive)
  BY <1>1, <1>3, <1>4, <1>5 DEF Sound, Awaiting, Moving
<1>13. Greeted(n, wire, peer)
  BY <1>4 DEF Sound, Greeted
<1> QED
  BY <1>1, <1>7, <1>8, <1>9, <1>10, <1>11, <1>12, <1>13 DEF Sound

LEMMA MachineIsSound ==
  ASSUME TypeOK, Sound(rc, wire, peer, settings.import, alive), Machine
  PROVE  Sound(rc', wire', peer', settings'.import, alive')
  BY StartIsSound, CloseStepIsSound, EventStepIsSound, StableIsSound, ProcessIsSound DEF Machine

--------------------------------------------------------------------------------
(* A message is handled.                                                     *)

\* r is what is left of rc, and v of the wire, when a message is taken.
Arrives(r, v, m) ==
  /\ r \in Connection /\ m \in Any(Messages)
  /\ r.state = rc.state /\ r.closing = rc.closing /\ r.events = rc.events
  /\ r.posted = rc.posted /\ r.activity = rc.activity /\ r.blocked = rc.blocked
  /\ r.socket = rc.socket /\ r.id = rc.id
  /\ rc.activity # "events" /\ ~rc.blocked
  /\ \/ /\ rc.activity = "buffer" /\ rc.buffer # << >> /\ v = wire
        /\ Taken(rc.buffer, m, r.buffer)
     \/ /\ rc.activity = "none" /\ Running /\ rc.socket = "connected"
        /\ rc.buffer = << >> /\ r.buffer = << >>
        /\ m.fresh = TRUE /\ Taken(wire, m.type, v)

LEMMA ArrivedWithin ==
  ASSUME NEW r, NEW v, NEW m, Arrives(r, v, m)
  PROVE  Within(r.buffer, rc.buffer) /\ Within(v, wire)
<1>1. ASSUME NEW s, NEW e, NEW t, Taken(s, e, t), s # << >>
      PROVE  Within(t, s)
  BY <1>1 DEF Taken, Within
<1>2. Has(wire, {m.type}) => wire # << >>
  BY HasNone
<1>3. Taken(wire, m.type, v) => Has(wire, {m.type})
  BY DEF Taken
<1> QED
  BY <1>1, <1>2, <1>3, WithinItself DEF Arrives

\* Where the message was.
LEMMA ArrivedFrom ==
  ASSUME NEW r, NEW v, NEW m, Arrives(r, v, m), NEW X, m.type \in X
  PROVE  /\ m.fresh => Has(rc.buffer, Fresh(X)) \/ Has(wire, X)
         /\ ~m.fresh => Has(rc.buffer, Stale(X)) /\ rc.activity = "buffer"
         /\ Has(rc.buffer, Any(X)) \/ Has(wire, X)
<1>1. /\ m \in Any(X)
      /\ m.fresh => m \in Fresh(X)
      /\ ~m.fresh => m \in Stale(X)
  BY DEF Arrives, Any, Fresh, Stale
<1> QED
  BY <1>1 DEF Arrives, Taken

\* The server's greeting.
LEMMA GreetingIsSound ==
  ASSUME NEW r, NEW v, NEW m, NEW n, NEW p, Arrives(r, v, m), m.type = "identify",
         Sound(rc, wire, peer, settings.import, alive),
         rc.state \in {"Connecting", "Connected"},
         Plus(r, n, Await(Request(r.id, settings.import))),
         p = IF r.socket = "connected"
             THEN IF m.fresh THEN Request(r.id, settings.import) ELSE "refuse" ELSE peer
  PROVE  Sound(n, v, p, settings.import, alive)
<1> DEFINE q == Request(r.id, settings.import)
<1>1. Within(r.buffer, rc.buffer) /\ Within(v, wire)
  BY ArrivedWithin
<1>2. /\ r.state = rc.state /\ r.closing = rc.closing /\ r.events = rc.events
      /\ r.posted = rc.posted /\ r.activity = rc.activity /\ r.blocked = rc.blocked
      /\ r.socket = rc.socket /\ r.id = rc.id
      /\ rc.activity # "events" /\ ~rc.blocked
  BY DEF Arrives
<1>3. q \in Requests /\ Await(q) \in Awaits
  BY DEF Request, Requests, Await, Awaits
<1> HIDE DEF q
<1>4. /\ n.state = rc.state /\ n.closing = rc.closing /\ n.activity = rc.activity
      /\ n.buffer = r.buffer /\ n.socket = rc.socket /\ n.id = rc.id
      /\ n.blocked /\ n.events # << >>
      /\ \A X : Has(n.events, X) <=> Has(rc.events, X) \/ Await(q) \in X
      /\ \A X, Y : Before(n.events, X, Y) <=> Before(rc.events, X, Y) \/ (Has(rc.events, X) /\ Await(q) \in Y)
      /\ \A X : Has(n.posted, X) <=> Has(rc.posted, X) \/ "process" \in X
  BY <1>2 DEF Plus, q
<1>5. Has(rc.buffer, Any({"identify"})) \/ Has(wire, {"identify"})
  BY ArrivedFrom
<1>6. ~Late(rc, wire, peer)
  BY <1>5 DEF Sound, Settled
<1>7. ~Has(n.buffer, Any(Answers))
  <2>1. CASE Taken(rc.buffer, m, r.buffer)
    <3>1. m \in Any({"identify"})
      BY DEF Arrives, Any
    <3>2. Has(r.buffer, Any(Answers)) => Before(rc.buffer, Any({"identify"}), Any(Answers))
      BY <2>1, <3>1 DEF Taken
    <3> QED
      BY <1>4, <3>2 DEF Sound, Queued
  <2> QED
    BY <1>4, <2>1, HasNone DEF Arrives
<1>8. \A x \in Awaits : x \notin {"account", "connected", "noConnect", "disconnected"}
  BY DEF Awaits
<1>9. ~Has(n.buffer, Fresh(Answers)) /\ ~Has(n.buffer, Stale(Answers))
  BY <1>7 DEF Has, Any, Fresh, Stale
<1>10. /\ ~Has(v, Answers) /\ p \notin {"ready", "remove"}
       /\ ~Has(rc.events, {"account"}) /\ peer \notin {"ready", "remove"}
  BY <1>1, <1>3, <1>6 DEF Late, Answered, Served, Within, Requests, q
<1>11. ~Answered(n, v, p) /\ ~Served(v, p) /\ ~Late(n, v, p)
  BY <1>3, <1>4, <1>8, <1>9, <1>10 DEF Answered, Served, Late
<1>12. Awake(n) <=> Awake(rc)
  BY <1>4 DEF Awake
<1>13. Scheduled(n)
  BY <1>4 DEF Scheduled
<1>14. Sockets(n, v, p)
  BY <1>1, <1>2, <1>4, <1>11 DEF Sound, Sockets, Within
<1>15. Settled(n, v, p) /\ Refusing(n, v, p)
  BY <1>11 DEF Settled, Refusing
<1>16. Queued(n)
  <2>1. ~Before(n.buffer, Any({"identify"}), Any(Answers))
    BY <1>1, <1>4 DEF Sound, Queued, Within
  <2> QED
    BY <1>7, <1>9, <2>1 DEF Queued
<1>17. Opened(n, v)
  BY <1>3, <1>4, <1>8, <1>10 DEF Opened
<1>18. Pending(n, settings.import)
  BY <1>2, <1>3, <1>4, <1>8, <1>12 DEF Sound, Pending, q
<1>19. Requested(n, p)
  <2> SUFFICES ASSUME n.socket = "connected", p \in Requests
               PROVE  /\ n.state \in Active
                      /\ ~Has(n.events, {"noConnect"}) /\ ~Has(n.events, {"disconnected"})
                      /\ \/ Has(n.events, Errors)
                         \/ /\ ~Has(n.events, Awaits \ {Await(p)})
                            /\ \/ n.state = "Connected" /\ Has(n.events, {Await(p)})
                               \/ n.state = "Connecting" /\ Before(n.events, {"connected"}, {Await(p)})
    BY DEF Requested
  <2>1. p = q
    BY <1>2, <1>4 DEF q, Requests
  <2>2. Awake(rc) /\ n.state \in Active
    BY <1>2, <1>4 DEF Awake, Active
  <2>3. ~Has(rc.events, {"noConnect"}) /\ ~Has(rc.events, {"disconnected"})
    BY <1>4, <2>2 DEF Sound, Pending
  <2>4. Has(rc.events, {"reconnect"}) => Has(n.events, Errors)
    BY <1>4, HasSome DEF Errors
  <2>5. ~Has(rc.events, {"reconnect"}) => ~Has(n.events, Awaits \ {Await(p)})
    BY <1>2, <1>4, <2>1, <2>2 DEF Sound, Pending, q
  <2>6. n.state = "Connecting" => Has(rc.events, {"connected"})
    BY <1>2, <1>4 DEF Sound, Pending
  <2> QED
    BY <1>3, <1>4, <1>8, <2>1, <2>2, <2>3, <2>4, <2>5, <2>6
<1>20. Awaiting(n, v, p, alive)
  BY <1>1, <1>11 DEF Sound, Awaiting, Within
<1>21. Greeted(n, v, p)
  <2>1. p \in Requests \cup {"identify"} /\ p # peer => m.fresh
    BY DEF Requests
  <2>2. m.fresh => ~Has(v, {"identify"}) /\ ~Has(r.buffer, Fresh({"identify"}))
    <3> SUFFICES ASSUME m.fresh
                 PROVE  ~Has(v, {"identify"}) /\ ~Has(r.buffer, Fresh({"identify"}))
      OBVIOUS
    <3>1. m \in Fresh({"identify"})
      BY DEF Arrives, Any, Fresh
    <3>2. CASE v = wire /\ Taken(rc.buffer, m, r.buffer)
      <4>1. Has(rc.buffer, Fresh({"identify"}))
        BY <3>1, <3>2 DEF Taken
      <4>2. Has(r.buffer, Fresh({"identify"})) =>
              Before(rc.buffer, Fresh({"identify"}), Fresh({"identify"}))
        BY <3>1, <3>2 DEF Taken
      <4> QED
        BY <3>2, <4>1, <4>2 DEF Sound, Greeted
    <3>3. CASE r.buffer = << >> /\ Taken(wire, m.type, v)
      <4>1. Has(v, {"identify"}) => Before(wire, {"identify"}, {"identify"})
        BY <3>3 DEF Taken
      <4> QED
        BY <3>3, <4>1, HasNone DEF Sound, Greeted
    <3> QED
      BY <3>2, <3>3 DEF Arrives
  <2> QED
    BY <1>1, <1>4, <2>1, <2>2 DEF Sound, Greeted, Within
<1> QED
  BY <1>13, <1>14, <1>15, <1>16, <1>17, <1>18, <1>19, <1>20, <1>21 DEF Sound

\* What the first answer finds, and what it leaves behind.
LEMMA OpeningArrives ==
  ASSUME NEW r, NEW v, NEW m, Arrives(r, v, m), m.type \in Answers,
         Sound(rc, wire, peer, settings.import, alive), rc.state \in Attempts
  PROVE  /\ Late(rc, wire, peer) /\ rc.socket # "connecting"
         /\ ~Has(v, Openings) /\ ~Has(r.buffer, Fresh(Openings))
         /\ m.fresh => m.type = Opening(rc.state)
<1>1. Late(rc, wire, peer)
  BY ArrivedFrom DEF Late, Answered, Served
<1>2. /\ Openings \subseteq Answers /\ Answers \subseteq Messages
      /\ Opening(rc.state) \in Openings
  BY DEF Openings, Answers, Messages, Opening, Attempts
<1>3. CASE m.fresh
  <2>1. Answered(rc, wire, peer)
    BY <1>3, ArrivedFrom DEF Answered, Served
  <2>2. rc.activity # "buffer" /\ ~rc.blocked
    BY <2>1 DEF Sound, Awaiting, Arrives
  <2>3. /\ rc.socket = "connected" /\ r.buffer = << >> /\ Taken(wire, m.type, v)
    BY <2>2 DEF Arrives
  <2>4. ~Has(v, Openings)
    <3>1. Has(v, Openings) => Before(wire, Answers, Openings)
      BY <2>3 DEF Taken
    <3> QED
      BY <3>1 DEF Sound, Awaiting
  <2>5. wire # << >>
    BY <2>3, HasNone DEF Taken
  <2>6. Has(wire, {Opening(rc.state)})
    BY <2>1, <2>2, <2>5 DEF Sound, Awaiting
  <2>7. m.type = Opening(rc.state)
    <3>1. m.type \in {Opening(rc.state)} \/ Has(v, {Opening(rc.state)})
      BY <2>3, <2>6 DEF Taken
    <3>2. Has(v, {Opening(rc.state)}) => Has(v, Openings)
      BY <1>2, HasSome
    <3> QED
      BY <2>4, <3>1, <3>2
  <2> QED
    BY <1>1, <2>3, <2>4, <2>7, HasNone
<1>4. CASE ~m.fresh
  <2>1. rc.socket = "none" /\ v = wire /\ Within(r.buffer, rc.buffer)
    BY <1>4, ArrivedFrom, ArrivedWithin DEF Sound, Queued, Arrives
  <2>2. ~Has(wire, Answers) /\ ~Has(rc.buffer, Fresh(Messages))
    BY <2>1 DEF Sound, Sockets, Served
  <2>3. ~Has(wire, Openings)
    BY <1>2, <2>2, HasSome
  <2>4. Fresh(Openings) \subseteq Fresh(Messages)
    BY <1>2 DEF Fresh
  <2>5. ~Has(r.buffer, Fresh(Openings))
    BY <2>1, <2>2, <2>4, HasSome DEF Within
  <2> QED
    BY <1>1, <1>4, <2>1, <2>3, <2>5
<1> QED
  BY <1>3, <1>4

\* The socket that brought it is still there.
LEMMA OpeningStays ==
  ASSUME NEW r, NEW v, NEW m, Arrives(r, v, m), m.type \in Answers,
         Sound(rc, wire, peer, settings.import, alive), rc.state \in Attempts
  PROVE  rc.socket = "connected" => ~Has(rc.posted, {"disconnected"})
<1>1. CASE m.fresh
  <2>1. Answered(rc, wire, peer)
    BY <1>1, ArrivedFrom DEF Answered, Served
  <2>2. Taken(wire, m.type, v)
    BY <2>1 DEF Sound, Awaiting, Arrives
  <2> QED
    BY <2>2 DEF Sound, Sockets, Served, Taken
<1>2. CASE ~m.fresh
  BY <1>2, ArrivedFrom DEF Sound, Queued, Arrives
<1> QED
  BY <1>1, <1>2

\* The first answer to a registration, a login or an import.
LEMMA OpeningIsSound ==
  ASSUME NEW r, NEW v, NEW m, NEW n, NEW import, Arrives(r, v, m), m.type \in Openings,
         Sound(rc, wire, peer, settings.import, alive), rc.state \in Attempts,
         n.state = r.state, n.closing = r.closing, n.activity = r.activity,
         n.buffer = r.buffer, n.socket = r.socket, n.blocked,
         \A X : Has(n.events, X) <=> Has(r.events, X) \/ "account" \in X,
         \A X : Has(n.posted, X) <=> Has(r.posted, X) \/ "process" \in X
  PROVE  Sound(n, v, peer, import, alive)
<1>1. /\ Within(r.buffer, rc.buffer) /\ Within(v, wire) /\ m.type \in Answers
      /\ rc.state \in Active \ {"Connecting", "Connected", "Idle"}
      /\ r.state = rc.state /\ r.closing = rc.closing /\ r.events = rc.events
      /\ r.posted = rc.posted /\ r.activity = rc.activity
      /\ r.socket = rc.socket /\ rc.activity # "events"
  BY ArrivedWithin DEF Openings, Answers, Messages, Attempts, Active, Arrives
<1>2. /\ Late(rc, wire, peer) /\ rc.socket # "connecting"
      /\ ~Has(v, Openings) /\ ~Has(r.buffer, Fresh(Openings))
      /\ rc.socket = "connected" => ~Has(rc.posted, {"disconnected"})
  BY <1>1, OpeningArrives, OpeningStays
<1>3. /\ Awake(n) <=> Awake(rc)
      /\ Served(v, peer) => Served(wire, peer)
      /\ Answered(n, v, peer) => Answered(rc, wire, peer)
      /\ "account" \notin Awaits /\ "account" \notin {"connected"} /\ Awake(rc)
      /\ "account" \notin {"noConnect"} /\ "account" \notin {"disconnected"}
  BY <1>1 DEF Awake, Served, Answered, Within, Awaits, Active
<1>4. /\ ~Has(rc.events, {"connected"}) /\ ~Has(rc.events, Awaits)
      /\ ~Has(rc.buffer, Any({"identify"})) /\ ~Has(wire, {"identify"})
      /\ peer \in {"silent", "ready", "remove"}
  BY <1>2 DEF Sound, Settled
<1>5. Scheduled(n)
  BY <1>1 DEF Sound, Scheduled, Within, Active
<1>6. Sockets(n, v, peer)
  BY <1>1, <1>3 DEF Sound, Sockets, Within
<1>7. Settled(n, v, peer)
  BY <1>1, <1>3, <1>4 DEF Settled, Within
<1>8. Queued(n)
  BY <1>1, <1>3, <1>4 DEF Sound, Queued, Within
<1>9. Opened(n, v)
  BY <1>1, <1>2 DEF Opened
<1>10. Refusing(n, v, peer)
  BY <1>1 DEF Refusing
<1>11. Requested(n, peer)
  BY <1>4 DEF Requested, Requests
<1>12. Pending(n, import)
  <2>1. \A x : ~Has(n.events, Awaits \ {x})
    BY <1>1, <1>3, <1>4, HasSome
  <2> QED
    BY <1>1, <1>3, <2>1 DEF Sound, Pending
<1>13. Awaiting(n, v, peer, alive)
  <2>1. Moving(n)
    BY DEF Moving
  <2> QED
    BY <1>1, <1>3, <2>1 DEF Sound, Awaiting, Within
<1>14. Greeted(n, v, peer)
  BY <1>1 DEF Sound, Greeted, Within
<1> QED
  BY <1>5, <1>6, <1>7, <1>8, <1>9, <1>10, <1>11, <1>12, <1>13, <1>14 DEF Sound

\* No answer of the present socket meets an active state that does not expect it.
LEMMA AnswerIsExpected ==
  ASSUME NEW r, NEW v, NEW m, Arrives(r, v, m), m.fresh, m.type \in Answers,
         Sound(rc, wire, peer, settings.import, alive), rc.state \in Active
  PROVE  rc.state \in Expected(m.type)
<1>1. Answered(rc, wire, peer)
  BY ArrivedFrom DEF Answered, Served
<1>2. Late(rc, wire, peer)
  BY <1>1 DEF Late
<1>3. rc.state # "Connected" /\ rc.state # "Connecting"
  BY <1>1, <1>2 DEF Sound, Settled, Refusing, Arrives
<1>4. CASE rc.state \in Attempts
  <2>1. m.type = Opening(rc.state)
    BY <1>4, OpeningArrives
  <2> QED
    BY <1>4, <2>1 DEF Opening, Attempts, Expected
<1>5. CASE rc.state = "Idle"
  <2>1. m.type \notin Openings
    <3>1. m.type \in Openings => Has(rc.buffer, Fresh(Openings)) \/ Has(wire, Openings)
      BY ArrivedFrom
    <3> QED
      BY <1>5, <3>1 DEF Sound, Opened
  <2>2. m.type \in {"changed", "lastChanged", "removeAck"}
    BY <2>1 DEF Answers, Messages, Openings
  <2> QED
    BY <1>5, <2>2 DEF Expected
<1> QED
  BY <1>3, <1>4, <1>5 DEF Active, Attempts

\* An event that ends the connection is submitted while a message is handled.
LEMMA EndedByMessage ==
  ASSUME NEW r, NEW v, NEW m, NEW n, NEW e \in Errors, Arrives(r, v, m), Plus(r, n, e),
         Sound(rc, wire, peer, settings.import, alive)
  PROVE  Sound(n, v, peer, settings.import, alive)
<1>1. Within(r.buffer, rc.buffer) /\ Within(v, wire)
  BY ArrivedWithin
<1>2. /\ r.state = rc.state /\ r.closing = rc.closing /\ r.events = rc.events
      /\ r.posted = rc.posted /\ r.activity = rc.activity
      /\ r.socket = rc.socket /\ r.id = rc.id /\ rc.activity # "events"
  BY DEF Arrives
<1>3. /\ Has(n.posted, {"process"}) /\ e # "close"
      /\ \A x \in {"ready", "disconnected"} : Has(n.posted, {x}) => Has(rc.posted, {x})
  BY <1>2 DEF Plus, Errors
<1>4. n.id = rc.id \/ e = "reconnect"
  BY <1>2 DEF Plus
<1> QED
  BY <1>1, <1>2, <1>3, EndIsSound DEF Plus

LEMMA MessageIsTaken ==
  ASSUME TypeOK, Sound(rc, wire, peer, settings.import, alive), binaryMessageReceived
  PROVE  \E r, m : Arrives(r, wire', m) /\ HandleMessage(r, m)
<1>1. rc \in Connection /\ wire \in Seq(Messages) /\ rc.buffer \in Seq(Any(Messages))
  BY DEF TypeOK, Connection, Any
<1>2. ~rc.blocked
  BY DEF binaryMessageReceived
<1>3. CASE rc.activity = "buffer"
  <2> DEFINE buffer == Tail(rc.buffer)
             r == [rc EXCEPT !.buffer = buffer]
             m == Head(rc.buffer)
  <2>1. rc.buffer # << >> /\ wire' = wire /\ HandleMessage(r, m)
    BY <1>3 DEF binaryMessageReceived
  <2>2. /\ m \in Any(Messages) /\ buffer \in Seq(Any(Messages)) /\ Taken(rc.buffer, m, buffer)
    BY <1>1, <2>1, HasHead, HeadTailProperties DEF Taken
  <2> HIDE DEF buffer, m
  <2>3. buffer \in Seq([type : Messages, fresh : BOOLEAN])
    BY <2>2 DEF Any
  <2>4. Arrives(r, wire', m)
    <3>1. /\ r \in Connection
          /\ r.state = rc.state /\ r.closing = rc.closing /\ r.events = rc.events
          /\ r.posted = rc.posted /\ r.activity = rc.activity /\ r.blocked = rc.blocked
          /\ r.socket = rc.socket /\ r.id = rc.id /\ r.buffer = buffer
      BY <1>1, <2>3 DEF Connection
    <3> HIDE DEF r
    <3> QED
      BY <1>2, <1>3, <2>1, <2>2, <3>1 DEF Arrives
  <2> QED
    BY <2>1, <2>4
<1>4. CASE rc.activity # "buffer"
  <2> DEFINE m == [type |-> Head(wire), fresh |-> TRUE]
  <2>1. Readable /\ wire' = Tail(wire) /\ HandleMessage(rc, m)
    BY <1>4 DEF binaryMessageReceived
  <2>2. wire # << >> /\ Head(wire) \in Messages /\ Taken(wire, Head(wire), Tail(wire))
    BY <1>1, <2>1, HasHead DEF Readable, Taken
  <2>3. m \in Any(Messages) /\ m.type = Head(wire) /\ m.fresh = TRUE
    BY <2>2 DEF Any
  <2> HIDE DEF m
  <2>4. rc.buffer = << >>
    BY <1>2, <1>4 DEF Sound, Scheduled
  <2>5. Arrives(rc, wire', m)
    BY <1>1, <1>2, <2>1, <2>2, <2>3, <2>4 DEF Arrives, Readable
  <2> QED
    BY <2>1, <2>5
<1> QED
  BY <1>3, <1>4

LEMMA MessageIsSound ==
  ASSUME TypeOK, Sound(rc, wire, peer, settings.import, alive), ~history.refused,
         binaryMessageReceived
  PROVE  Sound(rc', wire', peer', settings'.import, alive') /\ ~history'.refused
<1>1. alive' = alive /\ history \in [refused : BOOLEAN, failed : BOOLEAN]
  BY DEF binaryMessageReceived, TypeOK
<1>2. PICK r, m : Arrives(r, wire', m) /\ HandleMessage(r, m)
  BY MessageIsTaken
<1>3. /\ r \in Connection /\ m.type \in Messages
      /\ r.state = rc.state /\ r.closing = rc.closing /\ r.events = rc.events
      /\ r.posted = rc.posted /\ r.activity = rc.activity /\ r.blocked = rc.blocked
      /\ r.socket = rc.socket /\ r.id = rc.id
  BY <1>2 DEF Arrives, Any
<1>4. ~history'.refused
  <2>1. ~(m.fresh /\ m.type \in Answers /\ r.state \in Active \ Expected(m.type))
    BY <1>2, <1>3, AnswerIsExpected
  <2> QED
    BY <1>1, <1>2, <2>1 DEF HandleMessage
<1> SUFFICES Sound(rc', wire', peer', settings'.import, alive')
  BY <1>4
<1>5. ASSUME NEW e \in Errors, Plus(r, rc', e), UNCHANGED <<settings, peer>>
      PROVE  Sound(rc', wire', peer', settings'.import, alive')
  BY <1>1, <1>2, <1>5, EndedByMessage
<1>6. {"reconnect", "basicError", "fatalError", "account"} \subseteq Events /\ Awaits \subseteq Events
  BY DEF Events, Awaits
<1>7. CASE m.type = "identify" /\ onIdentify(r, m.fresh)
  <2>1. r.state \in {"Connecting", "Connected"} /\ settings' = settings
    BY <1>7 DEF onIdentify
  <2>2. rc' = submitEventSync(r, Await(Request(r.id, settings.import)))
    BY <1>7 DEF onIdentify, Await, Request
  <2>3. Await(Request(r.id, settings.import)) \in Awaits
    BY DEF Await, Request, Awaits
  <2>4. Plus(r, rc', Await(Request(r.id, settings.import)))
    BY <1>3, <1>6, <2>2, <2>3, SubmittedPlus
  <2>5. peer' = IF r.socket = "connected"
                THEN IF m.fresh THEN Request(r.id, settings.import) ELSE "refuse" ELSE peer
    BY <1>7 DEF onIdentify, Send, Request
  <2> QED
    BY <1>1, <1>2, <1>3, <1>7, <2>1, <2>4, <2>5, GreetingIsSound
<1>8. ASSUME r.state \in Attempts, m.type \in Openings, peer' = peer,
             NEW s \in Connection, s.state = r.state, s.closing = r.closing, s.events = r.events,
             s.posted = r.posted, s.activity = r.activity, s.buffer = r.buffer,
             s.socket = r.socket, rc' = submitEventSync(s, "account")
      PROVE  Sound(rc', wire', peer', settings'.import, alive')
  <2>1. Plus(s, rc', "account")
    BY <1>6, <1>8, SubmittedPlus
  <2>2. /\ rc'.state = r.state /\ rc'.closing = r.closing /\ rc'.activity = r.activity
        /\ rc'.buffer = r.buffer /\ rc'.socket = r.socket /\ rc'.blocked
        /\ \A X : Has(rc'.events, X) <=> Has(r.events, X) \/ "account" \in X
        /\ \A X : Has(rc'.posted, X) <=> Has(r.posted, X) \/ "process" \in X
    BY <1>2, <1>8, <2>1 DEF Plus, Arrives
  <2> QED
    BY <1>1, <1>2, <1>3, <1>8, <2>2, OpeningIsSound
<1>9. CASE m.type = "welcome" /\ onWelcome(r)
  BY <1>3, <1>8, <1>9 DEF onWelcome, Attempts, Openings
<1>10. CASE (m.type = "account" /\ onAccount(r)) \/ (m.type = "grant" /\ onGrant(r))
  <2> DEFINE s == [r EXCEPT !.id = TRUE]
  <2>1. /\ s \in Connection /\ s.state = r.state /\ s.closing = r.closing /\ s.events = r.events
        /\ s.posted = r.posted /\ s.activity = r.activity /\ s.buffer = r.buffer
        /\ s.socket = r.socket
    BY <1>3 DEF Connection
  <2>2. /\ r.state \in Attempts /\ m.type \in Openings /\ peer' = peer
        /\ rc' = submitEventSync(s, "account")
    BY <1>10 DEF onAccount, onGrant, Attempts, Openings
  <2> HIDE DEF s
  <2> QED
    BY <1>8, <2>1, <2>2
<1>11. CASE (m.type = "changed" /\ onChanged(r)) \/ (m.type = "lastChanged" /\ onLastChanged(r))
  <2>1. PICK op \in {"none", "op", "special"} : rc' = remoteEvent([r EXCEPT !.op = op], "Ready")
    BY <1>3, <1>11 DEF onChanged, onLastChanged, Connection
  <2>2. r.state = "Idle" /\ UNCHANGED <<settings, peer>>
    BY <1>11 DEF onChanged, onLastChanged
  <2> DEFINE s == [r EXCEPT !.op = op]
  <2>3. Alike(r, s)
    BY <1>3, OperationAlike
  <2>4. rc' = remoteEvent(s, "Ready")
    BY <2>1
  <2> HIDE DEF s
  <2>5. Alike(r, rc')
    BY <2>3, <2>4, RemoteAlike DEF Alike
  <2>6. Within(r.buffer, rc.buffer) /\ Within(wire', wire)
    BY <1>2, ArrivedWithin
  <2>7. rc.state \notin Attempts
    BY <1>3, <2>2 DEF Attempts
  <2>8. Sound(rc', wire', peer, settings.import, alive)
    BY <1>3, <2>5, <2>6, <2>7, CalmIsSound DEF Alike
  <2> QED
    BY <1>1, <2>2, <2>8
<1>12. CASE m.type = "removeAck" /\ onRemoveAck(r)
  <2> DEFINE s == [r EXCEPT !.id = FALSE]
  <2>1. /\ s \in Connection /\ s.state = r.state /\ s.closing = r.closing /\ s.events = r.events
        /\ s.posted = r.posted /\ s.activity = r.activity /\ s.buffer = r.buffer
        /\ s.socket = r.socket
    BY <1>3 DEF Connection
  <2>2. rc' = submitEventSync(s, "reconnect") /\ UNCHANGED <<settings, peer>>
    BY <1>12 DEF onRemoveAck
  <2> HIDE DEF s
  <2>3. Plus(s, rc', "reconnect")
    BY <1>6, <2>1, <2>2, SubmittedPlus
  <2>4. Within(r.buffer, rc.buffer) /\ Within(wire', wire) /\ rc.activity # "events"
    BY <1>2, ArrivedWithin DEF Arrives
  <2>5. /\ Has(rc'.posted, {"process"}) /\ "reconnect" \in Errors
        /\ \A x \in {"ready", "disconnected"} : Has(rc'.posted, {x}) => Has(rc.posted, {x})
    BY <1>3, <2>1, <2>3, <2>4 DEF Plus, Errors
  <2>6. Sound(rc', wire', peer, settings.import, alive)
    BY <1>3, <2>1, <2>3, <2>4, <2>5, EndIsSound DEF Plus
  <2> QED
    BY <1>1, <2>2, <2>6
<1>13. CASE m.type \in {"error", "fatal"} /\ onError(r, m.type)
  <2>1. CASE m.type = "error"
    <3>1. Plus(r, rc', "basicError") /\ "basicError" \in Errors /\ UNCHANGED <<settings, peer>>
      BY <1>3, <1>6, <1>13, <2>1, SubmittedPlus DEF onError, Errors
    <3> QED
      BY <1>5, <3>1
  <2>2. CASE m.type = "fatal"
    <3> DEFINE a == submitEventSync(r, "fatalError")
               b == [a EXCEPT !.engine = "Error"]
    <3>1. Plus(r, a, "fatalError") /\ "fatalError" \in Errors
      BY <1>3, <1>6, SubmittedPlus DEF Errors
    <3>2. rc' = submitEventSync(b, "fatalError") /\ UNCHANGED <<settings, peer>>
      BY <1>13, <2>2 DEF onError, controllerError
    <3> HIDE DEF a
    <3>3. Alike(a, b)
      BY <3>1 DEF Plus, Alike, Connection
    <3> HIDE DEF b
    <3>4. Plus(b, rc', "fatalError")
      BY <1>6, <3>2, <3>3, SubmittedPlus DEF Alike
    <3>5. Sound(a, wire', peer, settings.import, alive)
      BY <1>2, <3>1, EndedByMessage
    <3>6. a.activity # "events"
      BY <1>2, <1>3, <3>1 DEF Plus, Arrives
    <3>7. /\ Has(rc'.posted, {"process"})
          /\ \A x \in {"ready", "disconnected"} : Has(rc'.posted, {x}) => Has(a.posted, {x})
      BY <3>3, <3>4, <3>6 DEF Plus, Alike
    <3>8. Sound(rc', wire', peer, settings.import, alive)
      BY <3>1, <3>3, <3>4, <3>5, <3>6, <3>7, WithinItself, EndIsSound DEF Plus, Alike
    <3> QED
      BY <1>1, <3>2, <3>8
  <2> QED
    BY <1>13, <2>1, <2>2
<1>14. CASE rc' = Unexpected(r) /\ UNCHANGED <<settings, peer>>
  <2>1. Plus(r, rc', "basicError") /\ "basicError" \in Errors
    BY <1>3, <1>6, <1>14, SubmittedPlus DEF Unexpected, Errors
  <2> QED
    BY <1>5, <1>14, <2>1
<1>15. \/ m.type = "identify" /\ onIdentify(r, m.fresh)
       \/ m.type = "welcome" /\ onWelcome(r)
       \/ m.type = "account" /\ onAccount(r)
       \/ m.type = "grant" /\ onGrant(r)
       \/ m.type = "changed" /\ onChanged(r)
       \/ m.type = "lastChanged" /\ onLastChanged(r)
       \/ m.type = "removeAck" /\ onRemoveAck(r)
       \/ m.type \in {"error", "fatal"} /\ onError(r, m.type)
       \/ rc' = Unexpected(r) /\ UNCHANGED <<settings, peer>>
  BY <1>2 DEF HandleMessage
<1> QED
  BY <1>7, <1>9, <1>10, <1>11, <1>12, <1>13, <1>14, <1>15

--------------------------------------------------------------------------------
(* The event loop, the socket and the server.                                *)

\* A message is kept for later.
LEMMA BufferIsSound ==
  ASSUME TypeOK, Sound(rc, wire, peer, settings.import, alive), BufferMessage
  PROVE  Sound(rc', wire', peer', settings'.import, alive')
<1> DEFINE h == Head(wire)
           v == Tail(wire)
           x == [type |-> h, fresh |-> TRUE]
           buffer == Append(rc.buffer, x)
           n == [rc EXCEPT !.buffer = buffer]
<1>1. /\ rc \in Connection /\ rc.activity = "none" /\ rc.blocked /\ rc.socket = "connected"
      /\ rc.state \notin {"Stopped", "Final"}
      /\ wire # << >> /\ wire \in Seq(Messages) /\ rc.buffer \in Seq(Any(Messages))
      /\ rc' = n /\ wire' = v /\ UNCHANGED <<settings, peer, alive>>
  BY DEF TypeOK, BufferMessage, Readable, Running, Connection, Any
<1>2. h \in Messages
  BY <1>1, HasHead
<1> HIDE DEF h
<1>3. /\ x \in Any(Messages)
      /\ \A X : (x \in Fresh(X) <=> h \in X) /\ (x \in Any(X) <=> h \in X) /\ x \notin Stale(X)
  BY <1>2 DEF Any, Fresh, Stale
<1> HIDE DEF x
<1>4. /\ \A X : Has(buffer, X) <=> Has(rc.buffer, X) \/ x \in X
      /\ \A X, Y : Before(buffer, X, Y) <=> Before(rc.buffer, X, Y) \/ (Has(rc.buffer, X) /\ x \in Y)
  BY <1>1, <1>3, HasAppended
<1>5. /\ \A X : Has(wire, X) <=> h \in X \/ Has(v, X)
      /\ \A X, Y : Before(wire, X, Y) <=> (h \in X /\ Has(v, Y)) \/ Before(v, X, Y)
  BY <1>1, HasHead DEF h
<1> HIDE DEF v, buffer
<1>6. /\ n.state = rc.state /\ n.closing = rc.closing /\ n.events = rc.events
      /\ n.posted = rc.posted /\ n.activity = rc.activity /\ n.blocked = rc.blocked
      /\ n.buffer = buffer /\ n.socket = rc.socket /\ n.id = rc.id
  BY <1>1 DEF Connection
<1> HIDE DEF n
<1>7. /\ Awake(n) <=> Awake(rc)
      /\ Served(v, peer) => Served(wire, peer)
      /\ Answered(n, v, peer) => Answered(rc, wire, peer)
      /\ Late(n, v, peer) => Late(rc, wire, peer)
      /\ h \in Answers => Late(rc, wire, peer)
  BY <1>3, <1>4, <1>5, <1>6 DEF Awake, Served, Answered, Late
<1>8. Scheduled(n)
  BY <1>1, <1>6, <1>7 DEF Sound, Scheduled
<1>9. Sockets(n, v, peer)
  BY <1>1, <1>6, <1>7 DEF Sound, Sockets
<1>10. Settled(n, v, peer)
  BY <1>3, <1>4, <1>5, <1>6, <1>7 DEF Sound, Settled
<1>11. Queued(n)
  <2>1. h \in Answers => ~Has(rc.events, Awaits) /\ ~Has(rc.buffer, Any({"identify"}))
    BY <1>7 DEF Sound, Settled
  <2> QED
    BY <1>3, <1>4, <1>6, <2>1 DEF Sound, Queued
<1>12. Opened(n, v)
  BY <1>1, <1>3, <1>4, <1>5, <1>6, <1>7 DEF Sound, Opened
<1>13. Refusing(n, v, peer) /\ Requested(n, peer)
  BY <1>6, <1>7 DEF Sound, Refusing, Requested
<1>14. Pending(n, settings.import)
  BY <1>6, <1>7 DEF Sound, Pending
<1>15. Awaiting(n, v, peer, alive)
  BY <1>1, <1>5, <1>6, <1>7 DEF Sound, Awaiting, Moving
<1>16. Greeted(n, v, peer)
  BY <1>3, <1>4, <1>5, <1>6 DEF Sound, Greeted
<1> QED
  BY <1>1, <1>8, <1>9, <1>10, <1>11, <1>12, <1>13, <1>14, <1>15, <1>16 DEF Sound

\* The loop of machineReady begins or ends.
LEMMA LoopIsSound ==
  ASSUME NEW r, NEW n, NEW w, NEW p, NEW import, NEW al,
         Sound(r, w, p, import, al), r.activity # "events", n.activity # "events",
         r.activity = "buffer" \/ Has(r.posted, {"ready"}),
         n.state = r.state, n.closing = r.closing, n.events = r.events,
         n.buffer = r.buffer, n.socket = r.socket, n.id = r.id,
         n.blocked => r.blocked /\ n.posted = r.posted,
         \A x \in {"process", "disconnected"} : Has(n.posted, {x}) <=> Has(r.posted, {x}),
         n.buffer = << >> \/ n.blocked \/ n.activity = "buffer"
  PROVE  Sound(n, w, p, import, al)
<1>1. /\ Awake(n) <=> Awake(r)
      /\ Answered(n, w, p) <=> Answered(r, w, p)
      /\ Late(n, w, p) <=> Late(r, w, p)
  BY DEF Awake, Answered, Late
<1>2. Scheduled(n) /\ Sockets(n, w, p)
  BY <1>1 DEF Sound, Scheduled, Sockets
<1>3. Settled(n, w, p) /\ Queued(n) /\ Opened(n, w)
  BY <1>1 DEF Sound, Settled, Queued, Opened
<1>4. Refusing(n, w, p) /\ Requested(n, p) /\ Pending(n, import)
  BY <1>1 DEF Sound, Refusing, Requested, Pending
<1>5. Awaiting(n, w, p, al) /\ Greeted(n, w, p)
  BY <1>1 DEF Sound, Awaiting, Greeted
<1> QED
  BY <1>2, <1>3, <1>4, <1>5 DEF Sound

LEMMA ReadyIsSound ==
  ASSUME TypeOK, Sound(rc, wire, peer, settings.import, alive), machineReady \/ Drained
  PROVE  Sound(rc', wire', peer', settings'.import, alive')
<1>1. rc \in Connection /\ UNCHANGED <<settings, wire, peer, alive>>
  BY DEF TypeOK, machineReady, Drained
<1>2. CASE machineReady
  <2> DEFINE posted == Tail(rc.posted)
             n == [rc EXCEPT !.posted = posted, !.blocked = FALSE, !.activity = "buffer"]
  <2>1. /\ rc.activity = "none" /\ rc.posted # << >> /\ Head(rc.posted) = "ready" /\ rc' = n
    BY <1>2 DEF machineReady
  <2>2. \A X : Has(rc.posted, X) <=> "ready" \in X \/ Has(posted, X)
    BY <1>1, <2>1, Popped
  <2> HIDE DEF posted
  <2>3. /\ n.state = rc.state /\ n.closing = rc.closing /\ n.events = rc.events
        /\ n.posted = posted /\ n.activity = "buffer" /\ n.blocked = FALSE
        /\ n.buffer = rc.buffer /\ n.socket = rc.socket /\ n.id = rc.id
    BY <1>1 DEF Connection
  <2> HIDE DEF n
  <2>4. Sound(n, wire, peer, settings.import, alive)
    BY <2>1, <2>2, <2>3, LoopIsSound
  <2> QED
    BY <1>1, <2>1, <2>4
<1>3. CASE Drained
  <2> DEFINE n == [rc EXCEPT !.activity = "none"]
  <2>1. rc.activity = "buffer" /\ (rc.blocked \/ rc.buffer = << >>) /\ rc' = n
    BY <1>3 DEF Drained
  <2>2. /\ n.state = rc.state /\ n.closing = rc.closing /\ n.events = rc.events
        /\ n.posted = rc.posted /\ n.activity = "none" /\ n.blocked = rc.blocked
        /\ n.buffer = rc.buffer /\ n.socket = rc.socket /\ n.id = rc.id
    BY <1>1 DEF Connection
  <2> HIDE DEF n
  <2>3. Sound(n, wire, peer, settings.import, alive)
    BY <2>1, <2>2, LoopIsSound
  <2> QED
    BY <1>1, <2>1, <2>3
<1> QED
  BY <1>2, <1>3

\* The socket has closed, and the connector forgets it.
LEMMA GoneIsSound ==
  ASSUME NEW r, NEW n, NEW w, NEW p, NEW import, NEW al,
         Sound(r, w, p, import, al), r.activity # "events",
         r.buffer \in Seq(Any(Messages)), Has(r.posted, {"disconnected"}),
         n.state = r.state, n.closing = r.closing, n.activity = r.activity, n.id = r.id,
         n.socket = "none", n.blocked, Faded(r.buffer, n.buffer),
         \A X : Has(n.events, X) <=> Has(r.events, X) \/ "disconnected" \in X,
         Has(n.posted, {"process"}),
         \A x \in {"ready"} : Has(n.posted, {x}) => Has(r.posted, {x})
  PROVE  Sound(n, w, p, import, al)
<1>1. /\ Awake(n) <=> Awake(r)
      /\ "disconnected" \notin {"account"} /\ "disconnected" \notin {"connected"}
      /\ "disconnected" \notin Awaits /\ "disconnected" \notin {"noConnect"}
      /\ "disconnected" \notin {"reconnect"} /\ \A x : "disconnected" \notin Awaits \ {x}
      /\ Answers \in SUBSET Messages /\ {"identify"} \in SUBSET Messages
  BY DEF Awake, Awaits, Answers, Messages
<1>2. /\ \A X : "disconnected" \notin X => (Has(n.events, X) <=> Has(r.events, X))
      /\ \A X : ~Has(n.buffer, Fresh(X))
      /\ \A X \in {Answers, {"identify"}} : Has(n.buffer, Any(X)) <=> Has(r.buffer, Any(X))
      /\ n.buffer = << >> <=> r.buffer = << >>
  BY DEF Faded
<1>3. ~Served(w, p)
  BY DEF Sound, Sockets
<1>4. ~Answered(n, w, p)
  BY <1>2, <1>3 DEF Answered
<1>5. Late(n, w, p) => Late(r, w, p)
  <2>1. Has(n.buffer, Stale(Answers)) <=> Has(r.buffer, Any(Answers))
    BY DEF Faded
  <2>2. Has(r.buffer, Any(Answers)) <=> Has(r.buffer, Fresh(Answers)) \/ Has(r.buffer, Stale(Answers))
    BY <1>1, BufferKinds
  <2> QED
    BY <1>1, <1>2, <1>4, <2>1, <2>2 DEF Late, Answered
<1>6. Scheduled(n)
  BY <1>2 DEF Sound, Scheduled
<1>7. Sockets(n, w, p)
  BY <1>2, <1>3 DEF Sockets
<1>8. Settled(n, w, p)
  BY <1>1, <1>2, <1>5 DEF Sound, Settled
<1>9. Queued(n)
  BY <1>1, <1>2 DEF Sound, Queued, Faded
<1>10. Opened(n, w)
  BY <1>1, <1>2 DEF Sound, Opened
<1>11. Refusing(n, w, p) /\ Requested(n, p)
  BY <1>4 DEF Refusing, Requested
<1>12. Pending(n, import)
  BY <1>1, <1>2 DEF Sound, Pending
<1>13. Awaiting(n, w, p, al)
  BY <1>4 DEF Sound, Awaiting
<1>14. Greeted(n, w, p)
  BY <1>2 DEF Sound, Greeted, Faded
<1> QED
  BY <1>6, <1>7, <1>8, <1>9, <1>10, <1>11, <1>12, <1>13, <1>14 DEF Sound

\* A call is taken from the event loop.
LEMMA CallReturns ==
  ASSUME rc \in Connection, rc.posted # << >>
  PROVE  LET r == Returned(rc) IN
         /\ r \in Connection
         /\ r.state = rc.state /\ r.closing = rc.closing /\ r.events = rc.events
         /\ r.activity = rc.activity /\ r.blocked = rc.blocked
         /\ r.buffer = rc.buffer /\ r.socket = rc.socket /\ r.id = rc.id
         /\ \A X : Has(rc.posted, X) <=> Head(rc.posted) \in X \/ Has(r.posted, X)
<1> DEFINE posted == Tail(rc.posted)
           r == [rc EXCEPT !.posted = posted]
<1>1. Returned(rc) = r
  BY DEF Returned
<1>2. /\ posted \in Seq({"process", "ready", "disconnected", "tryClose"} \cup AllCalls)
      /\ \A X : Has(rc.posted, X) <=> Head(rc.posted) \in X \/ Has(posted, X)
  BY Popped
<1> HIDE DEF posted
<1>3. /\ r \in Connection /\ r.posted = posted
      /\ r.state = rc.state /\ r.closing = rc.closing /\ r.events = rc.events
      /\ r.activity = rc.activity /\ r.blocked = rc.blocked
      /\ r.buffer = rc.buffer /\ r.socket = rc.socket /\ r.id = rc.id
  BY <1>2 DEF Connection
<1> HIDE DEF r
<1> QED
  BY <1>1, <1>2, <1>3

LEMMA DisconnectedIsSound ==
  ASSUME TypeOK, Sound(rc, wire, peer, settings.import, alive), HandleDisconnected
  PROVE  Sound(rc', wire', peer', settings'.import, alive')
<1> DEFINE r == Returned(rc)
           f == Forget(r)
           d == [f EXCEPT !.op = "none"]
<1>1. /\ rc \in Connection /\ rc.activity = "none" /\ rc.posted # << >>
      /\ Head(rc.posted) = "disconnected" /\ rc.buffer \in Seq(Any(Messages))
      /\ UNCHANGED <<settings, wire, peer, alive>>
  BY DEF TypeOK, HandleDisconnected, Called, Connection, Any
<1>2. rc' = submitEventSync(d, "disconnected") /\ "disconnected" \in Events
  BY DEF HandleDisconnected, disconnected, Events
<1>3. /\ r \in Connection
      /\ r.state = rc.state /\ r.closing = rc.closing /\ r.events = rc.events
      /\ r.activity = rc.activity /\ r.buffer = rc.buffer /\ r.id = rc.id
      /\ \A X : Has(rc.posted, X) <=> "disconnected" \in X \/ Has(r.posted, X)
  BY <1>1, CallReturns
<1> HIDE DEF r
<1>4. /\ f \in Connection /\ f.socket = "none"
      /\ f.state = r.state /\ f.closing = r.closing /\ f.events = r.events
      /\ f.posted = r.posted /\ f.activity = r.activity /\ f.id = r.id
      /\ Faded(r.buffer, f.buffer)
  BY <1>3, Forgotten, HasForgotten, ForgetFades
<1> HIDE DEF f
<1>5. Alike(f, d)
  BY <1>4, OperationAlike
<1> HIDE DEF d
<1>6. Plus(d, rc', "disconnected")
  BY <1>2, <1>5, SubmittedPlus DEF Alike
<1>7. /\ rc'.state = rc.state /\ rc'.closing = rc.closing /\ rc'.activity = rc.activity
      /\ rc'.id = rc.id /\ rc'.socket = "none" /\ rc'.blocked /\ Faded(rc.buffer, rc'.buffer)
      /\ \A X : Has(rc'.events, X) <=> Has(rc.events, X) \/ "disconnected" \in X
      /\ \A X : Has(rc'.posted, X) <=> Has(r.posted, X) \/ "process" \in X
  BY <1>1, <1>3, <1>4, <1>5, <1>6 DEF Alike, Plus
<1>8. Sound(rc', wire, peer, settings.import, alive)
  BY <1>1, <1>3, <1>7, GoneIsSound
<1> QED
  BY <1>1, <1>8

\* A call or a timer ends the connection; r is what is left of rc.
LEMMA EndedByCall ==
  ASSUME NEW r, NEW n, NEW e \in Errors \cup {"close"}, NEW import,
         Sound(rc, wire, peer, settings.import, alive), rc.activity = "none",
         r.state = rc.state, r.events = rc.events, r.activity = rc.activity,
         r.buffer = rc.buffer, r.socket = rc.socket,
         rc.closing \/ e = "close" => r.closing,
         \A x \in {"ready", "disconnected"} : Has(r.posted, {x}) => Has(rc.posted, {x}),
         e = "reconnect" \/ (r.id = rc.id /\ import = settings.import),
         Plus(r, n, e)
  PROVE  Sound(n, wire, peer, import, alive)
<1>1. /\ Has(n.posted, {"process"})
      /\ \A x \in {"ready", "disconnected"} : Has(n.posted, {x}) => Has(rc.posted, {x})
  BY DEF Plus
<1> QED
  BY <1>1, WithinItself, EndIsSound DEF Plus

LEMMA FailureIsSound ==
  ASSUME NEW r \in Connection, NEW import,
         Sound(rc, wire, peer, settings.import, alive), rc.activity = "none",
         r.state = rc.state, r.events = rc.events, r.activity = rc.activity,
         r.buffer = rc.buffer, r.socket = rc.socket, r.closing = rc.closing,
         \A x \in {"ready", "disconnected"} : Has(r.posted, {x}) => Has(rc.posted, {x}),
         NEW e \in Errors, e = "reconnect" \/ (r.id = rc.id /\ import = settings.import)
  PROVE  Sound(submitEventSync(r, e), wire, peer, import, alive)
<1>1. e \in Events /\ e # "close"
  BY DEF Errors, Events
<1>2. Plus(r, submitEventSync(r, e), e)
  BY <1>1, SubmittedPlus
<1> QED
  BY <1>1, <1>2, EndedByCall

\* The socket starts to close, or the machine has ended.
LEMMA ClosingIsSound ==
  ASSUME NEW r, NEW n, NEW w, NEW p, NEW import, NEW al,
         Sound(r, w, p, import, al),
         n.state = r.state \/ n.state = "Final",
         n.closing = r.closing, n.events = r.events, n.activity = r.activity,
         n.blocked = r.blocked, n.buffer = r.buffer, n.id = r.id,
         n.socket = IF r.socket = "connected" THEN "closing" ELSE r.socket,
         \A x \in {"process", "ready", "disconnected"} : Has(n.posted, {x}) <=> Has(r.posted, {x})
  PROVE  Sound(n, w, p, import, al)
<1>1. /\ Awake(n) => Awake(r) /\ n.state = r.state
      /\ "Final" \notin Attempts
      /\ Answered(n, w, p) <=> Answered(r, w, p)
      /\ Late(n, w, p) => Late(r, w, p)
  BY DEF Awake, Attempts, Answered, Late
<1>2. Scheduled(n) /\ Sockets(n, w, p)
  BY <1>1 DEF Sound, Scheduled, Sockets
<1>3. Settled(n, w, p) /\ Queued(n) /\ Opened(n, w)
  BY <1>1 DEF Sound, Settled, Queued, Opened
<1>4. Refusing(n, w, p) /\ Requested(n, p) /\ Pending(n, import)
  BY <1>1 DEF Sound, Refusing, Requested, Pending
<1>5. Awaiting(n, w, p, al) /\ Greeted(n, w, p)
  BY <1>1 DEF Sound, Awaiting, Greeted, Moving
<1> QED
  BY <1>2, <1>3, <1>4, <1>5 DEF Sound

LEMMA TryCloseIsSound ==
  ASSUME TypeOK, Sound(rc, wire, peer, settings.import, alive), tryClose \/ FinalizeTimeout
  PROVE  Sound(rc', wire', peer', settings'.import, alive')
<1>1. rc \in Connection /\ UNCHANGED <<settings, wire, peer, alive>>
  BY DEF TypeOK, tryClose, FinalizeTimeout, Called
<1>2. CASE tryClose
  <2> DEFINE r == Returned(rc)
             socket == IF r.socket = "connected" THEN "closing" ELSE r.socket
             n == [r EXCEPT !.socket = socket]
  <2>1. rc.posted # << >> /\ Head(rc.posted) = "tryClose" /\ rc' = n
    BY <1>2 DEF tryClose, Called
  <2>2. /\ r \in Connection
        /\ r.state = rc.state /\ r.closing = rc.closing /\ r.events = rc.events
        /\ r.activity = rc.activity /\ r.blocked = rc.blocked
        /\ r.buffer = rc.buffer /\ r.socket = rc.socket /\ r.id = rc.id
        /\ \A X : Has(rc.posted, X) <=> "tryClose" \in X \/ Has(r.posted, X)
    BY <1>1, <2>1, CallReturns
  <2> HIDE DEF r
  <2>3. socket = IF rc.socket = "connected" THEN "closing" ELSE rc.socket
    BY <2>2
  <2> HIDE DEF socket
  <2>4. /\ n.state = r.state /\ n.closing = r.closing /\ n.events = r.events
        /\ n.posted = r.posted /\ n.activity = r.activity /\ n.blocked = r.blocked
        /\ n.buffer = r.buffer /\ n.socket = socket /\ n.id = r.id
    BY <2>2 DEF Connection
  <2> HIDE DEF n
  <2>5. Sound(n, wire, peer, settings.import, alive)
    BY <2>2, <2>3, <2>4, ClosingIsSound
  <2> QED
    BY <1>1, <2>1, <2>5
<1>3. CASE FinalizeTimeout
  <2> DEFINE socket == IF rc.socket = "connected" THEN "closing" ELSE rc.socket
             n == [rc EXCEPT !.state = "Final", !.socket = socket]
  <2>1. rc' = n
    BY <1>3 DEF FinalizeTimeout
  <2> HIDE DEF socket
  <2>2. /\ n.state = "Final" /\ n.closing = rc.closing /\ n.events = rc.events
        /\ n.posted = rc.posted /\ n.activity = rc.activity /\ n.blocked = rc.blocked
        /\ n.buffer = rc.buffer /\ n.socket = socket /\ n.id = rc.id
    BY <1>1 DEF Connection
  <2> HIDE DEF n
  <2>3. Sound(n, wire, peer, settings.import, alive)
    BY <2>2, ClosingIsSound DEF socket
  <2> QED
    BY <1>1, <2>1, <2>3
<1> QED
  BY <1>2, <1>3

\* Another thread, or an error of the socket, posts a call.
LEMMA PostIsSound ==
  ASSUME TypeOK, Sound(rc, wire, peer, settings.import, alive), PostCall \/ SocketError
  PROVE  Sound(rc', wire', peer', settings'.import, alive')
<1>1. rc \in Connection /\ UNCHANGED <<settings, wire, peer, alive>>
  BY DEF TypeOK, PostCall, SocketError, Network
<1>2. PICK call \in AllCalls \cup {"tryClose"} : rc' = [rc EXCEPT !.posted = Append(@, call)]
  BY ConnectorAssumption DEF PostCall, SocketError
<1> DEFINE posted == Append(rc.posted, call)
           n == [rc EXCEPT !.posted = posted]
           Posts == {"process", "ready", "disconnected", "tryClose"} \cup AllCalls
<1>3. rc' = n
  BY <1>2
<1>4. rc.posted \in Seq(Posts) /\ call \in Posts
  BY <1>1 DEF Connection
<1>5. call \notin {"process", "ready", "disconnected"}
  BY DEF AllCalls
<1> HIDE DEF Posts
<1>6. \A X : Has(posted, X) <=> Has(rc.posted, X) \/ call \in X
  BY <1>4, HasAppended
<1> HIDE DEF posted
<1>7. /\ n.state = rc.state /\ n.closing = rc.closing /\ n.events = rc.events
      /\ n.posted = posted /\ n.activity = rc.activity /\ n.blocked = rc.blocked
      /\ n.buffer = rc.buffer /\ n.socket = rc.socket /\ n.id = rc.id
  BY <1>1 DEF Connection
<1> HIDE DEF n
<1>8. Sound(n, wire, peer, settings.import, alive)
  BY <1>5, <1>6, <1>7, WithinItself, CalmIsSound
<1> QED
  BY <1>1, <1>3, <1>8

\* What is left of rc is all there is.
LEMMA NothingIsSound ==
  ASSUME NEW r, NEW import, Sound(rc, wire, peer, settings.import, alive),
         Alike(rc, r), import = settings.import
  PROVE  Sound(r, wire, peer, import, alive)
  BY WithinItself, CalmIsSound DEF Alike

LEMMA TimerIsSound ==
  ASSUME TypeOK, Sound(rc, wire, peer, settings.import, alive), Timer
  PROVE  Sound(rc', wire', peer', settings'.import, alive')
<1>1. /\ rc \in Connection /\ rc.activity = "none"
      /\ UNCHANGED <<settings, wire, peer, alive>>
  BY DEF TypeOK, Timer, onTimeout, retry, ping, PingTimeout, Fires
<1>2. ASSUME NEW s, Alike(rc, s), NEW e \in Errors
      PROVE  Sound(submitEventSync(s, e), wire, peer, settings.import, alive)
  BY <1>1, <1>2, FailureIsSound DEF Alike
<1>3. /\ {"basicError", "reconnect"} \subseteq Errors
      /\ {"none"} \subseteq {"none", "op", "special"}
      /\ {"on", "awaiting"} \subseteq {"off", "on", "awaiting"}
  BY DEF Errors
<1>4. CASE onTimeout
  <2> DEFINE s == [rc EXCEPT !.op = "none"]
             e == IF rc.op = "special" THEN "basicError" ELSE "reconnect"
  <2>1. rc' = submitEventSync(s, e) /\ e \in Errors
    BY <1>3, <1>4 DEF onTimeout
  <2>2. Alike(rc, s)
    BY <1>1, <1>3, OperationAlike
  <2> HIDE DEF s, e
  <2> QED
    BY <1>1, <1>2, <2>1, <2>2
<1>5. CASE retry
  <2> DEFINE m == rc.retries - 1
             s == [rc EXCEPT !.retries = m]
  <2>1. rc' = s \/ rc' = submitEventSync(s, "reconnect")
    BY <1>5 DEF retry
  <2>2. m \in Nat
    BY <1>1, <1>5 DEF retry, Fires, Connection
  <2> HIDE DEF m
  <2>3. Alike(rc, s)
    BY <1>1, <2>2, OperationAlike
  <2> HIDE DEF s
  <2> QED
    BY <1>1, <1>2, <1>3, <2>1, <2>3, NothingIsSound
<1>6. CASE PingTimeout
  <2> DEFINE s == [rc EXCEPT !.ping = "on"]
  <2>1. rc' = submitEventSync(s, "reconnect")
    BY <1>6 DEF PingTimeout
  <2>2. Alike(rc, s)
    BY <1>1, <1>3, OperationAlike
  <2> HIDE DEF s
  <2> QED
    BY <1>1, <1>2, <1>3, <2>1, <2>2
<1>7. CASE ping
  <2> DEFINE s == [rc EXCEPT !.ping = "awaiting"]
  <2>1. rc' = s
    BY <1>7 DEF ping
  <2>2. Alike(rc, s)
    BY <1>1, <1>3, OperationAlike
  <2> HIDE DEF s
  <2> QED
    BY <1>1, <2>1, <2>2, NothingIsSound
<1> QED
  BY <1>4, <1>5, <1>6, <1>7 DEF Timer

\* The server is asked to remove the device, which has to be logged in.
LEMMA RemovalIsSound ==
  ASSUME NEW r, NEW n, NEW w, NEW p, NEW q, NEW import, NEW other, NEW al,
         Sound(r, w, p, import, al), r.state = "Idle",
         n.state = r.state, n.closing = r.closing, n.events = r.events, n.activity = r.activity,
         n.blocked = r.blocked, n.buffer = r.buffer, n.socket = r.socket, n.id = r.id,
         \A x \in {"process", "ready", "disconnected"} : Has(n.posted, {x}) <=> Has(r.posted, {x}),
         q = IF r.socket = "connected" THEN "remove" ELSE p
  PROVE  Sound(n, w, q, other, al)
<1>1. /\ Late(r, w, p) /\ "Idle" \notin Attempts
      /\ Awake(n) <=> Awake(r)
  BY DEF Late, Attempts, Awake
<1>2. /\ ~Has(n.events, {"connected"}) /\ ~Has(n.events, Awaits)
      /\ ~Has(n.buffer, Any({"identify"})) /\ ~Has(w, {"identify"})
      /\ p \in {"silent", "ready", "remove"} /\ q \in {"silent", "ready", "remove"}
  BY <1>1 DEF Sound, Settled
<1>3. \A x : ~Has(n.events, Awaits \ {x})
  BY <1>2, HasSome
<1>4. Scheduled(n)
  BY <1>1 DEF Sound, Scheduled
<1>5. Sockets(n, w, q)
  <2>1. CASE r.socket = "connected"
    <3>1. ~Has(n.posted, {"disconnected"})
      BY <2>1 DEF Sound, Opened
    <3> QED
      BY <2>1, <3>1 DEF Sockets
  <2>2. CASE r.socket # "connected"
    BY <2>2 DEF Sound, Sockets, Served
  <2> QED
    BY <2>1, <2>2
<1>6. Settled(n, w, q)
  BY <1>2 DEF Settled
<1>7. Queued(n) /\ Opened(n, w)
  BY <1>1 DEF Sound, Queued, Opened
<1>8. Refusing(n, w, q) /\ Requested(n, q)
  BY <1>2 DEF Refusing, Requested, Requests
<1>9. Pending(n, other)
  BY <1>1, <1>3 DEF Sound, Pending
<1>10. Awaiting(n, w, q, al)
  BY <1>1 DEF Sound, Awaiting
<1>11. Greeted(n, w, q)
  BY <1>2 DEF Sound, Greeted, Requests
<1> QED
  BY <1>4, <1>5, <1>6, <1>7, <1>8, <1>9, <1>10, <1>11 DEF Sound

LEMMA CallIsSound ==
  ASSUME TypeOK, Sound(rc, wire, peer, settings.import, alive), Call
  PROVE  Sound(rc', wire', peer', settings'.import, alive')
<1> DEFINE r == Returned(rc)
<1>1. PICK call \in AllCalls : Called(call)
  BY DEF Call, reconnect, setSyncEnabled, resetAccount, Fail, finalize, AllCalls
<1>2. /\ rc \in Connection /\ rc.activity = "none" /\ rc.posted # << >> /\ Head(rc.posted) = call
      /\ settings \in [id : BOOLEAN, import : BOOLEAN, enabled : BOOLEAN]
      /\ wire' = wire /\ alive' = alive
  BY <1>1 DEF TypeOK, Called
<1>3. /\ r \in Connection
      /\ r.state = rc.state /\ r.closing = rc.closing /\ r.events = rc.events
      /\ r.activity = rc.activity /\ r.blocked = rc.blocked
      /\ r.buffer = rc.buffer /\ r.socket = rc.socket /\ r.id = rc.id
      /\ \A X : Has(rc.posted, X) <=> call \in X \/ Has(r.posted, X)
  BY <1>2, CallReturns
<1>4. \A x \in {"process", "ready", "disconnected"} : Has(r.posted, {x}) <=> Has(rc.posted, {x})
  <2>1. call \notin {"process", "ready", "disconnected"}
    BY DEF AllCalls
  <2> QED
    BY <1>3, <2>1
<1> HIDE DEF r
<1>5. Sound(r, wire, peer, settings.import, alive)
  BY <1>3, <1>4, WithinItself, CalmIsSound
<1>6. ASSUME NEW e \in Errors, NEW import, e = "reconnect" \/ import = settings.import
      PROVE  Sound(submitEventSync(r, e), wire, peer, import, alive)
  BY <1>2, <1>3, <1>4, <1>6, FailureIsSound
<1>7. {"reconnect", "fatalError"} \subseteq Errors /\ {"fatalError", "close"} \subseteq Events
  BY DEF Errors, Events
<1>8. CASE reconnect
  <2>1. rc' = submitEventSync(r, "reconnect") /\ UNCHANGED <<settings, peer>>
    BY <1>8 DEF reconnect, r
  <2> QED
    BY <1>2, <1>6, <1>7, <2>1
<1>9. CASE setSyncEnabled
  <2>1. settings'.import = settings.import /\ peer' = peer
    BY <1>2, <1>9 DEF setSyncEnabled
  <2>2. rc' \in {r, submitEventSync(r, "reconnect"), submitEventSync(r, "fatalError")}
    BY <1>9 DEF setSyncEnabled, r
  <2> QED
    BY <1>2, <1>5, <1>6, <1>7, <2>1, <2>2
<1>10. CASE resetAccount
  <2>1. CASE ~Running
    <3>1. rc' = r /\ peer' = peer /\ rc.state \notin Active
      BY <1>10, <2>1 DEF resetAccount, r, Running, Active
    <3>2. Sound(r, wire, peer, settings'.import, alive)
      <4>1. /\ ~Awake(r) /\ r.state # "Connecting"
        BY <1>3, <2>1 DEF Awake, Running
      <4>2. Pending(r, settings'.import)
        BY <4>1 DEF Pending
      <4> QED
        BY <1>5, <4>2 DEF Sound
    <3> QED
      BY <1>2, <3>1, <3>2
  <2>2. CASE Running /\ (rc.id \/ settings.id) /\ rc.state = "Idle"
    <3>1. rc' = r /\ peer' = IF rc.socket = "connected" THEN "remove" ELSE peer
      BY <1>10, <2>2 DEF resetAccount, r, Send
    <3>2. Sound(r, wire, peer', settings'.import, alive)
      BY <1>3, <1>4, <2>2, <3>1, RemovalIsSound
    <3> QED
      BY <1>2, <3>1, <3>2
  <2>3. CASE Running /\ ~((rc.id \/ settings.id) /\ rc.state = "Idle")
    <3> DEFINE s == [r EXCEPT !.id = FALSE]
    <3>1. rc' = submitEventSync(s, "reconnect") /\ peer' = peer
      BY <1>10, <2>3 DEF resetAccount, r
    <3>2. /\ s \in Connection /\ s.state = r.state /\ s.closing = r.closing /\ s.events = r.events
          /\ s.posted = r.posted /\ s.activity = r.activity /\ s.buffer = r.buffer
          /\ s.socket = r.socket
      BY <1>3 DEF Connection
    <3> HIDE DEF s
    <3>3. Sound(submitEventSync(s, "reconnect"), wire, peer, settings'.import, alive)
      BY <1>2, <1>3, <1>4, <1>7, <3>2, FailureIsSound
    <3> QED
      BY <1>2, <3>1, <3>3
  <2> QED
    BY <2>1, <2>2, <2>3
<1>11. CASE Fail
  <2> DEFINE s == [r EXCEPT !.engine = "Error"]
  <2>1. rc' = submitEventSync(s, "fatalError") /\ UNCHANGED <<settings, peer>>
    BY <1>11 DEF Fail, controllerError, r
  <2>2. Alike(r, s)
    BY <1>3 DEF Alike, Connection
  <2> HIDE DEF s
  <2>3. Sound(submitEventSync(s, "fatalError"), wire, peer, settings.import, alive)
    BY <1>2, <1>3, <1>4, <1>7, <2>2, FailureIsSound DEF Alike
  <2> QED
    BY <1>2, <2>1, <2>3
<1>12. CASE finalize
  <2> DEFINE s == [r EXCEPT !.closing = TRUE, !.ping = "off"]
  <2>1. rc' = r \/ rc' = submitEventSync(s, "close")
    BY <1>12 DEF finalize, r
  <2>2. UNCHANGED <<settings, peer>>
    BY <1>12 DEF finalize
  <2>3. /\ s \in Connection /\ s.state = r.state /\ s.closing = TRUE /\ s.events = r.events
        /\ s.posted = r.posted /\ s.activity = r.activity /\ s.buffer = r.buffer
        /\ s.socket = r.socket /\ s.id = r.id
    BY <1>3 DEF Connection
  <2> HIDE DEF s
  <2>4. Plus(s, submitEventSync(s, "close"), "close")
    BY <1>7, <2>3, SubmittedPlus
  <2>5. Sound(submitEventSync(s, "close"), wire, peer, settings.import, alive)
    BY <1>2, <1>3, <1>4, <2>3, <2>4, EndedByCall
  <2> QED
    BY <1>2, <1>5, <2>1, <2>2, <2>5
<1> QED
  BY <1>8, <1>9, <1>10, <1>11, <1>12 DEF Call

\* The socket has opened: nothing of an earlier one can be taken for its answers.
LEMMA OpenedIsSound ==
  ASSUME TypeOK, Sound(rc, wire, peer, settings.import, alive), SocketConnected
  PROVE  Sound(rc', wire', peer', settings'.import, alive')
<1> DEFINE s == [rc EXCEPT !.socket = "connected", !.op = "none", !.ping = "on"]
<1>1. /\ rc \in Connection /\ rc.activity = "none" /\ rc.socket = "connecting"
      /\ rc.state \notin {"Stopped", "Final"}
      /\ rc' = submitEventSync(s, "connected") /\ peer' = "identify"
      /\ UNCHANGED <<settings, wire, alive>>
  BY DEF TypeOK, SocketConnected, Network, Running
<1>2. /\ s \in Connection /\ s.state = rc.state /\ s.closing = rc.closing /\ s.events = rc.events
      /\ s.posted = rc.posted /\ s.activity = rc.activity /\ s.buffer = rc.buffer
      /\ s.socket = "connected" /\ s.id = rc.id
  BY <1>1 DEF Connection
<1> HIDE DEF s
<1>3. Plus(s, rc', "connected")
  <2>1. "connected" \in Events
    BY DEF Events
  <2> QED
    BY <1>1, <1>2, <2>1, SubmittedPlus
<1> DEFINE n == rc'
<1>4. /\ n.state = rc.state /\ n.closing = rc.closing /\ n.activity = "none"
      /\ n.buffer = rc.buffer /\ n.socket = "connected" /\ n.id = rc.id /\ n.blocked
      /\ \A X : Has(n.events, X) <=> Has(rc.events, X) \/ "connected" \in X
      /\ \A X : Has(n.posted, X) <=> Has(rc.posted, X) \/ "process" \in X
  BY <1>1, <1>2, <1>3 DEF Plus
<1> HIDE DEF n
<1>5. /\ Awake(rc) /\ Awake(n)
      /\ "connected" \notin Awaits /\ "connected" \notin {"account"} /\ "connected" \notin {"noConnect"}
      /\ "connected" \notin {"disconnected"} /\ "connected" \notin {"reconnect"}
      /\ \A x : "connected" \notin Awaits \ {x}
      /\ Fresh(Answers) \subseteq Fresh(Messages) /\ Fresh({"identify"}) \subseteq Fresh(Messages)
  BY <1>1, <1>4 DEF Awake, Awaits, Fresh, Answers, Messages
<1>6. /\ wire = << >> /\ ~Has(rc.buffer, Fresh(Messages))
      /\ \A X : ~Has(wire, X)
      /\ \A X, Y : ~Before(wire, X, Y)
  <2>1. wire = << >> /\ ~Has(rc.buffer, Fresh(Messages))
    BY <1>1 DEF Sound, Sockets
  <2> QED
    BY <2>1, HasNone
<1>7. ~Has(n.buffer, Fresh(Answers)) /\ ~Has(n.buffer, Fresh({"identify"}))
  BY <1>4, <1>5, <1>6, HasSome
<1>8. ~Has(rc.events, {"account"}) /\ rc.state # "Idle"
  BY <1>1, <1>5 DEF Sound, Opened
<1>9. ~Answered(n, wire, "identify") /\ ~Served(wire, "identify")
  BY <1>6, <1>7 DEF Answered, Served
<1>10. ~Late(n, wire, "identify")
  BY <1>1, <1>4, <1>5, <1>8, <1>9 DEF Late, Sound, Queued
<1>11. Scheduled(n) /\ Sockets(n, wire, "identify")
  BY <1>1, <1>4, <1>9 DEF Sound, Scheduled, Sockets
<1>12. Settled(n, wire, "identify") /\ Refusing(n, wire, "identify")
  BY <1>9, <1>10 DEF Settled, Refusing
<1>13. Queued(n)
  BY <1>1, <1>4, <1>5 DEF Sound, Queued
<1>14. Opened(n, wire)
  BY <1>4, <1>5, <1>8 DEF Opened
<1>15. Requested(n, "identify")
  BY DEF Requested, Requests
<1>16. Pending(n, settings.import)
  BY <1>1, <1>4, <1>5 DEF Sound, Pending
<1>17. Awaiting(n, wire, "identify", alive)
  BY <1>6, <1>9 DEF Awaiting
<1>18. Greeted(n, wire, "identify")
  <2>1. ~Before(n.buffer, Fresh({"identify"}), Fresh({"identify"}))
    BY <1>7 DEF Before, Has
  <2> QED
    BY <1>6, <1>7, <2>1 DEF Greeted
<1>19. Sound(n, wire, "identify", settings.import, alive)
  BY <1>11, <1>12, <1>13, <1>14, <1>15, <1>16, <1>17, <1>18 DEF Sound
<1> QED
  BY <1>1, <1>19 DEF n

\* The connection has ended, and what was on the way is lost.
LEMMA LostIsSound ==
  ASSUME NEW r, NEW n, NEW w, NEW p, NEW import, NEW al,
         Sound(r, w, p, import, al), Awake(r), r.activity = "none", r.socket # "none",
         n.state = r.state, n.closing = r.closing, n.events = r.events, n.activity = r.activity,
         n.blocked = r.blocked, n.buffer = r.buffer, n.id = r.id, n.socket = "unconnected",
         \A x \in {"process", "ready"} : Has(n.posted, {x}) <=> Has(r.posted, {x})
  PROVE  Sound(n, << >>, "silent", import, al)
<1>1. /\ \A X : ~Has(<< >>, X)
      /\ \A X, Y : ~Before(<< >>, X, Y)
  BY HasNone
<1>2. /\ Awake(n) <=> Awake(r)
      /\ ~Served(<< >>, "silent")
      /\ Answered(n, << >>, "silent") => Answered(r, w, p) /\ n.buffer # << >>
      /\ Late(n, << >>, "silent") => Late(r, w, p)
  BY <1>1 DEF Awake, Served, Answered, Late
<1>3. Scheduled(n) /\ Sockets(n, << >>, "silent")
  BY <1>2 DEF Sound, Scheduled, Sockets
<1>4. Settled(n, << >>, "silent")
  BY <1>1, <1>2 DEF Sound, Settled
<1>5. Queued(n)
  BY DEF Sound, Queued
<1>6. Opened(n, << >>)
  BY <1>1, <1>2 DEF Sound, Opened
<1>7. Refusing(n, << >>, "silent") /\ Requested(n, "silent")
  BY <1>2 DEF Sound, Refusing, Requested
<1>8. Pending(n, import)
  BY <1>2 DEF Sound, Pending
<1>9. Awaiting(n, << >>, "silent", al)
  <2>1. Answered(n, << >>, "silent") => n.blocked
    BY <1>2 DEF Sound, Scheduled
  <2> QED
    BY <1>1, <1>2, <2>1 DEF Sound, Awaiting, Moving
<1>10. Greeted(n, << >>, "silent")
  BY <1>1 DEF Sound, Greeted, Requests
<1> QED
  BY <1>3, <1>4, <1>5, <1>6, <1>7, <1>8, <1>9, <1>10 DEF Sound

LEMMA TwoAppended ==
  ASSUME NEW S, NEW s \in Seq(S), NEW a \in S, NEW b \in S
  PROVE  s \o <<a, b>> = Append(Append(s, a), b)
<1>1. Append(s, a) \in Seq(S) /\ <<a>> \in Seq(S) /\ <<b>> \in Seq(S)
  OBVIOUS
<1>2. Append(s, a) = s \o <<a>> /\ Append(Append(s, a), b) = Append(s, a) \o <<b>>
  BY <1>1, AppendIsConcat
<1>3. (s \o <<a>>) \o <<b>> = s \o (<<a>> \o <<b>>)
  BY <1>1, ConcatAssociative
<1>4. Append(<<a>>, b) = <<a>> \o <<b>>
  BY <1>1, AppendIsConcat
<1>5. Append(<<a>>, b) = <<a, b>>
  <2> DEFINE x == Append(<<a>>, b)
             y == <<a, b>>
  <2>1. /\ x \in Seq(S) /\ Len(x) = 2 /\ x[1] = a /\ x[2] = b
    BY <1>1
  <2>2. /\ y \in Seq(S) /\ Len(y) = 2 /\ y[1] = a /\ y[2] = b
    OBVIOUS
  <2> HIDE DEF x, y
  <2>3. \A i \in 1..Len(x) : x[i] = y[i]
    BY <2>1, <2>2
  <2>4. x = y
    BY <2>1, <2>2, <2>3, SeqEqual
  <2> QED
    BY <2>4 DEF x, y
<1> QED
  BY <1>2, <1>3, <1>4, <1>5

LEMMA ClosedIsSound ==
  ASSUME TypeOK, Sound(rc, wire, peer, settings.import, alive), SocketClosed \/ SocketFails
  PROVE  Sound(rc', wire', peer', settings'.import, alive')
<1>1. /\ rc \in Connection /\ rc.activity = "none" /\ rc.state \notin {"Stopped", "Final"}
      /\ rc.socket # "none"
      /\ wire' = << >> /\ peer' = "silent" /\ UNCHANGED <<settings, alive>>
  BY DEF TypeOK, SocketClosed, SocketFails, Network, Running
<1> DEFINE Posts == {"process", "ready", "disconnected", "tryClose"} \cup AllCalls
           one == Append(rc.posted, "disconnected")
           middle == Append(rc.posted, "tryClose")
           two == Append(middle, "disconnected")
<1>2. rc.posted \in Seq(Posts) /\ {"tryClose", "disconnected"} \subseteq Posts
  BY <1>1 DEF Connection
<1> HIDE DEF Posts
<1>3. middle \in Seq(Posts)
  BY <1>2
<1>4. \A posted \in {one, two}, x \in {"process", "ready"} : Has(posted, {x}) <=> Has(rc.posted, {x})
  <2>1. \A X : Has(one, X) <=> Has(rc.posted, X) \/ "disconnected" \in X
    BY <1>2, HasAppended
  <2>2. \A X : Has(middle, X) <=> Has(rc.posted, X) \/ "tryClose" \in X
    BY <1>2, HasAppended
  <2> HIDE DEF middle
  <2>3. \A X : Has(two, X) <=> Has(middle, X) \/ "disconnected" \in X
    BY <1>2, <1>3, HasAppended
  <2> HIDE DEF one, two
  <2> QED
    BY <2>1, <2>2, <2>3
<1>5. PICK posted \in {one, two} :
        rc' = [rc EXCEPT !.socket = "unconnected", !.ping = "off", !.posted = posted]
  <2>1. CASE SocketClosed
    BY <2>1 DEF SocketClosed
  <2>2. CASE SocketFails
    <3>1. PICK calls \in {<<"disconnected">>, <<"tryClose", "disconnected">>} :
            rc' = [rc EXCEPT !.socket = "unconnected", !.ping = "off", !.posted = @ \o calls]
      BY <2>2 DEF SocketFails
    <3>2. one = rc.posted \o <<"disconnected">>
      BY <1>2, AppendIsConcat
    <3>3. two = rc.posted \o <<"tryClose", "disconnected">>
      BY <1>2, TwoAppended
    <3> QED
      BY <3>1, <3>2, <3>3
  <2> QED
    BY <2>1, <2>2
<1> DEFINE n == [rc EXCEPT !.socket = "unconnected", !.ping = "off", !.posted = posted]
<1> HIDE DEF one, two
<1>6. /\ n.state = rc.state /\ n.closing = rc.closing /\ n.events = rc.events
      /\ n.posted = posted /\ n.activity = rc.activity /\ n.blocked = rc.blocked
      /\ n.buffer = rc.buffer /\ n.socket = "unconnected" /\ n.id = rc.id
  BY <1>1 DEF Connection
<1>7. rc' = n
  BY <1>5
<1> HIDE DEF n
<1>8. Awake(rc)
  BY <1>1 DEF Awake
<1>9. Sound(n, << >>, "silent", settings.import, alive)
  BY <1>1, <1>4, <1>6, <1>8, LostIsSound
<1> QED
  BY <1>1, <1>7, <1>9

\* Nothing passes any more.
LEMMA DeathIsSound ==
  ASSUME Sound(rc, wire, peer, settings.import, alive), LinkDies
  PROVE  Sound(rc', wire', peer', settings'.import, alive')
<1>1. /\ rc' = rc /\ wire' = << >> /\ peer' = peer /\ settings' = settings /\ alive' = FALSE
      /\ rc.socket = "connected"
  BY DEF LinkDies, Network
<1>2. /\ \A X : ~Has(<< >>, X)
      /\ \A X, Y : ~Before(<< >>, X, Y)
  BY HasNone
<1>3. /\ Served(<< >>, peer) => Served(wire, peer)
      /\ Answered(rc, << >>, peer) => Answered(rc, wire, peer)
      /\ Late(rc, << >>, peer) => Late(rc, wire, peer)
  BY <1>2 DEF Served, Answered, Late
<1>4. Scheduled(rc) /\ Sockets(rc, << >>, peer)
  BY <1>3 DEF Sound, Sockets
<1>5. Settled(rc, << >>, peer) /\ Queued(rc) /\ Opened(rc, << >>)
  BY <1>2, <1>3 DEF Sound, Settled, Opened
<1>6. Refusing(rc, << >>, peer) /\ Requested(rc, peer) /\ Pending(rc, settings.import)
  BY <1>3 DEF Sound, Refusing
<1>7. Awaiting(rc, << >>, peer, FALSE)
  BY <1>2, <1>3 DEF Sound, Awaiting
<1>8. Greeted(rc, << >>, peer)
  BY <1>2 DEF Sound, Greeted
<1>9. Sound(rc, << >>, peer, settings.import, FALSE)
  BY <1>4, <1>5, <1>6, <1>7, <1>8 DEF Sound
<1> QED
  BY <1>1, <1>9

\* The server sends something to a device that is logged in.
LEMMA LaterIsSound ==
  ASSUME NEW r, NEW w, NEW p, NEW q, NEW import, NEW al, al = TRUE,
         NEW t \in {"changed", "lastChanged", "removeAck", "error"},
         w \in Seq(Messages), Sound(r, w, p, import, al), r.activity = "none",
         p \in {"ready", "remove"}, q \in {"ready", "silent"}
  PROVE  Sound(r, Append(w, t), q, import, al)
<1> DEFINE v == Append(w, t)
<1>1. t \in Messages /\ t \notin Openings /\ t # "identify"
  BY DEF Messages, Openings
<1>2. /\ \A X : Has(v, X) <=> Has(w, X) \/ t \in X
      /\ \A X, Y : Before(v, X, Y) <=> Before(w, X, Y) \/ (Has(w, X) /\ t \in Y)
  BY <1>1, HasAppended
<1> HIDE DEF v
<1>3. Served(w, p) /\ Answered(r, w, p) /\ Late(r, w, p)
  BY DEF Served, Answered, Late
<1>4. Scheduled(r) /\ Sockets(r, v, q)
  BY <1>3 DEF Sound, Sockets
<1>5. Settled(r, v, q)
  BY <1>1, <1>2, <1>3 DEF Sound, Settled
<1>6. Queued(r) /\ Opened(r, v)
  BY <1>1, <1>2 DEF Sound, Opened
<1>7. Refusing(r, v, q) /\ Requested(r, q) /\ Pending(r, import)
  BY <1>3 DEF Sound, Refusing, Requested, Requests
<1>8. Awaiting(r, v, q, al)
  BY <1>1, <1>2, <1>3 DEF Sound, Awaiting
<1>9. Greeted(r, v, q)
  BY <1>1, <1>2 DEF Sound, Greeted, Requests
<1> QED
  BY <1>4, <1>5, <1>6, <1>7, <1>8, <1>9 DEF Sound, v

\* The server greets the device, or refuses it.
LEMMA EarlierIsSound ==
  ASSUME NEW r, NEW w, NEW p, NEW q, NEW import, NEW al,
         NEW t \in {"identify", "error", "fatal"},
         w \in Seq(Messages), Sound(r, w, p, import, al), r.socket = "connected",
         p \notin {"silent", "ready", "remove"},
         t = "identify" => p = "identify" /\ q = "waiting",
         q \in {"waiting", "silent", p}
  PROVE  Sound(r, Append(w, t), q, import, al)
<1> DEFINE v == Append(w, t)
<1>1. t \in Messages /\ t \notin Answers /\ t \notin Openings
  BY DEF Messages, Openings, Answers
<1>2. /\ \A X : Has(v, X) <=> Has(w, X) \/ t \in X
      /\ \A X, Y : Before(v, X, Y) <=> Before(w, X, Y) \/ (Has(w, X) /\ t \in Y)
  BY <1>1, HasAppended
<1> HIDE DEF v
<1>3. ~Late(r, w, p)
  BY DEF Sound, Settled
<1>4. ~Served(v, q) /\ ~Answered(r, v, q) /\ ~Late(r, v, q)
  BY <1>1, <1>2, <1>3 DEF Served, Answered, Late
<1>5. Scheduled(r) /\ Sockets(r, v, q)
  BY <1>4 DEF Sound, Sockets
<1>6. Settled(r, v, q) /\ Refusing(r, v, q)
  BY <1>4 DEF Settled, Refusing
<1>7. Queued(r) /\ Opened(r, v)
  BY <1>1, <1>2 DEF Sound, Opened
<1>8. Requested(r, q) /\ Pending(r, import)
  BY DEF Sound, Requested, Requests
<1>9. Awaiting(r, v, q, al)
  BY <1>1, <1>2, <1>4 DEF Sound, Awaiting
<1>10. Greeted(r, v, q)
  BY <1>1, <1>2 DEF Sound, Greeted, Requests
<1> QED
  BY <1>5, <1>6, <1>7, <1>8, <1>9, <1>10 DEF Sound, v

\* The server lets a device in, which waits for nothing else.
LEMMA LetInIsSound ==
  ASSUME NEW r, NEW w, NEW p \in Requests, NEW import, NEW al, NEW t, al = TRUE,
         t = Opening(Attempt(p)), w \in Seq(Messages), Sound(r, w, p, import, al),
         Awake(r), r.activity = "none", r.socket = "connected", r.posted = << >>
  PROVE  Sound(r, Append(w, t), "ready", import, al)
<1> DEFINE v == Append(w, t)
<1>1. /\ t \in Messages /\ t \in Answers /\ t \in Openings /\ t # "identify"
      /\ Openings \subseteq Answers
      /\ Attempt(p) \notin {"Connecting", "Connected", "Idle"}
      /\ p \notin {"silent", "ready", "remove"}
  BY DEF Messages, Openings, Answers, Opening, Attempt, Requests
<1>2. /\ \A X : Has(v, X) <=> Has(w, X) \/ t \in X
      /\ \A X, Y : Before(v, X, Y) <=> Before(w, X, Y) \/ (Has(w, X) /\ t \in Y)
  BY <1>1, HasAppended
<1> HIDE DEF v
<1>3. /\ \A X : ~Has(r.posted, X)
      /\ r.events = << >> /\ ~r.blocked /\ r.buffer = << >>
  BY HasNone DEF Sound, Scheduled
<1>4. /\ \A X : ~Has(r.events, X) /\ ~Has(r.buffer, X)
      /\ \A X, Y : ~Before(r.events, X, Y) /\ ~Before(r.buffer, X, Y)
  BY <1>3, HasNone
<1>5. r.state = Attempt(p)
  BY <1>4 DEF Sound, Requested
<1>6. ~Late(r, w, p)
  BY <1>1 DEF Sound, Settled
<1>7. ~Has(w, Answers) /\ ~Has(w, Openings)
  BY <1>1, <1>6, HasSome DEF Late, Answered, Served
<1>8. Scheduled(r) /\ Sockets(r, v, "ready")
  BY <1>3 DEF Sound, Sockets
<1>9. Settled(r, v, "ready")
  <2>1. ~Has(w, {"identify"})
    BY DEF Sound, Greeted
  <2> QED
    BY <1>1, <1>2, <1>4, <1>5, <2>1 DEF Settled
<1>10. Queued(r) /\ Opened(r, v)
  BY <1>1, <1>4, <1>5 DEF Sound, Opened
<1>11. Refusing(r, v, "ready") /\ Requested(r, "ready") /\ Pending(r, import)
  BY <1>1, <1>5 DEF Sound, Refusing, Requested, Requests
<1>12. Awaiting(r, v, "ready", al)
  <2>1. ~Before(v, Answers, Openings)
    <3>1. Before(w, Answers, Openings) => Has(w, Answers)
      BY DEF Before, Has
    <3> QED
      BY <1>2, <1>7, <3>1
  <2>2. Has(v, {Opening(r.state)})
    BY <1>2, <1>5
  <2>3. ~Has(v, Openings \ {Opening(r.state)})
    <3>1. ~Has(w, Openings \ {Opening(r.state)})
      BY <1>7, HasSome
    <3> QED
      BY <1>2, <1>5, <3>1
  <2> QED
    BY <1>3, <2>1, <2>2, <2>3 DEF Awaiting
<1>13. Greeted(r, v, "ready")
  BY <1>4, <1>1, <1>2 DEF Sound, Greeted, Requests
<1> QED
  BY <1>8, <1>9, <1>10, <1>11, <1>12, <1>13 DEF Sound, v

LEMMA ServerIsSound ==
  ASSUME TypeOK, Sound(rc, wire, peer, settings.import, alive), ServerAnswers \/ ServerSends
  PROVE  Sound(rc', wire', peer', settings'.import, alive')
<1>1. /\ rc.activity = "none" /\ rc.socket = "connected" /\ Awake(rc) /\ alive = TRUE
      /\ peer # "identify" => rc.posted = << >>
      /\ wire \in Seq(Messages)
      /\ UNCHANGED <<rc, settings, alive>>
  BY DEF TypeOK, ServerAnswers, ServerSends, Serves, Network, Running, Awake
<1>2. \/ /\ peer = "identify" /\ peer' = "waiting" /\ wire' = Append(wire, "identify")
      \/ /\ peer \in Requests /\ peer' = "ready" /\ wire' = Append(wire, Opening(Attempt(peer)))
      \/ /\ peer = "login" /\ peer' = "ready" /\ wire' = wire \o <<"welcome", "changed">>
      \/ /\ peer = "remove" /\ peer' = "silent" /\ wire' = Append(wire, "removeAck")
      \/ /\ peer = "refuse" /\ peer' = "silent" /\ wire' = Append(wire, "error")
      \/ /\ peer = "ready" /\ peer' = peer
         /\ \E t \in {"changed", "lastChanged", "error"} : wire' = Append(wire, t)
      \/ /\ peer \in {"login", "access"} /\ peer' = peer /\ wire' = Append(wire, "fatal")
  <2>1. /\ Opening(Attempt("login")) = "welcome" /\ Opening(Attempt("register")) = "account"
        /\ Opening(Attempt("access")) = "grant"
        /\ Requests = {"register", "login", "access"}
    BY DEF Opening, Attempt, Requests
  <2>2. CASE ServerAnswers
    BY <2>1, <2>2 DEF ServerAnswers, Serves
  <2>3. CASE ServerSends
    BY <2>3 DEF ServerSends, Serves
  <2> QED
    BY <2>2, <2>3
<1> SUFFICES Sound(rc, wire', peer', settings.import, alive)
  BY <1>1
<1>3. CASE peer = "identify" /\ peer' = "waiting" /\ wire' = Append(wire, "identify")
  <2>1. "identify" \in {"identify", "error", "fatal"} /\ "identify" \notin {"silent", "ready", "remove"}
    OBVIOUS
  <2>2. Sound(rc, Append(wire, "identify"), "waiting", settings.import, alive)
    BY <1>1, <1>3, <2>1, EarlierIsSound
  <2> QED
    BY <1>3, <2>2
<1>4. CASE peer \in Requests /\ peer' = "ready" /\ wire' = Append(wire, Opening(Attempt(peer)))
  BY <1>1, <1>4, LetInIsSound DEF Requests
<1>5. CASE peer = "login" /\ peer' = "ready" /\ wire' = wire \o <<"welcome", "changed">>
  <2>1. peer \in Requests /\ "welcome" = Opening(Attempt(peer)) /\ {"welcome", "changed"} \subseteq Messages
    BY <1>5 DEF Requests, Opening, Attempt, Messages
  <2>2. Append(wire, "welcome") \in Seq(Messages) /\ wire' = Append(Append(wire, "welcome"), "changed")
    BY <1>1, <1>5, <2>1, TwoAppended
  <2>3. Sound(rc, Append(wire, "welcome"), "ready", settings.import, alive)
    BY <1>1, <1>5, <2>1, LetInIsSound
  <2> QED
    BY <1>1, <1>5, <2>2, <2>3, LaterIsSound
<1>6. CASE peer = "remove" /\ peer' = "silent" /\ wire' = Append(wire, "removeAck")
  BY <1>1, <1>6, LaterIsSound
<1>7. CASE peer = "refuse" /\ peer' = "silent" /\ wire' = Append(wire, "error")
  <2>1. "error" \in {"identify", "error", "fatal"} /\ "refuse" \notin {"silent", "ready", "remove"}
    OBVIOUS
  <2>2. Sound(rc, Append(wire, "error"), "silent", settings.import, alive)
    BY <1>1, <1>7, <2>1, EarlierIsSound
  <2> QED
    BY <1>7, <2>2
<1>8. CASE peer = "ready" /\ peer' = peer
           /\ \E t \in {"changed", "lastChanged", "error"} : wire' = Append(wire, t)
  BY <1>1, <1>8, LaterIsSound
<1>9. CASE peer \in {"login", "access"} /\ peer' = peer /\ wire' = Append(wire, "fatal")
  BY <1>1, <1>9, EarlierIsSound
<1> QED
  BY <1>2, <1>3, <1>4, <1>5, <1>6, <1>7, <1>8, <1>9

--------------------------------------------------------------------------------
(* The theorems about messages.                                              *)

LEMMA SoundAtFirst ==
  ASSUME Init
  PROVE  MessagesInv
<1>1. /\ rc.state = "Stopped" /\ rc.closing = FALSE /\ rc.events = << >> /\ rc.posted = << >>
      /\ rc.activity = "none" /\ rc.blocked = FALSE /\ rc.buffer = << >> /\ rc.socket = "none"
      /\ wire = << >> /\ peer = "silent" /\ history.refused = FALSE
  BY DEF Init
<1>2. /\ \A X : ~Has(<< >>, X)
      /\ \A X, Y : ~Before(<< >>, X, Y)
      /\ "Stopped" \notin Attempts
  BY HasNone DEF Attempts
<1>3. /\ ~Served(wire, peer) /\ ~Answered(rc, wire, peer) /\ ~Late(rc, wire, peer) /\ ~Awake(rc)
  BY <1>1, <1>2 DEF Served, Answered, Late, Awake
<1>4. Scheduled(rc) /\ Sockets(rc, wire, peer)
  BY <1>1, <1>2, <1>3 DEF Scheduled, Sockets
<1>5. Settled(rc, wire, peer) /\ Queued(rc) /\ Opened(rc, wire)
  BY <1>1, <1>2, <1>3 DEF Settled, Queued, Opened
<1>6. Refusing(rc, wire, peer) /\ Requested(rc, peer) /\ Pending(rc, settings.import)
  BY <1>1, <1>3 DEF Refusing, Requested, Pending
<1>7. Awaiting(rc, wire, peer, alive) /\ Greeted(rc, wire, peer)
  BY <1>1, <1>2, <1>3 DEF Awaiting, Greeted
<1> QED
  BY <1>1, <1>4, <1>5, <1>6, <1>7 DEF MessagesInv, Sound

\* Only the handling of a message decides whether it was expected.
LEMMA RefusedByMessages ==
  ASSUME TypeOK, Next, ~binaryMessageReceived
  PROVE  history'.refused = history.refused
<1>1. history \in [refused : BOOLEAN, failed : BOOLEAN]
  BY DEF TypeOK
<1>2. ASSUME NEW call, Called(call)
      PROVE  history'.refused = history.refused
  BY <1>1, <1>2 DEF Called
<1>3. CASE Call \/ HandleDisconnected \/ tryClose
  BY <1>2, <1>3 DEF Call, reconnect, setSyncEnabled, resetAccount, Fail, finalize,
                    HandleDisconnected, tryClose
<1>4. CASE ~(Call \/ HandleDisconnected \/ tryClose)
  <2>1. history' = history
    BY <1>4 DEF Next, Machine, Loop, Timer, Input, start, CloseStep, EventStep,
                reachedStableState, processEvents, machineReady, Drained, BufferMessage,
                onTimeout, retry, ping, PingTimeout, Fires, SocketConnected, SocketClosed,
                ServerAnswers, Serves, PostCall, FinalizeTimeout, SocketFails, SocketError,
                LinkDies, ServerSends, Network
  <2> QED
    BY <2>1
<1> QED
  BY <1>3, <1>4

LEMMA NextKeepsSound ==
  ASSUME TypeOK, MessagesInv, [Next]_vars
  PROVE  MessagesInv'
<1>1. Sound(rc, wire, peer, settings.import, alive) /\ ~history.refused
  BY DEF MessagesInv
<1>2. CASE binaryMessageReceived
  BY <1>1, <1>2, MessageIsSound DEF MessagesInv
<1>3. CASE Next /\ ~binaryMessageReceived
  <2>1. ~history'.refused
    BY <1>1, <1>3, RefusedByMessages
  <2>2. CASE Machine
    BY <1>1, <2>1, <2>2, MachineIsSound DEF MessagesInv
  <2>3. CASE Loop
    BY <1>1, <2>1, <2>3, ReadyIsSound, DisconnectedIsSound, TryCloseIsSound DEF MessagesInv, Loop
  <2>4. CASE Call
    BY <1>1, <2>1, <2>4, CallIsSound DEF MessagesInv
  <2>5. CASE Timer
    BY <1>1, <2>1, <2>5, TimerIsSound DEF MessagesInv
  <2>6. CASE Input
    BY <1>1, <1>3, <2>1, <2>6, BufferIsSound, OpenedIsSound, ClosedIsSound, ServerIsSound
       DEF MessagesInv, Input
  <2>7. CASE PostCall \/ SocketError
    BY <1>1, <2>1, <2>7, PostIsSound DEF MessagesInv
  <2>8. CASE FinalizeTimeout
    BY <1>1, <2>1, <2>8, TryCloseIsSound DEF MessagesInv
  <2>9. CASE SocketFails \/ LinkDies \/ ServerSends
    BY <1>1, <2>1, <2>9, ClosedIsSound, DeathIsSound, ServerIsSound DEF MessagesInv
  <2> QED
    BY <1>3, <2>2, <2>3, <2>4, <2>5, <2>6, <2>7, <2>8, <2>9 DEF Next
<1>4. CASE UNCHANGED vars
  BY <1>1, <1>4 DEF MessagesInv, vars
<1> QED
  BY <1>2, <1>3, <1>4

THEOREM MessagesInvariance == Spec => []MessagesInv
  BY SoundAtFirst, NextKeepsSound, ConnectorTyping, PTL DEF Spec

\* Although the machine handles events later than the messages that caused them,
\* no answer of the server and no change meets the machine of its own connection
\* in a state that does not expect it: what binaryMessageReceived buffers while
\* an event waits, machineReady handles in time.
THEOREM AnswersAreExpected == Spec => []MessagesAreExpected
<1>1. MessagesInv => MessagesAreExpected
  BY DEF MessagesInv, MessagesAreExpected
<1> QED
  BY <1>1, MessagesInvariance, PTL

\* _messageBuffer is never cleared, yet an answer that an earlier connection left
\* in it is never taken for one of the present connection.
THEOREM StaleIsNeverTaken == Spec => NoStaleMessage
<1> DEFINE Step == rc.activity = "buffer" /\ rc.buffer # << >> /\ rc'.buffer # rc.buffer
                     /\ ~Head(rc.buffer).fresh /\ Head(rc.buffer).type \in Answers
                     /\ rc.socket # "none" =>
                   rc.state \notin Expected(Head(rc.buffer).type) \cap Active
<1>1. ASSUME TypeOK, MessagesInv
      PROVE  Step
  <2> DEFINE m == Head(rc.buffer)
  <2> SUFFICES ASSUME rc.buffer # << >>, ~m.fresh, m.type \in Answers, rc.socket # "none"
               PROVE  rc.state \notin Expected(m.type) \cap Active
    OBVIOUS
  <2>1. rc.buffer \in Seq(Any(Messages))
    BY <1>1 DEF TypeOK, Connection, Any
  <2>2. m \in Any(Messages) /\ \A X : m \in X => Has(rc.buffer, X)
    BY <2>1, HasHead
  <2> HIDE DEF m
  <2>3. m \in Stale(Answers)
    BY <2>2 DEF Any, Stale
  <2>4. rc.state \notin Attempts \cup {"Idle"}
    BY <1>1, <2>2, <2>3 DEF MessagesInv, Sound, Queued
  <2>5. Expected(m.type) \subseteq Attempts \cup {"Idle"}
    BY DEF Expected, Attempts, Answers, Messages
  <2> QED
    BY <2>4, <2>5
<1> HIDE DEF Step
<1>2. ASSUME TypeOK, MessagesInv
      PROVE  [Step]_vars
  BY <1>1, <1>2
<1>3. Spec => [][Step]_vars
  BY <1>2, ConnectorTyping, MessagesInvariance, PTL
<1> QED
  BY <1>3 DEF NoStaleMessage, Step
================================================================================
