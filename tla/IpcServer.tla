------------------------------ MODULE IpcServer ------------------------------
(***************************************************************************)
(* The gateway side of the Unix-socket bridge (chappe/src/ipc.rs): the     *)
(* listener thread that installs one runtime connection at a time, a       *)
(* reader thread per connection, `send_command', `close' and `shutdown';   *)
(* and what the runtime does with the commands it reads from the socket.   *)
(*                                                                         *)
(* Two mutexes: `delivery' serialises the callbacks with the changes of    *)
(* connection, `peer' guards the stream commands are written to.  Sections *)
(* under `peer' are one step.  Sections under `delivery' are two where     *)
(* `peer' is released in between, so that a command can be written there.  *)
(*                                                                         *)
(* A frame is three cells on the stream, up to the topic length, up to the *)
(* payload length and the rest; a read returns any number of them up to    *)
(* the scratch buffer.  Data queued before a shutdown can still be read.   *)
(* The sleeps of the accept loop and the idle timeouts of the readers,     *)
(* which only repeat the call, are left out.                               *)
(***************************************************************************)
EXTENDS Integers, Sequences, FiniteSets

CONSTANTS
    MaxConns,      \* connections the runtime ever makes
    MaxUp,         \* telemetry frames it writes
    MaxDown,       \* commands the gateway sends
    Kinds,         \* the kinds of frame the runtime writes
    Scratch,       \* cells one read returns at most (the 4096 byte buffer)
    GiveUpAfter,   \* AcceptRetry::MAX_CONSECUTIVE_FAILURES
    Window,        \* ticks of the 1000 ms of command_is_current
    MaxClock, MaxIpcFaults

IpcServerAssumption ==
    /\ MaxConns \in Nat \ {0} /\ Scratch \in Nat \ {0}
    /\ GiveUpAfter \in Nat \ {0} /\ Window \in Nat
    /\ Kinds \subseteq {"telemetry", "command", "direction", "decode",
                        "topic", "payload"}

VARIABLES
    listener,  \* the accept thread: where it is, its generation, its retries
    peer,      \* the generation whose stream `peer' holds, 0 for None
    active,    \* active_generation
    delivery,  \* who holds the delivery mutex, 0 for nobody
    isClosed, dead,
    reader,    \* [generation -> the reader thread of that connection]
    wire,      \* [generation -> the two byte streams and if they are shut]
    told,      \* argument of the latest on_connection_change
    sender,    \* the thread inside send_command
    client,    \* the runtime: its connection, and what it received
    faults, clock,
    stray      \* a frame of a connection the gateway was told is over

ivars2 == <<listener, peer, active, delivery, isClosed, dead, reader, wire,
            told, sender, client, faults, clock, stray>>

Conns == 1 .. MaxConns

\* What encode_frame appends to a stream.
Encode(frame) == <<[frame |-> frame, cell |-> "head"],
                   [frame |-> frame, cell |-> "length"],
                   [frame |-> frame, cell |-> "body"]>>

\* take_frame: more bytes are needed, a length is over its limit, or the
\* first frame of the buffer.
TakeFrame(buf) ==
    CASE buf = <<>> -> "more"
      [] buf # <<>> /\ buf[1].frame.kind = "topic" -> "refused"
      [] Len(buf) = 1 /\ buf[1].frame.kind # "topic" -> "more"
      [] Len(buf) > 1 /\ buf[1].frame.kind = "payload" -> "refused"
      [] Len(buf) = 2 /\ buf[1].frame.kind \notin {"topic", "payload"} -> "more"
      [] OTHER -> "frame"

\* decode_frame with the match on the direction: which frames are delivered.
Decodes(frame, direction) == frame.kind = direction

AcceptIdle == [at |-> "accept", gen |-> 0, failed |-> 0, previous |-> 0]
NoReader == [at |-> "none", buf |-> <<>>]
Quiet == [up |-> <<>>, down |-> <<>>, shut |-> FALSE]
NoClient == [conn |-> 0, made |-> 0, sent |-> 0, buf |-> <<>>, got |-> {}]

\* spawn_server_before_install up to the spawn: the socket is bound.
ServerInit ==
    /\ listener = AcceptIdle /\ peer = 0 /\ active = 0 /\ delivery = 0
    /\ isClosed = FALSE /\ dead = FALSE
    /\ reader = [g \in Conns |-> NoReader]
    /\ wire = [g \in Conns |-> Quiet]
    /\ told = FALSE
    /\ sender = [at |-> "idle", sent |-> 0, answers |-> <<>>]
    /\ client = NoClient
    /\ faults = 0 /\ clock = 0 /\ stray = FALSE

------------------------------------------------------------------------------
(* The runtime process and the kernel.                                     *)

\* connect_with_retry; the connection waits in the backlog of the listener.
ClientConnects ==
    /\ client.conn = 0 /\ client.made < MaxConns
    /\ listener.at # "done"
    /\ client' = [client EXCEPT !.conn = client.made + 1, !.made = @ + 1,
                                !.buf = <<>>]
    /\ UNCHANGED <<listener, peer, active, delivery, isClosed, dead, reader,
                   wire, told, sender, faults, clock, stray>>

\* ipc_client_loop writes one publication.
ClientWrites(kind) ==
    /\ client.conn # 0 /\ client.sent < MaxUp
    /\ ~ wire[client.conn].shut
    /\ client' = [client EXCEPT !.sent = @ + 1]
    /\ wire' = [wire EXCEPT ![client.conn].up =
                    @ \o Encode([kind |-> kind, id |-> client.sent + 1,
                                 at |-> clock])]
    /\ UNCHANGED <<listener, peer, active, delivery, isClosed, dead, reader,
                   told, sender, faults, clock, stray>>

\* ipc_client_loop ends a connection: its own failure, or its reader ended.
ClientHangsUp ==
    /\ client.conn # 0
    /\ wire' = [wire EXCEPT ![client.conn].shut = TRUE]
    /\ client' = [client EXCEPT !.conn = 0]
    /\ \/ wire[client.conn].shut /\ wire[client.conn].down = <<>>
          /\ faults' = faults
       \/ faults < MaxIpcFaults /\ faults' = faults + 1
    /\ UNCHANGED <<listener, peer, active, delivery, isClosed, dead, reader,
                   told, sender, clock, stray>>

\* read_inbound_commands: one read.
ClientReads(n) ==
    /\ client.conn # 0 /\ TakeFrame(client.buf) = "more"
    /\ n <= Len(wire[client.conn].down)
    /\ client' = [client EXCEPT !.buf =
                      @ \o SubSeq(wire[client.conn].down, 1, n)]
    /\ wire' = [wire EXCEPT ![client.conn].down = SubSeq(@, n + 1, Len(@))]
    /\ UNCHANGED <<listener, peer, active, delivery, isClosed, dead, reader,
                   told, sender, faults, clock, stray>>

CommandIsCurrent_AnyAge(frame) == TRUE

\* command_is_current: stamped in the last second, and not in the future.
CommandIsCurrent(frame) == clock - frame.at \in 0 .. Window

\* read_inbound_commands: the frame is published on the local bus or refused.
ClientTakes ==
    /\ client.conn # 0 /\ TakeFrame(client.buf) = "frame"
    /\ LET frame == client.buf[1].frame IN
       client' = [client EXCEPT
           !.buf = SubSeq(@, 4, Len(@)),
           !.got = IF Decodes(frame, "command") /\ CommandIsCurrent(frame)
                   THEN @ \cup {[id |-> frame.id, conn |-> client.conn,
                                 late |-> clock - frame.at]}
                   ELSE @]
    /\ UNCHANGED <<listener, peer, active, delivery, isClosed, dead, reader,
                   wire, told, sender, faults, clock, stray>>

Passes ==
    /\ clock < MaxClock /\ clock' = clock + 1
    /\ UNCHANGED <<listener, peer, active, delivery, isClosed, dead, reader,
                   wire, told, sender, client, faults, stray>>

------------------------------------------------------------------------------
(* The listener thread.                                                    *)

Waiting == client.made > listener.gen

\* accept succeeds and the stream is prepared.
AcceptOk ==
    /\ listener.at = "accept" /\ ~ isClosed /\ Waiting
    /\ listener' = [listener EXCEPT !.at = "install", !.gen = @ + 1,
                                    !.failed = 0]
    /\ UNCHANGED <<peer, active, delivery, isClosed, dead, reader, wire, told,
                   sender, client, faults, clock, stray>>

\* set_nonblocking or try_clone failed: the stream is dropped.  (The code
\* does not advance its generation here; the model numbers connections, so
\* it skips the number.)
PeerSetupFails ==
    /\ listener.at = "accept" /\ ~ isClosed /\ Waiting
    /\ faults < MaxIpcFaults /\ faults' = faults + 1
    /\ listener' = [listener EXCEPT !.gen = @ + 1, !.failed = 0]
    /\ wire' = [wire EXCEPT ![listener.gen + 1].shut = TRUE]
    /\ UNCHANGED <<peer, active, delivery, isClosed, dead, reader, told,
                   sender, client, clock, stray>>

\* AcceptRetry::on_error: accept failed; the loop gives up after too many.
OnError ==
    /\ listener.at = "accept" /\ ~ isClosed
    /\ faults < MaxIpcFaults /\ faults' = faults + 1
    /\ listener' = [listener EXCEPT
           !.failed = @ + 1,
           !.at = IF listener.failed + 1 >= GiveUpAfter THEN "leave" ELSE @]
    /\ dead' = (dead \/ listener.failed + 1 >= GiveUpAfter)
    /\ UNCHANGED <<peer, active, delivery, isClosed, reader, wire, told,
                   sender, client, clock, stray>>

LeavesLoop ==
    /\ listener.at = "accept" /\ isClosed
    /\ listener' = [listener EXCEPT !.at = "leave"]
    /\ UNCHANGED <<peer, active, delivery, isClosed, dead, reader, wire, told,
                   sender, client, faults, clock, stray>>

Install_IgnoresClose ==
    /\ listener.at = "install" /\ delivery = 0
    /\ listener' = [listener EXCEPT !.at = "announce"]
    /\ wire' = [g \in Conns |-> IF g = peer THEN [wire[g] EXCEPT !.shut = TRUE]
                                            ELSE wire[g]]
    /\ peer' = listener.gen /\ active' = listener.gen
    /\ delivery' = MaxConns + 1
    /\ UNCHANGED <<isClosed, dead, reader, told, sender, client, faults,
                   clock, stray>>

\* Under both mutexes: refuse after a close, otherwise retire the old stream
\* and store the new one with its generation; then `peer' is released.
Install ==
    /\ listener.at = "install" /\ delivery = 0
    /\ IF isClosed
       THEN /\ listener' = [listener EXCEPT !.at = "leave"]
            /\ wire' = [wire EXCEPT ![listener.gen].shut = TRUE]
            /\ UNCHANGED <<peer, active, delivery>>
       ELSE /\ listener' = [listener EXCEPT !.at = "announce"]
            /\ wire' = [g \in Conns |->
                   IF g = peer THEN [wire[g] EXCEPT !.shut = TRUE]
                               ELSE wire[g]]
            /\ peer' = listener.gen /\ active' = listener.gen
            /\ delivery' = MaxConns + 1
    /\ UNCHANGED <<isClosed, dead, reader, told, sender, client, faults,
                   clock, stray>>

\* on_connection_change(true), still under `delivery'.
Announce ==
    /\ listener.at = "announce"
    /\ told' = TRUE /\ delivery' = 0
    /\ listener' = [listener EXCEPT !.at = "join"]
    /\ UNCHANGED <<peer, active, isClosed, dead, reader, wire, sender, client,
                   faults, clock, stray>>

\* The retired reader is joined before the next one is spawned.
JoinsAndSpawns ==
    /\ listener.at = "join"
    /\ listener.previous # 0 => reader[listener.previous].at = "done"
    /\ reader' = [reader EXCEPT ![listener.gen].at = "read"]
    /\ listener' = [listener EXCEPT !.at = "accept", !.previous = listener.gen]
    /\ UNCHANGED <<peer, active, delivery, isClosed, dead, wire, told, sender,
                   client, faults, clock, stray>>

\* The thread ends once the last reader has; its socket goes with it.
ListenerEnds ==
    /\ listener.at = "leave"
    /\ listener.previous # 0 => reader[listener.previous].at = "done"
    /\ listener' = [listener EXCEPT !.at = "done"]
    /\ wire' = [g \in Conns |->
           IF g > listener.gen THEN [wire[g] EXCEPT !.shut = TRUE] ELSE wire[g]]
    /\ UNCHANGED <<peer, active, delivery, isClosed, dead, reader, told,
                   sender, client, faults, clock, stray>>

------------------------------------------------------------------------------
(* The reader thread of connection g: read_connection and its epilogue.    *)

\* One read: bytes, or the end of the stream once the queue is empty.
Reads(g, n) ==
    /\ reader[g].at = "read" /\ TakeFrame(reader[g].buf) = "more"
    /\ IF wire[g].up = <<>>
       THEN /\ wire[g].shut /\ n = 1
            /\ reader' = [reader EXCEPT ![g].at = "over"]
            /\ UNCHANGED wire
       ELSE /\ n <= Len(wire[g].up)
            /\ reader' = [reader EXCEPT ![g] =
                   IF Len(@.buf) + n > 3 + Scratch THEN [@ EXCEPT !.at = "over"]
                   ELSE [@ EXCEPT !.buf = @ \o SubSeq(wire[g].up, 1, n)]]
            /\ wire' = [wire EXCEPT ![g].up = SubSeq(@, n + 1, Len(@))]
    /\ UNCHANGED <<listener, peer, active, delivery, isClosed, dead, told,
                   sender, client, faults, clock, stray>>

Delivers_Any(g) == TRUE

\* The closure around the callback: only for the active generation.
Delivers(g) == active = g

\* The connection the gateway was told of last.
Announced == IF listener.at = "join" THEN listener.gen ELSE listener.previous

\* The next frame of the buffer: refused, skipped, or handed to the gateway
\* under `delivery'.
Takes(g) ==
    /\ reader[g].at = "read" /\ TakeFrame(reader[g].buf) # "more"
    /\ IF TakeFrame(reader[g].buf) = "refused"
       THEN /\ reader' = [reader EXCEPT ![g].at = "over"]
            /\ stray' = stray
       ELSE /\ reader' = [reader EXCEPT ![g].buf = SubSeq(@, 4, Len(@))]
            /\ IF Decodes(reader[g].buf[1].frame, "telemetry")
               THEN /\ delivery = 0
                    /\ stray' = (stray \/ (Delivers(g) /\
                                           (~ told \/ g # Announced)))
               ELSE stray' = stray
    /\ UNCHANGED <<listener, peer, active, delivery, isClosed, dead, wire,
                   told, sender, client, faults, clock>>

\* The reader is done: it takes `delivery' and clears its generation,
Retires(g) ==
    /\ reader[g].at = "over" /\ delivery = 0
    /\ IF active = g
       THEN /\ active' = 0 /\ delivery' = g
            /\ reader' = [reader EXCEPT ![g] = [at |-> "clear", buf |-> <<>>]]
       ELSE /\ reader' = [reader EXCEPT ![g] = [at |-> "done", buf |-> <<>>]]
            /\ UNCHANGED <<active, delivery>>
    /\ UNCHANGED <<listener, peer, isClosed, dead, wire, told, sender, client,
                   faults, clock, stray>>

\* then takes the stream out of `peer' and tells the gateway.
Clears(g) ==
    /\ reader[g].at = "clear"
    /\ wire' = [wire EXCEPT ![g].shut = @ \/ peer = g]
    /\ peer' = 0 /\ told' = FALSE /\ delivery' = 0
    /\ reader' = [reader EXCEPT ![g].at = "done"]
    /\ UNCHANGED <<listener, active, isClosed, dead, sender, client, faults,
                   clock, stray>>

------------------------------------------------------------------------------
(* The gateway's own calls.                                                *)

Answers(answer) == [sender EXCEPT !.at = "idle",
                                  !.answers = Append(@, answer)]

\* send_command: the first look at `closed', before the lock.
SendBegins ==
    /\ sender.at = "idle" /\ sender.sent < MaxDown
    /\ sender' = IF isClosed THEN [Answers("error") EXCEPT !.sent = @ + 1]
                 ELSE [sender EXCEPT !.at = "send", !.sent = @ + 1]
    /\ UNCHANGED <<listener, peer, active, delivery, isClosed, dead, reader,
                   wire, told, client, faults, clock, stray>>

Command == [kind |-> "command", id |-> sender.sent, at |-> clock]

WriteFails_KeepsPeer(k) ==
    /\ wire' = [wire EXCEPT ![peer].down = @ \o SubSeq(Encode(Command), 1, k)]
    /\ peer' = peer

\* write_with_deadline gave up after k cells: the stream is abandoned, and
\* it is the reader that will notice and report the end of the connection.
WriteFails(k) ==
    /\ wire' = [wire EXCEPT ![peer].shut = TRUE,
                    ![peer].down = @ \o SubSeq(Encode(Command), 1, k)]
    /\ peer' = 0

\* send_command under `peer'.
SendWrites ==
    /\ sender.at = "send"
    /\ \/ /\ isClosed \/ peer = 0
          /\ sender' = Answers("error")
          /\ UNCHANGED <<peer, wire, faults>>
       \/ /\ ~ isClosed /\ peer # 0 /\ ~ wire[peer].shut
          /\ wire' = [wire EXCEPT ![peer].down = @ \o Encode(Command)]
          /\ sender' = Answers("ok")
          /\ UNCHANGED <<peer, faults>>
       \/ /\ ~ isClosed /\ peer # 0
          /\ \/ wire[peer].shut /\ WriteFails(0) /\ faults' = faults
             \/ \E k \in 0 .. 2 :
                   /\ faults < MaxIpcFaults /\ faults' = faults + 1
                   /\ ~ wire[peer].shut /\ WriteFails(k)
          /\ sender' = Answers("error")
    /\ UNCHANGED <<listener, active, delivery, isClosed, dead, reader, told,
                   client, clock, stray>>

\* close, by shutdown or by Drop.
Close ==
    /\ ~ isClosed /\ isClosed' = TRUE
    /\ wire' = [g \in Conns |-> IF g = peer THEN [wire[g] EXCEPT !.shut = TRUE]
                                            ELSE wire[g]]
    /\ UNCHANGED <<listener, peer, active, delivery, dead, reader, told,
                   sender, client, faults, clock, stray>>

ListenerStep == AcceptOk \/ LeavesLoop \/ Install \/ Announce
                \/ JoinsAndSpawns \/ ListenerEnds
ReaderStep(g) == (\E n \in 1 .. Scratch : Reads(g, n)) \/ Takes(g)
                 \/ Retires(g) \/ Clears(g)
ClientStep == (\E n \in 1 .. Scratch : ClientReads(n)) \/ ClientTakes

ServerNext ==
    \/ ListenerStep \/ PeerSetupFails \/ OnError
    \/ \E g \in Conns : ReaderStep(g)
    \/ SendBegins \/ SendWrites \/ Close
    \/ ClientStep \/ ClientConnects \/ ClientHangsUp
    \/ \E kind \in Kinds : ClientWrites(kind)
    \/ Passes

\* The threads run: nothing of the gateway blocks but reads and joins.
ServerFairness ==
    /\ WF_ivars2(ListenerStep)
    /\ \A g \in Conns : WF_ivars2(ReaderStep(g))

ServerSpec == ServerInit /\ [][ServerNext]_ivars2 /\ ServerFairness

------------------------------------------------------------------------------
(* Properties.                                                             *)

\* A retired connection cannot publish into its replacement's state: the
\* gateway is handed a frame only between the callback that announced its
\* connection and the one that ended it.
RetiredIsSilent == ~ stray

\* What the gateway was told last agrees with the connection the listener
\* serves, whenever nobody is in the middle of changing it.
ConnectionIsTold == delivery = 0 => (told <=> active # 0)

\* A finished listener leaves nothing behind: no stream to write to, no
\* reader, no open connection, and the gateway knows it is disconnected.
FinishedIsQuiet ==
    listener.at = "done" =>
        /\ peer = 0 /\ active = 0 /\ ~ told
        /\ \A g \in Conns : reader[g].at \in {"none", "done"}
        /\ \A g \in 1 .. listener.gen : wire[g].shut

\* A command the runtime acts on was answered Ok by send_command (or that
\* call has not returned), arrived no later than the window, and only once.
CommandsAreAnswered ==
    \A c \in client.got :
        /\ c.id <= Len(sender.answers) => sender.answers[c.id] = "ok"
        /\ c.late \in 0 .. Window
        /\ \A d \in client.got : d.id = c.id => d = c

\* The four promises of the listener.
ServerHolds == RetiredIsSilent /\ ConnectionIsTold /\ FinishedIsQuiet
               /\ CommandsAreAnswered

\* shutdown returns: after a close the listener thread, which shutdown
\* joins, ends, whatever the runtime does.
ListenerStops == isClosed ~> listener.at = "done"

\* A connection that broke is reported: by its reader, whoever broke it.
LossIsReported ==
    \A g \in Conns :
        (active = g /\ wire[g].shut) ~> active # g
==============================================================================
