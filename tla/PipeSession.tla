---------------------------- MODULE PipeSession ----------------------------
(***************************************************************************)
(* One PipeClient and the worker thread at the other end of its pipe.      *)
(*                                                                         *)
(* The client is a host's voice (ISpTTSEngineImpl::Speak), whose callback  *)
(* refuses a chunk when SAPI cancels, or one of the tools (av_frontend),   *)
(* which also asks for CMD_ENGINE_INFO and whose callback never refuses.   *)
(* The two directions of the pipe are FIFO queues of whole messages with   *)
(* room for PipeRoom of them; a writer blocks while its queue is full, as  *)
(* WriteFile does.  The worker may die at any step (a crash, taskkill, the *)
(* shutdown another client asked for): what it had written may or may not  *)
(* reach the client before the pipe reads as broken.                       *)
(*                                                                         *)
(* A host that runs out of memory in the middle of a message leaves speak  *)
(* by an exception that keeps the handle.  What the next operation takes   *)
(* for a header is then the middle of that message: the session is adrift, *)
(* and stays so until an operation fails and drops the handle.             *)
(*                                                                         *)
(* Abstracted: the contents of text and audio, how the client finds or     *)
(* launches the worker (WorkerLaunch) and how long synthesis waits for the *)
(* engine (EngineSharing).  A client that gives up its handle leaves the   *)
(* old thread to end by itself: it writes to a pipe nobody reads, so the   *)
(* model drops it with the handle.  Neither does it follow the worker of a *)
(* session adrift: what the client makes of its bytes is left open.        *)
(***************************************************************************)
EXTENDS Integers, Sequences

CONSTANTS
    MaxCalls,     \* bound: calls of speak
    MaxChunks,    \* bound: chunks of one utterance
    MaxAttempts,  \* attempts of ensureConnected, 5 in the code
    PipeRoom      \* messages that fit in one direction of the pipe

ASSUME SessionAssumption ==
    /\ MaxCalls \in Nat \ {0}
    /\ MaxChunks \in Nat \ {0}
    /\ MaxAttempts \in Nat \ {0}
    /\ PipeRoom \in Nat \ {0}

VARIABLES
    role,       \* "host" or "tool": what kind of program the client is in
    cpc,        \* what the client is about to do
    op,         \* the operation it is in: "speak" or "info"
    connected,  \* pipe_ is a valid handle
    attempt,    \* attempts ensureConnected has made
    call, heard, stopped, result,   \* the call of speak (see SpeechService)
    info,       \* how the last engineInfo ended
    spc,        \* what the worker thread is about to do; "gone": it is dead,
                \* "adrift": the client has lost the start of its messages
    reply,      \* the response it is about to write
    serving,    \* the call whose utterance it has in hand
    made, sent, \* chunks it made of that utterance, and has written
    late,       \* chunks it wrote since the client sent CMD_STOP
    toWorker, toClient   \* the two directions of the pipe

client == <<cpc, op, connected, attempt, call, heard, stopped, result, info>>
worker == <<spc, reply, serving, made, sent>>
vars == <<role, client, worker, late, toWorker, toClient>>

NotMade == -1
Chunk(c, n) == [call |-> c, number |-> n]

\* The wire: CMD_... to the worker, RESP_... back.
Command(t) == [type |-> t]
Speak(c) == [type |-> "SPEAK", call |-> c]
Response(t) == [type |-> t]
AudioData(c, n) == [type |-> "AUDIO_DATA", chunk |-> Chunk(c, n)]

Commands == {Command("PING"), Command("ENGINE_INFO"), Command("STOP")}
            \cup {Speak(c) : c \in 1..MaxCalls}
Responses == {Response(t) : t \in {"PONG", "ENGINE_INFO", "OK", "AUDIO_END"}}
             \cup {AudioData(c, n) : c \in 1..MaxCalls, n \in 1..MaxChunks}

RoomToWorker == Len(toWorker) < PipeRoom
RoomForOneMore == Len(toClient) <= PipeRoom
RoomToClient == Len(toClient) < PipeRoom
WorkerGone == spc = "gone"
Adrift == spc = "adrift"

\* What a client adrift takes for a chunk: bytes of an earlier one, or of none.
Noise == Chunk(0, 0)

-----------------------------------------------------------------------------
Init ==
    /\ role \in {"host", "tool"}
    /\ cpc = "idle" /\ op = "speak"
    /\ connected = FALSE /\ attempt = 0
    /\ call = 0 /\ heard = <<>> /\ stopped = FALSE /\ result = "none"
    /\ info = "none"
    /\ spc = "gone" /\ reply = Response("OK")
    /\ serving = 0 /\ made = NotMade /\ sent = 0 /\ late = 0
    /\ toWorker = <<>> /\ toClient = <<>>

-----------------------------------------------------------------------------
(* The client. *)

\* Where an operation starts: ensureConnected returns at once when it has a
\* handle, whether or not anyone is left at the other end.
Begin(o) ==
    /\ op' = o
    /\ attempt' = 0
    /\ cpc' = IF connected THEN "send" ELSE "open"

CallSpeak ==
    /\ cpc = "idle"
    /\ call < MaxCalls
    /\ Begin("speak")
    /\ call' = call + 1
    /\ heard' = <<>>
    /\ stopped' = FALSE
    /\ result' = "none"
    /\ made' = NotMade
    /\ late' = 0
    /\ UNCHANGED <<role, connected, info, spc, reply, serving, sent, toWorker,
                   toClient>>

\* Only the tools ask: the SAPI DLL never calls engineInfo.
CallEngineInfo ==
    /\ cpc = "idle"
    /\ role = "tool"
    /\ Begin("info")
    /\ info' = "none"
    /\ UNCHANGED <<role, connected, call, heard, stopped, result, worker, late,
                   toWorker, toClient>>

\* The operation fails: it returns false.
Fail ==
    /\ cpc' = "idle"
    /\ IF op = "speak"
       THEN result' = "false" /\ UNCHANGED info
       ELSE info' = "failed" /\ UNCHANGED result

\* disconnect(): the handle goes, and the pipe with it.
Disconnect ==
    /\ connected' = FALSE
    /\ spc' = "gone"
    /\ toWorker' = <<>>
    /\ toClient' = <<>>

\* CreateFile succeeded, and handshakeOk sends CMD_PING on the new pipe.
Open ==
    /\ cpc = "open"
    /\ attempt < MaxAttempts
    /\ attempt' = attempt + 1
    /\ connected' = TRUE
    /\ spc' = "read"
    /\ toWorker' = <<Command("PING")>>
    /\ toClient' = <<>>
    /\ cpc' = "ping"
    /\ UNCHANGED <<role, op, call, heard, stopped, result, info, reply, serving,
                   made, sent, late>>

\* ensureConnected gives up: no attempt is left, or the worker cannot be
\* launched or refuses access.
GiveUp ==
    /\ cpc = "open"
    /\ Fail
    /\ UNCHANGED <<role, op, connected, attempt, call, heard, stopped, worker,
                   late, toWorker, toClient>>

\* The rest of handshakeOk.  A worker that dies under it counts as stale:
\* replaceStaleServer drops the handle and the next attempt opens another.
Handshake ==
    /\ cpc = "ping"
    /\ \/ /\ toClient # <<>>
          /\ Head(toClient) = Response("PONG")
          /\ toClient' = Tail(toClient)
          /\ cpc' = "send"
          /\ UNCHANGED <<connected, spc, toWorker>>
       \/ /\ WorkerGone /\ toClient = <<>>
          /\ Disconnect
          /\ cpc' = "open"
    /\ UNCHANGED <<role, op, attempt, call, heard, stopped, result, info, reply,
                   serving, made, sent, late>>

\* sendCommand(CMD_SPEAK or CMD_ENGINE_INFO); a write to a dead worker fails,
\* and the operation with it: it is not tried again on a new connection.
Send ==
    /\ cpc = "send"
    /\ \/ /\ WorkerGone
          /\ Fail
          /\ Disconnect
       \/ /\ ~WorkerGone /\ ~Adrift
          /\ RoomToWorker
          /\ toWorker' = Append(toWorker, IF op = "speak" THEN Speak(call)
                                          ELSE Command("ENGINE_INFO"))
          /\ cpc' = IF op = "speak" THEN "listen" ELSE "await"
          /\ UNCHANGED <<connected, result, info, spc, toClient>>
    /\ UNCHANGED <<role, op, attempt, call, heard, stopped, reply, serving, made,
                   sent, late>>

\* engineInfo reads one response and takes nothing but ENGINE_INFO.  Unlike
\* speak it keeps the handle when it fails.
AwaitInfo ==
    /\ cpc = "await"
    /\ \/ /\ toClient # <<>>
          /\ info' = IF Head(toClient) = Response("ENGINE_INFO")
                     THEN "answered" ELSE "failed"
          /\ toClient' = Tail(toClient)
       \/ /\ WorkerGone /\ toClient = <<>>
          /\ info' = "failed"
          /\ UNCHANGED toClient
    /\ cpc' = "idle"
    /\ UNCHANGED <<role, op, connected, attempt, call, heard, stopped, result,
                   worker, late, toWorker>>

\* Once it has refused a chunk the callback is not called again.
PassOnAll == TRUE
PassOn == ~stopped

\* The callback of a host may refuse; that of a tool collects everything.
AnyoneRefuses == TRUE
MayRefuse == role = "host"

\* An audio chunk: it goes to the callback, or it is drained.
ListenAudio ==
    /\ cpc = "listen"
    /\ toClient # <<>>
    /\ Head(toClient).type = "AUDIO_DATA"
    /\ toClient' = Tail(toClient)
    /\ \/ /\ PassOn
          /\ heard' = Append(heard, Head(toClient).chunk)
          /\ \/ UNCHANGED <<cpc, stopped>>
             \/ MayRefuse /\ cpc' = "stop" /\ stopped' = TRUE
       \/ /\ ~PassOn
          /\ UNCHANGED <<cpc, heard, stopped>>
    /\ UNCHANGED <<role, op, connected, attempt, call, result, info, worker, late,
                   toWorker>>

\* After CMD_STOP the client goes on reading until AUDIO_END.
Return == "idle"
Drain == "listen"
AfterStop == Drain

\* sendCommand(CMD_STOP); speak does not look at whether it was written.
SendStop ==
    /\ cpc = "stop"
    /\ \/ (WorkerGone \/ Adrift) /\ UNCHANGED toWorker
       \/ /\ ~WorkerGone /\ ~Adrift
          /\ RoomToWorker
          /\ toWorker' = Append(toWorker, Command("STOP"))
    /\ cpc' = AfterStop
    /\ result' = IF AfterStop = "idle" THEN "true" ELSE result
    /\ UNCHANGED <<role, op, connected, attempt, call, heard, stopped, info,
                   worker, late, toClient>>

\* AUDIO_END ends the call and RESP_ERROR fails it, with the handle kept; any
\* other response is passed over.
ListenOther ==
    /\ cpc = "listen"
    /\ toClient # <<>>
    /\ Head(toClient).type # "AUDIO_DATA"
    /\ toClient' = Tail(toClient)
    /\ CASE Head(toClient) = Response("AUDIO_END") -> cpc' = "idle" /\ result' = "true"
         [] Head(toClient) = Response("ERROR") -> cpc' = "idle" /\ result' = "false"
         [] OTHER -> UNCHANGED <<cpc, result>>
    /\ UNCHANGED <<role, op, connected, attempt, call, heard, stopped, info,
                   worker, late, toWorker>>

\* The pipe is broken and what was in it has been read.
ListenBroken ==
    /\ cpc = "listen"
    /\ WorkerGone /\ toClient = <<>>
    /\ Fail
    /\ Disconnect
    /\ UNCHANGED <<role, op, attempt, call, heard, stopped, reply, serving, made,
                   sent, late>>

Client ==
    \/ Open \/ GiveUp \/ Handshake \/ Send \/ AwaitInfo
    \/ ListenAudio \/ SendStop \/ ListenOther \/ ListenBroken

-----------------------------------------------------------------------------
(* The client runs out of memory.  A host's Speak catches the exception and  *)
(* can be called again; a tool does not, and ends.                           *)

\* speak throws and returns nothing.
Throw ==
    /\ role = "host"
    /\ cpc' = "idle"
    /\ result' = "thrown"

\* The command cannot be put together: speak has not looked at the pipe yet.
NoMemoryToAsk ==
    /\ cpc \in {"open", "send"}
    /\ attempt = 0
    /\ Throw
    /\ UNCHANGED <<role, op, connected, attempt, call, heard, stopped, info, worker,
                   late, toWorker, toClient>>

\* readResponse has the header of a message with a payload and no room for it:
\* the payload stays in the pipe, and nothing closes the handle.
NoMemoryToHear ==
    /\ cpc \in {"ping", "listen"}
    /\ toClient # <<>>
    /\ Head(toClient).type \in {"PONG", "AUDIO_DATA"}
    /\ Throw
    /\ spc' = "adrift"
    /\ toWorker' = <<>>
    /\ toClient' = <<>>
    /\ UNCHANGED <<role, op, connected, attempt, call, heard, stopped, info, reply,
                   serving, made, sent, late>>

\* A call on a handle adrift: CMD_SPEAK is written, and the worker serves it or
\* discards it in stop_requested.
SendAdrift ==
    /\ cpc = "send"
    /\ Adrift
    /\ \/ cpc' = "listen" /\ UNCHANGED <<connected, result, info, spc, toWorker, toClient>>
       \/ Fail /\ Disconnect
    /\ UNCHANGED <<role, op, attempt, call, heard, stopped, reply, serving, made,
                   sent, late>>

\* The bytes that follow pass for a chunk, for AUDIO_END or RESP_ERROR, for a
\* payload there is again no memory for, or for one that is too large or never
\* comes; or for a response that is passed over, and nothing changes.
ListenAdrift ==
    /\ cpc = "listen"
    /\ Adrift
    /\ \/ /\ ~stopped
          /\ Len(heard) < MaxChunks
          /\ heard' = Append(heard, Noise)
          /\ \/ UNCHANGED <<cpc, stopped>>
             \/ cpc' = "stop" /\ stopped' = TRUE
          /\ UNCHANGED <<connected, result, info, spc, toWorker, toClient>>
       \/ /\ cpc' = "idle"
          /\ result' \in {"true", "false", "thrown"}
          /\ UNCHANGED <<heard, stopped, connected, info, spc, toWorker, toClient>>
       \/ /\ Fail /\ Disconnect
          /\ UNCHANGED <<heard, stopped>>
    /\ UNCHANGED <<role, op, attempt, call, reply, serving, made, sent, late>>

OutOfMemory == NoMemoryToAsk \/ NoMemoryToHear \/ SendAdrift \/ ListenAdrift

-----------------------------------------------------------------------------
(* The worker thread. *)

\* client_thread reads a command.  A CMD_STOP that arrives here found no
\* utterance to stop and is acknowledged.
ReadCommand ==
    /\ spc = "read"
    /\ toWorker # <<>>
    /\ toWorker' = Tail(toWorker)
    /\ LET m == Head(toWorker) IN
       \/ /\ m.type = "SPEAK"
          /\ serving' = m.call
          /\ spc' = "synthesize"
          /\ UNCHANGED reply
       \/ /\ m.type # "SPEAK"
          /\ reply' = CASE m.type = "PING" -> Response("PONG")
                        [] m.type = "ENGINE_INFO" -> Response("ENGINE_INFO")
                        [] m.type = "STOP" -> Response("OK")
          /\ spc' = "respond"
          /\ UNCHANGED serving
    /\ UNCHANGED <<role, client, made, sent, late, toClient>>

Respond ==
    /\ spc = "respond"
    /\ RoomToClient
    /\ toClient' = Append(toClient, reply)
    /\ spc' = "read"
    /\ UNCHANGED <<role, client, reply, serving, made, sent, late, toWorker>>

\* speak_all and render: the utterance becomes some number of chunks, none of
\* them when the engine has nothing to say or refuses.
Synthesize ==
    /\ spc = "synthesize"
    /\ made' \in 0..MaxChunks
    /\ sent' = 0
    /\ spc' = "check"
    /\ UNCHANGED <<role, client, reply, serving, late, toWorker, toClient>>

\* stop_requested: a peek, and a read only when there is something.  Whatever
\* is read is consumed; only CMD_STOP ends the utterance.
NeverStops(m) == FALSE
EndsUtterance(m) == m = Command("STOP")

CheckForStop ==
    /\ spc = "check"
    /\ IF sent = made \/ toWorker = <<>>
       THEN /\ spc' = IF sent = made THEN "end" ELSE "chunk"
            /\ UNCHANGED toWorker
       ELSE /\ spc' = IF EndsUtterance(Head(toWorker)) THEN "end" ELSE "chunk"
            /\ toWorker' = Tail(toWorker)
    /\ UNCHANGED <<role, client, reply, serving, made, sent, late, toClient>>

\* The CMD_STOP of this call is on its way or has arrived.
StopSent == stopped /\ cpc # "stop"

WriteChunk ==
    /\ spc = "chunk"
    /\ RoomToClient
    /\ toClient' = Append(toClient, AudioData(serving, sent + 1))
    /\ sent' = sent + 1
    /\ late' = IF StopSent THEN late + 1 ELSE late
    /\ spc' = "check"
    /\ UNCHANGED <<role, client, reply, serving, made, toWorker>>

\* AUDIO_END is sent however the loop ended.
SilentWhenStopped == IF sent = made THEN <<Response("AUDIO_END")>> ELSE <<>>
EndMarker == <<Response("AUDIO_END")>>

WriteEnd ==
    /\ spc = "end"
    /\ RoomToClient
    /\ toClient' = toClient \o EndMarker
    /\ spc' = "read"
    /\ UNCHANGED <<role, client, reply, serving, made, sent, late, toWorker>>

Worker ==
    \/ ReadCommand \/ Respond \/ Synthesize
    \/ CheckForStop \/ WriteChunk \/ WriteEnd

\* The worker process ends.  Commands it has not read are lost, and so may be
\* the last of what it had written.
WorkerDies ==
    /\ ~WorkerGone /\ ~Adrift
    /\ spc' = "gone"
    /\ toWorker' = <<>>
    /\ \E n \in 0..Len(toClient) : toClient' = SubSeq(toClient, 1, n)
    /\ UNCHANGED <<role, client, reply, serving, made, sent, late>>

-----------------------------------------------------------------------------
Next == CallSpeak \/ CallEngineInfo \/ Client \/ OutOfMemory \/ Worker \/ WorkerDies

Spec == Init /\ [][Next]_vars

\* Both programs run whenever they can; nothing makes the host call again and
\* nothing makes the worker die.
FairSpec == Spec /\ WF_vars(Client) /\ WF_vars(Worker)

-----------------------------------------------------------------------------
TypeOK ==
    /\ role \in {"host", "tool"}
    /\ cpc \in {"idle", "open", "ping", "send", "await", "listen", "stop"}
    /\ op \in {"speak", "info"}
    /\ connected \in BOOLEAN
    /\ attempt \in 0..MaxAttempts
    /\ call \in 0..MaxCalls
    /\ heard \in Seq({Noise} \cup
                    UNION {{Chunk(c, n) : n \in 1..MaxChunks} : c \in 1..MaxCalls})
    /\ stopped \in BOOLEAN
    /\ result \in {"none", "true", "false", "thrown"}
    /\ info \in {"none", "answered", "failed"}
    /\ spc \in {"gone", "adrift", "read", "respond", "synthesize", "check", "chunk", "end"}
    /\ reply \in Responses
    /\ serving \in 0..MaxCalls
    /\ made \in {NotMade} \cup 0..MaxChunks
    /\ sent \in 0..MaxChunks
    /\ late \in 0..MaxChunks
    /\ toWorker \in Seq(Commands) /\ Len(toWorker) <= PipeRoom
    /\ toClient \in Seq(Responses) /\ Len(toClient) <= PipeRoom

\* PipeClient::speak keeps the promise of SpeechService: the callback hears
\* the chunks of its own call, in order, none after it refused one, and
\* "true" means it heard them all or refused.  A call that throws in the middle
\* takes the promise with it, until a call fails and drops the handle.
Service == INSTANCE SpeechService
             WITH phase <- IF op = "speak" /\ cpc # "idle" THEN "running" ELSE "idle",
                  lost <- Adrift

ServiceProvided == Service!Spec

\* Between two operations the two ends agree that nothing is going on: all
\* that can still be on its way is a CMD_STOP that came too late and the
\* RESP_OK it is answered with, so no operation reads what belongs to
\* another.  The code gives this up in one case: after an exception in the
\* middle of a message, as long as the handle it leaves open is kept.
InStep ==
    cpc \in {"idle", "send"} /\ ~Adrift =>
        /\ \A i \in DOMAIN toClient : toClient[i] = Response("OK")
        /\ \A i \in DOMAIN toWorker : toWorker[i] = Command("STOP")
        /\ spc \in {"gone", "read", "respond"}
        /\ spc = "respond" => reply = Response("OK")

\* engineInfo leaves its answer "zeroed if the worker could not be reached"
\* (pipe_client.h), and in the programs that call it for no other reason: a
\* call fails only when the worker is dead or could not be connected to.
InfoFailsOnlyUnreached ==
    [][info' = "failed" => info = "failed" \/ WorkerGone]_vars

\* "The client stops consuming between chunks" (av_server.cpp): once the
\* client has asked it to stop, the worker writes one more chunk at most.
\* (Nothing is said of the worker of a session adrift.)
PromptStop == ~Adrift => late <= 1

\* Every operation returns: neither end waits for the other for good, in
\* particular not the client with a CMD_STOP to write and the worker with a
\* full pipe to write to, and a dead worker is noticed.  A client adrift may
\* wait for the rest of a message that nobody has written.
OperationReturns == cpc # "idle" ~> cpc = "idle" \/ Adrift

=============================================================================
