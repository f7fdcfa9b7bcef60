------------------------- MODULE PipeSession_proofs -------------------------
(***************************************************************************)
(* What holds of a session for any number of calls, chunks and attempts    *)
(* and any room in the pipe: that the two ends keep in step, that a stop   *)
(* is prompt, that engineInfo fails only when no worker is reached, and    *)
(* that speak keeps the promise of SpeechService.                          *)
(*                                                                         *)
(* The invariant says, for each place the client can be at, what the two   *)
(* queues and the worker thread have between them. That the ends never     *)
(* wait for each other needs one more: how few STOPs the pipe ever holds.  *)
(* Both are about sessions that are not adrift; of one that is they say    *)
(* only what the step that drops its handle needs.                         *)
(***************************************************************************)
EXTENDS PipeSession, SequenceTheorems, TLAPS

OK == Response("OK")
END == Response("AUDIO_END")
STOP == Command("STOP")

AllOK(s) == \A i \in 1..Len(s) : s[i] = OK
AllStop(s) == \A i \in 1..Len(s) : s[i] = STOP

\* Nothing is going on.
Clear ==
    /\ AllOK(toClient) /\ AllStop(toWorker)
    /\ spc \in {"gone", "read", "respond"}
    /\ spc = "respond" => reply = OK

\* A command with one answer: on its way, in hand, or answered.
Asked(command, answer) ==
    \/ toWorker = <<command>> /\ toClient = <<>> /\ spc = "read"
    \/ toWorker = <<>> /\ toClient = <<>> /\ spc = "respond" /\ reply = answer
    \/ toWorker = <<>> /\ toClient = <<answer>> /\ spc = "read"
    \/ toWorker = <<>> /\ toClient \in {<<>>, <<answer>>} /\ spc = "gone"

\* CMD_SPEAK is the last of what the worker has to read.
Pending ==
    /\ toWorker # <<>> /\ toWorker[Len(toWorker)] = Speak(call)
    /\ \A i \in 1..(Len(toWorker) - 1) : toWorker[i] = STOP
    /\ AllOK(toClient)
    /\ spc \in {"read", "respond"} /\ (spc = "respond" => reply = OK)
    /\ made = NotMade /\ heard = <<>> /\ ~stopped /\ late = 0

\* What the client has to read of the utterance: z answers to an earlier stop,
\* a chunks after the first h, the end, and the answer to this call's stop.
Stream(z, a, h) ==
    /\ z + a <= Len(toClient)
    /\ \A i \in 1..z : toClient[i] = OK
    /\ \A i \in 1..a : toClient[z + i] = AudioData(call, h + i)
    /\ z + a < Len(toClient) => toClient[z + a + 1] = END
    /\ \A i \in (z + a + 2)..Len(toClient) : toClient[i] = OK

\* How far the two ends are with it.
Progress(z, a, h) ==
    /\ ~stopped => h = Len(heard)
    /\ IF made = NotMade THEN a = 0 /\ h = 0 ELSE h + a <= made
    /\ ~stopped /\ z + a < Len(toClient) => h + a = made
    /\ spc \in {"synthesize", "check", "chunk", "end"} =>
          serving = call /\ Len(toClient) = z + a
    /\ spc \in {"read", "respond"} => Len(toClient) > z + a
    /\ spc \in {"check", "chunk", "end"} => made # NotMade /\ h + a = sent

Working ==
    /\ spc = "synthesize" => made = NotMade /\ ~stopped
    /\ spc = "chunk" => sent < made /\ late = 0
    /\ spc = "end" => sent = made \/ stopped
    /\ spc = "respond" => reply = OK
    /\ spc = "gone" => toWorker = <<>>
    /\ AllStop(toWorker)
    /\ IF StopSent THEN spc \in {"check", "chunk"} => toWorker # <<>>
       ELSE toWorker = <<>> /\ late = 0

Streaming ==
    /\ Working
    /\ \E z, a \in 0..Len(toClient), h \in 0..MaxChunks : Stream(z, a, h) /\ Progress(z, a, h)

AtEachPlace ==
    /\ cpc \in {"idle", "send"} /\ ~Adrift => Clear
    /\ cpc = "ping" => Asked(Command("PING"), Response("PONG"))
    /\ cpc = "await" => op = "info" /\ Asked(Command("ENGINE_INFO"), Response("ENGINE_INFO"))
    /\ cpc = "listen" /\ ~Adrift => op = "speak" /\ (Pending \/ Streaming)
    /\ cpc = "stop" /\ ~Adrift => op = "speak" /\ stopped /\ Streaming

\* Only a host is ever adrift, and nothing is kept of what is on its pipe.
Lost ==
    Adrift =>
        /\ role = "host" /\ op = "speak" /\ connected
        /\ cpc \in {"idle", "send", "listen", "stop"}
        /\ toWorker = <<>> /\ toClient = <<>>

\* A call whose text has not been sent yet.
Fresh ==
    cpc \in {"open", "ping", "send"} /\ op = "speak" =>
        made = NotMade /\ heard = <<>> /\ ~stopped /\ late = 0

Connection ==
    /\ cpc = "open" => ~connected
    /\ ~connected => cpc \in {"idle", "open"} /\ spc = "gone"
    /\ spc = "gone" => toWorker = <<>>
    /\ ~connected => toClient = <<>>
    /\ cpc # "idle" /\ op = "speak" => call > 0

\* A tool never stops, so there is no stop and no answer to one on its pipe.
Tool ==
    /\ op = "info" => role = "tool"
    /\ role = "tool" =>
          /\ ~stopped /\ cpc # "stop"
          /\ \A i \in 1..Len(toWorker) : toWorker[i] # STOP
          /\ \A i \in 1..Len(toClient) : toClient[i] # OK
          /\ spc = "respond" => reply # OK

AtMostOneLate == late <= 1

PipeInv == TypeOK /\ AtMostOneLate /\ AtEachPlace /\ Lost /\ Fresh /\ Connection /\ Tool

-----------------------------------------------------------------------------
(* Queues and messages.                                                    *)

LEMMA HeadAndTail ==
    ASSUME NEW S, NEW s \in Seq(S), s # <<>>
    PROVE  /\ Head(s) = s[1] /\ Head(s) \in S /\ Tail(s) \in Seq(S)
           /\ Len(s) \in Nat /\ Len(s) > 0 /\ Len(Tail(s)) = Len(s) - 1
           /\ \A i \in 1..(Len(s) - 1) : Tail(s)[i] = s[i + 1]
BY HeadTailProperties, EmptySeq, LenProperties

LEMMA OneMore ==
    ASSUME NEW S, NEW s \in Seq(S), NEW e \in S
    PROVE  /\ Append(s, e) \in Seq(S) /\ Append(s, e) # <<>>
           /\ Len(s) \in Nat /\ Len(Append(s, e)) = Len(s) + 1
           /\ \A i \in 1..Len(s) : Append(s, e)[i] = s[i]
           /\ Append(s, e)[Len(s) + 1] = e
BY AppendProperties, LenProperties

LEMMA TheFirst ==
    ASSUME NEW S, NEW s \in Seq(S), NEW n \in 0..Len(s)
    PROVE  /\ SubSeq(s, 1, n) \in Seq(S) /\ Len(SubSeq(s, 1, n)) = n
           /\ \A i \in 1..n : SubSeq(s, 1, n)[i] = s[i]
<1>1. Len(s) \in Nat /\ n \in Nat /\ n <= Len(s)
  BY LenProperties
<1>2. \A i \in 1..n : s[i] \in S
  BY <1>1, ElementOfSeq
<1> QED
  BY <1>1, <1>2, SubSeqProperties

LEMMA OneMessage ==
    ASSUME NEW S, NEW e \in S
    PROVE  /\ <<e>> \in Seq(S) /\ <<e>> # <<>> /\ Len(<<e>>) = 1 /\ <<e>>[1] = e
           /\ Head(<<e>>) = e /\ Tail(<<e>>) = <<>>
           /\ <<>> \in Seq(S) /\ Len(<<>>) = 0 /\ Append(<<>>, e) = <<e>>
OBVIOUS

LEMMA NothingIn ==
    ASSUME NEW S, NEW s \in Seq(S), Len(s) = 0 \/ Len(s) <= 0
    PROVE  s = <<>>
BY EmptySeq, LenProperties

LEMMA Messages ==
    /\ Response("PONG") \in Responses /\ Response("ENGINE_INFO") \in Responses
    /\ OK \in Responses /\ END \in Responses
    /\ Command("PING") \in Commands /\ Command("ENGINE_INFO") \in Commands
    /\ STOP \in Commands
    /\ OK # END /\ OK # Response("PONG") /\ OK # Response("ENGINE_INFO")
    /\ END # Response("PONG") /\ END # Response("ENGINE_INFO")
    /\ Command("PING") # STOP /\ Command("ENGINE_INFO") # STOP
    /\ \A c \in 1..MaxCalls : Speak(c) \in Commands /\ Speak(c) # STOP
    /\ \A c \in 1..MaxCalls, n \in 1..MaxChunks :
          AudioData(c, n) \in Responses /\ AudioData(c, n) # OK /\ AudioData(c, n) # END
<1> USE DEF OK, END, STOP, Response, Command, Speak, AudioData, Responses, Commands
<1>1. /\ Response("PONG") \in Responses /\ Response("ENGINE_INFO") \in Responses
      /\ OK \in Responses /\ END \in Responses
  OBVIOUS
<1>2. /\ Command("PING") \in Commands /\ Command("ENGINE_INFO") \in Commands
      /\ STOP \in Commands
  OBVIOUS
<1>3. /\ OK.type = "OK" /\ END.type = "AUDIO_END" /\ Response("PONG").type = "PONG"
      /\ Response("ENGINE_INFO").type = "ENGINE_INFO"
  OBVIOUS
<1>4. /\ STOP.type = "STOP" /\ Command("PING").type = "PING"
      /\ Command("ENGINE_INFO").type = "ENGINE_INFO"
  OBVIOUS
<1>5. ASSUME NEW c \in 1..MaxCalls PROVE Speak(c) \in Commands /\ Speak(c).type = "SPEAK"
  OBVIOUS
<1>6. ASSUME NEW c \in 1..MaxCalls, NEW n \in 1..MaxChunks
      PROVE  AudioData(c, n) \in Responses /\ AudioData(c, n).type = "AUDIO_DATA"
  OBVIOUS
<1> HIDE DEF OK, END, STOP, Response, Command, Speak, AudioData, Responses, Commands
<1> QED
  BY <1>1, <1>2, <1>3, <1>4, <1>5, <1>6

LEMMA TypesOfMessages ==
    /\ OK.type = "OK" /\ END.type = "AUDIO_END" /\ STOP.type = "STOP"
    /\ Command("PING").type = "PING" /\ Command("ENGINE_INFO").type = "ENGINE_INFO"
    /\ \A c : Speak(c).type = "SPEAK" /\ Speak(c).call = c
    /\ \A c, n : AudioData(c, n).type = "AUDIO_DATA" /\ AudioData(c, n).chunk = Chunk(c, n)
BY DEF OK, END, STOP, Response, Command, Speak, AudioData

LEMMA AudioMessages ==
    ASSUME NEW m \in Responses, m.type = "AUDIO_DATA"
    PROVE  \E c \in 1..MaxCalls, n \in 1..MaxChunks : m = AudioData(c, n)
<1>1. \A t \in {"PONG", "ENGINE_INFO", "OK", "AUDIO_END"} : Response(t).type = t
  BY DEF Response
<1> QED
  BY <1>1 DEF Responses

-----------------------------------------------------------------------------
(* Types.  The worker has an utterance in hand only while the client       *)
(* listens to it.                                                          *)

LEMMA InHand ==
    ASSUME PipeInv, spc \in {"synthesize", "check", "chunk", "end"}
    PROVE  /\ op = "speak" /\ cpc \in {"listen", "stop"} /\ Streaming
           /\ serving = call /\ call \in 1..MaxCalls
<1>1. cpc \in {"idle", "open", "ping", "send", "await", "listen", "stop"}
  BY DEF PipeInv, TypeOK
<1>2. cpc \in {"listen", "stop"}
  BY <1>1 DEF PipeInv, AtEachPlace, Clear, Asked, Connection, Adrift
<1>3. op = "speak" /\ Streaming
  BY <1>2 DEF PipeInv, AtEachPlace, Pending, Adrift
<1>4. serving = call
  BY <1>3 DEF Streaming, Progress
<1>5. call \in 0..MaxCalls /\ call > 0
  BY <1>2, <1>3 DEF PipeInv, TypeOK, Connection
<1> QED
  BY <1>2, <1>3, <1>4, <1>5, SessionAssumption

ChunksHeard == {Noise} \cup UNION {{Chunk(c, n) : n \in 1..MaxChunks} : c \in 1..MaxCalls}

ClientTypes ==
    /\ role \in {"host", "tool"}
    /\ cpc \in {"idle", "open", "ping", "send", "await", "listen", "stop"}
    /\ op \in {"speak", "info"}
    /\ connected \in BOOLEAN
    /\ attempt \in 0..MaxAttempts
    /\ call \in 0..MaxCalls
    /\ stopped \in BOOLEAN
    /\ result \in {"none", "true", "false", "thrown"}
    /\ info \in {"none", "answered", "failed"}

WorkerTypes ==
    /\ spc \in {"gone", "adrift", "read", "respond", "synthesize", "check", "chunk", "end"}
    /\ reply \in Responses
    /\ serving \in 0..MaxCalls
    /\ made \in {NotMade} \cup 0..MaxChunks
    /\ sent \in 0..MaxChunks
    /\ late \in 0..MaxChunks

QueueTypes ==
    /\ heard \in Seq(ChunksHeard)
    /\ toWorker \in Seq(Commands) /\ Len(toWorker) <= PipeRoom
    /\ toClient \in Seq(Responses) /\ Len(toClient) <= PipeRoom

LEMMA TypesInGroups == TypeOK <=> ClientTypes /\ WorkerTypes /\ QueueTypes
BY DEF TypeOK, ClientTypes, WorkerTypes, QueueTypes, ChunksHeard

LEMMA ClientTypesStep == PipeInv /\ [Next]_vars => ClientTypes'
<1> SUFFICES ASSUME PipeInv, [Next]_vars PROVE ClientTypes'
  OBVIOUS
<1>1. ClientTypes
  BY TypesInGroups DEF PipeInv
<1>2. CASE Client
  <2> USE <1>1 DEF ClientTypes, Disconnect, Fail, worker
  <2>1. CASE Open
    BY <2>1, SessionAssumption DEF Open
  <2>2. CASE GiveUp
    BY <2>2 DEF GiveUp
  <2>3. CASE Handshake
    BY <2>3 DEF Handshake
  <2>4. CASE Send
    BY <2>4 DEF Send
  <2>5. CASE AwaitInfo
    BY <2>5 DEF AwaitInfo
  <2>6. CASE ListenAudio
    BY <2>6 DEF ListenAudio
  <2>7. CASE SendStop
    BY <2>7 DEF SendStop, AfterStop, Drain
  <2>8. CASE ListenOther
    BY <2>8 DEF ListenOther
  <2>9. CASE ListenBroken
    BY <2>9 DEF ListenBroken
  <2> QED
    BY <1>2, <2>1, <2>2, <2>3, <2>4, <2>5, <2>6, <2>7, <2>8, <2>9 DEF Client
<1>3. CASE Worker \/ WorkerDies
  BY <1>1, <1>3 DEF ClientTypes, Worker, ReadCommand, Respond, Synthesize, CheckForStop,
                    WriteChunk, WriteEnd, WorkerDies, client
<1>4. CASE CallSpeak
  <2>1. call' \in 0..MaxCalls
    BY <1>1, <1>4, SessionAssumption DEF ClientTypes, CallSpeak
  <2>2. attempt' \in 0..MaxAttempts /\ cpc' \in {"send", "open"} /\ op' = "speak"
    BY <1>4, SessionAssumption DEF CallSpeak, Begin
  <2>3. stopped' = FALSE /\ result' = "none" /\ UNCHANGED <<role, connected, info>>
    BY <1>4 DEF CallSpeak
  <2> QED
    BY <1>1, <2>1, <2>2, <2>3 DEF ClientTypes
<1>5. CASE CallEngineInfo
  <2>1. attempt' \in 0..MaxAttempts /\ cpc' \in {"send", "open"} /\ op' = "info"
    BY <1>5, SessionAssumption DEF CallEngineInfo, Begin
  <2>2. info' = "none" /\ UNCHANGED <<role, connected, call, stopped, result>>
    BY <1>5 DEF CallEngineInfo
  <2> QED
    BY <1>1, <2>1, <2>2 DEF ClientTypes
<1>6. CASE OutOfMemory
  BY <1>1, <1>6 DEF ClientTypes, OutOfMemory, NoMemoryToAsk, NoMemoryToHear, Throw,
                    SendAdrift, ListenAdrift, Fail, Disconnect, worker
<1>7. CASE UNCHANGED vars
  BY <1>1, <1>7 DEF ClientTypes, vars, client, worker
<1> QED
  BY <1>2, <1>3, <1>4, <1>5, <1>6, <1>7 DEF Next

LEMMA WorkerTypesStep == PipeInv /\ [Next]_vars => WorkerTypes'
<1> SUFFICES ASSUME PipeInv, [Next]_vars PROVE WorkerTypes'
  OBVIOUS
<1>1. WorkerTypes /\ QueueTypes
  BY TypesInGroups DEF PipeInv
<1>2. CASE CallSpeak \/ CallEngineInfo \/ Client \/ OutOfMemory \/ UNCHANGED vars
  <2>1. /\ spc' \in {spc, "gone", "adrift", "read"} /\ reply' = reply /\ serving' = serving
        /\ sent' = sent /\ made' \in {made, NotMade} /\ late' \in {late, 0}
    BY <1>2 DEF CallSpeak, CallEngineInfo, Client, Open, GiveUp, Handshake,
                Send, AwaitInfo, ListenAudio, SendStop, ListenOther, ListenBroken,
                OutOfMemory, NoMemoryToAsk, NoMemoryToHear, Throw, SendAdrift,
                ListenAdrift, Fail, Disconnect, vars, worker
  <2> QED
    BY <1>1, <2>1, SessionAssumption DEF WorkerTypes
<1>3. CASE ReadCommand
  <2>1. Head(toWorker) \in Commands
    BY <1>1, <1>3, HeadAndTail DEF QueueTypes, ReadCommand
  <2>2. /\ \A c \in 1..MaxCalls : Speak(c).call = c
        /\ \A m \in Commands : \/ m.type \in {"PING", "ENGINE_INFO", "STOP"}
                               \/ \E c \in 1..MaxCalls : m = Speak(c)
    BY DEF Commands, Command, Speak
  <2>3. CASE Head(toWorker).type = "SPEAK"
    <3>1. PICK c \in 1..MaxCalls : Head(toWorker) = Speak(c)
      BY <2>1, <2>2, <2>3
    <3>2. serving' = c /\ spc' = "synthesize" /\ UNCHANGED <<reply, made, sent, late>>
      BY <1>3, <2>2, <2>3, <3>1 DEF ReadCommand
    <3> QED
      BY <1>1, <3>2, SessionAssumption DEF WorkerTypes
  <2>4. CASE Head(toWorker).type # "SPEAK"
    <3>1. Head(toWorker).type \in {"PING", "ENGINE_INFO", "STOP"}
      BY <2>1, <2>2, <2>4, TypesOfMessages
    <3>2. reply' \in {Response("PONG"), Response("ENGINE_INFO"), Response("OK")}
      BY <1>3, <2>4, <3>1 DEF ReadCommand
    <3>3. reply' \in Responses
      BY <3>2, Messages DEF OK
    <3> QED
      BY <1>1, <1>3, <2>4, <3>3 DEF WorkerTypes, ReadCommand
  <2> QED
    BY <2>3, <2>4
<1>4. CASE Respond \/ Synthesize \/ CheckForStop \/ WriteEnd \/ WorkerDies
  BY <1>1, <1>4, SessionAssumption
  DEF WorkerTypes, Respond, Synthesize, CheckForStop, WriteEnd, WorkerDies
<1>5. CASE WriteChunk
  <2>1. sent < made /\ late = 0
    BY <1>5, InHand DEF WriteChunk, Streaming, Working
  <2>2. late' \in {0, 1} /\ sent' = sent + 1 /\ spc' = "check"
    BY <1>5, <2>1 DEF WriteChunk
  <2>3. UNCHANGED <<reply, serving, made>>
    BY <1>5 DEF WriteChunk
  <2> QED
    BY <1>1, <2>1, <2>2, <2>3, SessionAssumption DEF WorkerTypes, NotMade
<1> QED
  BY <1>2, <1>3, <1>4, <1>5 DEF Next, Worker

LEMMA QueueTypesStep == PipeInv /\ [Next]_vars => QueueTypes'
<1> SUFFICES ASSUME PipeInv, [Next]_vars PROVE QueueTypes'
  OBVIOUS
<1>1. ClientTypes /\ WorkerTypes /\ QueueTypes
  BY TypesInGroups DEF PipeInv
<1>2. PipeRoom \in Nat \ {0} /\ <<>> \in Seq(Responses) /\ <<>> \in Seq(Commands)
         /\ <<>> \in Seq(ChunksHeard) /\ Len(<<>>) = 0
  BY SessionAssumption
<1>3. Len(toWorker) \in Nat /\ Len(toClient) \in Nat
  BY <1>1, LenProperties DEF QueueTypes
<1>4. toClient # <<>> => Tail(toClient) \in Seq(Responses) /\ Len(Tail(toClient)) <= PipeRoom
  <2> HAVE toClient # <<>>
  <2>1. Tail(toClient) \in Seq(Responses) /\ Len(Tail(toClient)) = Len(toClient) - 1
    BY <1>1, HeadAndTail DEF QueueTypes
  <2> QED
    BY <1>1, <1>2, <1>3, <2>1 DEF QueueTypes
<1>5. toWorker # <<>> => Tail(toWorker) \in Seq(Commands) /\ Len(Tail(toWorker)) <= PipeRoom
  <2> HAVE toWorker # <<>>
  <2>1. Tail(toWorker) \in Seq(Commands) /\ Len(Tail(toWorker)) = Len(toWorker) - 1
    BY <1>1, HeadAndTail DEF QueueTypes
  <2> QED
    BY <1>1, <1>2, <1>3, <2>1 DEF QueueTypes
<1>6. ASSUME NEW m \in Commands, RoomToWorker
      PROVE  Append(toWorker, m) \in Seq(Commands) /\ Len(Append(toWorker, m)) <= PipeRoom
  <2>1. /\ Append(toWorker, m) \in Seq(Commands)
        /\ Len(Append(toWorker, m)) = Len(toWorker) + 1
    BY <1>1, OneMore DEF QueueTypes
  <2> QED
    BY <1>2, <1>3, <1>6, <2>1 DEF RoomToWorker
<1>7. ASSUME NEW m \in Responses, RoomToClient
      PROVE  Append(toClient, m) \in Seq(Responses) /\ Len(Append(toClient, m)) <= PipeRoom
  <2>1. /\ Append(toClient, m) \in Seq(Responses)
        /\ Len(Append(toClient, m)) = Len(toClient) + 1
    BY <1>1, OneMore DEF QueueTypes
  <2> QED
    BY <1>2, <1>3, <1>7, <2>1 DEF RoomToClient
<1>8. CASE CallSpeak \/ CallEngineInfo \/ UNCHANGED vars
  BY <1>1, <1>2, <1>8 DEF QueueTypes, CallSpeak, CallEngineInfo, vars, client
<1>9. CASE Open
  <2>1. <<Command("PING")>> \in Seq(Commands) /\ Len(<<Command("PING")>>) = 1
    BY Messages, OneMessage
  <2>2. toWorker' = <<Command("PING")>> /\ toClient' = <<>> /\ heard' = heard
    BY <1>9 DEF Open
  <2> QED
    BY <1>1, <1>2, <2>1, <2>2 DEF QueueTypes
<1>10. CASE GiveUp \/ Handshake \/ AwaitInfo \/ ListenOther \/ ListenBroken
  BY <1>1, <1>2, <1>4, <1>10
  DEF QueueTypes, GiveUp, Handshake, AwaitInfo, ListenOther, ListenBroken, Disconnect
<1>11. CASE Send
  <2>1. op = "speak" => call \in 1..MaxCalls
    BY <1>1, <1>11, SessionAssumption DEF ClientTypes, PipeInv, Connection, Send
  <2>2. (IF op = "speak" THEN Speak(call) ELSE Command("ENGINE_INFO")) \in Commands
    BY <2>1, Messages
  <2>3. CASE toWorker' = <<>> /\ toClient' = <<>> /\ heard' = heard
    BY <1>1, <1>2, <2>3 DEF QueueTypes
  <2>4. CASE /\ RoomToWorker /\ toClient' = toClient /\ heard' = heard
             /\ toWorker' = Append(toWorker, IF op = "speak" THEN Speak(call)
                                             ELSE Command("ENGINE_INFO"))
    BY <1>1, <1>6, <2>2, <2>4 DEF QueueTypes
  <2> QED
    BY <1>11, <2>3, <2>4 DEF Send, Disconnect
<1>12. CASE ListenAudio
  <2>1. toClient # <<>> /\ toClient' = Tail(toClient) /\ toWorker' = toWorker
           /\ Head(toClient).type = "AUDIO_DATA"
           /\ heard' \in {heard, Append(heard, Head(toClient).chunk)}
    BY <1>12 DEF ListenAudio
  <2>2. Head(toClient) \in Responses
    BY <1>1, <2>1, HeadAndTail DEF QueueTypes
  <2>3. Head(toClient).chunk \in ChunksHeard
    BY <2>1, <2>2, AudioMessages, TypesOfMessages DEF ChunksHeard
  <2>4. Append(heard, Head(toClient).chunk) \in Seq(ChunksHeard)
    BY <1>1, <2>3, OneMore DEF QueueTypes
  <2> QED
    BY <1>1, <1>4, <2>1, <2>4 DEF QueueTypes
<1>13. CASE SendStop
  <2>1. /\ UNCHANGED <<heard, toClient>>
        /\ \/ toWorker' = toWorker
           \/ RoomToWorker /\ toWorker' = Append(toWorker, Command("STOP"))
    BY <1>13 DEF SendStop
  <2> QED
    BY <1>1, <1>6, <2>1, Messages DEF QueueTypes, STOP
<1>14. CASE ReadCommand \/ Synthesize \/ CheckForStop
  BY <1>1, <1>5, <1>14 DEF QueueTypes, ReadCommand, Synthesize, CheckForStop, client
<1>15. CASE Respond \/ WriteChunk \/ WriteEnd
  <2>1. UNCHANGED <<heard, toWorker>>
    BY <1>15 DEF Respond, WriteChunk, WriteEnd, client
  <2>2. PICK m \in Responses : RoomToClient /\ toClient' = Append(toClient, m)
    <3>1. CASE Respond
      BY <1>1, <3>1 DEF Respond, WorkerTypes
    <3>2. CASE WriteChunk
      <4>1. serving \in 1..MaxCalls /\ sent < made
        BY <3>2, InHand DEF WriteChunk, Streaming, Working
      <4>2. sent + 1 \in 1..MaxChunks
        BY <1>1, <4>1, SessionAssumption DEF WorkerTypes, NotMade
      <4> QED
        BY <3>2, <4>1, <4>2, Messages DEF WriteChunk
    <3>3. CASE WriteEnd
      <4>1. toClient \o <<END>> = Append(toClient, END)
        BY <1>1, Messages, AppendIsConcat DEF QueueTypes
      <4> QED
        BY <3>3, <4>1, Messages DEF WriteEnd, EndMarker, END
    <3> QED
      BY <1>15, <3>1, <3>2, <3>3
  <2> QED
    BY <1>1, <1>7, <2>1, <2>2 DEF QueueTypes
<1>16. CASE WorkerDies
  <2>1. PICK n \in 0..Len(toClient) : toClient' = SubSeq(toClient, 1, n)
    BY <1>16 DEF WorkerDies
  <2>2. toClient' \in Seq(Responses) /\ Len(toClient') = n
    BY <1>1, <2>1, TheFirst DEF QueueTypes
  <2>3. toWorker' = <<>> /\ heard' = heard
    BY <1>16 DEF WorkerDies, client
  <2> QED
    BY <1>1, <1>2, <1>3, <2>2, <2>3 DEF QueueTypes
<1>17. CASE OutOfMemory
  <2>1. Append(heard, Noise) \in Seq(ChunksHeard)
    BY <1>1, OneMore DEF QueueTypes, ChunksHeard
  <2>2. /\ heard' = heard \/ heard' = Append(heard, Noise)
        /\ toWorker' = toWorker \/ toWorker' = <<>>
        /\ toClient' = toClient \/ toClient' = <<>>
    BY <1>17 DEF OutOfMemory, NoMemoryToAsk, NoMemoryToHear, SendAdrift, ListenAdrift,
                 Disconnect
  <2>3. heard' \in Seq(ChunksHeard)
    BY <1>1, <2>1, <2>2 DEF QueueTypes
  <2>4. Len(<<>>) <= PipeRoom
    BY <1>2
  <2>5. toWorker' \in Seq(Commands) /\ Len(toWorker') <= PipeRoom
    BY <1>1, <1>2, <2>2, <2>4, Zenon DEF QueueTypes
  <2>6. toClient' \in Seq(Responses) /\ Len(toClient') <= PipeRoom
    BY <1>1, <1>2, <2>2, <2>4, Zenon DEF QueueTypes
  <2> QED
    BY <2>3, <2>5, <2>6 DEF QueueTypes
<1> QED
  BY <1>8, <1>9, <1>10, <1>11, <1>12, <1>13, <1>14, <1>15, <1>16, <1>17
     DEF Next, Client, Worker

LEMMA TypesStep == PipeInv /\ [Next]_vars => TypeOK'
<1> SUFFICES ASSUME PipeInv, [Next]_vars PROVE TypeOK'
  OBVIOUS
<1>1. ClientTypes' /\ WorkerTypes' /\ QueueTypes'
  BY ClientTypesStep, WorkerTypesStep, QueueTypesStep
<1> QED
  BY <1>1 DEF TypeOK, ClientTypes, WorkerTypes, QueueTypes, ChunksHeard

-----------------------------------------------------------------------------
(* The parts of the invariant that do not look at the stream.              *)

LEMMA PromptStep == PipeInv /\ [Next]_vars => AtMostOneLate'
<1> SUFFICES ASSUME PipeInv, [Next]_vars PROVE AtMostOneLate'
  OBVIOUS
<1>1. AtMostOneLate /\ late \in 0..MaxChunks
  BY DEF PipeInv, TypeOK
<1>2. CASE WriteChunk
  <2>1. late = 0
    BY <1>2, InHand DEF WriteChunk, Streaming, Working
  <2> QED
    BY <1>2, <2>1 DEF WriteChunk, AtMostOneLate
<1>3. ASSUME late' \in {late, 0} PROVE AtMostOneLate'
  BY <1>1, <1>3 DEF AtMostOneLate
<1> QED
  BY <1>2, <1>3
  DEF Next, CallSpeak, CallEngineInfo, Client, Open, GiveUp, Handshake, Send, AwaitInfo,
      ListenAudio, SendStop, ListenOther, ListenBroken, OutOfMemory, NoMemoryToAsk,
      NoMemoryToHear, SendAdrift, ListenAdrift, Worker, ReadCommand, Respond,
      Synthesize, CheckForStop, WriteEnd, WorkerDies, vars

\* A session goes adrift with nothing kept of it, and nothing of it returns
\* but by the loss of the handle.
LEMMA LostStep == PipeInv /\ [Next]_vars => Lost'
<1> SUFFICES ASSUME PipeInv, [Next]_vars PROVE Lost'
  OBVIOUS
<1>1. Lost /\ Tool /\ Connection /\ ClientTypes
  BY TypesInGroups DEF PipeInv
<1>2. CASE CallSpeak \/ CallEngineInfo \/ UNCHANGED vars
  BY <1>1, <1>2 DEF Lost, Adrift, CallSpeak, CallEngineInfo, Begin, vars, client, worker
<1>3. CASE Client
  BY <1>1, <1>3 DEF Lost, Adrift, Connection, Client, Open, GiveUp, Handshake, Send,
                    AwaitInfo, ListenAudio, SendStop, AfterStop, Drain, ListenOther,
                    ListenBroken, Fail, Disconnect, WorkerGone, worker
<1>4. CASE OutOfMemory
  <2>1. CASE NoMemoryToAsk \/ SendAdrift \/ ListenAdrift
    BY <1>1, <2>1 DEF Lost, Adrift, NoMemoryToAsk, SendAdrift, ListenAdrift, Throw, Fail,
                      Disconnect, worker
  <2>2. CASE NoMemoryToHear
    BY <1>1, <2>2 DEF Lost, Tool, Connection, ClientTypes, NoMemoryToHear, Throw
  <2> QED
    BY <1>4, <2>1, <2>2 DEF OutOfMemory
<1>5. CASE Worker \/ WorkerDies
  BY <1>5 DEF Lost, Adrift, Worker, ReadCommand, Respond, Synthesize, CheckForStop,
              WriteChunk, WriteEnd, WorkerDies
<1> QED
  BY <1>2, <1>3, <1>4, <1>5 DEF Next

LEMMA FreshStep == PipeInv /\ [Next]_vars => Fresh'
<1> SUFFICES ASSUME PipeInv, [Next]_vars PROVE Fresh'
  OBVIOUS
<1>1. Fresh
  BY DEF PipeInv
<1>2. CASE CallSpeak \/ CallEngineInfo
  BY <1>2 DEF Fresh, CallSpeak, CallEngineInfo, Begin
<1>3. CASE Client
  BY <1>1, <1>3 DEF Fresh, Client, Open, GiveUp, Handshake, Send, AwaitInfo, ListenAudio,
                    SendStop, AfterStop, Drain, ListenOther, ListenBroken, Fail, worker
<1>4. CASE Synthesize \/ WriteChunk
  <2>1. cpc \in {"listen", "stop"} /\ cpc' = cpc
    BY <1>4, InHand DEF Synthesize, WriteChunk, client
  <2> QED
    BY <2>1 DEF Fresh
<1>5. CASE ReadCommand \/ Respond \/ CheckForStop \/ WriteEnd \/ WorkerDies \/ UNCHANGED vars
  BY <1>1, <1>5 DEF Fresh, ReadCommand, Respond, CheckForStop, WriteEnd, WorkerDies,
                    vars, client, worker
<1>6. CASE OutOfMemory
  BY <1>1, <1>6 DEF Fresh, OutOfMemory, NoMemoryToAsk, NoMemoryToHear, Throw, SendAdrift,
                    ListenAdrift, Fail
<1> QED
  BY <1>2, <1>3, <1>4, <1>5, <1>6 DEF Next, Worker

LEMMA ConnectionStep == PipeInv /\ [Next]_vars => Connection'
<1> SUFFICES ASSUME PipeInv, [Next]_vars PROVE Connection'
  OBVIOUS
<1>1. Connection /\ ClientTypes
  BY TypesInGroups DEF PipeInv
<1>2. CASE CallSpeak \/ CallEngineInfo
  <2>1. /\ cpc' = IF connected THEN "send" ELSE "open"
        /\ UNCHANGED <<connected, spc, toWorker, toClient>> /\ cpc = "idle"
    BY <1>2 DEF CallSpeak, CallEngineInfo, Begin, worker
  <2>2. op' = "speak" => call' > 0
    BY <1>1, <1>2 DEF CallSpeak, CallEngineInfo, Begin, ClientTypes
  <2> QED
    BY <1>1, <2>1, <2>2 DEF Connection, ClientTypes
<1>3. CASE Open
  BY <1>1, <1>3 DEF Connection, Open
<1>4. CASE GiveUp \/ Handshake \/ Send \/ ListenBroken
  BY <1>1, <1>4 DEF Connection, GiveUp, Handshake, Send, ListenBroken, Disconnect, Fail,
                    WorkerGone, worker
<1>5. CASE AwaitInfo \/ ListenAudio \/ SendStop \/ ListenOther
  BY <1>1, <1>5 DEF Connection, AwaitInfo, ListenAudio, SendStop, AfterStop, Drain,
                    ListenOther, WorkerGone, worker
<1>6. CASE Worker
  <2>1. spc # "gone" /\ spc' # "gone" /\ UNCHANGED client
    BY <1>6 DEF Worker, ReadCommand, Respond, Synthesize, CheckForStop, WriteChunk, WriteEnd
  <2> QED
    BY <1>1, <2>1 DEF Connection, client
<1>7. CASE WorkerDies
  BY <1>1, <1>7 DEF Connection, WorkerDies, WorkerGone, client
<1>8. CASE UNCHANGED vars
  BY <1>1, <1>8 DEF Connection, vars, client, worker
<1>9. CASE OutOfMemory
  <2>1. Lost
    BY DEF PipeInv
  <2>2. CASE NoMemoryToAsk
    BY <1>1, <2>2 DEF Connection, NoMemoryToAsk, Throw, worker
  <2>3. CASE NoMemoryToHear
    BY <1>1, <2>3 DEF Connection, NoMemoryToHear, Throw
  <2>4. CASE SendAdrift \/ ListenAdrift
    BY <1>1, <2>1, <2>4 DEF Connection, Lost, Adrift, SendAdrift, ListenAdrift, Fail,
                            Disconnect
  <2> QED
    BY <1>9, <2>2, <2>3, <2>4 DEF OutOfMemory
<1> QED
  BY <1>2, <1>3, <1>4, <1>5, <1>6, <1>7, <1>8, <1>9 DEF Next, Client

LEMMA ToolStep == PipeInv /\ [Next]_vars => Tool'
<1> SUFFICES ASSUME PipeInv, [Next]_vars PROVE Tool'
  OBVIOUS
<1>1. Tool /\ ClientTypes /\ WorkerTypes /\ QueueTypes
  BY TypesInGroups DEF PipeInv
<1>2. role' = role
  BY DEF Next, CallSpeak, CallEngineInfo, Client, Open, GiveUp, Handshake, Send, AwaitInfo,
         ListenAudio, SendStop, ListenOther, ListenBroken, OutOfMemory, NoMemoryToAsk,
         NoMemoryToHear, SendAdrift, ListenAdrift, Worker, ReadCommand, Respond,
         Synthesize, CheckForStop, WriteChunk, WriteEnd, WorkerDies, vars
<1>3. op' = "info" => role' = "tool"
  BY <1>1, <1>2
  DEF Tool, Next, CallSpeak, CallEngineInfo, Begin, Client, Open, GiveUp, Handshake, Send,
      AwaitInfo, ListenAudio, SendStop, ListenOther, ListenBroken, OutOfMemory,
      NoMemoryToAsk, NoMemoryToHear, SendAdrift, ListenAdrift, Worker, ReadCommand,
      Respond, Synthesize, CheckForStop, WriteChunk, WriteEnd, WorkerDies, vars, client
<1>4. SUFFICES ASSUME role = "tool"
               PROVE  /\ ~stopped' /\ cpc' # "stop"
                      /\ \A i \in 1..Len(toWorker') : toWorker'[i] # STOP
                      /\ \A i \in 1..Len(toClient') : toClient'[i] # OK
                      /\ spc' = "respond" => reply' # OK
  BY <1>2, <1>3 DEF Tool
<1>5. ~OutOfMemory
  BY <1>4 DEF PipeInv, Lost, OutOfMemory, NoMemoryToAsk, NoMemoryToHear, Throw, SendAdrift,
              ListenAdrift
<1> DEFINE NoStop(q) == \A i \in 1..Len(q) : q[i] # STOP
           NoOK(q) == \A i \in 1..Len(q) : q[i] # OK
<1>6. /\ ~stopped /\ cpc # "stop" /\ NoStop(toWorker) /\ NoOK(toClient)
      /\ spc = "respond" => reply # OK
  BY <1>1, <1>4 DEF Tool
<1>7. NoStop(<<>>) /\ NoOK(<<>>)
  OBVIOUS
<1>8. toClient # <<>> => NoOK(Tail(toClient))
  BY <1>1, <1>6, HeadAndTail DEF QueueTypes
<1>9. toWorker # <<>> => NoStop(Tail(toWorker)) /\ Head(toWorker) # STOP
  BY <1>1, <1>6, HeadAndTail DEF QueueTypes
<1>10. ~stopped' /\ cpc' # "stop"
  BY <1>4, <1>5, <1>6
  DEF Next, CallSpeak, CallEngineInfo, Begin, Client, Open, GiveUp, Handshake, Send,
      AwaitInfo, ListenAudio, MayRefuse, SendStop, ListenOther, ListenBroken, Fail,
      Worker, ReadCommand, Respond, Synthesize, CheckForStop, WriteChunk, WriteEnd,
      WorkerDies, vars, client
<1>11. NoStop(toWorker')
  <2>1. CASE Open
    BY <2>1, Messages, OneMessage DEF Open
  <2>2. CASE Send
    <3>1. CASE toWorker' = <<>>
      BY <1>7, <3>1
    <3>2. ASSUME NEW m \in Commands, m # STOP, toWorker' = Append(toWorker, m)
          PROVE  NoStop(toWorker')
      BY <1>1, <1>6, <3>2, OneMore DEF QueueTypes
    <3>3. op = "speak" => Speak(call) \in Commands /\ Speak(call) # STOP
      BY <1>1, <2>2, Messages, SessionAssumption DEF ClientTypes, PipeInv, Connection, Send
    <3> QED
      BY <2>2, <3>1, <3>2, <3>3, Messages DEF Send, Disconnect
  <2>3. CASE toWorker' = toWorker \/ toWorker' = <<>>
             \/ (toWorker # <<>> /\ toWorker' = Tail(toWorker))
    BY <1>6, <1>7, <1>9, <2>3
  <2> QED
    BY <1>5, <1>6, <2>1, <2>2, <2>3
    DEF Next, CallSpeak, CallEngineInfo, Client, GiveUp, Handshake, AwaitInfo,
        ListenAudio, SendStop, ListenOther, ListenBroken, Disconnect,
        Worker, ReadCommand, Respond, Synthesize, CheckForStop, WriteChunk, WriteEnd,
        WorkerDies, vars, client
<1>12. NoOK(toClient')
  <2>1. ASSUME NEW m \in Responses, m # OK, toClient' = Append(toClient, m)
        PROVE  NoOK(toClient')
    BY <1>1, <1>6, <2>1, OneMore DEF QueueTypes
  <2>2. CASE Respond
    BY <1>1, <1>6, <2>1, <2>2 DEF Respond, WorkerTypes
  <2>3. CASE WriteChunk
    <3>1. serving \in 1..MaxCalls /\ sent < made
      BY <2>3, InHand DEF WriteChunk, Streaming, Working
    <3>2. sent + 1 \in 1..MaxChunks
      BY <1>1, <3>1, SessionAssumption DEF WorkerTypes, NotMade
    <3> QED
      BY <2>1, <2>3, <3>1, <3>2, Messages DEF WriteChunk
  <2>4. CASE WriteEnd
    <3>1. toClient \o <<END>> = Append(toClient, END)
      BY <1>1, Messages, AppendIsConcat DEF QueueTypes
    <3> QED
      BY <2>1, <2>4, <3>1, Messages DEF WriteEnd, EndMarker, END
  <2>5. CASE WorkerDies
    <3>1. PICK n \in 0..Len(toClient) : toClient' = SubSeq(toClient, 1, n)
      BY <2>5 DEF WorkerDies
    <3> QED
      BY <1>1, <1>6, <3>1, TheFirst, LenProperties DEF QueueTypes
  <2>6. CASE toClient' = toClient \/ toClient' = <<>>
             \/ (toClient # <<>> /\ toClient' = Tail(toClient))
    BY <1>6, <1>7, <1>8, <2>6
  <2> QED
    BY <1>5, <2>2, <2>3, <2>4, <2>5, <2>6
    DEF Next, CallSpeak, CallEngineInfo, Client, Open, GiveUp, Handshake, Send, AwaitInfo,
        ListenAudio, SendStop, ListenOther, ListenBroken, Disconnect,
        Worker, ReadCommand, Synthesize, CheckForStop, vars, client
<1>13. spc' = "respond" => reply' # OK
  <2>1. CASE ReadCommand
    <3>1. Head(toWorker) \in Commands /\ Head(toWorker) # STOP
      BY <1>1, <1>9, <2>1, HeadAndTail DEF QueueTypes, ReadCommand
    <3>2. Head(toWorker).type \in {"PING", "ENGINE_INFO", "SPEAK"}
      BY <3>1 DEF Commands, Command, Speak, STOP
    <3>3. reply' \in {Response("PONG"), Response("ENGINE_INFO")} \/ spc' = "synthesize"
      BY <2>1, <3>2 DEF ReadCommand
    <3> QED
      BY <3>3, Messages
  <2> QED
    BY <1>5, <1>6, <2>1
    DEF Next, CallSpeak, CallEngineInfo, Client, Open, GiveUp, Handshake, Send, AwaitInfo,
        ListenAudio, SendStop, ListenOther, ListenBroken, Disconnect,
        Worker, Respond, Synthesize, CheckForStop, WriteChunk, WriteEnd, WorkerDies,
        vars, client, worker
<1> QED
  BY <1>10, <1>11, <1>12, <1>13

-----------------------------------------------------------------------------
(* The worker, where the client has nothing to hear.                       *)

LEMMA Kinds ==
    PipeInv => ClientTypes /\ WorkerTypes /\ QueueTypes
               /\ Len(toWorker) \in Nat /\ Len(toClient) \in Nat
BY TypesInGroups, LenProperties DEF PipeInv, QueueTypes

\* A step of the worker or its end, between two operations.
LEMMA ClearStep ==
    ASSUME PipeInv, Clear, Worker \/ WorkerDies
    PROVE  Clear'
<1>1. WorkerTypes /\ QueueTypes
  BY Kinds
<1>2. spc \notin {"synthesize", "check", "chunk", "end"}
  BY DEF Clear
<1>3. CASE ReadCommand
  <2>1. toWorker # <<>> /\ toWorker' = Tail(toWorker) /\ toClient' = toClient
    BY <1>3 DEF ReadCommand
  <2>2. Head(toWorker) = STOP /\ AllStop(Tail(toWorker))
    BY <1>1, <2>1, HeadAndTail DEF Clear, AllStop, QueueTypes
  <2>3. spc' = "respond" /\ reply' = OK
    BY <1>3, <2>2, TypesOfMessages DEF ReadCommand, OK
  <2> QED
    BY <2>1, <2>2, <2>3 DEF Clear
<1>4. CASE Respond
  <2>1. toClient' = Append(toClient, OK) /\ toWorker' = toWorker /\ spc' = "read"
    BY <1>4 DEF Respond, Clear
  <2>2. AllOK(toClient')
    BY <1>1, <2>1, OneMore, Messages DEF Clear, AllOK, QueueTypes
  <2> QED
    BY <2>1, <2>2 DEF Clear
<1>5. CASE WorkerDies
  <2>1. PICK n \in 0..Len(toClient) : toClient' = SubSeq(toClient, 1, n)
    BY <1>5 DEF WorkerDies
  <2>2. AllOK(toClient')
    BY <1>1, <2>1, TheFirst, LenProperties DEF Clear, AllOK, QueueTypes
  <2>3. spc' = "gone" /\ toWorker' = <<>> /\ AllStop(<<>>)
    BY <1>5 DEF WorkerDies, AllStop
  <2> QED
    BY <2>2, <2>3 DEF Clear
<1> QED
  BY <1>2, <1>3, <1>4, <1>5
  DEF Worker, Synthesize, CheckForStop, WriteChunk, WriteEnd

\* The same while a command with one answer is under way.
LEMMA AskedStep ==
    ASSUME PipeInv, NEW command \in Commands, NEW answer \in Responses,
           Asked(command, answer), Worker \/ WorkerDies,
           ReadCommand /\ Head(toWorker) = command => spc' = "respond" /\ reply' = answer
    PROVE  Asked(command, answer)'
<1>1. /\ <<command>> # <<>> /\ Head(<<command>>) = command /\ Tail(<<command>>) = <<>>
      /\ Append(<<>>, answer) = <<answer>> /\ <<answer>> \in Seq(Responses)
      /\ Len(<<answer>>) = 1
  BY OneMessage
<1>2. CASE ReadCommand
  BY <1>1, <1>2 DEF Asked, ReadCommand
<1>3. CASE Respond
  BY <1>1, <1>3 DEF Asked, Respond
<1>4. CASE WorkerDies
  <2>1. PICK n \in 0..Len(toClient) : toClient' = SubSeq(toClient, 1, n)
    BY <1>4 DEF WorkerDies
  <2>2. SubSeq(toClient, 1, n) \in {<<>>, toClient}
    <3>1. toClient \in Seq(Responses) /\ (Len(toClient) = 0 \/ Len(toClient) = 1)
      BY <1>1, Kinds DEF QueueTypes, Asked
    <3>2. n = 0 \/ n = Len(toClient)
      BY <3>1
    <3> QED
      BY <3>1, <3>2, SubSeqEmpty, SubSeqFull
  <2> QED
    BY <1>4, <2>1, <2>2 DEF Asked, WorkerDies
<1> QED
  BY <1>2, <1>3, <1>4
  DEF Asked, Worker, Synthesize, CheckForStop, WriteChunk, WriteEnd

\* The worker reads the stops that came too late, and then the text.
LEMMA PendingStep ==
    ASSUME PipeInv, cpc = "listen", op = "speak", Pending, Worker \/ WorkerDies
    PROVE  Pending' \/ Streaming'
<1>1. WorkerTypes /\ QueueTypes /\ Len(toWorker) \in Nat /\ Len(toClient) \in Nat
      /\ ClientTypes /\ UNCHANGED client
  BY Kinds DEF Worker, ReadCommand, Respond, Synthesize, CheckForStop, WriteChunk, WriteEnd,
               WorkerDies
<1>2. call \in 1..MaxCalls
  BY <1>1, SessionAssumption DEF ClientTypes, PipeInv, Connection
<1>3. ~StopSent /\ ~StopSent' /\ 0 \in 0..MaxChunks /\ Len(heard) = 0
  BY <1>1, SessionAssumption DEF Pending, StopSent, client
<1>4. CASE ReadCommand
  <2>1. /\ toWorker # <<>> /\ toWorker' = Tail(toWorker)
        /\ UNCHANGED <<made, late, toClient, call, heard, stopped>>
    BY <1>4 DEF ReadCommand, client
  <2>2. /\ Len(toWorker') = Len(toWorker) - 1 /\ Len(toWorker) > 0
        /\ Head(toWorker) = toWorker[1] /\ toWorker' \in Seq(Commands)
        /\ \A i \in 1..(Len(toWorker) - 1) : toWorker'[i] = toWorker[i + 1]
    BY <1>1, <2>1, HeadAndTail DEF QueueTypes
  <2>3. CASE Len(toWorker) = 1
    <3>1. Head(toWorker) = Speak(call) /\ toWorker' = <<>>
      BY <2>2, <2>3, NothingIn DEF Pending
    <3>2. spc' = "synthesize" /\ serving' = call
      BY <1>4, <3>1, TypesOfMessages DEF ReadCommand
    <3>3. Working'
      BY <1>3, <2>1, <3>1, <3>2 DEF Working, Pending, AllStop
    <3>4. Stream(Len(toClient), 0, 0)' /\ Progress(Len(toClient), 0, 0)'
      BY <1>1, <1>3, <2>1, <3>2 DEF Stream, Progress, Pending, AllOK
    <3> QED
      BY <1>1, <1>3, <2>1, <3>3, <3>4 DEF Streaming
  <2>4. CASE Len(toWorker) > 1
    <3>1. Head(toWorker) = STOP
      BY <1>1, <2>2, <2>4 DEF Pending
    <3>2. spc' = "respond" /\ reply' = OK
      BY <1>4, <3>1, TypesOfMessages DEF ReadCommand, OK
    <3>3. /\ toWorker' # <<>> /\ toWorker'[Len(toWorker')] = Speak(call)
          /\ \A i \in 1..(Len(toWorker') - 1) : toWorker'[i] = STOP
      BY <1>1, <2>2, <2>4 DEF Pending
    <3> QED
      BY <2>1, <3>2, <3>3 DEF Pending
  <2> QED
    BY <1>1, <2>2, <2>3, <2>4
<1>5. CASE Respond
  <2>1. /\ toClient' = Append(toClient, OK) /\ spc' = "read"
        /\ UNCHANGED <<made, late, toWorker, call, heard, stopped>>
    BY <1>5 DEF Respond, Pending, client
  <2>2. AllOK(toClient')
    BY <1>1, <2>1, OneMore, Messages DEF Pending, AllOK, QueueTypes
  <2> QED
    BY <2>1, <2>2 DEF Pending
<1>6. CASE WorkerDies
  <2>1. PICK n \in 0..Len(toClient) : toClient' = SubSeq(toClient, 1, n)
    BY <1>6 DEF WorkerDies
  <2>2. n \in Nat /\ Len(toClient') = n /\ \A i \in 1..n : toClient'[i] = OK
    BY <1>1, <2>1, TheFirst DEF Pending, AllOK, QueueTypes
  <2>3. spc' = "gone" /\ toWorker' = <<>> /\ UNCHANGED <<made, late, call, heard, stopped>>
    BY <1>6 DEF WorkerDies, client
  <2>4. Working'
    BY <1>3, <2>3 DEF Working, Pending, AllStop
  <2>5. Stream(n, 0, 0)' /\ Progress(n, 0, 0)'
    BY <1>3, <2>2, <2>3 DEF Stream, Progress, Pending
  <2> QED
    BY <1>3, <2>2, <2>4, <2>5 DEF Streaming
<1> QED
  BY <1>4, <1>5, <1>6
  DEF Pending, Worker, Synthesize, CheckForStop, WriteChunk, WriteEnd

-----------------------------------------------------------------------------
(* The stream.                                                             *)

\* The same of any queue, and how it changes as the queue does.
StreamIn(q, z, a, h) ==
    /\ z + a <= Len(q)
    /\ \A i \in 1..z : q[i] = OK
    /\ \A i \in 1..a : q[z + i] = AudioData(call, h + i)
    /\ z + a < Len(q) => q[z + a + 1] = END
    /\ \A i \in (z + a + 2)..Len(q) : q[i] = OK

LEMMA StreamIsIn == ASSUME NEW z, NEW a, NEW h
                    PROVE  Stream(z, a, h) <=> StreamIn(toClient, z, a, h)
BY DEF Stream, StreamIn

\* The answer to a stop comes after the end, and the end after the chunks.
LEMMA LongerStream ==
    ASSUME NEW q \in Seq(Responses), NEW r \in Seq(Responses), Len(r) = Len(q) + 1,
           \A i \in 1..Len(q) : r[i] = q[i],
           NEW z \in Nat, NEW a \in Nat, NEW h \in Nat, StreamIn(q, z, a, h),
           \/ Len(q) = z + a /\ r[Len(q) + 1] = END
           \/ Len(q) > z + a /\ r[Len(q) + 1] = OK
    PROVE  StreamIn(r, z, a, h)
<1>1. Len(q) \in Nat /\ z + a <= Len(q)
  BY LenProperties DEF StreamIn
<1>2. \A i \in 1..z : r[i] = OK
  BY <1>1 DEF StreamIn
<1>3. \A i \in 1..a : r[z + i] = AudioData(call, h + i)
  BY <1>1 DEF StreamIn
<1>4. r[z + a + 1] = END
  <2>1. CASE Len(q) = z + a
    BY <1>1, <2>1, Messages
  <2>2. CASE Len(q) > z + a
    BY <1>1, <2>2 DEF StreamIn
  <2> QED
    BY <1>1, <2>1, <2>2
<1>5. ASSUME NEW i \in (z + a + 2)..Len(r) PROVE r[i] = OK
  <2>1. CASE i = Len(q) + 1
    BY <1>1, <2>1
  <2>2. CASE i # Len(q) + 1
    <3>1. i \in (z + a + 2)..Len(q) /\ i \in 1..Len(q)
      BY <1>1, <2>2
    <3> QED
      BY <3>1 DEF StreamIn
  <2> QED
    BY <2>1, <2>2
<1> QED
  BY <1>1, <1>2, <1>3, <1>4, <1>5 DEF StreamIn

\* A part of it from the start.
LEMMA ShorterStream ==
    ASSUME NEW q \in Seq(Responses), NEW n \in 0..Len(q), NEW r \in Seq(Responses),
           Len(r) = n, \A i \in 1..n : r[i] = q[i],
           NEW z \in Nat, NEW a \in Nat, NEW h \in Nat, StreamIn(q, z, a, h)
    PROVE  /\ n <= z => StreamIn(r, n, 0, h)
           /\ n > z /\ n <= z + a => StreamIn(r, z, n - z, h)
           /\ n > z + a => StreamIn(r, z, a, h)
<1>1. Len(q) \in Nat /\ z + a <= Len(q) /\ n \in Nat /\ n <= Len(q)
  BY LenProperties DEF StreamIn
<1>2. CASE n <= z
  BY <1>1, <1>2 DEF StreamIn
<1>3. CASE n > z /\ n <= z + a
  <2>1. n - z \in Nat /\ n - z <= a /\ z + (n - z) = Len(r)
    BY <1>1, <1>3
  <2>2. \A i \in 1..z : r[i] = OK
    BY <1>1, <1>3 DEF StreamIn
  <2>3. \A i \in 1..(n - z) : z + i \in 1..n /\ i \in 1..a
    BY <1>1, <1>3
  <2>4. \A i \in 1..(n - z) : r[z + i] = AudioData(call, h + i)
    BY <2>3 DEF StreamIn
  <2> QED
    BY <1>1, <1>3, <2>1, <2>2, <2>4 DEF StreamIn
<1>4. CASE n > z + a
  <2>1. /\ \A i \in 1..z : i \in 1..n
        /\ \A i \in 1..a : z + i \in 1..n
        /\ \A i \in (z + a + 2)..n : i \in 1..n /\ i \in (z + a + 2)..Len(q)
        /\ z + a + 1 \in 1..n /\ z + a < Len(q)
        /\ ~(n <= z) /\ ~(n <= z + a) /\ z + a <= n
    BY <1>1, <1>4
  <2>2. \A i \in 1..z : r[i] = OK
    BY <2>1 DEF StreamIn
  <2>3. \A i \in 1..a : r[z + i] = AudioData(call, h + i)
    BY <2>1 DEF StreamIn
  <2>4. r[z + a + 1] = END
    BY <2>1 DEF StreamIn
  <2>5. \A i \in (z + a + 2)..Len(r) : r[i] = OK
    BY <2>1 DEF StreamIn
  <2> QED
    BY <2>1, <2>2, <2>3, <2>4, <2>5 DEF StreamIn
<1> QED
  BY <1>1, <1>2, <1>3, <1>4

LEMMA StreamBounds ==
    ASSUME PipeInv, op = "speak", cpc \in {"listen", "stop"}
    PROVE  /\ call \in 1..MaxCalls
           /\ UNCHANGED client => StopSent' = StopSent
           /\ made \in {NotMade} \cup 0..MaxChunks /\ sent \in 0..MaxChunks
           /\ late \in 0..MaxChunks /\ Len(heard) \in Nat
           /\ Len(toWorker) \in Nat /\ Len(toClient) \in Nat
           /\ toWorker \in Seq(Commands) /\ toClient \in Seq(Responses)
<1>1. ClientTypes /\ WorkerTypes /\ QueueTypes /\ Connection
  BY Kinds DEF PipeInv
<1>2. call \in 1..MaxCalls
  BY <1>1, SessionAssumption DEF ClientTypes, Connection
<1>3. UNCHANGED client => StopSent' = StopSent
  BY DEF StopSent, client
<1> QED
  BY <1>1, <1>2, <1>3, Kinds, LenProperties DEF WorkerTypes, QueueTypes

LEMMA StreamReads ==
    ASSUME PipeInv, cpc \in {"listen", "stop"}, op = "speak", Streaming,
           ReadCommand \/ Respond
    PROVE  Streaming'
<1>1. /\ call \in 1..MaxCalls /\ UNCHANGED client /\ StopSent' = StopSent
      /\ Len(toClient) \in Nat /\ toClient \in Seq(Responses)
      /\ toWorker \in Seq(Commands) /\ Len(toWorker) \in Nat
  BY StreamBounds DEF ReadCommand, Respond
<1>2. PICK z, a \in 0..Len(toClient), h \in 0..MaxChunks : Stream(z, a, h) /\ Progress(z, a, h)
  BY DEF Streaming
<1>3. CASE ReadCommand
  <2>1. /\ toWorker # <<>> /\ toWorker' = Tail(toWorker) /\ spc = "read"
        /\ UNCHANGED <<made, sent, late, toClient, call, heard, stopped>>
    BY <1>3 DEF ReadCommand, client
  <2>2. /\ Head(toWorker) = STOP /\ AllStop(toWorker') /\ StopSent
    BY <1>1, <2>1, HeadAndTail DEF Streaming, Working, AllStop
  <2>3. spc' = "respond" /\ reply' = OK
    BY <1>3, <2>2, TypesOfMessages DEF ReadCommand, OK
  <2>4. Working'
    BY <1>1, <2>2, <2>3 DEF Working
  <2>5. Stream(z, a, h)' /\ Progress(z, a, h)'
    BY <1>2, <2>1, <2>3 DEF Stream, Progress
  <2> QED
    BY <1>1, <2>1, <2>4, <2>5 DEF Streaming
<1>4. CASE Respond
  <2>1. /\ toClient' = Append(toClient, OK) /\ spc = "respond" /\ spc' = "read"
        /\ UNCHANGED <<made, sent, late, toWorker, call, heard, stopped>>
    BY <1>4 DEF Respond, client, Streaming, Working
  <2>2. /\ Len(toClient') = Len(toClient) + 1 /\ toClient'[Len(toClient) + 1] = OK
        /\ \A i \in 1..Len(toClient) : toClient'[i] = toClient[i]
    BY <1>1, <2>1, OneMore, Messages
  <2>3. Len(toClient) > z + a
    BY <1>2, <2>1 DEF Progress
  <2>4. Stream(z, a, h)'
    <3>1. toClient' \in Seq(Responses) /\ z \in Nat /\ a \in Nat /\ h \in Nat
      BY <1>1, <2>1, OneMore, Messages
    <3>2. StreamIn(toClient', z, a, h)
      BY <1>1, <1>2, <2>2, <2>3, <3>1, StreamIsIn, LongerStream
    <3> QED
      BY <2>1, <3>2 DEF Stream, StreamIn
  <2>5. Progress(z, a, h)'
    BY <1>1, <1>2, <2>1, <2>2, <2>3 DEF Progress
  <2>6. Working'
    BY <1>1, <2>1 DEF Streaming, Working
  <2> QED
    BY <1>1, <2>2, <2>4, <2>5, <2>6 DEF Streaming
<1> QED
  BY <1>3, <1>4

LEMMA StreamMakes ==
    ASSUME PipeInv, cpc \in {"listen", "stop"}, op = "speak", Streaming,
           Synthesize \/ CheckForStop
    PROVE  Streaming'
<1>1. /\ UNCHANGED <<client, toClient, serving, reply, late>> /\ StopSent' = StopSent
      /\ UNCHANGED <<call, heard, stopped>>
      /\ Len(toClient) \in Nat /\ toClient \in Seq(Responses)
      /\ toWorker \in Seq(Commands) /\ Len(toWorker) \in Nat
      /\ made \in {NotMade} \cup 0..MaxChunks /\ sent \in 0..MaxChunks
  BY StreamBounds DEF Synthesize, CheckForStop, client
<1>2. PICK z, a \in 0..Len(toClient), h \in 0..MaxChunks : Stream(z, a, h) /\ Progress(z, a, h)
  BY DEF Streaming
<1>3. Stream(z, a, h)'
  BY <1>1, <1>2 DEF Stream
<1>4. CASE Synthesize
  <2>1. /\ made' \in 0..MaxChunks /\ sent' = 0 /\ spc = "synthesize" /\ spc' = "check"
        /\ toWorker' = toWorker
    BY <1>4 DEF Synthesize
  <2>2. made = NotMade /\ ~stopped /\ ~StopSent /\ made' # NotMade
    BY <2>1, SessionAssumption DEF Streaming, Working, StopSent, NotMade
  <2>3. a = 0 /\ h = 0 /\ Len(toClient) = z + a /\ serving = call
    BY <1>2, <2>1, <2>2 DEF Progress
  <2>4. Progress(z, a, h)'
    BY <1>1, <1>2, <2>1, <2>2, <2>3, SessionAssumption DEF Progress
  <2>5. Working'
    BY <1>1, <2>1, <2>2 DEF Streaming, Working, AllStop
  <2> QED
    BY <1>1, <1>3, <2>4, <2>5 DEF Streaming
<1>5. CASE CheckForStop
  <2>1. /\ spc = "check" /\ UNCHANGED <<made, sent>>
        /\ \/ sent = made /\ spc' = "end" /\ toWorker' = toWorker
           \/ sent # made /\ toWorker = <<>> /\ spc' = "chunk" /\ toWorker' = toWorker
           \/ /\ toWorker # <<>> /\ toWorker' = Tail(toWorker)
              /\ spc' = IF Head(toWorker) = STOP THEN "end" ELSE "chunk"
    BY <1>5 DEF CheckForStop, EndsUtterance, STOP
  <2>2. toWorker # <<>> => Head(toWorker) = STOP /\ AllStop(Tail(toWorker)) /\ StopSent
    BY <1>1, HeadAndTail DEF Streaming, Working, AllStop
  <2>3. AllStop(toWorker') /\ spc' \in {"chunk", "end"} /\ (spc' = "chunk" => toWorker = <<>>)
    BY <2>1, <2>2 DEF Streaming, Working
  <2>4. made # NotMade /\ h + a = sent /\ Len(toClient) = z + a /\ h + a <= made
    BY <1>2, <2>1 DEF Progress
  <2>5. Progress(z, a, h)'
    BY <1>1, <1>2, <2>1, <2>3, <2>4 DEF Progress
  <2>6. spc' = "chunk" => ~StopSent /\ sent < made
    BY <1>1, <2>1, <2>2, <2>4 DEF Streaming, Working, NotMade
  <2>7. spc' = "end" => sent = made \/ stopped
    BY <2>1, <2>2 DEF StopSent
  <2>8. ~StopSent => toWorker' = <<>> /\ late = 0
    BY <2>1, <2>2 DEF Streaming, Working
  <2>9. Working'
    BY <1>1, <2>1, <2>3, <2>6, <2>7, <2>8 DEF Working
  <2> QED
    BY <1>1, <1>3, <2>5, <2>9 DEF Streaming
<1> QED
  BY <1>4, <1>5

LEMMA StreamWrites ==
    ASSUME PipeInv, cpc \in {"listen", "stop"}, op = "speak", Streaming,
           WriteChunk \/ WriteEnd
    PROVE  Streaming'
<1>1. /\ UNCHANGED <<client, toWorker, serving, reply, made>> /\ StopSent' = StopSent
      /\ UNCHANGED <<call, heard, stopped>> /\ call \in 1..MaxCalls
      /\ Len(toClient) \in Nat /\ toClient \in Seq(Responses)
      /\ made \in {NotMade} \cup 0..MaxChunks /\ sent \in 0..MaxChunks
  BY StreamBounds DEF WriteChunk, WriteEnd, client
<1>2. PICK z, a \in 0..Len(toClient), h \in 0..MaxChunks : Stream(z, a, h) /\ Progress(z, a, h)
  BY DEF Streaming
<1>3. /\ Len(toClient) = z + a /\ serving = call /\ made # NotMade /\ h + a = sent
      /\ h + a <= made /\ made \in 0..MaxChunks
  BY <1>1, <1>2 DEF WriteChunk, WriteEnd, Progress
<1>4. CASE WriteChunk
  <2>1. /\ toClient' = Append(toClient, AudioData(call, sent + 1)) /\ sent' = sent + 1
        /\ spc = "chunk" /\ spc' = "check" /\ late' = IF StopSent THEN late + 1 ELSE late
    BY <1>3, <1>4 DEF WriteChunk
  <2>2. sent < made /\ late = 0
    BY <2>1 DEF Streaming, Working
  <2>3. AudioData(call, sent + 1) \in Responses
    BY <1>1, <1>3, <2>2, Messages, SessionAssumption
  <2>4. /\ Len(toClient') = Len(toClient) + 1
        /\ toClient'[Len(toClient) + 1] = AudioData(call, sent + 1)
        /\ \A i \in 1..Len(toClient) : toClient'[i] = toClient[i]
    BY <1>1, <2>1, <2>3, OneMore
  <2>5. Stream(z, a + 1, h)'
    <3>1. z + (a + 1) = Len(toClient') /\ h + (a + 1) = sent + 1
      BY <1>1, <1>3, <2>4
    <3>2. \A i \in 1..z : toClient'[i] = OK
      BY <1>1, <1>2, <1>3, <2>4 DEF Stream
    <3>3. \A i \in 1..a : toClient'[z + i] = AudioData(call, h + i)
      BY <1>1, <1>2, <1>3, <2>4 DEF Stream
    <3>4. \A i \in 1..(a + 1) : toClient'[z + i] = AudioData(call, h + i)
      <4> SUFFICES ASSUME NEW i \in 1..(a + 1) PROVE toClient'[z + i] = AudioData(call, h + i)
        OBVIOUS
      <4>1. CASE i = a + 1
        BY <1>1, <1>3, <2>4, <3>1, <4>1
      <4>2. CASE i # a + 1
        <5>1. i \in 1..a
          BY <1>1, <4>2
        <5> QED
          BY <3>3, <5>1
      <4> QED
        BY <4>1, <4>2
    <3> QED
      BY <1>1, <3>1, <3>2, <3>4 DEF Stream
  <2>6. Progress(z, a + 1, h)'
    BY <1>1, <1>2, <1>3, <2>1, <2>2, <2>4 DEF Progress
  <2>7. Working'
    BY <1>1, <2>1, <2>2 DEF Streaming, Working
  <2> QED
    BY <1>1, <1>3, <2>4, <2>5, <2>6, <2>7 DEF Streaming
<1>5. CASE WriteEnd
  <2>1. /\ toClient' = toClient \o <<END>> /\ UNCHANGED <<sent, late>>
        /\ spc = "end" /\ spc' = "read"
    BY <1>5 DEF WriteEnd, EndMarker, END
  <2>2. /\ Len(toClient') = Len(toClient) + 1 /\ toClient'[Len(toClient) + 1] = END
        /\ \A i \in 1..Len(toClient) : toClient'[i] = toClient[i]
    BY <1>1, <2>1, OneMore, AppendIsConcat, Messages
  <2>3. sent = made \/ stopped
    BY <2>1 DEF Streaming, Working
  <2>4. Stream(z, a, h)'
    <3>1. toClient' \in Seq(Responses) /\ z \in Nat /\ a \in Nat /\ h \in Nat
      BY <1>1, <2>1, OneMore, AppendIsConcat, Messages
    <3>2. StreamIn(toClient', z, a, h)
      BY <1>1, <1>2, <1>3, <2>2, <3>1, StreamIsIn, LongerStream
    <3> QED
      BY <1>1, <3>2 DEF Stream, StreamIn
  <2>5. Progress(z, a, h)'
    BY <1>1, <1>2, <1>3, <2>1, <2>2, <2>3 DEF Progress
  <2>6. Working'
    BY <1>1, <2>1 DEF Streaming, Working
  <2> QED
    BY <1>1, <2>2, <2>4, <2>5, <2>6 DEF Streaming
<1> QED
  BY <1>4, <1>5

\* What a worker had written when it died is still the start of the stream.
LEMMA StreamBreaks ==
    ASSUME PipeInv, cpc \in {"listen", "stop"}, op = "speak", Streaming, WorkerDies
    PROVE  Streaming'
<1>1. /\ UNCHANGED <<made, late, call, heard, stopped>> /\ StopSent' = StopSent
      /\ spc' = "gone" /\ toWorker' = <<>>
      /\ Len(toClient) \in Nat /\ toClient \in Seq(Responses) /\ Len(heard) \in Nat
      /\ made \in {NotMade} \cup 0..MaxChunks
  BY StreamBounds DEF WorkerDies, client
<1>2. PICK z, a \in 0..Len(toClient), h \in 0..MaxChunks : Stream(z, a, h) /\ Progress(z, a, h)
  BY DEF Streaming
<1>3. PICK n \in 0..Len(toClient) : toClient' = SubSeq(toClient, 1, n)
  BY DEF WorkerDies
<1>4. n \in Nat /\ Len(toClient') = n /\ \A i \in 1..n : toClient'[i] = toClient[i]
  BY <1>1, <1>3, TheFirst
<1>5. Working'
  BY <1>1 DEF Streaming, Working, AllStop
<1>6. /\ n <= z => StreamIn(toClient', n, 0, h)
      /\ n > z /\ n <= z + a => StreamIn(toClient', z, n - z, h)
      /\ n > z + a => StreamIn(toClient', z, a, h)
  <2>1. toClient' \in Seq(Responses) /\ z \in Nat /\ a \in Nat /\ h \in Nat
    BY <1>1, <1>3, TheFirst
  <2> QED
    BY <1>1, <1>2, <1>3, <1>4, <2>1, StreamIsIn, ShorterStream
<1>7. \A x, y, w : StreamIn(toClient', x, y, w) => Stream(x, y, w)'
  BY <1>1 DEF Stream, StreamIn
<1>8. CASE n <= z
  <2>1. Stream(n, 0, h)'
    BY <1>8, <1>6, <1>7
  <2>2. Progress(n, 0, h)'
    BY <1>1, <1>2, <1>4 DEF Progress
  <2> QED
    BY <1>1, <1>4, <1>5, <2>1, <2>2 DEF Streaming
<1>9. CASE n > z /\ n <= z + a
  <2>1. n - z \in 0..n /\ n - z <= a /\ z \in 0..n
    BY <1>1, <1>4, <1>9
  <2>2. Stream(z, n - z, h)'
    BY <1>9, <1>6, <1>7
  <2>3. Progress(z, n - z, h)'
    BY <1>1, <1>2, <1>4, <2>1 DEF Progress
  <2> QED
    BY <1>1, <1>4, <1>5, <2>1, <2>2, <2>3 DEF Streaming
<1>10. CASE n > z + a
  <2>1. Stream(z, a, h)'
    BY <1>10, <1>6, <1>7
  <2>2. Progress(z, a, h)'
    <3>1. z + a < Len(toClient)
      BY <1>1, <1>4, <1>10
    <3> QED
      BY <1>1, <1>2, <3>1 DEF Progress
  <2>3. z \in 0..Len(toClient') /\ a \in 0..Len(toClient')
    BY <1>1, <1>4, <1>10
  <2> QED
    BY <1>5, <2>1, <2>2, <2>3 DEF Streaming
<1> QED
  BY <1>1, <1>4, <1>8, <1>9, <1>10

-----------------------------------------------------------------------------
(* The client, where there is something to hear.                           *)

\* The head of the stream, and what is left of it.
LEMMA HeadOfStream ==
    ASSUME NEW q \in Seq(Responses), q # <<>>,
           NEW z \in Nat, NEW a \in Nat, NEW h \in Nat, StreamIn(q, z, a, h)
    PROVE  /\ z > 0 => Head(q) = OK /\ StreamIn(Tail(q), z - 1, a, h)
           /\ z = 0 /\ a > 0 => /\ Head(q) = AudioData(call, h + 1)
                                /\ StreamIn(Tail(q), 0, a - 1, h + 1)
           /\ z = 0 /\ a = 0 => Head(q) = END /\ AllOK(Tail(q))
<1>1. /\ Head(q) = q[1] /\ Tail(q) \in Seq(Responses)
      /\ Len(q) \in Nat /\ Len(q) > 0 /\ Len(Tail(q)) = Len(q) - 1
      /\ \A i \in 1..(Len(q) - 1) : Tail(q)[i] = q[i + 1]
  BY HeadAndTail
<1>2. z + a <= Len(q)
  BY DEF StreamIn
<1>3. CASE z > 0
  <2>1. Head(q) = OK
    BY <1>1, <1>3 DEF StreamIn
  <2>2. \A i \in 1..(z - 1) : Tail(q)[i] = OK
    BY <1>1, <1>2, <1>3 DEF StreamIn
  <2>3. ASSUME NEW i \in 1..a PROVE Tail(q)[(z - 1) + i] = AudioData(call, h + i)
    <3>1. (z - 1) + i \in 1..(Len(q) - 1) /\ ((z - 1) + i) + 1 = z + i
      BY <1>1, <1>2, <1>3
    <3> QED
      BY <1>1, <3>1 DEF StreamIn
  <2>4. (z - 1) + a < Len(Tail(q)) => Tail(q)[(z - 1) + a + 1] = END
    <3> HAVE (z - 1) + a < Len(Tail(q))
    <3>1. /\ z + a < Len(q) /\ (z - 1) + a + 1 \in 1..(Len(q) - 1)
          /\ ((z - 1) + a + 1) + 1 = z + a + 1
      BY <1>1, <1>2, <1>3
    <3> QED
      BY <1>1, <3>1 DEF StreamIn
  <2>5. ASSUME NEW i \in ((z - 1) + a + 2)..Len(Tail(q)) PROVE Tail(q)[i] = OK
    <3>1. i \in 1..(Len(q) - 1) /\ i + 1 \in (z + a + 2)..Len(q)
      BY <1>1, <1>2, <1>3
    <3> QED
      BY <1>1, <3>1 DEF StreamIn
  <2>6. (z - 1) + a <= Len(Tail(q)) /\ ~(z = 0)
    BY <1>1, <1>2, <1>3
  <2>7. StreamIn(Tail(q), z - 1, a, h)
    BY <2>2, <2>3, <2>4, <2>5, <2>6 DEF StreamIn
  <2> QED
    BY <1>3, <2>1, <2>6, <2>7
<1>4. CASE z = 0 /\ a > 0
  <2>1. Head(q) = AudioData(call, h + 1)
    BY <1>1, <1>4 DEF StreamIn
  <2>2. ASSUME NEW i \in 1..(a - 1) PROVE Tail(q)[0 + i] = AudioData(call, (h + 1) + i)
    <3>1. /\ i \in 1..(Len(q) - 1) /\ i + 1 \in 1..a /\ 0 + i = i
          /\ h + (i + 1) = (h + 1) + i /\ 0 + (i + 1) = i + 1
      BY <1>1, <1>2, <1>4
    <3>2. q[i + 1] = AudioData(call, h + (i + 1))
      BY <1>4, <3>1 DEF StreamIn
    <3> QED
      BY <1>1, <3>1, <3>2
  <2>3. 0 + (a - 1) < Len(Tail(q)) => Tail(q)[0 + (a - 1) + 1] = END
    <3> HAVE 0 + (a - 1) < Len(Tail(q))
    <3>1. /\ a < Len(q) /\ a \in 1..(Len(q) - 1) /\ 0 + (a - 1) + 1 = a
          /\ 0 + a = a
      BY <1>1, <1>2, <1>4
    <3> QED
      BY <1>1, <1>4, <3>1 DEF StreamIn
  <2>4. ASSUME NEW i \in (0 + (a - 1) + 2)..Len(Tail(q)) PROVE Tail(q)[i] = OK
    <3>1. i \in 1..(Len(q) - 1) /\ i + 1 \in (0 + a + 2)..Len(q)
      BY <1>1, <1>2, <1>4
    <3> QED
      BY <1>1, <1>4, <3>1 DEF StreamIn
  <2> QED
    BY <1>1, <1>2, <1>4, <2>1, <2>2, <2>3, <2>4 DEF StreamIn
<1>5. CASE z = 0 /\ a = 0
  <2>1. Head(q) = END
    BY <1>1, <1>5 DEF StreamIn
  <2>2. ASSUME NEW i \in 1..Len(Tail(q)) PROVE Tail(q)[i] = OK
    <3>1. i \in 1..(Len(q) - 1) /\ i + 1 \in (0 + 0 + 2)..Len(q)
      BY <1>1, <1>5
    <3> QED
      BY <1>1, <1>5, <3>1 DEF StreamIn
  <2> QED
    BY <1>5, <2>1, <2>2 DEF AllOK
<1> QED
  BY <1>3, <1>4, <1>5

\* While the text is still on its way, all there is to read are answers to an
\* earlier stop.
LEMMA HeadWhilePending ==
    ASSUME PipeInv, Pending, toClient # <<>>
    PROVE  Head(toClient) = OK /\ AllOK(Tail(toClient))
<1>1. toClient \in Seq(Responses)
  BY Kinds DEF QueueTypes
<1> QED
  BY <1>1, HeadAndTail DEF Pending, AllOK

\* What the client takes from the stream, and what that tells of the rest.
LEMMA TakenFromStream ==
    ASSUME PipeInv, op = "speak", cpc \in {"listen", "stop"}, Streaming, toClient # <<>>
    PROVE  \E z, a \in 0..Len(toClient), h \in 0..MaxChunks :
              /\ z + a <= Len(toClient) /\ Progress(z, a, h)
              /\ z > 0 => Head(toClient) = OK /\ StreamIn(Tail(toClient), z - 1, a, h)
              /\ z = 0 /\ a > 0 =>
                    /\ Head(toClient) = AudioData(call, h + 1)
                    /\ StreamIn(Tail(toClient), 0, a - 1, h + 1)
              /\ z = 0 /\ a = 0 => Head(toClient) = END /\ AllOK(Tail(toClient))
<1>1. toClient \in Seq(Responses) /\ Len(toClient) \in Nat
  BY Kinds DEF QueueTypes
<1>2. PICK z, a \in 0..Len(toClient), h \in 0..MaxChunks : Stream(z, a, h) /\ Progress(z, a, h)
  BY DEF Streaming
<1>3. z \in Nat /\ a \in Nat /\ h \in Nat /\ StreamIn(toClient, z, a, h)
  BY <1>1, <1>2, StreamIsIn
<1>4. z + a <= Len(toClient)
  BY <1>3 DEF StreamIn
<1> QED
  BY <1>1, <1>2, <1>3, <1>4, HeadOfStream

\* speak reads audio: it passes it on, or drains it.
LEMMA ListenAudioStep ==
    ASSUME PipeInv, ListenAudio
    PROVE  op = "speak" /\ Streaming /\ cpc = "listen" /\ ~Adrift /\ AtEachPlace'
<1>1. cpc = "listen" /\ toClient # <<>> /\ Head(toClient).type = "AUDIO_DATA" /\ ~Adrift
  BY DEF ListenAudio, PipeInv, Lost
<1>2. op = "speak" /\ Streaming
  BY <1>1, HeadWhilePending, TypesOfMessages DEF PipeInv, AtEachPlace
<1>3. PICK z, a \in 0..Len(toClient), h \in 0..MaxChunks :
              /\ z + a <= Len(toClient) /\ Progress(z, a, h)
              /\ z > 0 => Head(toClient) = OK /\ StreamIn(Tail(toClient), z - 1, a, h)
              /\ z = 0 /\ a > 0 =>
                    /\ Head(toClient) = AudioData(call, h + 1)
                    /\ StreamIn(Tail(toClient), 0, a - 1, h + 1)
              /\ z = 0 /\ a = 0 => Head(toClient) = END /\ AllOK(Tail(toClient))
  BY <1>1, <1>2, TakenFromStream
<1>4. /\ Len(toClient) \in Nat /\ Len(Tail(toClient)) = Len(toClient) - 1
      /\ Len(heard) \in Nat /\ made \in {NotMade} \cup 0..MaxChunks
  BY <1>1, <1>2, StreamBounds, HeadAndTail
<1>5. z = 0 /\ a > 0
  BY <1>1, <1>3, <1>4, TypesOfMessages
<1>6. /\ toClient' = Tail(toClient) /\ UNCHANGED <<op, call, worker, late, toWorker>>
      /\ UNCHANGED <<spc, serving, made, sent, reply>>
  BY DEF ListenAudio, worker
<1>7. StreamIn(Tail(toClient), 0, a - 1, h + 1)
  BY <1>3, <1>5
<1>8. Stream(0, a - 1, h + 1)'
  BY <1>6, <1>7 DEF Stream, StreamIn
<1>9. made # NotMade /\ h + a <= made /\ h + 1 \in 0..MaxChunks
  <2>1. made # NotMade /\ h + a <= made
    BY <1>3, <1>5 DEF Progress
  <2> QED
    BY <1>4, <1>5, <2>1, SessionAssumption
<1>10. h + 1 + (a - 1) = h + a /\ 0 + (a - 1) <= Len(toClient')
       /\ (0 + (a - 1) < Len(toClient') <=> z + a < Len(toClient))
       /\ (Len(toClient') = 0 + (a - 1) <=> Len(toClient) = z + a)
  BY <1>3, <1>4, <1>5, <1>6
<1>11. ~stopped' => Len(heard') = Len(heard) + 1 /\ ~stopped
  <2>1. heard \in Seq(ChunksHeard) /\ toClient \in Seq(Responses)
    BY Kinds DEF QueueTypes
  <2>2. Head(toClient) \in Responses
    BY <1>1, <2>1, HeadAndTail
  <2>3. Head(toClient).chunk \in ChunksHeard
    BY <1>1, <2>2, AudioMessages, TypesOfMessages DEF ChunksHeard
  <2>4. Len(Append(heard, Head(toClient).chunk)) = Len(heard) + 1
    BY <2>1, <2>3, OneMore
  <2> QED
    BY <2>4 DEF ListenAudio, PassOn
<1>12. Progress(0, a - 1, h + 1)'
  <2>1. ~stopped' => h + 1 = Len(heard')
    BY <1>3, <1>4, <1>11 DEF Progress
  <2>2. ~stopped' => ~stopped
    BY <1>11
  <2> QED
    BY <1>3, <1>4, <1>6, <1>9, <1>10, <2>1, <2>2 DEF Progress
<1>13. StopSent' = StopSent /\ (stopped => stopped')
  BY <1>1 DEF ListenAudio, StopSent, PassOn
<1>14. Working'
  <2>1. spc = "synthesize" => FALSE
    BY <1>2, <1>9 DEF Streaming, Working
  <2> QED
    BY <1>2, <1>6, <1>13, <2>1 DEF Streaming, Working
<1>15. Streaming'
  <2>1. 0 \in 0..Len(toClient') /\ a - 1 \in 0..Len(toClient')
    BY <1>4, <1>5, <1>6, <1>10
  <2> QED
    BY <1>8, <1>9, <1>12, <1>14, <2>1 DEF Streaming
<1>16. cpc' = "listen" \/ (cpc' = "stop" /\ stopped')
  BY <1>1 DEF ListenAudio
<1> QED
  BY <1>1, <1>2, <1>6, <1>15, <1>16 DEF AtEachPlace

\* Between the refusal and CMD_STOP the worker knows of nothing.
LEMMA SendStopStep ==
    ASSUME PipeInv, SendStop
    PROVE  AtEachPlace'
<1> SUFFICES ASSUME ~Adrift PROVE AtEachPlace'
  BY DEF SendStop, AfterStop, Drain, AtEachPlace, Adrift, worker
<1>1. cpc = "stop" /\ op = "speak" /\ stopped /\ Streaming /\ cpc' = "listen"
  BY DEF SendStop, AfterStop, Drain, PipeInv, AtEachPlace
<1>2. UNCHANGED <<op, call, heard, stopped, late, toClient, spc, serving, made, sent, reply>>
  BY DEF SendStop, worker
<1>3. PICK z, a \in 0..Len(toClient), h \in 0..MaxChunks : Stream(z, a, h) /\ Progress(z, a, h)
  BY <1>1 DEF Streaming
<1>4. Stream(z, a, h)' /\ Progress(z, a, h)'
  BY <1>2, <1>3 DEF Stream, Progress
<1>5. toWorker = <<>> /\ late = 0 /\ ~StopSent
  BY <1>1 DEF Streaming, Working, StopSent
<1>6. \/ spc = "gone" /\ toWorker' = <<>>
      \/ spc # "gone" /\ toWorker' = <<STOP>>
  BY <1>5, Messages, OneMessage DEF SendStop, WorkerGone, Adrift, STOP
<1>7. AllStop(toWorker') /\ (spc # "gone" => toWorker' # <<>>)
  <2>1. AllStop(<<>>) /\ AllStop(<<STOP>>) /\ <<STOP>> # <<>>
    BY DEF AllStop
  <2> QED
    BY <1>6, <2>1
<1>8. Working'
  <2>1. StopSent'
    BY <1>1, <1>2 DEF StopSent
  <2> QED
    BY <1>1, <1>2, <1>5, <1>6, <1>7, <2>1 DEF Streaming, Working
<1>9. Streaming'
  BY <1>2, <1>4, <1>8 DEF Streaming
<1> QED
  BY <1>1, <1>2, <1>9 DEF AtEachPlace

\* The end of the utterance, or the answer to an earlier stop.
LEMMA ListenOtherStep ==
    ASSUME PipeInv, ListenOther
    PROVE  /\ op = "speak" /\ cpc = "listen" /\ ~Adrift /\ AtEachPlace'
           /\ \/ Head(toClient) = END /\ (stopped \/ Len(heard) = made)
              \/ Head(toClient) = OK
<1>1. /\ cpc = "listen" /\ toClient # <<>> /\ Head(toClient).type # "AUDIO_DATA"
      /\ op = "speak" /\ ~Adrift
  BY DEF ListenOther, PipeInv, AtEachPlace, Lost
<1>2. /\ toClient' = Tail(toClient) /\ UNCHANGED <<op, call, late, toWorker, heard, stopped>>
      /\ UNCHANGED <<spc, serving, made, sent, reply>>
  BY DEF ListenOther, worker
<1>3. Head(toClient) = END => cpc' = "idle"
  BY DEF ListenOther, END
<1>4. Head(toClient) = OK => cpc' = "listen"
  <2>1. OK # Response("AUDIO_END") /\ OK # Response("ERROR")
    BY DEF OK, Response
  <2> QED
    BY <1>1, <2>1 DEF ListenOther
<1>5. CASE Pending
  <2>1. Head(toClient) = OK /\ AllOK(Tail(toClient))
    BY <1>1, <1>5, HeadWhilePending
  <2>2. Pending'
    BY <1>2, <1>5, <2>1 DEF Pending
  <2> QED
    BY <1>1, <1>2, <1>4, <2>1, <2>2 DEF AtEachPlace
<1>6. CASE Streaming
  <2>1. PICK z, a \in 0..Len(toClient), h \in 0..MaxChunks :
              /\ z + a <= Len(toClient) /\ Progress(z, a, h)
              /\ z > 0 => Head(toClient) = OK /\ StreamIn(Tail(toClient), z - 1, a, h)
              /\ z = 0 /\ a > 0 =>
                    /\ Head(toClient) = AudioData(call, h + 1)
                    /\ StreamIn(Tail(toClient), 0, a - 1, h + 1)
              /\ z = 0 /\ a = 0 => Head(toClient) = END /\ AllOK(Tail(toClient))
    BY <1>1, <1>6, TakenFromStream
  <2>2. /\ Len(toClient) \in Nat /\ Len(toClient) > 0
        /\ Len(Tail(toClient)) = Len(toClient) - 1
        /\ Len(heard) \in Nat /\ made \in {NotMade} \cup 0..MaxChunks
    BY <1>1, StreamBounds, HeadAndTail
  <2>3. CASE z > 0
    <3>1. Head(toClient) = OK
      BY <2>1, <2>3
    <3>2. Stream(z - 1, a, h)'
      BY <1>2, <2>1, <2>3 DEF Stream, StreamIn
    <3>3. /\ ((z - 1) + a < Len(toClient') <=> z + a < Len(toClient))
          /\ (Len(toClient') = (z - 1) + a <=> Len(toClient) = z + a)
          /\ z - 1 \in 0..Len(toClient') /\ a \in 0..Len(toClient')
      BY <1>2, <2>1, <2>2, <2>3
    <3>4. (Len(toClient') > (z - 1) + a) <=> (Len(toClient) > z + a)
      BY <1>2, <2>1, <2>2, <2>3
    <3>5. Progress(z - 1, a, h)'
      BY <1>2, <2>1, <3>3, <3>4 DEF Progress
    <3>6. Working'
      BY <1>1, <1>2, <1>4, <1>6, <3>1 DEF Streaming, Working, StopSent
    <3> QED
      BY <1>1, <1>2, <1>4, <3>1, <3>2, <3>3, <3>5, <3>6 DEF AtEachPlace, Streaming
  <2>4. CASE z = 0 /\ a = 0
    <3>1. Head(toClient) = END /\ AllOK(toClient')
      BY <1>2, <2>1, <2>4
    <3>2. spc \notin {"synthesize", "check", "chunk", "end"}
      BY <2>1, <2>2, <2>4 DEF Progress
    <3>3. Clear'
      <4>1. spc \in {"gone", "read", "respond"}
        BY <1>1, <3>2, Kinds DEF WorkerTypes, Adrift
      <4> QED
        BY <1>2, <1>6, <3>1, <4>1 DEF Clear, Streaming, Working
    <3>4. stopped \/ Len(heard) = made
      BY <2>1, <2>2, <2>4 DEF Progress
    <3> QED
      BY <1>1, <1>3, <3>1, <3>3, <3>4 DEF AtEachPlace
  <2>5. ~(z = 0 /\ a > 0)
    BY <1>1, <2>1, TypesOfMessages
  <2> QED
    BY <2>1, <2>2, <2>3, <2>4, <2>5
<1> QED
  BY <1>1, <1>5, <1>6 DEF PipeInv, AtEachPlace

-----------------------------------------------------------------------------
(* The invariant.                                                          *)

LEMMA WorkerStep ==
    ASSUME PipeInv, Worker \/ WorkerDies
    PROVE  AtEachPlace'
<1>1. UNCHANGED client /\ UNCHANGED <<cpc, op, call, heard, stopped>> /\ ~Adrift
  BY DEF Worker, ReadCommand, Respond, Synthesize, CheckForStop, WriteChunk, WriteEnd,
         WorkerDies, client, Adrift
<1>2. cpc \in {"idle", "send"} => Clear'
  BY <1>1, ClearStep DEF PipeInv, AtEachPlace
<1>3. cpc = "ping" => Asked(Command("PING"), Response("PONG"))'
  <2> HAVE cpc = "ping"
  <2>1. ASSUME ReadCommand, Head(toWorker) = Command("PING")
        PROVE  spc' = "respond" /\ reply' = Response("PONG")
    BY <2>1, TypesOfMessages DEF ReadCommand
  <2>2. Asked(Command("PING"), Response("PONG"))
    BY DEF PipeInv, AtEachPlace
  <2> QED
    BY <2>1, <2>2, AskedStep, Messages
<1>4. cpc = "await" => Asked(Command("ENGINE_INFO"), Response("ENGINE_INFO"))'
  <2> HAVE cpc = "await"
  <2>1. ASSUME ReadCommand, Head(toWorker) = Command("ENGINE_INFO")
        PROVE  spc' = "respond" /\ reply' = Response("ENGINE_INFO")
    BY <2>1, TypesOfMessages DEF ReadCommand
  <2>2. Asked(Command("ENGINE_INFO"), Response("ENGINE_INFO"))
    BY DEF PipeInv, AtEachPlace
  <2> QED
    BY <2>1, <2>2, AskedStep, Messages
<1>5. ASSUME cpc \in {"listen", "stop"}, op = "speak", Streaming PROVE Streaming'
  BY <1>5, StreamReads, StreamMakes, StreamWrites, StreamBreaks DEF Worker
<1>6. cpc = "listen" => Pending' \/ Streaming'
  BY <1>1, <1>5, PendingStep DEF PipeInv, AtEachPlace
<1>7. cpc = "stop" => Streaming'
  BY <1>1, <1>5 DEF PipeInv, AtEachPlace
<1> QED
  BY <1>1, <1>2, <1>3, <1>4, <1>6, <1>7 DEF PipeInv, AtEachPlace

\* Clear is what an operation begins with and ends with.
LEMMA CallingStep ==
    ASSUME PipeInv, CallSpeak \/ CallEngineInfo \/ GiveUp \/ UNCHANGED vars
    PROVE  AtEachPlace'
<1>1. UNCHANGED <<spc, reply, toWorker, toClient>>
  BY DEF CallSpeak, CallEngineInfo, GiveUp, vars, worker
<1>2. Clear => Clear'
  BY <1>1 DEF Clear
<1>3. CASE CallSpeak \/ CallEngineInfo
  <2>1. (Adrift \/ Clear) /\ cpc' \in {"send", "open"}
    BY <1>3 DEF CallSpeak, CallEngineInfo, Begin, PipeInv, AtEachPlace
  <2> QED
    BY <1>1, <1>2, <2>1 DEF AtEachPlace, Adrift
<1>4. CASE GiveUp
  <2>1. cpc' = "idle" /\ spc = "gone" /\ toWorker = <<>> /\ toClient = <<>>
    BY <1>4 DEF GiveUp, Fail, PipeInv, Connection
  <2> QED
    BY <1>1, <2>1 DEF AtEachPlace, Clear, AllOK, AllStop
<1>5. CASE UNCHANGED vars
  <2>1. UNCHANGED <<cpc, op, call, heard, stopped, made, sent, serving, late, StopSent>>
    BY <1>5 DEF vars, client, worker, StopSent
  <2>2. \A z, a, h : Stream(z, a, h)' = Stream(z, a, h)
    BY <1>1, <2>1 DEF Stream
  <2>3. \A z, a, h : Progress(z, a, h)' = Progress(z, a, h)
    BY <1>1, <2>1 DEF Progress
  <2>4. Working' = Working /\ Pending' = Pending
    BY <1>1, <2>1 DEF Working, Pending
  <2>5. Streaming => Streaming'
    BY <1>1, <2>1, <2>2, <2>3, <2>4 DEF Streaming
  <2>6. \A command, answer : Asked(command, answer) => Asked(command, answer)'
    BY <1>1 DEF Asked
  <2> QED
    BY <1>1, <1>2, <2>1, <2>4, <2>5, <2>6 DEF PipeInv, AtEachPlace, Adrift
<1> QED
  BY <1>3, <1>4, <1>5

LEMMA ConnectingStep ==
    ASSUME PipeInv, Open \/ Handshake \/ Send \/ AwaitInfo \/ ListenBroken
    PROVE  AtEachPlace'
<1>1. /\ AllOK(<<>>) /\ AllStop(<<>>)
      /\ \A m \in Responses : <<m>> # <<>> /\ Head(<<m>>) = m /\ Tail(<<m>>) = <<>>
  BY OneMessage DEF AllOK, AllStop
<1>2. CASE Open
  BY <1>2 DEF Open, AtEachPlace, Asked
<1>3. CASE Handshake
  <2>1. Asked(Command("PING"), Response("PONG"))
    BY <1>3 DEF Handshake, PipeInv, AtEachPlace
  <2>2. CASE cpc' = "open"
    BY <2>2 DEF AtEachPlace
  <2>3. CASE /\ toClient # <<>> /\ toClient' = Tail(toClient) /\ cpc' = "send"
             /\ UNCHANGED <<spc, toWorker>>
    <3>1. toClient = <<Response("PONG")>> /\ toWorker = <<>> /\ spc \in {"read", "gone"}
      BY <2>1, <2>3 DEF Asked
    <3> QED
      BY <1>1, <2>3, <3>1, Messages DEF AtEachPlace, Clear
  <2> QED
    BY <1>3, <2>2, <2>3 DEF Handshake
<1>4. CASE Send
  <2>1. Clear /\ cpc = "send" /\ op' = op
    BY <1>4 DEF Send, PipeInv, AtEachPlace, WorkerGone, Adrift
  <2>2. CASE Fail /\ Disconnect
    BY <1>1, <2>2 DEF Fail, Disconnect, AtEachPlace, Clear
  <2>3. CASE /\ op = "speak" /\ spc # "gone" /\ toWorker' = Append(toWorker, Speak(call))
             /\ cpc' = "listen" /\ UNCHANGED <<spc, toClient>>
    <3>1. made = NotMade /\ heard = <<>> /\ ~stopped /\ late = 0
      BY <2>1, <2>3 DEF PipeInv, Fresh
    <3>2. UNCHANGED <<made, heard, stopped, late, reply, call>>
      BY <1>4 DEF Send
    <3>3. toWorker \in Seq(Commands) /\ call \in 1..MaxCalls
      BY <2>1, <2>3, Kinds, SessionAssumption
      DEF QueueTypes, ClientTypes, PipeInv, Connection
    <3>4. /\ toWorker' # <<>> /\ Len(toWorker') = Len(toWorker) + 1 /\ Len(toWorker) \in Nat
          /\ toWorker'[Len(toWorker')] = Speak(call)
          /\ \A i \in 1..Len(toWorker) : toWorker'[i] = toWorker[i]
      BY <2>3, <3>3, OneMore, Messages
    <3>5. \A i \in 1..(Len(toWorker') - 1) : toWorker'[i] = STOP
      BY <2>1, <3>4 DEF Clear, AllStop
    <3>6. Pending'
      BY <2>1, <2>3, <3>1, <3>2, <3>4, <3>5 DEF Pending, Clear
    <3> QED
      BY <2>1, <2>3, <3>6 DEF AtEachPlace
  <2>4. CASE /\ op = "info" /\ spc # "gone"
             /\ toWorker' = Append(toWorker, Command("ENGINE_INFO"))
             /\ cpc' = "await" /\ UNCHANGED <<spc, toClient>>
    <3>1. Tool /\ role = "tool"
      BY <2>4 DEF PipeInv, Tool
    <3>2. toWorker \in Seq(Commands) /\ toClient \in Seq(Responses)
      BY Kinds DEF QueueTypes
    <3>3. Len(toWorker) = 0
      <4>1. Len(toWorker) \in Nat /\ \A i \in 1..Len(toWorker) : FALSE
        BY <2>1, <3>1, <3>2, LenProperties DEF Tool, Clear, AllStop
      <4> QED
        BY <4>1
    <3>4. Len(toClient) = 0
      <4>1. Len(toClient) \in Nat /\ \A i \in 1..Len(toClient) : FALSE
        BY <2>1, <3>1, <3>2, LenProperties DEF Tool, Clear, AllOK
      <4> QED
        BY <4>1
    <3>5. toWorker = <<>> /\ toClient = <<>> /\ spc = "read"
      BY <2>1, <2>4, <3>1, <3>2, <3>3, <3>4, NothingIn DEF Clear, Tool
    <3>6. Asked(Command("ENGINE_INFO"), Response("ENGINE_INFO"))'
      BY <2>4, <3>5, Messages, OneMessage DEF Asked
    <3> QED
      BY <2>1, <2>4, <3>6 DEF AtEachPlace
  <2>5. op \in {"speak", "info"}
    BY DEF PipeInv, TypeOK
  <2> QED
    BY <1>4, <2>2, <2>3, <2>4, <2>5 DEF Send, WorkerGone
<1>5. CASE AwaitInfo
  <2>1. Asked(Command("ENGINE_INFO"), Response("ENGINE_INFO")) /\ cpc' = "idle"
    BY <1>5 DEF AwaitInfo, PipeInv, AtEachPlace
  <2>2. UNCHANGED <<spc, reply, toWorker>>
    BY <1>5 DEF AwaitInfo, worker
  <2>3. CASE toClient # <<>> /\ toClient' = Tail(toClient)
    <3>1. toClient = <<Response("ENGINE_INFO")>> /\ toWorker = <<>> /\ spc \in {"read", "gone"}
      BY <2>1, <2>3 DEF Asked
    <3> QED
      BY <1>1, <2>1, <2>2, <2>3, <3>1, Messages DEF AtEachPlace, Clear
  <2>4. CASE WorkerGone /\ toClient = <<>> /\ toClient' = toClient
    <3>1. toWorker = <<>> /\ spc = "gone"
      BY <2>4 DEF PipeInv, Connection, WorkerGone
    <3> QED
      BY <1>1, <2>1, <2>2, <2>4, <3>1 DEF AtEachPlace, Clear
  <2> QED
    BY <1>5, <2>3, <2>4 DEF AwaitInfo
<1>6. CASE ListenBroken
  BY <1>1, <1>6 DEF ListenBroken, Fail, Disconnect, AtEachPlace, Clear
<1> QED
  BY <1>2, <1>3, <1>4, <1>5, <1>6

\* The client runs out of memory, or is adrift already.
LEMMA AdriftStep ==
    ASSUME PipeInv, OutOfMemory
    PROVE  AtEachPlace'
<1>1. CASE NoMemoryToAsk
  <2>1. /\ UNCHANGED <<spc, reply, toWorker, toClient>> /\ cpc' = "idle"
        /\ cpc \in {"open", "send"}
    BY <1>1 DEF NoMemoryToAsk, Throw, worker
  <2>2. Adrift \/ Clear
    BY <2>1 DEF PipeInv, AtEachPlace, Connection, Clear, AllOK, AllStop
  <2> QED
    BY <2>1, <2>2 DEF AtEachPlace, Adrift, Clear
<1>2. CASE NoMemoryToHear
  BY <1>2 DEF NoMemoryToHear, Throw, AtEachPlace, Adrift
<1>3. CASE SendAdrift \/ ListenAdrift
  <2>1. cpc' \in {"idle", "listen", "stop"} /\ (Adrift' \/ (Fail /\ Disconnect))
    BY <1>3 DEF SendAdrift, ListenAdrift, Fail, Adrift
  <2> QED
    BY <2>1 DEF AtEachPlace, Fail, Disconnect, Clear, AllOK, AllStop
<1> QED
  BY <1>1, <1>2, <1>3 DEF OutOfMemory

LEMMA SessionStep == PipeInv /\ [Next]_vars => PipeInv'
<1> SUFFICES ASSUME PipeInv, [Next]_vars PROVE PipeInv'
  OBVIOUS
<1>1. AtEachPlace'
  BY WorkerStep, CallingStep, ConnectingStep, ListenAudioStep, SendStopStep, ListenOtherStep,
     AdriftStep
     DEF Next, Client
<1> QED
  BY <1>1, TypesStep, PromptStep, LostStep, FreshStep, ConnectionStep, ToolStep DEF PipeInv

LEMMA SessionStart == Init => PipeInv
<1> SUFFICES ASSUME Init PROVE PipeInv
  OBVIOUS
<1>1. TypeOK
  <2>1. OK \in Responses /\ <<>> \in Seq(Responses) /\ <<>> \in Seq(Commands)
           /\ <<>> \in Seq(ChunksHeard) /\ Len(<<>>) = 0
    BY Messages
  <2>2. ClientTypes
    <3>1. 0 \in 0..MaxAttempts /\ 0 \in 0..MaxCalls
      BY SessionAssumption
    <3>2. connected \in BOOLEAN /\ stopped \in BOOLEAN
      BY DEF Init
    <3>3. /\ role \in {"host", "tool"} /\ op \in {"speak", "info"}
          /\ cpc \in {"idle", "open", "ping", "send", "await", "listen", "stop"}
          /\ result \in {"none", "true", "false", "thrown"}
          /\ info \in {"none", "answered", "failed"}
      BY DEF Init
    <3>4. attempt = 0 /\ call = 0
      BY DEF Init
    <3> QED
      BY <3>1, <3>2, <3>3, <3>4 DEF ClientTypes
  <2>3. reply \in Responses
    BY <2>1 DEF Init, OK
  <2>4. WorkerTypes
    BY <2>3, SessionAssumption DEF Init, WorkerTypes
  <2>5. QueueTypes
    BY <2>1, SessionAssumption DEF Init, QueueTypes
  <2> QED
    BY <2>2, <2>4, <2>5, TypesInGroups
<1>2. AtEachPlace
  BY DEF Init, AtEachPlace, Clear, AllOK, AllStop
<1> QED
  BY <1>1, <1>2 DEF Init, PipeInv, AtMostOneLate, Lost, Adrift, Fresh, Connection, Tool

LEMMA SessionInvariant == Spec => []PipeInv
BY SessionStart, SessionStep, PTL DEF Spec

\* Every variable keeps its range: in particular neither direction of the pipe
\* holds more than it has room for, and all that is in it are messages of the
\* protocol about calls and chunks there are.
THEOREM SessionTypeOK == Spec => []TypeOK
<1>1. PipeInv => TypeOK
  BY DEF PipeInv
<1> QED
  BY SessionInvariant, <1>1, PTL

\* However calls, stops that come too late and deaths of the worker follow each
\* other, an operation begins with a pipe on which nothing is going on, unless
\* it begins on the handle that an exception in the middle of a message left.
THEOREM AlwaysInStep == Spec => []InStep
<1>1. PipeInv => InStep
  <2> SUFFICES ASSUME PipeInv, cpc \in {"idle", "send"}, ~Adrift
               PROVE  /\ \A i \in DOMAIN toClient : toClient[i] = OK
                      /\ \A i \in DOMAIN toWorker : toWorker[i] = STOP
                      /\ spc \in {"gone", "read", "respond"}
                      /\ spc = "respond" => reply = OK
    BY DEF InStep, OK, STOP
  <2>1. Clear /\ toClient \in Seq(Responses) /\ toWorker \in Seq(Commands)
    BY Kinds DEF PipeInv, AtEachPlace, QueueTypes
  <2> QED
    BY <2>1, LenProperties DEF Clear, AllOK, AllStop
<1> QED
  BY SessionInvariant, <1>1, PTL

\* Once the client has asked it to stop, the worker writes one more chunk at
\* most, however long the utterance and whatever the pipe holds (in a session
\* that is not adrift).
THEOREM StopsArePrompt == Spec => []PromptStop
<1>1. PipeInv => PromptStop
  BY DEF PipeInv, AtMostOneLate, PromptStop
<1> QED
  BY SessionInvariant, <1>1, PTL

\* engineInfo fails only when no worker is reached: it never takes another
\* operation's answer for its own.
THEOREM InfoFailsUnreached == Spec => InfoFailsOnlyUnreached
<1>1. PipeInv /\ [Next]_vars
         => [info' = "failed" => info = "failed" \/ WorkerGone]_vars
  <2> SUFFICES ASSUME PipeInv, Next, info' = "failed", info # "failed"
               PROVE  WorkerGone
    OBVIOUS
  <2>1. GiveUp \/ Send \/ AwaitInfo \/ ListenBroken
    <3>1. OutOfMemory => UNCHANGED info
      BY DEF OutOfMemory, NoMemoryToAsk, NoMemoryToHear, SendAdrift, ListenAdrift, Fail,
             PipeInv, Lost
    <3> QED
      BY <3>1
      DEF Next, CallSpeak, CallEngineInfo, Client, Open, Handshake, ListenAudio, SendStop,
           ListenOther, Worker, ReadCommand, Respond, Synthesize, CheckForStop, WriteChunk,
           WriteEnd, WorkerDies, client
  <2>2. CASE GiveUp
    BY <2>2 DEF GiveUp, PipeInv, Connection, WorkerGone
  <2>3. CASE Send \/ ListenBroken
    BY <2>3 DEF Send, ListenBroken
  <2>4. CASE AwaitInfo
    <3>1. Asked(Command("ENGINE_INFO"), Response("ENGINE_INFO"))
      BY <2>4 DEF AwaitInfo, PipeInv, AtEachPlace
    <3>2. toClient # <<>> => Head(toClient) = Response("ENGINE_INFO")
      BY <3>1, Messages, OneMessage DEF Asked
    <3> QED
      BY <2>4, <3>2 DEF AwaitInfo
  <2> QED
    BY <2>1, <2>2, <2>3, <2>4
<1> QED
  BY <1>1, SessionInvariant, PTL DEF Spec, InfoFailsOnlyUnreached

-----------------------------------------------------------------------------
(* speak keeps the promise of SpeechService.                               *)

phaseOf == IF op = "speak" /\ cpc # "idle" THEN "running" ELSE "idle"

\* A step that the service does not see.
LEMMA Unseen ==
    ASSUME UNCHANGED <<call, made, heard, stopped, result>>, phaseOf' = phaseOf,
           Adrift' = Adrift
    PROVE  UNCHANGED Service!vars
BY DEF Service!vars, phaseOf

\* A call that runs out of memory, or goes on where an earlier one did.
LEMMA ServiceLost ==
    ASSUME PipeInv, OutOfMemory, ~(UNCHANGED Service!vars)
    PROVE  Service!Next
<1>1. CASE NoMemoryToAsk \/ NoMemoryToHear
  <2>1. op = "speak" /\ op' = op /\ cpc # "idle"
    BY <1>1 DEF NoMemoryToAsk, NoMemoryToHear, Throw, PipeInv, TypeOK, Tool
  <2>2. cpc' = "idle" /\ result' = "thrown" /\ UNCHANGED <<call, made, heard, stopped>>
    BY <1>1 DEF NoMemoryToAsk, NoMemoryToHear, Throw, worker
  <2>3. Adrift' \in {Adrift, TRUE}
    BY <1>1 DEF NoMemoryToAsk, NoMemoryToHear, Adrift, worker
  <2> QED
    BY <2>1, <2>2, <2>3 DEF Service!Next, Service!Throw
<1>2. CASE SendAdrift
  <2>1. op = "speak" /\ op' = op /\ cpc = "send" /\ UNCHANGED <<call, made, heard, stopped>>
    BY <1>2 DEF SendAdrift, PipeInv, Lost
  <2>2. CASE Fail /\ Disconnect
    BY <2>1, <2>2 DEF Fail, Disconnect, Adrift, Service!Next, Service!ReturnFalse
  <2>3. CASE cpc' = "listen" /\ UNCHANGED <<result, spc>>
    BY <2>1, <2>3, Unseen DEF phaseOf, Adrift
  <2> QED
    BY <1>2, <2>2, <2>3 DEF SendAdrift
<1>3. CASE ListenAdrift
  <2>1. op = "speak" /\ op' = op /\ cpc = "listen" /\ UNCHANGED <<call, made>> /\ Adrift
    BY <1>3 DEF ListenAdrift, PipeInv, Lost
  <2>2. CASE /\ ~stopped /\ heard' = Append(heard, Noise) /\ stopped' \in {stopped, TRUE}
             /\ cpc' # "idle" /\ UNCHANGED <<result, spc>>
    <3>1. stopped' \in BOOLEAN /\ Noise = Service!Noise
      BY <2>2 DEF PipeInv, TypeOK, Noise, Chunk, Service!Noise, Service!Chunk
    <3> QED
      BY <2>1, <2>2, <3>1 DEF Adrift, Service!Next, Service!DeliverNoise
  <2>3. CASE /\ cpc' = "idle" /\ result' \in {"true", "false", "thrown"}
             /\ UNCHANGED <<heard, stopped, spc>>
    <3>1. Adrift' = Adrift
      BY <2>3 DEF Adrift
    <3> QED
      BY <2>1, <2>3, <3>1
      DEF Service!Next, Service!ReturnTrue, Service!ReturnFalse, Service!Throw
  <2>4. CASE Fail /\ Disconnect /\ UNCHANGED <<heard, stopped>>
    BY <2>1, <2>4 DEF Fail, Disconnect, Adrift, Service!Next, Service!ReturnFalse
  <2> QED
    BY <1>3, <2>1, <2>2, <2>3, <2>4 DEF ListenAdrift
<1> QED
  BY <1>1, <1>2, <1>3 DEF OutOfMemory

LEMMA ServiceStep == PipeInv /\ [Next]_vars => [Service!Next]_(Service!vars)
<1> SUFFICES ASSUME PipeInv, [Next]_vars, ~(UNCHANGED Service!vars) PROVE Service!Next
  OBVIOUS
<1>1. ClientTypes
  BY Kinds
<1>2. CASE CallSpeak
  BY <1>2 DEF CallSpeak, Begin, Adrift, Service!Next, Service!Call, NotMade, Service!NotMade
<1>3. CASE CallEngineInfo \/ Open \/ Handshake \/ AwaitInfo \/ SendStop \/ UNCHANGED vars
  <2>1. UNCHANGED <<call, made, heard, stopped, result>>
    BY <1>3 DEF CallEngineInfo, Open, Handshake, AwaitInfo, SendStop, AfterStop, Drain,
                vars, client, worker
  <2>2. phaseOf' = phaseOf
    BY <1>3 DEF phaseOf, CallEngineInfo, Begin, Open, Handshake, AwaitInfo, SendStop,
                AfterStop, Drain, PipeInv, AtEachPlace, vars, client
  <2>3. Adrift' = Adrift
    BY <1>3 DEF CallEngineInfo, Open, Handshake, AwaitInfo, SendStop, Disconnect, PipeInv,
                AtEachPlace, Connection, Asked, Adrift, vars, worker
  <2> QED
    BY <2>1, <2>2, <2>3, Unseen
<1>4. CASE GiveUp \/ ListenBroken \/ (Send /\ cpc' = "idle")
  <2>1. UNCHANGED <<call, made, heard, stopped, op>> /\ cpc # "idle" /\ Fail
    BY <1>4 DEF GiveUp, ListenBroken, Send, worker
  <2>2. ~Adrift /\ ~Adrift' /\ Adrift' = Adrift
    BY <1>4 DEF GiveUp, ListenBroken, Send, Disconnect, WorkerGone, PipeInv, Connection,
                Adrift, worker
  <2>3. CASE op = "speak"
    BY <2>1, <2>2, <2>3 DEF Adrift, Fail, Service!Next, Service!ReturnFalse
  <2>4. CASE op # "speak"
    <3>1. phaseOf' = phaseOf /\ result' = result
      BY <2>1, <2>4 DEF phaseOf, Fail
    <3> QED
      BY <2>1, <2>2, <3>1, Unseen
  <2> QED
    BY <2>3, <2>4
<1>5. CASE Send /\ cpc' # "idle"
  <2>1. UNCHANGED <<call, made, heard, stopped, result, op, spc>> /\ cpc # "idle"
    BY <1>5 DEF Send, Fail
  <2> QED
    BY <1>5, <2>1, Unseen DEF phaseOf, Adrift
<1>6. CASE ListenAudio
  <2>1. op = "speak" /\ Streaming /\ cpc = "listen" /\ toClient # <<>>
           /\ Head(toClient).type = "AUDIO_DATA" /\ cpc' # "idle"
    BY <1>6, ListenAudioStep DEF ListenAudio
  <2>2. UNCHANGED <<call, made, result, op>> /\ Adrift' = Adrift
    BY <1>6 DEF ListenAudio, Adrift, worker
  <2>3. CASE ~PassOn
    <3>1. UNCHANGED <<heard, stopped>>
      BY <1>6, <2>3 DEF ListenAudio
    <3> QED
      BY <2>1, <2>2, <3>1, Unseen DEF phaseOf
  <2>4. CASE PassOn
    <3>1. PICK z, a \in 0..Len(toClient), h \in 0..MaxChunks :
              /\ z + a <= Len(toClient) /\ Progress(z, a, h)
              /\ z > 0 => Head(toClient) = OK /\ StreamIn(Tail(toClient), z - 1, a, h)
              /\ z = 0 /\ a > 0 =>
                    /\ Head(toClient) = AudioData(call, h + 1)
                    /\ StreamIn(Tail(toClient), 0, a - 1, h + 1)
              /\ z = 0 /\ a = 0 => Head(toClient) = END /\ AllOK(Tail(toClient))
      BY <2>1, TakenFromStream
    <3>2. /\ Len(toClient) \in Nat /\ Len(heard) \in Nat
          /\ made \in {NotMade} \cup 0..MaxChunks
      BY <2>1, StreamBounds
    <3>3. z = 0 /\ a > 0 /\ Head(toClient) = AudioData(call, h + 1)
      BY <2>1, <3>1, <3>2, TypesOfMessages
    <3>4. ~stopped /\ h = Len(heard) /\ made # NotMade /\ h + a <= made
      BY <2>4, <3>1, <3>3 DEF PassOn, Progress
    <3>5. Len(heard) < made
      BY <3>2, <3>3, <3>4
    <3>6. Head(toClient).chunk = Service!Chunk(call, Len(heard) + 1)
      <4>1. Head(toClient).chunk = Chunk(call, Len(heard) + 1)
        BY <3>3, <3>4, TypesOfMessages
      <4>2. Chunk(call, Len(heard) + 1) = Service!Chunk(call, Len(heard) + 1)
        BY DEF Chunk, Service!Chunk
      <4> QED
        BY <4>1, <4>2
    <3>7. heard' = Append(heard, Service!Chunk(call, Len(heard) + 1)) /\ stopped' \in BOOLEAN
      BY <1>1, <1>6, <2>4, <3>4, <3>6 DEF ListenAudio, PassOn, ClientTypes
    <3> QED
      BY <2>1, <2>2, <3>4, <3>5, <3>7 DEF Service!Next, Service!Deliver
  <2> QED
    BY <2>3, <2>4
<1>7. CASE ListenOther
  <2>1. op = "speak" /\ cpc = "listen" /\ UNCHANGED <<call, made, heard, stopped, op>>
           /\ Adrift' = Adrift
    BY <1>7, ListenOtherStep DEF ListenOther, Adrift, worker
  <2>2. CASE Head(toClient) = END /\ (stopped \/ Len(heard) = made)
    <3>1. cpc' = "idle" /\ result' = "true"
      <4>1. Head(toClient) # Response("ERROR")
        BY <2>2 DEF END, Response
      <4> QED
        BY <1>7, <2>2, <4>1 DEF ListenOther, END
    <3> QED
      BY <2>1, <2>2, <3>1 DEF Service!Next, Service!ReturnTrue
  <2>3. CASE Head(toClient) = OK
    <3>1. OK # Response("AUDIO_END") /\ OK # Response("ERROR")
      BY DEF OK, Response
    <3>2. UNCHANGED <<cpc, result>>
      BY <1>7, <2>3, <3>1 DEF ListenOther
    <3> QED
      BY <2>1, <3>2, Unseen DEF phaseOf
  <2> QED
    BY <1>7, <2>2, <2>3, ListenOtherStep
<1>8. CASE Synthesize
  <2>1. op = "speak" /\ cpc \in {"listen", "stop"} /\ made = NotMade
    BY <1>8, InHand DEF Synthesize, Streaming, Working
  <2>2. made' \in 0..MaxChunks /\ UNCHANGED <<op, cpc, call, heard, stopped, result>>
           /\ Adrift' = Adrift
    BY <1>8 DEF Synthesize, Adrift, client
  <2> QED
    BY <2>1, <2>2 DEF Service!Next, Service!Make, NotMade, Service!NotMade
<1>9. CASE ReadCommand \/ Respond \/ CheckForStop \/ WriteChunk \/ WriteEnd \/ WorkerDies
  <2>1. UNCHANGED <<op, cpc, call, made, heard, stopped, result>>
    BY <1>9 DEF ReadCommand, Respond, CheckForStop, WriteChunk, WriteEnd, WorkerDies, client
  <2>2. Adrift' = Adrift
    BY <1>9 DEF ReadCommand, Respond, CheckForStop, WriteChunk, WriteEnd, WorkerDies, Adrift
  <2> QED
    BY <2>1, <2>2, Unseen DEF phaseOf
<1> QED
  BY <1>2, <1>3, <1>4, <1>5, <1>6, <1>7, <1>8, <1>9, ServiceLost DEF Next, Client, Worker

\* PipeClient::speak, with its pipe, its stops that cross with the end of an
\* utterance and workers that die, implements SpeechService: the chunks of its
\* own call, in order, none after a refusal, and "true" only when that is all.
\* What the service loses by a call that throws, and when it has it back, is
\* part of it: only noise, and only until a call fails.
THEOREM SpeakKeepsItsPromise == Spec => ServiceProvided
<1>1. Init => Service!Init
  BY DEF Init, Adrift, Service!Init, NotMade, Service!NotMade
<1> QED
  BY <1>1, ServiceStep, SessionInvariant, PTL DEF Spec, ServiceProvided, Service!Spec

-----------------------------------------------------------------------------
(* The two ends never wait for each other.                                 *)

\* The client has a command to write and no room for it, or nothing to read.
ClientWaits ==
    /\ ~WorkerGone /\ ~Adrift
    /\ \/ cpc \in {"send", "stop"} /\ ~RoomToWorker
       \/ cpc \in {"ping", "await", "listen"} /\ toClient = <<>>

\* The worker has an answer to write and no room for it, or nothing to read.
WorkerWaits ==
    \/ spc = "read" /\ toWorker = <<>>
    \/ spc \in {"respond", "chunk", "end"} /\ ~RoomToClient

NoStandoff == ~(ClientWaits /\ WorkerWaits)

\* Between two operations at most one stop is left over, or its answer, and
\* never both.
AtMostOneStop ==
    cpc \in {"idle", "send"} =>
        /\ Len(toWorker) + Len(toClient) <= 1
        /\ spc = "respond" => Len(toWorker) + Len(toClient) = 0

TextWaits == toWorker # <<>> /\ toWorker[Len(toWorker)] = Speak(call)

NoEnd(q) == \A i \in 1..Len(q) : q[i] # END

\* At most n messages come after the end of the utterance.
Behind(q, n) == \A i \in 1..Len(q) : q[i] = END => Len(q) <= i + n

\* The stop of this call has been answered, if it was sent.
Answers == IF StopSent /\ toWorker = <<>> /\ spc # "respond" THEN 1 ELSE 0

\* The same in a call: before its text is read what an earlier call left is
\* still there, and after that there is one stop at most, or its answer.
BeforeText ==
    cpc = "listen" /\ TextWaits =>
        /\ Len(toWorker) + Len(toClient) <= 2
        /\ spc = "respond" => Len(toWorker) = 1 /\ Len(toClient) = 0

AfterText ==
    cpc \in {"listen", "stop"} /\ ~TextWaits =>
        /\ Len(toWorker) <= 1
        /\ spc = "respond" => StopSent /\ toWorker = <<>>
        /\ spc \in {"synthesize", "check", "chunk", "end"} => NoEnd(toClient)
        /\ Behind(toClient, Answers)

FewStops == AtMostOneStop /\ BeforeText /\ AfterText

LEMMA TextOrStream ==
    ASSUME PipeInv, cpc \in {"listen", "stop"}, ~Adrift
    PROVE  /\ op = "speak" /\ call \in 1..MaxCalls
           /\ TextWaits => Pending /\ cpc = "listen"
           /\ ~TextWaits => Streaming /\ ~Pending
<1>1. op = "speak" /\ (Pending \/ Streaming) /\ (cpc = "stop" => Streaming)
  BY DEF PipeInv, AtEachPlace
<1>2. call \in 1..MaxCalls /\ Len(toWorker) \in Nat /\ toWorker \in Seq(Commands)
  BY <1>1, StreamBounds
<1>3. Streaming => ~TextWaits
  <2> SUFFICES ASSUME Streaming, TextWaits PROVE FALSE
    OBVIOUS
  <2>1. AllStop(toWorker)
    BY DEF Streaming, Working
  <2>2. Len(toWorker) \in 1..Len(toWorker)
    BY <1>2, NothingIn DEF TextWaits
  <2> QED
    BY <1>2, <2>1, <2>2, Messages DEF AllStop, TextWaits
<1> QED
  BY <1>1, <1>2, <1>3 DEF Pending, TextWaits

\* What happens to the messages after the end as the queue is read, cut short
\* and written.
LEMMA BehindInTail ==
    ASSUME NEW q \in Seq(Responses), q # <<>>, NEW n \in Nat
    PROVE  /\ Behind(q, n) => Behind(Tail(q), n)
           /\ NoEnd(q) => NoEnd(Tail(q))
           /\ Behind(q, n) /\ Head(q) = END => Len(q) <= 1 + n
<1>1. /\ Head(q) = q[1] /\ Len(q) \in Nat /\ Len(q) > 0 /\ Len(Tail(q)) = Len(q) - 1
      /\ \A i \in 1..(Len(q) - 1) : Tail(q)[i] = q[i + 1]
  BY HeadAndTail
<1>2. ASSUME NEW i \in 1..Len(Tail(q)) PROVE i + 1 \in 1..Len(q) /\ Tail(q)[i] = q[i + 1]
  BY <1>1
<1>3. Behind(q, n) => Behind(Tail(q), n)
  BY <1>1, <1>2 DEF Behind
<1>4. NoEnd(q) => NoEnd(Tail(q))
  BY <1>1, <1>2 DEF NoEnd
<1>5. Behind(q, n) /\ Head(q) = END => Len(q) <= 1 + n
  BY <1>1 DEF Behind
<1> QED
  BY <1>3, <1>4, <1>5

LEMMA BehindCutShort ==
    ASSUME NEW q \in Seq(Responses), NEW m \in 0..Len(q), NEW n \in Nat, Behind(q, n)
    PROVE  Behind(SubSeq(q, 1, m), n)
<1>1. Len(SubSeq(q, 1, m)) = m /\ \A i \in 1..m : SubSeq(q, 1, m)[i] = q[i]
  BY TheFirst
<1>2. Len(q) \in Nat
  BY LenProperties
<1> QED
  BY <1>1, <1>2 DEF Behind

LEMMA BehindOneMore ==
    ASSUME NEW q \in Seq(Responses), NEW m \in Responses
    PROVE  /\ m # END /\ NoEnd(q) => NoEnd(Append(q, m))
           /\ m # END /\ Behind(q, 0) => Behind(Append(q, m), 1)
           /\ NoEnd(q) => Behind(Append(q, m), 0)
<1>1. /\ Len(q) \in Nat /\ Len(Append(q, m)) = Len(q) + 1
      /\ \A i \in 1..Len(q) : Append(q, m)[i] = q[i]
      /\ Append(q, m)[Len(q) + 1] = m
  BY OneMore
<1>2. \A i \in 1..(Len(q) + 1) : i \in 1..Len(q) \/ i = Len(q) + 1
  BY <1>1
<1>3. m # END /\ NoEnd(q) => NoEnd(Append(q, m))
  BY <1>1, <1>2 DEF NoEnd
<1>4. m # END /\ Behind(q, 0) => Behind(Append(q, m), 1)
  BY <1>1, <1>2 DEF Behind
<1>5. NoEnd(q) => Behind(Append(q, m), 0)
  BY <1>1, <1>2 DEF Behind, NoEnd
<1> QED
  BY <1>3, <1>4, <1>5

LEMMA BehindIsAtMost ==
    ASSUME NEW q \in Seq(Responses)
    PROVE  /\ NoEnd(q) => Behind(q, 0)
           /\ Behind(q, 0) => Behind(q, 1)
<1>1. Len(q) \in Nat
  BY LenProperties
<1> QED
  BY <1>1 DEF Behind, NoEnd

\* Nothing is kept of a session adrift, and nobody is followed at its other end.
LEMMA FewWhenAdrift ==
    ASSUME Lost', Adrift'
    PROVE  FewStops'
<1>1. toWorker' = <<>> /\ toClient' = <<>> /\ spc' = "adrift" /\ Len(<<>>) = 0
  BY DEF Lost, Adrift
<1> QED
  BY <1>1 DEF FewStops, AtMostOneStop, BeforeText, AfterText, TextWaits, Behind

LEMMA WorkerNotAdrift ==
    ASSUME Worker \/ WorkerDies
    PROVE  ~Adrift
BY DEF Worker, ReadCommand, Respond, Synthesize, CheckForStop, WriteChunk, WriteEnd,
       WorkerDies, Adrift

\* A step of the worker, or its end, between two operations.
LEMMA FewBetween ==
    ASSUME PipeInv, FewStops, Worker \/ WorkerDies
    PROVE  AtMostOneStop'
<1> SUFFICES ASSUME cpc \in {"idle", "send"}
             PROVE  /\ Len(toWorker') + Len(toClient') <= 1
                    /\ spc' = "respond" => Len(toWorker') + Len(toClient') = 0
  <2>1. cpc' = cpc
    BY DEF Worker, ReadCommand, Respond, Synthesize, CheckForStop, WriteChunk, WriteEnd,
           WorkerDies, client
  <2> QED
    BY <2>1 DEF AtMostOneStop
<1>1. /\ QueueTypes /\ WorkerTypes /\ Len(toWorker) \in Nat /\ Len(toClient) \in Nat
      /\ Len(toWorker) + Len(toClient) <= 1
      /\ spc = "respond" => Len(toWorker) + Len(toClient) = 0
      /\ spc \in {"gone", "read", "respond"}
  <2>1. ~Adrift
    BY WorkerNotAdrift
  <2> QED
    BY <2>1, Kinds DEF FewStops, AtMostOneStop, PipeInv, AtEachPlace, Clear
<1>2. CASE ReadCommand
  <2>1. toWorker # <<>> /\ toWorker' = Tail(toWorker) /\ toClient' = toClient
    BY <1>2 DEF ReadCommand
  <2>2. Len(toWorker) > 0 /\ Len(toWorker') = Len(toWorker) - 1
    BY <1>1, <2>1, HeadAndTail DEF QueueTypes
  <2> QED
    BY <1>1, <2>1, <2>2
<1>3. CASE Respond
  <2>1. toClient' = Append(toClient, reply) /\ toWorker' = toWorker /\ spc' = "read"
        /\ spc = "respond"
    BY <1>3 DEF Respond
  <2>2. Len(toClient') = Len(toClient) + 1
    BY <1>1, <2>1, OneMore DEF QueueTypes, WorkerTypes
  <2> QED
    BY <1>1, <2>1, <2>2
<1>4. CASE WorkerDies
  <2>1. PICK n \in 0..Len(toClient) : toClient' = SubSeq(toClient, 1, n)
    BY <1>4 DEF WorkerDies
  <2>2. Len(toClient') = n /\ Len(toWorker') = 0 /\ spc' = "gone"
    BY <1>1, <1>4, <2>1, TheFirst DEF WorkerDies, QueueTypes
  <2> QED
    BY <1>1, <2>2
<1> QED
  BY <1>1, <1>2, <1>3, <1>4 DEF Worker, Synthesize, CheckForStop, WriteChunk, WriteEnd

\* The same before the text of a call is read, and as it is.
LEMMA FewBeforeText ==
    ASSUME PipeInv, FewStops, cpc = "listen", TextWaits, Worker \/ WorkerDies
    PROVE  BeforeText' /\ AfterText'
<1>1. /\ UNCHANGED <<cpc, call, stopped>> /\ StopSent' = StopSent /\ ~StopSent
      /\ Pending /\ QueueTypes /\ WorkerTypes /\ call \in 1..MaxCalls
      /\ Len(toWorker) \in Nat /\ Len(toClient) \in Nat
  <2>1. UNCHANGED client
    BY DEF Worker, ReadCommand, Respond, Synthesize, CheckForStop, WriteChunk, WriteEnd,
           WorkerDies
  <2>2. Pending /\ call \in 1..MaxCalls
    BY TextOrStream, WorkerNotAdrift
  <2> QED
    BY <2>1, <2>2, Kinds DEF client, StopSent, Pending
<1>2. /\ Len(toWorker) + Len(toClient) <= 2
      /\ spc = "respond" => Len(toWorker) = 1 /\ Len(toClient) = 0
      /\ spc \in {"read", "respond"} /\ AllOK(toClient) /\ NoEnd(toClient)
  BY <1>1, Messages DEF FewStops, BeforeText, Pending, AllOK, NoEnd
<1>3. CASE ReadCommand
  <2>1. toWorker # <<>> /\ toWorker' = Tail(toWorker) /\ toClient' = toClient
    BY <1>3 DEF ReadCommand
  <2>2. /\ Len(toWorker) > 0 /\ Len(toWorker') = Len(toWorker) - 1
        /\ \A i \in 1..(Len(toWorker) - 1) : toWorker'[i] = toWorker[i + 1]
        /\ toWorker' \in Seq(Commands) /\ Head(toWorker) = toWorker[1]
    BY <1>1, <2>1, HeadAndTail DEF QueueTypes
  <2>3. CASE Len(toWorker) = 1
    <3>1. Head(toWorker) = Speak(call) /\ toWorker' = <<>> /\ Len(toWorker') = 0
      BY <2>2, <2>3, NothingIn DEF TextWaits
    <3>2. spc' = "synthesize"
      BY <1>3, <3>1, TypesOfMessages DEF ReadCommand
    <3>3. Behind(toClient', 0) /\ Answers' = 0 /\ NoEnd(toClient')
      BY <1>1, <1>2, <2>1, BehindIsAtMost DEF Answers, QueueTypes
    <3> QED
      BY <3>1, <3>2, <3>3 DEF BeforeText, AfterText, TextWaits
  <2>4. CASE Len(toWorker) # 1
    <3>1. Len(toWorker) = 2 /\ Len(toClient) = 0 /\ Len(toWorker') = 1
      BY <1>1, <1>2, <2>2, <2>4
    <3>2. toWorker' # <<>> /\ toWorker'[1] = Speak(call)
      BY <2>2, <3>1 DEF TextWaits
    <3>3. TextWaits'
      BY <1>1, <3>1, <3>2 DEF TextWaits
    <3> QED
      BY <2>1, <3>1, <3>3 DEF BeforeText, AfterText
  <2> QED
    BY <2>3, <2>4
<1>4. CASE Respond
  <2>1. toClient' = Append(toClient, reply) /\ toWorker' = toWorker /\ spc' = "read"
        /\ spc = "respond"
    BY <1>4 DEF Respond
  <2>2. Len(toClient') = Len(toClient) + 1 /\ TextWaits'
    BY <1>1, <2>1, OneMore DEF QueueTypes, WorkerTypes, TextWaits
  <2>3. Len(toWorker') + Len(toClient') = 2
    <3>1. Len(toWorker) = 1 /\ Len(toClient) = 0
      BY <1>2, <2>1
    <3>2. Len(toWorker') = 1 /\ Len(toClient') = 1
      BY <2>1, <2>2, <3>1
    <3> QED
      BY <3>2
  <2>4. BeforeText'
    BY <2>1, <2>3 DEF BeforeText
  <2> QED
    BY <2>2, <2>4 DEF AfterText
<1>5. CASE WorkerDies
  <2>1. PICK n \in 0..Len(toClient) : toClient' = SubSeq(toClient, 1, n)
    BY <1>5 DEF WorkerDies
  <2>2. Behind(toClient', 0)
    BY <1>1, <1>2, <2>1, BehindIsAtMost, BehindCutShort DEF QueueTypes
  <2>3. toWorker' = <<>> /\ spc' = "gone" /\ Answers' = 0
    BY <1>1, <1>5 DEF WorkerDies, Answers
  <2> QED
    BY <2>2, <2>3 DEF BeforeText, AfterText, TextWaits
<1> QED
  BY <1>2, <1>3, <1>4, <1>5 DEF Worker, Synthesize, CheckForStop, WriteChunk, WriteEnd

\* The same when the text has been read.
LEMMA FewAfterText ==
    ASSUME PipeInv, FewStops, cpc \in {"listen", "stop"}, ~TextWaits, Worker \/ WorkerDies
    PROVE  BeforeText' /\ AfterText'
<1>1. /\ UNCHANGED <<cpc, call, stopped>> /\ StopSent' = StopSent
      /\ Streaming /\ QueueTypes /\ WorkerTypes /\ call \in 1..MaxCalls
      /\ Len(toWorker) \in Nat /\ Len(toClient) \in Nat
  <2>1. UNCHANGED client
    BY DEF Worker, ReadCommand, Respond, Synthesize, CheckForStop, WriteChunk, WriteEnd,
           WorkerDies
  <2>2. Streaming /\ call \in 1..MaxCalls
    BY TextOrStream, WorkerNotAdrift
  <2> QED
    BY <2>1, <2>2, Kinds DEF client, StopSent
<1>2. /\ Len(toWorker) <= 1
      /\ spc = "respond" => StopSent /\ toWorker = <<>>
      /\ spc \in {"synthesize", "check", "chunk", "end"} => NoEnd(toClient)
      /\ Behind(toClient, Answers)
  BY <1>1 DEF FewStops, AfterText
<1>3. toWorker # <<>> =>
          /\ StopSent /\ Head(toWorker) = STOP
          /\ Tail(toWorker) = <<>>
  <2> HAVE toWorker # <<>>
  <2>1. /\ Len(toWorker) > 0 /\ Len(Tail(toWorker)) = Len(toWorker) - 1
        /\ Tail(toWorker) \in Seq(Commands) /\ Head(toWorker) = toWorker[1]
    BY <1>1, HeadAndTail DEF QueueTypes
  <2>2. Tail(toWorker) = <<>>
    BY <1>1, <1>2, <2>1, NothingIn
  <2> QED
    BY <1>1, <2>1, <2>2 DEF Streaming, Working, AllStop
<1>4. ASSUME toWorker' = toWorker \/ toWorker' = <<>>,
             spc' = "respond" => StopSent /\ toWorker' = <<>>,
             spc' \in {"synthesize", "check", "chunk", "end"} => NoEnd(toClient'),
             Behind(toClient', Answers')
      PROVE  BeforeText' /\ AfterText'
  <2>1. ~TextWaits' /\ Len(toWorker') <= 1
    BY <1>1, <1>2, <1>4 DEF TextWaits
  <2> QED
    BY <1>1, <1>4, <2>1 DEF BeforeText, AfterText
<1>5. CASE ReadCommand
  <2>1. toWorker # <<>> /\ toWorker' = Tail(toWorker) /\ toClient' = toClient
    BY <1>5 DEF ReadCommand
  <2>2. spc' = "respond" /\ toWorker' = <<>> /\ StopSent
    BY <1>3, <1>5, <2>1, TypesOfMessages DEF ReadCommand
  <2>3. Answers = 0 /\ Answers' = 0
    BY <2>1, <2>2 DEF Answers
  <2> QED
    BY <1>2, <1>4, <2>1, <2>2, <2>3
<1>6. CASE Respond
  <2>1. toClient' = Append(toClient, OK) /\ toWorker' = toWorker /\ spc' = "read"
        /\ spc = "respond"
    BY <1>1, <1>6 DEF Respond, Streaming, Working
  <2>2. Answers = 0 /\ Answers' = 1
    BY <1>1, <1>2, <2>1 DEF Answers
  <2>3. Behind(toClient', 1)
    BY <1>1, <1>2, <2>1, <2>2, BehindOneMore, Messages DEF QueueTypes
  <2> QED
    BY <1>4, <2>1, <2>2, <2>3
<1>7. CASE Synthesize \/ CheckForStop
  <2>1. /\ toClient' = toClient /\ NoEnd(toClient) /\ spc' \in {"check", "chunk", "end"}
        /\ \/ toWorker' = toWorker
           \/ toWorker' = Tail(toWorker) /\ toWorker # <<>>
    BY <1>2, <1>7 DEF Synthesize, CheckForStop
  <2>2. Behind(toClient', Answers')
    BY <1>1, <2>1, BehindIsAtMost DEF Answers, QueueTypes
  <2> QED
    BY <1>3, <1>4, <2>1, <2>2
<1>8. CASE WriteChunk
  <2>1. /\ toClient' = Append(toClient, AudioData(call, sent + 1)) /\ spc' = "check"
        /\ toWorker' = toWorker /\ NoEnd(toClient) /\ sent < made
    BY <1>2, <1>8, InHand DEF WriteChunk, Streaming, Working
  <2>2. sent + 1 \in 1..MaxChunks
    BY <1>1, <2>1, SessionAssumption DEF WorkerTypes, NotMade
  <2>3. NoEnd(toClient') /\ toClient' \in Seq(Responses)
    BY <1>1, <2>1, <2>2, Messages, BehindOneMore, OneMore DEF QueueTypes
  <2>4. Behind(toClient', Answers')
    BY <2>3, BehindIsAtMost DEF Answers
  <2> QED
    BY <1>4, <2>1, <2>3, <2>4
<1>9. CASE WriteEnd
  <2>1. toClient' = Append(toClient, END) /\ spc' = "read" /\ toWorker' = toWorker
    BY <1>1, <1>9, AppendIsConcat, Messages DEF WriteEnd, EndMarker, END, QueueTypes
  <2>2. Behind(toClient', 0) /\ toClient' \in Seq(Responses)
    BY <1>1, <1>2, <1>9, <2>1, BehindOneMore, OneMore, Messages DEF WriteEnd, QueueTypes
  <2>3. Behind(toClient', Answers')
    BY <2>2, BehindIsAtMost DEF Answers
  <2> QED
    BY <1>4, <2>1, <2>3
<1>10. CASE WorkerDies
  <2>1. PICK n \in 0..Len(toClient) : toClient' = SubSeq(toClient, 1, n)
    BY <1>10 DEF WorkerDies
  <2>2. toWorker' = <<>> /\ spc' = "gone"
    BY <1>10 DEF WorkerDies
  <2>3. Answers \in {0, 1} /\ Answers' = IF StopSent THEN 1 ELSE 0
    BY <1>1, <2>2 DEF Answers
  <2>4. Answers = 1 => Answers' = 1
    BY <2>3 DEF Answers
  <2>5. toClient' \in Seq(Responses) /\ Behind(toClient', Answers)
    BY <1>1, <1>2, <2>1, <2>3, TheFirst, BehindCutShort DEF QueueTypes
  <2>6. Behind(toClient', Answers')
    BY <2>3, <2>4, <2>5, BehindIsAtMost
  <2> QED
    BY <1>4, <2>2, <2>6
<1> QED
  BY <1>5, <1>6, <1>7, <1>8, <1>9, <1>10 DEF Worker

\* A call begins and a connection is made: what is left over is left as it is.
LEMMA FewWhileConnecting ==
    ASSUME PipeInv, FewStops,
           CallSpeak \/ CallEngineInfo \/ Open \/ GiveUp \/ Handshake \/ Send \/ AwaitInfo
             \/ ListenBroken
    PROVE  FewStops'
<1>1. /\ QueueTypes /\ ClientTypes /\ Connection
      /\ Len(toWorker) \in Nat /\ Len(toClient) \in Nat
  BY Kinds DEF PipeInv
<1>2. ASSUME cpc' \in {"open", "ping", "await"} PROVE FewStops'
  BY <1>2 DEF FewStops, AtMostOneStop, BeforeText, AfterText
<1>3. ASSUME cpc' \in {"idle", "send"}, Len(toWorker') + Len(toClient') = 0
      PROVE  FewStops'
  BY <1>3 DEF FewStops, AtMostOneStop, BeforeText, AfterText
<1>4. CASE CallSpeak \/ CallEngineInfo
  <2>1. cpc = "idle" /\ cpc' \in {"send", "open"} /\ UNCHANGED <<toWorker, toClient, spc>>
    BY <1>4 DEF CallSpeak, CallEngineInfo, Begin, worker
  <2> QED
    BY <2>1 DEF FewStops, AtMostOneStop, BeforeText, AfterText
<1>5. CASE Open
  BY <1>2, <1>5 DEF Open
<1>6. CASE GiveUp
  <2>1. toWorker' = <<>> /\ toClient' = <<>> /\ cpc' = "idle"
    BY <1>1, <1>6 DEF GiveUp, Fail, Connection
  <2> QED
    BY <1>3, <2>1
<1>7. CASE Handshake
  <2>1. Asked(Command("PING"), Response("PONG"))
    BY <1>7 DEF Handshake, PipeInv, AtEachPlace
  <2>2. CASE cpc' = "send" /\ toClient # <<>> /\ toClient' = Tail(toClient)
             /\ UNCHANGED <<spc, toWorker>>
    <3>1. toWorker' = <<>> /\ toClient' = <<>>
      BY <2>1, <2>2, Messages, OneMessage DEF Asked
    <3>2. Len(toWorker') + Len(toClient') = 0
      BY <3>1
    <3> QED
      BY <1>3, <2>2, <3>2
  <2> QED
    BY <1>2, <1>7, <2>2 DEF Handshake
<1>8. CASE Send
  <2>1. CASE Fail /\ Disconnect
    BY <1>3, <2>1 DEF Fail, Disconnect
  <2>2. CASE op = "speak" /\ cpc' = "listen" /\ toWorker' = Append(toWorker, Speak(call))
    <3>1. UNCHANGED <<toClient, spc, call>> /\ cpc = "send"
      BY <1>8, <2>2 DEF Send, Fail
    <3>2. Speak(call) \in Commands
      BY <1>1, <2>2, <3>1, Messages, SessionAssumption DEF ClientTypes, Connection
    <3>3. Len(toWorker') = Len(toWorker) + 1 /\ TextWaits'
      BY <1>1, <2>2, <3>1, <3>2, OneMore DEF QueueTypes, TextWaits
    <3>4. BeforeText'
      BY <1>1, <3>1, <3>3 DEF FewStops, AtMostOneStop, BeforeText
    <3> QED
      BY <2>2, <3>3, <3>4 DEF FewStops, AtMostOneStop, AfterText
  <2> QED
    BY <1>1, <1>2, <1>8, <2>1, <2>2 DEF Send, ClientTypes
<1>9. CASE AwaitInfo
  <2>1. Asked(Command("ENGINE_INFO"), Response("ENGINE_INFO"))
    BY <1>9 DEF AwaitInfo, PipeInv, AtEachPlace
  <2>2. toWorker' = <<>> /\ toClient' = <<>>
    BY <1>9, <2>1, Messages, OneMessage DEF AwaitInfo, WorkerGone, Asked
  <2> QED
    BY <1>3, <1>9, <2>2 DEF AwaitInfo
<1>10. CASE ListenBroken
  BY <1>3, <1>10 DEF ListenBroken, Fail, Disconnect
<1> QED
  BY <1>4, <1>5, <1>6, <1>7, <1>8, <1>9, <1>10

\* The client runs out of memory, or is adrift already.
LEMMA FewOutOfMemory ==
    ASSUME PipeInv, FewStops, OutOfMemory, Lost'
    PROVE  FewStops'
<1>1. CASE Adrift'
  BY <1>1, FewWhenAdrift
<1>2. CASE ~Adrift'
  <2>1. NoMemoryToAsk \/ (cpc' = "idle" /\ Disconnect)
    BY <1>2 DEF OutOfMemory, NoMemoryToHear, SendAdrift, ListenAdrift, Fail, Adrift
  <2>2. CASE NoMemoryToAsk
    <3>1. cpc \in {"open", "send"} /\ cpc' = "idle" /\ UNCHANGED <<toWorker, toClient, spc>>
      BY <2>2 DEF NoMemoryToAsk, Throw, worker
    <3>2. cpc = "open" => toWorker = <<>> /\ toClient = <<>> /\ Len(<<>>) = 0
      BY DEF PipeInv, Connection
    <3> QED
      BY <3>1, <3>2 DEF FewStops, AtMostOneStop, BeforeText, AfterText
  <2>3. CASE cpc' = "idle" /\ Disconnect
    BY <2>3 DEF Disconnect, FewStops, AtMostOneStop, BeforeText, AfterText
  <2> QED
    BY <2>1, <2>2, <2>3
<1> QED
  BY <1>1, <1>2

\* The client listens and sends its stop.
LEMMA FewWhileListening ==
    ASSUME PipeInv, FewStops, ListenAudio \/ SendStop \/ ListenOther, ~Adrift
    PROVE  FewStops'
<1>1. /\ QueueTypes /\ cpc \in {"listen", "stop"} /\ cpc' \in {"idle", "listen", "stop"}
      /\ Len(toWorker) \in Nat /\ Len(toClient) \in Nat
      /\ UNCHANGED <<call, spc>> /\ Answers \in {0, 1}
  BY Kinds DEF ListenAudio, SendStop, AfterStop, Drain, ListenOther, worker, Answers
<1>2. ~TextWaits =>
          /\ Len(toWorker) <= 1
          /\ spc = "respond" => StopSent /\ toWorker = <<>>
          /\ spc \in {"synthesize", "check", "chunk", "end"} => NoEnd(toClient)
          /\ Behind(toClient, Answers)
  BY <1>1 DEF FewStops, AfterText
<1>3. ASSUME ~TextWaits, cpc' \in {"listen", "stop"}, StopSent' = StopSent,
             toClient # <<>>, toClient' = Tail(toClient), UNCHANGED toWorker
      PROVE  FewStops'
  <2>1. ~TextWaits' /\ Answers' = Answers
    BY <1>1, <1>3 DEF TextWaits, Answers
  <2>2. Behind(toClient', Answers') /\ (NoEnd(toClient) => NoEnd(toClient'))
    BY <1>1, <1>2, <1>3, <2>1, BehindInTail DEF QueueTypes
  <2> QED
    BY <1>1, <1>2, <1>3, <2>1, <2>2 DEF FewStops, AtMostOneStop, BeforeText, AfterText
<1>4. CASE ListenAudio
  <2>1. toClient # <<>> /\ toClient' = Tail(toClient) /\ toWorker' = toWorker
        /\ Head(toClient).type = "AUDIO_DATA" /\ cpc = "listen" /\ cpc' \in {"listen", "stop"}
    BY <1>4 DEF ListenAudio
  <2>2. ~TextWaits
    BY <1>1, <2>1, TextOrStream, HeadWhilePending, TypesOfMessages
  <2>3. StopSent' = StopSent
    BY <1>4 DEF ListenAudio, PassOn, StopSent
  <2> QED
    BY <1>3, <2>1, <2>2, <2>3
<1>5. CASE SendStop
  <2>1. cpc = "stop" /\ stopped /\ stopped' = stopped /\ cpc' = "listen" /\ ~StopSent
        /\ toClient' = toClient
    BY <1>5 DEF SendStop, AfterStop, Drain, StopSent, PipeInv, AtEachPlace
  <2>2. ~TextWaits /\ toWorker = <<>>
    BY <1>1, <2>1, TextOrStream DEF Streaming, Working
  <2>3. /\ toWorker' = <<>> \/ toWorker' = <<STOP>>
        /\ Len(toWorker') <= 1 /\ ~TextWaits'
    <3>1. /\ Append(<<>>, STOP) = <<STOP>> /\ Len(<<STOP>>) = 1 /\ <<STOP>>[1] = STOP
      BY Messages, OneMessage
    <3>2. toWorker' = <<>> \/ toWorker' = <<STOP>>
      BY <1>5, <2>2, <3>1 DEF SendStop, STOP
    <3>3. STOP # Speak(call)
      BY <1>1, TextOrStream, Messages
    <3>4. Len(<<>>) = 0 /\ call' = call
      BY <1>1
    <3>5. CASE toWorker' = <<>>
      BY <3>4, <3>5 DEF TextWaits
    <3>6. CASE toWorker' = <<STOP>>
      BY <3>1, <3>3, <3>4, <3>6 DEF TextWaits
    <3> QED
      BY <3>2, <3>5, <3>6
  <2>4. spc # "respond" /\ Behind(toClient, 0)
    BY <1>2, <2>1, <2>2 DEF Answers
  <2>5. Behind(toClient', Answers')
    BY <1>1, <2>1, <2>4, BehindIsAtMost DEF Answers, QueueTypes
  <2> QED
    BY <1>1, <1>2, <2>1, <2>2, <2>3, <2>4, <2>5
       DEF FewStops, AtMostOneStop, BeforeText, AfterText
<1>6. CASE ListenOther
  <2>1. /\ cpc = "listen" /\ toClient # <<>> /\ toClient' = Tail(toClient)
        /\ toWorker' = toWorker /\ stopped' = stopped
        /\ Head(toClient) = END \/ Head(toClient) = OK
        /\ Head(toClient) = END => cpc' = "idle"
    BY <1>6, ListenOtherStep DEF ListenOther, END
  <2>2. Head(toClient) = OK => cpc' = "listen"
    <3>1. OK # Response("AUDIO_END") /\ OK # Response("ERROR")
      BY DEF OK, Response
    <3> QED
      BY <1>6, <2>1, <3>1 DEF ListenOther
  <2>3. Len(toClient) > 0 /\ Len(toClient') = Len(toClient) - 1
    BY <1>1, <2>1, HeadAndTail DEF QueueTypes
  <2>4. CASE TextWaits
    <3>1. Head(toClient) = OK /\ cpc' = "listen"
      BY <1>1, <2>1, <2>2, <2>4, TextOrStream, HeadWhilePending
    <3>2. TextWaits'
      BY <1>1, <2>1, <2>4 DEF TextWaits
    <3> QED
      BY <1>1, <2>1, <2>3, <2>4, <3>1, <3>2
         DEF FewStops, AtMostOneStop, BeforeText, AfterText
  <2>5. CASE ~TextWaits /\ Head(toClient) = END
    <3>1. Len(toClient) <= 1 + Answers
      BY <1>1, <1>2, <2>1, <2>5, BehindInTail DEF QueueTypes
    <3>2. Answers = 1 => Len(toWorker) = 0 /\ spc # "respond"
      BY DEF Answers
    <3>3. AtMostOneStop'
      BY <1>1, <1>2, <2>1, <2>3, <2>5, <3>1, <3>2 DEF AtMostOneStop
    <3> QED
      BY <2>1, <2>5, <3>3 DEF FewStops, BeforeText, AfterText
  <2>6. CASE ~TextWaits /\ Head(toClient) = OK
    <3>1. StopSent' = StopSent
      BY <2>1, <2>2, <2>6 DEF StopSent
    <3> QED
      BY <1>3, <2>1, <2>2, <2>6, <3>1
  <2> QED
    BY <2>1, <2>4, <2>5, <2>6
<1> QED
  BY <1>4, <1>5, <1>6

LEMMA FewStopsStep == PipeInv /\ FewStops /\ [Next]_vars => FewStops'
<1> SUFFICES ASSUME PipeInv, FewStops, [Next]_vars PROVE FewStops'
  OBVIOUS
<1>1. CASE Worker \/ WorkerDies
  <2>1. UNCHANGED client
    BY <1>1 DEF Worker, ReadCommand, Respond, Synthesize, CheckForStop, WriteChunk, WriteEnd,
                WorkerDies
  <2>2. cpc \notin {"listen", "stop"} => BeforeText' /\ AfterText'
    BY <2>1 DEF client, BeforeText, AfterText
  <2>3. cpc \in {"listen", "stop"} => BeforeText' /\ AfterText'
    BY <1>1, FewBeforeText, FewAfterText, TextOrStream, WorkerNotAdrift
  <2> QED
    BY <1>1, <2>2, <2>3, FewBetween DEF FewStops
<1>2. CASE UNCHANGED vars
  BY <1>2 DEF vars, client, worker, FewStops, AtMostOneStop, BeforeText, AfterText,
              TextWaits, NoEnd, Behind, Answers, StopSent
<1>3. CASE ListenAudio \/ SendStop \/ ListenOther
  <2>1. Adrift => Adrift'
    BY <1>3 DEF ListenAudio, SendStop, ListenOther, Adrift, worker
  <2> QED
    BY <1>3, <2>1, LostStep, FewWhenAdrift, FewWhileListening
<1> QED
  BY <1>1, <1>2, <1>3, LostStep, FewWhileConnecting, FewOutOfMemory DEF Next, Client

LEMMA FewStopsInvariant == Spec => [](PipeInv /\ FewStops)
<1>1. Init => FewStops
  BY DEF Init, FewStops, AtMostOneStop, BeforeText, AfterText
<1> QED
  BY <1>1, SessionStart, SessionStep, FewStopsStep, PTL DEF Spec

\* Stops that come too late do not pile up: however many calls are cancelled,
\* at most one is left on the pipe for the next operation to meet.
THEOREM StopsDoNotPileUp == Spec => []AtMostOneStop
<1>1. FewStops => AtMostOneStop
  BY DEF FewStops
<1> QED
  BY <1>1, FewStopsInvariant, PTL

\* A stop is never waited with: there is room for it whenever it is to be
\* written, however little the pipe holds.  (What is on the pipe of a session
\* adrift is not known.)
THEOREM StopNeverWaits == Spec => [](cpc = "stop" /\ ~Adrift => RoomToWorker)
<1>1. PipeInv => (cpc = "stop" /\ ~Adrift => RoomToWorker)
  <2> SUFFICES ASSUME PipeInv, cpc = "stop", ~Adrift PROVE RoomToWorker
    OBVIOUS
  <2>1. toWorker = <<>>
    BY DEF PipeInv, AtEachPlace, Streaming, Working, StopSent
  <2> QED
    BY <2>1, SessionAssumption DEF RoomToWorker
<1> QED
  BY <1>1, SessionInvariant, PTL

\* The client and a live worker are never both kept waiting, neither by a full
\* pipe nor by an empty one, be there room for a single message: one of the two
\* can always take the next step of the operation under way, as long as the
\* session is not adrift.
THEOREM NeverAStandoff == Spec => []NoStandoff
<1>1. PipeInv /\ FewStops => NoStandoff
  <2> SUFFICES ASSUME PipeInv, FewStops, ClientWaits, WorkerWaits PROVE FALSE
    BY DEF NoStandoff
  <2>1. /\ QueueTypes /\ ClientTypes /\ WorkerTypes /\ PipeRoom \in Nat \ {0}
        /\ Len(toWorker) \in Nat /\ Len(toClient) \in Nat
        /\ Len(toClient) = 0 => toClient = <<>>
        /\ Len(toWorker) = 0 => toWorker = <<>>
    BY Kinds, SessionAssumption, NothingIn DEF QueueTypes
  <2>2. toClient = <<>> => RoomToClient
    BY <2>1 DEF RoomToClient
  <2>3. toWorker = <<>> => RoomToWorker
    BY <2>1 DEF RoomToWorker
  <2>4. CASE cpc = "send"
    <3>1. toWorker # <<>> /\ spc \in {"gone", "read", "respond"}
      BY <2>3, <2>4 DEF ClientWaits, PipeInv, AtEachPlace, Clear
    <3>2. spc = "respond" /\ ~RoomToClient
      BY <3>1 DEF ClientWaits, WorkerWaits, WorkerGone
    <3> QED
      BY <2>1, <2>2, <2>4, <3>1, <3>2 DEF FewStops, AtMostOneStop
  <2>5. CASE cpc = "stop"
    BY <2>3, <2>5 DEF ClientWaits, PipeInv, AtEachPlace, Streaming, Working, StopSent
  <2>6. CASE cpc \in {"ping", "await"}
    <3>1. toClient = <<>>
      BY <2>6 DEF ClientWaits
    <3>2. \A m : <<m>> # <<>>
      OBVIOUS
    <3> QED
      BY <2>2, <2>6, <3>1, <3>2
         DEF ClientWaits, WorkerWaits, WorkerGone, PipeInv, AtEachPlace, Asked
  <2>7. CASE cpc = "listen" /\ Pending
    BY <2>2, <2>7 DEF ClientWaits, WorkerWaits, Pending
  <2>8. CASE cpc = "listen" /\ Streaming
    <3>1. PICK z, a \in 0..Len(toClient), h \in 0..MaxChunks : Progress(z, a, h)
      BY <2>8 DEF Streaming
    <3>2. Len(toClient) = 0
      BY <2>8 DEF ClientWaits
    <3>3. spc \notin {"read", "respond"}
      BY <3>1, <3>2 DEF Progress
    <3> QED
      BY <2>2, <2>8, <3>3 DEF ClientWaits, WorkerWaits
  <2> QED
    BY <2>4, <2>5, <2>6, <2>7, <2>8 DEF ClientWaits, PipeInv, AtEachPlace
<1> QED
  BY <1>1, FewStopsInvariant, PTL

=============================================================================
