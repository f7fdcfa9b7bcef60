------------------------ MODULE WorkerLaunch_proofs ------------------------
(***************************************************************************)
(* What holds of the launch for any number of hosts and workers.           *)
(*                                                                         *)
(* OneWorker: a worker past the mutex has it open.  It gets past only when *)
(* nobody has it open, clients that look at it included, and only the      *)
(* worker itself, or its end, closes its handle.                           *)
(*                                                                         *)
(* NeverStale: nobody passes the greeting of a worker of another version,  *)
(* and a worker that goes leaves its clients a broken pipe.                *)
(*                                                                         *)
(* NoSecondWorker: in a smooth behaviour the holder of the launch mutex    *)
(* stays at its last look until the worker it started has the server       *)
(* mutex, and nobody gets that open in between.                            *)
(*                                                                         *)
(* OursIsNotReplaced: a client that tells a worker to go was called for    *)
(* that, or has greeted it on the same pipe and found another version.     *)
(***************************************************************************)
EXTENDS WorkerLaunch, TLAPS

Past == {"loading", "ready", "told", "closing"}

PastHoldsMutex ==
    /\ wpc \in [Workers -> {"none", "created", "loading", "ready", "told",
                           "closing", "returning", "duplicate"}]
    /\ \A w \in Workers : wpc[w] \in Past => w \in handles

LaunchInv == PastHoldsMutex /\ OneWorker

LEMMA LaunchInit == Init => LaunchInv
<1> SUFFICES ASSUME Init PROVE LaunchInv
  OBVIOUS
<1>1. CASE wpc = [w \in Workers |-> "none"]
  BY <1>1 DEF LaunchInv, PastHoldsMutex, OneWorker, Past
<1>2. ASSUME NEW left \in Workers, handles = {left},
             wpc = [w \in Workers |-> IF w = left THEN "ready" ELSE "none"]
      PROVE  LaunchInv
  BY <1>2 DEF LaunchInv, PastHoldsMutex, OneWorker, Past
<1> QED
  BY <1>1, <1>2 DEF Init

\* A step that starts, ends or moves no worker past the mutex and closes no
\* handle of a worker keeps the invariant: whatever the clients do.
LEMMA ClientsDoNotMatter ==
    ASSUME LaunchInv,
           wpc' \in [Workers -> {"none", "created", "loading", "ready", "told",
                                 "closing", "returning", "duplicate"}],
           \A w \in Workers : wpc'[w] \in Past => wpc[w] \in Past,
           handles \cap Workers \subseteq handles'
    PROVE  LaunchInv'
BY DEF LaunchInv, PastHoldsMutex, OneWorker, Past

LEMMA LaunchStep == LaunchInv /\ [Next]_vars => LaunchInv'
<1> SUFFICES ASSUME LaunchInv, [Next]_vars PROVE LaunchInv'
  OBVIOUS
<1> USE LaunchAssumption
<1>1. ASSUME NEW c \in Clients,
             \/ Begin(c) \/ BeginShutdown(c) \/ Open(c) \/ OpenBusy(c)
             \/ OpenNotFound(c) \/ GiveUp(c) \/ Handshake(c) \/ ProbeAbsent(c)
             \/ TakeLaunchMutex(c) \/ ReleaseLaunchMutex(c) \/ Disconnect(c)
      PROVE  LaunchInv'
  <2>1. wpc' = wpc /\ handles' = handles
    BY <1>1 DEF Begin, BeginShutdown, Open, OpenBusy, OpenNotFound, GiveUp, Handshake,
                ProbeAbsent, TakeLaunchMutex, ReleaseLaunchMutex, Disconnect, workerVars
  <2> QED
    BY <2>1, ClientsDoNotMatter DEF LaunchInv, PastHoldsMutex
<1>2. ASSUME NEW c \in Clients, ProbePresent(c) \/ ProbeClose(c) \/ HostDies(c)
      PROVE  LaunchInv'
  <2>1. wpc' = wpc /\ handles \ {c} \subseteq handles'
    BY <1>2 DEF ProbePresent, ProbeClose, HostDies, workerVars
  <2> QED
    BY <2>1, ClientsDoNotMatter DEF LaunchInv, PastHoldsMutex
<1>3. ASSUME NEW c \in Clients, TellShutdown(c) PROVE LaunchInv'
  <2>1. /\ handles' = handles
        /\ wpc' = [w \in Workers |-> IF w \in Addressee(c) THEN "told" ELSE wpc[w]]
    BY <1>3 DEF TellShutdown
  <2>2. \A w \in Workers : w \in Addressee(c) => wpc[w] \in Past
    BY DEF Addressee, Listening, Listens, Past
  <2> QED
    BY <2>1, <2>2, ClientsDoNotMatter DEF LaunchInv, PastHoldsMutex
<1>4. ASSUME NEW c \in Clients, CreateWorker(c) PROVE LaunchInv'
  <2>1. handles' = handles
    BY <1>4 DEF CreateWorker
  <2>2. \/ wpc' = wpc
        \/ \E w \in Workers : wpc' = [wpc EXCEPT ![w] = "created"]
    BY <1>4 DEF CreateWorker
  <2> QED
    BY <2>1, <2>2, ClientsDoNotMatter DEF LaunchInv, PastHoldsMutex, Past
<1>5. ASSUME NEW w \in Workers, CreateServerMutex(w) PROVE LaunchInv'
  <2> USE <1>5 DEF CreateServerMutex, WorkerGoto
  <2>1. CASE handles = {}
    <3>1. \A v \in Workers : wpc[v] \notin Past
      BY <2>1 DEF LaunchInv, PastHoldsMutex
    <3> QED
      BY <3>1 DEF LaunchInv, PastHoldsMutex, OneWorker, Past
  <2>2. CASE handles # {}
    <3>1. wpc' = [wpc EXCEPT ![w] = "duplicate"] /\ handles' = handles \cup {w}
      BY <2>2 DEF MutexIsNew
    <3> QED
      BY <3>1, ClientsDoNotMatter DEF LaunchInv, PastHoldsMutex, Past
  <2> QED
    BY <2>1, <2>2
<1>6. ASSUME NEW w \in Workers, Load(w) \/ LeaveLoop(w) PROVE LaunchInv'
  <2>1. /\ wpc[w] \in Past
        /\ \E point \in Past : wpc' = [wpc EXCEPT ![w] = point]
        /\ handles' = handles
    BY <1>6 DEF Load, LeaveLoop, WorkerGoto, Past
  <2> QED
    BY <2>1, ClientsDoNotMatter DEF LaunchInv, PastHoldsMutex, Past
<1>7. ASSUME NEW w \in Workers, LetGo(w) \/ ProcessEnds(w) \/ WorkerDies(w)
      PROVE  LaunchInv'
  <2>1. /\ \E point \in {"returning", "none"} : wpc' = [wpc EXCEPT ![w] = point]
        /\ handles' = handles \ {w}
    BY <1>7 DEF LetGo, ProcessEnds, WorkerDies, Vanish, WorkerGoto
  <2> QED
    BY <2>1 DEF LaunchInv, PastHoldsMutex, OneWorker, Past
<1>8. ASSUME UNCHANGED vars PROVE LaunchInv'
  BY <1>8, ClientsDoNotMatter DEF vars, workerVars, LaunchInv, PastHoldsMutex
<1> QED
  BY <1>1, <1>2, <1>3, <1>4, <1>5, <1>6, <1>7, <1>8
  DEF Next, Connecting, Working

\* "One worker per machine" (wmain): at most one worker process is past the
\* server mutex, however many are started and however they end.
THEOREM OneWorkerPerMachine == Spec => []OneWorker
<1>1. LaunchInv => OneWorker
  BY DEF LaunchInv
<1> QED
  BY LaunchInit, LaunchStep, <1>1, PTL DEF Spec

-----------------------------------------------------------------------------
(* The clients.  A client only counts its attempts while it is opening the *)
(* pipe or launching, and has a pipe of some worker when it greets it.     *)

ClientRecords ==
    [pc : Points, site : Sites, replacing : BOOLEAN,
     purpose : {"speak", "shutdown"}, attempt : 0..MaxAttempts,
     peer : Workers \cup {NoWorker, Broken}]

Sound(r) ==
    /\ r \in ClientRecords
    /\ r.site = "leaving" => r.pc \in {"probe", "close"}
    /\ r.pc # "open" /\ r.site # "leaving" => r.attempt < MaxAttempts
    /\ r.pc \in {"ping", "connected"} => r.peer # NoWorker

Current(r) == r.pc = "connected" /\ r.peer \in Workers => kind[r.peer] = "ours"

WorkersOK ==
    /\ smooth \in BOOLEAN
    /\ launchMutex \in Clients \cup {NoClient}
    /\ wpc \in [Workers -> {"none", "created", "loading", "ready", "told",
                           "closing", "returning", "duplicate"}]
    /\ kind \in [Workers -> {"ours", "stale", "elevated"}]
    /\ handles \subseteq Clients \cup Workers

ClientInv ==
    /\ WorkersOK
    /\ client \in [Clients -> ClientRecords]
    /\ \A c \in Clients : Sound(client[c]) /\ Current(client[c])

LEMMA QuietSound ==
    ASSUME NEW point \in {"idle", "failed", "connected"},
           NEW pipe \in Workers \cup {NoWorker, Broken},
           point = "connected" => pipe # NoWorker
    PROVE  /\ Sound(Quiet(point, pipe))
           /\ Quiet(point, pipe).pc = point /\ Quiet(point, pipe).peer = pipe
<1>1. 0 \in 0..MaxAttempts /\ 0 < MaxAttempts
  BY LaunchAssumption
<1> QED
  BY <1>1 DEF Quiet, Sound, ClientRecords, Points, Launching, Sites

LEMMA AsksSound ==
    ASSUME NEW r \in ClientRecords, NEW where \in Sites,
           where # "leaving" => r.attempt < MaxAttempts
    PROVE  Sound(Asks(r, where)) /\ Asks(r, where).pc = "probe"
BY DEF Asks, Sound, ClientRecords, Points, Launching, Sites

\* Fails, TriesAgain and NotLaunched leave a client sound.
LEMMA FailsSound ==
    ASSUME NEW r, Sound(r)
    PROVE  Sound(Fails(r)) /\ Fails(r).pc \in {"failed", "probe"}
<1>1. CASE r.purpose = "speak"
  BY <1>1, QuietSound DEF Fails, Sound, ClientRecords
<1>2. CASE r.purpose # "speak"
  BY <1>2, LaunchAssumption DEF Fails, Asks, Sound, ClientRecords, Points, Launching, Sites
<1> QED
  BY <1>1, <1>2

LEMMA TriesAgainSound ==
    ASSUME NEW r, Sound(r), r.attempt < MaxAttempts
    PROVE  Sound(TriesAgain(r)) /\ TriesAgain(r).pc = "open"
<1>1. r.attempt + 1 \in 0..MaxAttempts
  BY LaunchAssumption DEF Sound, ClientRecords
<1> QED
  BY <1>1 DEF TriesAgain, Sound, ClientRecords, Points, Launching, Sites

LEMMA NotLaunchedSound ==
    ASSUME NEW r, Sound(r), r.attempt < MaxAttempts
    PROVE  Sound(NotLaunched(r)) /\ NotLaunched(r).pc # "connected"
BY FailsSound, TriesAgainSound DEF NotLaunched

\* What is to be shown of a step of one client that leaves the kinds alone.
LEMMA OneClientMoves ==
    ASSUME ClientInv, NEW c \in Clients, NEW r,
           Become(c, r), Sound(r), Current(r), WorkersOK', kind' = kind
    PROVE  ClientInv'
<1>1. r \in ClientRecords
  BY DEF Sound
<1>2. client' \in [Clients -> ClientRecords]
  BY <1>1 DEF Become, ClientInv
<1>3. ASSUME NEW d \in Clients PROVE Sound(client'[d]) /\ Current(client'[d])
  BY DEF Become, ClientInv
<1>4. \A d \in Clients : Current(client'[d]) => Current(client[d])'
  BY DEF Current
<1>5. \A d \in Clients : Sound(client[d])'
  BY <1>3 DEF Sound
<1> QED
  BY <1>2, <1>3, <1>4, <1>5 DEF ClientInv

LEMMA ClientInit == Init => ClientInv
<1> SUFFICES ASSUME Init PROVE ClientInv
  OBVIOUS
<1>1. \A c \in Clients : client[c] = Quiet("idle", NoWorker)
  BY DEF Init
<1>2. Sound(Quiet("idle", NoWorker)) /\ Quiet("idle", NoWorker).pc = "idle"
  BY QuietSound
<1>3. client \in [Clients -> ClientRecords]
  BY <1>1, <1>2 DEF Init, Sound
<1>4. WorkersOK
  BY DEF Init, WorkersOK
<1> QED
  BY <1>1, <1>2, <1>3, <1>4 DEF ClientInv, Current

\* A client that goes on to another point without a pipe being at stake.
LEMMA GoesSound ==
    ASSUME NEW r, Sound(r), NEW point \in Points, r.site # "leaving",
           point # "open" => r.attempt < MaxAttempts,
           point \in {"ping", "connected"} => FALSE
    PROVE  Sound(Goes(r, point)) /\ Current(Goes(r, point))
<1>1. Goes(r, point).pc = point
  BY DEF Goes, Sound, ClientRecords
<1> QED
  BY <1>1 DEF Goes, Sound, Current, ClientRecords

LEMMA OpeningStep ==
    ASSUME ClientInv, NEW c \in Clients,
           \/ Begin(c) \/ BeginShutdown(c) \/ Open(c) \/ OpenBusy(c)
           \/ OpenNotFound(c) \/ GiveUp(c) \/ Disconnect(c)
    PROVE  ClientInv'
<1> DEFINE r == client[c]
<1>1. Sound(r) /\ r \in ClientRecords /\ Current(r)
  BY DEF ClientInv
<1>2. WorkersOK' /\ kind' = kind
  BY DEF ClientInv, WorkersOK, Begin, BeginShutdown, Open, OpenBusy, OpenNotFound, GiveUp,
         Disconnect, workerVars
<1>3. r.attempt \in Nat /\ MaxAttempts \in Nat \ {0}
  BY <1>1, LaunchAssumption DEF ClientRecords
<1>4. CASE Begin(c)
  <2>1. Become(c, Goes(r, "open"))
    BY <1>4 DEF Begin
  <2>2. Sound(Goes(r, "open")) /\ Current(Goes(r, "open"))
    BY <1>1, <1>4, GoesSound DEF Begin, At, Sound, Points
  <2> QED
    BY <1>2, <2>1, <2>2, OneClientMoves
<1>5. CASE BeginShutdown(c)
  <2> DEFINE s == [Asks(r, "asked") EXCEPT !.purpose = "shutdown"]
  <2>1. Become(c, s) /\ r.attempt < MaxAttempts
    BY <1>1, <1>5 DEF BeginShutdown, At, Sound
  <2>2. Sound(Asks(r, "asked")) /\ Asks(r, "asked").pc = "probe"
    BY <1>1, <2>1, AsksSound DEF Sites
  <2>3. Sound(s) /\ Current(s)
    BY <2>2 DEF Sound, Current, ClientRecords
  <2> QED
    BY <1>2, <2>1, <2>3, OneClientMoves
<1>6. CASE Open(c)
  <2>1. PICK w \in Workers :
            Become(c, IF kind[w] = "elevated" THEN Fails(r)
                      ELSE [r EXCEPT !.pc = "ping", !.peer = w])
    BY <1>6 DEF Open
  <2>2. Sound(Fails(r)) /\ Current(Fails(r))
    BY <1>1, FailsSound DEF Current
  <2>3. r.attempt < MaxAttempts /\ r.site # "leaving"
    BY <1>1, <1>6 DEF Open, AttemptLeft, At, Sound
  <2>4. /\ Sound([r EXCEPT !.pc = "ping", !.peer = w])
        /\ Current([r EXCEPT !.pc = "ping", !.peer = w])
    BY <1>1, <2>3, LaunchAssumption DEF Sound, Current, ClientRecords, Points
  <2> QED
    BY <1>2, <2>1, <2>2, <2>4, OneClientMoves
<1>7. CASE OpenBusy(c) \/ OpenNotFound(c)
  <2>1. r.attempt < MaxAttempts
    BY <1>7 DEF OpenBusy, OpenNotFound, AttemptLeft
  <2>2. Become(c, TriesAgain(r)) \/ Become(c, Asks(r, "first"))
    BY <1>7 DEF OpenBusy, OpenNotFound
  <2>3. Sound(TriesAgain(r)) /\ Current(TriesAgain(r))
    BY <1>1, <2>1, TriesAgainSound DEF Current
  <2>4. Sound(Asks(r, "first")) /\ Current(Asks(r, "first"))
    BY <1>1, <2>1, AsksSound DEF Current, Sites
  <2> QED
    BY <1>2, <2>2, <2>3, <2>4, OneClientMoves
<1>8. CASE GiveUp(c)
  <2>1. Become(c, Fails(r))
    BY <1>8 DEF GiveUp
  <2>2. Sound(Fails(r)) /\ Current(Fails(r))
    BY <1>1, FailsSound DEF Current
  <2> QED
    BY <1>2, <2>1, <2>2, OneClientMoves
<1>9. CASE Disconnect(c)
  <2>1. Become(c, Quiet("idle", NoWorker))
    BY <1>9 DEF Disconnect
  <2>2. Sound(Quiet("idle", NoWorker)) /\ Current(Quiet("idle", NoWorker))
    BY QuietSound DEF Current
  <2> QED
    BY <1>2, <2>1, <2>2, OneClientMoves
<1> QED
  BY <1>4, <1>5, <1>6, <1>7, <1>8, <1>9

\* The greeting lets nobody through to a worker of another version.
LEMMA GreetingStep ==
    ASSUME ClientInv, NEW c \in Clients, Handshake(c) \/ TellShutdown(c)
    PROVE  ClientInv'
<1> DEFINE r == client[c]
<1>1. Sound(r) /\ r \in ClientRecords
  BY DEF ClientInv
<1>2. CASE Handshake(c)
  <2>1. WorkersOK' /\ kind' = kind
    BY <1>2 DEF ClientInv, WorkersOK, Handshake, workerVars
  <2>2. r.pc = "ping" /\ r.site # "leaving" /\ r.attempt < MaxAttempts /\ r.peer # NoWorker
    BY <1>1, <1>2 DEF Handshake, At, Sound
  <2>3. CASE Become(c, [r EXCEPT !.pc = "tell", !.replacing = TRUE])
    <3>1. /\ Sound([r EXCEPT !.pc = "tell", !.replacing = TRUE])
          /\ Current([r EXCEPT !.pc = "tell", !.replacing = TRUE])
      BY <1>1, <2>2 DEF Sound, Current, ClientRecords, Points
    <3> QED
      BY <2>1, <2>3, <3>1, OneClientMoves
  <2>4. CASE Become(c, Goes(r, "tell"))
    <3>1. Sound(Goes(r, "tell")) /\ Current(Goes(r, "tell"))
      BY <1>1, <2>2, GoesSound DEF Points
    <3> QED
      BY <2>1, <2>4, <3>1, OneClientMoves
  <2>5. CASE Welcome(r) /\ Become(c, Quiet("connected", r.peer))
    <3>1. r.peer \in Workers \cup {NoWorker, Broken} /\ kind[r.peer] = "ours"
      BY <1>1, <2>5 DEF Welcome, OurVersion, ClientRecords
    <3>2. Sound(Quiet("connected", r.peer)) /\ Quiet("connected", r.peer).peer = r.peer
      BY <2>2, <3>1, QuietSound
    <3>3. Current(Quiet("connected", r.peer))
      BY <3>1, <3>2 DEF Current
    <3> QED
      BY <2>1, <2>5, <3>2, <3>3, OneClientMoves
  <2> QED
    BY <1>2, <2>3, <2>4, <2>5 DEF Handshake
<1>3. CASE TellShutdown(c)
  <2> DEFINE where == IF r.replacing THEN "drain" ELSE "leaving"
             s == [Asks(r, where) EXCEPT !.peer = NoWorker]
  <2>1. Become(c, s) /\ kind' = kind /\ r.pc = "tell"
    BY <1>3 DEF TellShutdown, At
  <2>2. WorkersOK'
    BY <1>3 DEF ClientInv, WorkersOK, TellShutdown
  <2>3. Sound(Asks(r, where)) /\ Asks(r, where).pc = "probe"
    BY <1>1, <2>1, AsksSound DEF Sound, Sites
  <2>4. Sound(s) /\ Current(s)
    BY <2>3 DEF Sound, Current, ClientRecords
  <2> QED
    BY <2>1, <2>2, <2>4, OneClientMoves
<1> QED
  BY <1>2, <1>3

LEMMA ProbingStep ==
    ASSUME ClientInv, NEW c \in Clients,
           ProbeAbsent(c) \/ ProbePresent(c) \/ ProbeClose(c)
    PROVE  ClientInv'
<1> DEFINE r == client[c]
<1>1. Sound(r) /\ r \in ClientRecords /\ r.pc \in {"probe", "close"}
  BY DEF ClientInv, ProbeAbsent, ProbePresent, ProbeClose, At
<1>2. kind' = kind /\ WorkersOK'
  BY DEF ClientInv, WorkersOK, ProbeAbsent, ProbePresent, ProbeClose, workerVars
<1>3. r.site # "leaving" => r.attempt < MaxAttempts
  BY <1>1 DEF Sound
<1>4. ASSUME NEW where \in Sites, r.site = "leaving" => where = "leaving"
      PROVE  Sound(Asks(r, where)) /\ Current(Asks(r, where))
  BY <1>1, <1>3, <1>4, AsksSound DEF Current
<1>5. Sound(Quiet("idle", r.peer)) /\ Current(Quiet("idle", r.peer))
  BY <1>1, QuietSound DEF Current, ClientRecords
<1>6. ASSUME NEW point \in Points \ {"ping", "connected"}, r.site # "leaving"
      PROVE  Sound(Goes(r, point)) /\ Current(Goes(r, point))
  BY <1>1, <1>3, <1>6, GoesSound
<1>7. r.site # "leaving" => Sound(TriesAgain(r)) /\ Current(TriesAgain(r))
  BY <1>1, <1>3, TriesAgainSound DEF Current
<1>8. CASE ProbeAbsent(c)
  <2>1. \/ r.site # "leaving" /\ \E point \in {"take", "create", "release"} :
                                    Become(c, Goes(r, point))
        \/ r.site # "leaving" /\ Become(c, Asks(r, "first"))
        \/ Become(c, Quiet("idle", r.peer))
    BY <1>8 DEF ProbeAbsent
  <2> QED
    BY <1>2, <1>4, <1>5, <1>6, <2>1, OneClientMoves DEF Points, Launching, Sites
<1>9. CASE ProbePresent(c)
  <2>1. Become(c, Goes(r, "close"))
    BY <1>9 DEF ProbePresent
  <2>2. Sound(Goes(r, "close")) /\ Current(Goes(r, "close"))
    BY <1>1, <1>3 DEF Sound, Current, Goes, ClientRecords, Points, Launching
  <2> QED
    BY <1>2, <2>1, <2>2, OneClientMoves
<1>10. CASE ProbeClose(c)
  <2>1. \/ r.site # "leaving" /\ Become(c, TriesAgain(r))
        \/ r.site # "leaving" /\ \E point \in {"release", "open", "tell"} :
                                    Become(c, Goes(r, point))
        \/ r.site # "leaving" /\ \E where \in {"first", "drain"} :
                                    Become(c, Asks(r, where))
        \/ Become(c, Quiet("idle", r.peer))
        \/ Become(c, Asks(r, "leaving"))
    BY <1>10 DEF ProbeClose
  <2> QED
    BY <1>2, <1>4, <1>5, <1>6, <1>7, <2>1, OneClientMoves DEF Points, Launching, Sites
<1> QED
  BY <1>8, <1>9, <1>10

LEMMA LaunchingStep ==
    ASSUME ClientInv, NEW c \in Clients,
           TakeLaunchMutex(c) \/ CreateWorker(c) \/ ReleaseLaunchMutex(c)
    PROVE  ClientInv'
<1> DEFINE r == client[c]
           t == [r EXCEPT !.pc = "probe", !.site = "second"]
<1>1. Sound(r) /\ r \in ClientRecords /\ r.pc \in {"take", "create", "release"}
  BY DEF ClientInv, TakeLaunchMutex, CreateWorker, ReleaseLaunchMutex, At
<1>2. r.attempt < MaxAttempts
  BY <1>1 DEF Sound
<1>3. kind' = kind /\ WorkersOK'
  <2>1. kind' = kind /\ smooth' = smooth /\ handles' = handles
    BY DEF TakeLaunchMutex, CreateWorker, ReleaseLaunchMutex, workerVars
  <2>2. launchMutex' \in {launchMutex, c, NoClient}
    BY DEF TakeLaunchMutex, CreateWorker, ReleaseLaunchMutex
  <2>3. wpc' = wpc \/ \E w \in Workers : wpc' = [wpc EXCEPT ![w] = "created"]
    BY DEF TakeLaunchMutex, CreateWorker, ReleaseLaunchMutex, workerVars
  <2> QED
    BY <2>1, <2>2, <2>3 DEF ClientInv, WorkersOK
<1>4. \/ Become(c, t) \/ Become(c, NotLaunched(r)) \/ Become(c, TriesAgain(r))
      \/ Become(c, Asks(r, "started"))
  BY DEF TakeLaunchMutex, CreateWorker, ReleaseLaunchMutex, SecondCheck
<1>5. Sound(t) /\ Current(t)
  BY <1>1, <1>2 DEF Sound, Current, ClientRecords, Points, Launching, Sites
<1>6. Sound(NotLaunched(r)) /\ Current(NotLaunched(r))
  BY <1>1, <1>2, NotLaunchedSound DEF Current
<1>7. Sound(TriesAgain(r)) /\ Current(TriesAgain(r))
  BY <1>1, <1>2, TriesAgainSound DEF Current
<1>8. Sound(Asks(r, "started")) /\ Current(Asks(r, "started"))
  BY <1>1, <1>2, AsksSound DEF Current, Sites
<1> QED
  BY <1>3, <1>4, <1>5, <1>6, <1>7, <1>8, OneClientMoves

LEMMA HostDiesStep ==
    ASSUME ClientInv, NEW c \in Clients, HostDies(c)
    PROVE  ClientInv'
<1>1. Become(c, Quiet("idle", NoWorker)) /\ kind' = kind /\ WorkersOK'
  BY DEF ClientInv, WorkersOK, HostDies, workerVars
<1>2. Sound(Quiet("idle", NoWorker)) /\ Current(Quiet("idle", NoWorker))
  BY QuietSound DEF Current
<1> QED
  BY <1>1, <1>2, OneClientMoves

LEMMA WorkersStep ==
    ASSUME ClientInv, NEW w \in Workers, Working(w) \/ WorkerDies(w)
    PROVE  ClientInv'
<1>1. CASE CreateServerMutex(w) \/ Load(w) \/ LeaveLoop(w) \/ LetGo(w)
  <2>1. client' = client /\ kind' = kind /\ smooth' = smooth /\ launchMutex' = launchMutex
    BY <1>1 DEF CreateServerMutex, Load, LeaveLoop, LetGo
  <2>2. \E point \in {"loading", "duplicate", "ready", "closing", "returning"} :
           wpc' = [wpc EXCEPT ![w] = point]
    BY <1>1 DEF CreateServerMutex, Load, LeaveLoop, LetGo, WorkerGoto
  <2>3. handles' \subseteq handles \cup {w}
    BY <1>1 DEF CreateServerMutex, Load, LeaveLoop, LetGo
  <2>4. WorkersOK'
    BY <2>1, <2>2, <2>3 DEF ClientInv, WorkersOK
  <2> QED
    BY <2>1, <2>4 DEF ClientInv, Sound, Current
<1>2. CASE Vanish(w)
  <2>1. WorkersOK'
    BY <1>2 DEF ClientInv, WorkersOK, Vanish, WorkerGoto
  <2>2. ASSUME NEW c \in Clients
        PROVE  /\ client'[c] \in ClientRecords /\ Sound(client'[c])
               /\ client'[c].pc = client[c].pc
               /\ client'[c].peer \in Workers =>
                     client'[c].peer = client[c].peer /\ client[c].peer # w
    <3>1. Sound(client[c]) /\ client[c] \in ClientRecords
      BY DEF ClientInv
    <3>2. CASE client[c].peer = w
      <4>1. client'[c] = [client[c] EXCEPT !.peer = Broken]
        BY <1>2, <3>2 DEF Vanish
      <4> QED
        BY <3>1, <4>1, LaunchAssumption DEF Sound, ClientRecords
    <3>3. CASE client[c].peer # w
      BY <1>2, <3>1, <3>3 DEF Vanish
    <3> QED
      BY <3>2, <3>3
  <2>3. client' \in [Clients -> ClientRecords]
    BY <1>2, <2>2 DEF Vanish
  <2>4. \A v \in Workers \ {w} : kind'[v] = kind[v]
    BY <1>2 DEF Vanish, ClientInv, WorkersOK
  <2>5. \A c \in Clients : Current(client[c])'
    BY <2>2, <2>4 DEF ClientInv, Current
  <2>6. \A c \in Clients : Sound(client[c])'
    BY <2>2 DEF Sound
  <2> QED
    BY <2>1, <2>3, <2>5, <2>6 DEF ClientInv
<1> QED
  BY <1>1, <1>2 DEF Working, ProcessEnds, WorkerDies

LEMMA ClientStep == ClientInv /\ [Next]_vars => ClientInv'
<1> SUFFICES ASSUME ClientInv, [Next]_vars PROVE ClientInv'
  OBVIOUS
<1>1. CASE Next
  BY <1>1, OpeningStep, GreetingStep, ProbingStep, LaunchingStep, HostDiesStep, WorkersStep
     DEF Next, Connecting
<1>2. CASE UNCHANGED vars
  BY <1>2 DEF vars, workerVars, ClientInv, WorkersOK, Sound, Current
<1> QED
  BY <1>1, <1>2

\* Every variable keeps its range; the attempts of a client never pass the
\* limit, through whichever of the launching paths it comes back.
THEOREM LaunchTypeOK == Spec => []TypeOK
<1>1. ClientInv => TypeOK
  BY DEF ClientInv, WorkersOK, TypeOK, ClientRecords
<1> QED
  BY ClientInit, ClientStep, <1>1, PTL DEF Spec

\* "A worker built against a different wire format must not be talked to":
\* nobody is connected to a worker that is not of its own version, though
\* workers of any version come, answer and go in between.
THEOREM StaleIsNeverUsed == Spec => []NeverStale
<1>1. ClientInv => NeverStale
  <2> SUFFICES ASSUME ClientInv, NEW c \in Clients, At(c, "connected"),
                      client[c].peer # Broken
               PROVE  kind[client[c].peer] = "ours"
    BY DEF NeverStale
  <2>1. Sound(client[c]) /\ Current(client[c])
    BY DEF ClientInv
  <2>2. client[c].peer \in Workers
    BY <2>1 DEF At, Sound, ClientRecords
  <2> QED
    BY <2>1, <2>2 DEF Current, At
<1> QED
  BY ClientInit, ClientStep, <1>1, PTL DEF Spec

-----------------------------------------------------------------------------
(* Smooth behaviours. *)

HoldsLaunch(r) ==
    r.pc \in {"create", "release"} \/
    (r.pc \in {"probe", "close"} /\ r.site \in {"second", "started"})

AtLastLook(r) == r.pc = "probe" /\ r.site = "started"

LaunchesOne ==
    /\ \A c \in Clients : HoldsLaunch(client[c]) => launchMutex = c
    /\ \A c \in Clients : client[c].pc = "create" => handles = {}
    /\ \A w \in Workers : wpc[w] = "created" =>
          handles = {} /\ \E c \in Clients : AtLastLook(client[c])
    /\ \A v, w \in Workers : wpc[v] = "created" /\ wpc[w] = "created" => v = w
    /\ \A w \in Workers : wpc[w] # "duplicate"

SmoothInv == ClientInv /\ (smooth => LaunchesOne)

LEMMA SmoothStart == Init => SmoothInv
<1> SUFFICES ASSUME Init PROVE SmoothInv
  OBVIOUS
<1>1. \A c \in Clients : client[c].pc = "idle"
  BY DEF Init, Quiet
<1>2. \A w \in Workers : wpc[w] \in {"none", "ready"}
  BY DEF Init
<1>3. LaunchesOne
  BY <1>1, <1>2 DEF LaunchesOne, HoldsLaunch
<1> QED
  BY <1>3, ClientInit DEF SmoothInv

\* A step of a client that does not hold the launch mutex, starts no worker
\* and opens no handle.
LEMMA OutsideLaunch ==
    ASSUME ClientInv, LaunchesOne, NEW c \in Clients, NEW r,
           Become(c, r), ~HoldsLaunch(client[c]), ~HoldsLaunch(r),
           launchMutex' = launchMutex, handles' \subseteq handles,
           \A w \in Workers : wpc'[w] \in {"created", "duplicate"} => wpc'[w] = wpc[w]
    PROVE  LaunchesOne'
<1>1. client'[c] = r /\ \A d \in Clients \ {c} : client'[d] = client[d]
  BY DEF Become, ClientInv
<1>2. \A d \in Clients : HoldsLaunch(client'[d]) => client'[d] = client[d]
  BY <1>1
<1>3. \A d \in Clients : AtLastLook(client[d]) => client'[d] = client[d]
  BY <1>1 DEF AtLastLook, HoldsLaunch
<1>4. handles = {} => handles' = {}
  OBVIOUS
<1>5. \A d \in Clients : client'[d].pc = "create" => client'[d] = client[d]
  BY <1>2 DEF HoldsLaunch
<1> QED
  BY <1>2, <1>3, <1>4, <1>5 DEF LaunchesOne, HoldsLaunch, AtLastLook

\* Where the operators that move a client take it.
LEMMA WhereItGoes ==
    ASSUME NEW r \in ClientRecords, NEW point, NEW where
    PROVE  /\ Goes(r, point).pc = point /\ Goes(r, point).site = r.site
           /\ Asks(r, where).pc = "probe" /\ Asks(r, where).site = where
           /\ TriesAgain(r).pc = "open"
           /\ ~HoldsLaunch(Fails(r)) /\ ~HoldsLaunch(TriesAgain(r))
<1>1. /\ Goes(r, point).pc = point /\ Goes(r, point).site = r.site
      /\ Asks(r, where).pc = "probe" /\ Asks(r, where).site = where
      /\ TriesAgain(r).pc = "open"
  BY DEF Goes, Asks, TriesAgain, ClientRecords
<1>2. ~HoldsLaunch(Fails(r))
  <2>1. CASE r.purpose = "speak"
    BY <2>1 DEF Fails, Quiet, HoldsLaunch
  <2>2. CASE r.purpose # "speak"
    <3>1. Fails(r).pc = "probe" /\ Fails(r).site = "leaving"
      BY <2>2 DEF Fails, Asks, ClientRecords
    <3> QED
      BY <3>1 DEF HoldsLaunch
  <2> QED
    BY <2>1, <2>2
<1> QED
  BY <1>1, <1>2 DEF HoldsLaunch

\* Opening, greeting and hanging up have nothing to do with the launch.
LEMMA SmoothOpening ==
    ASSUME ClientInv, LaunchesOne, NEW c \in Clients,
           \/ Begin(c) \/ Open(c) \/ OpenBusy(c) \/ OpenNotFound(c) \/ GiveUp(c)
           \/ Handshake(c) \/ TellShutdown(c) \/ Disconnect(c)
    PROVE  LaunchesOne'
<1> DEFINE r == client[c]
<1>1. r \in ClientRecords
  BY DEF ClientInv
<1>2. ~HoldsLaunch(r)
  BY DEF Begin, Open, OpenBusy, OpenNotFound, GiveUp, Handshake, TellShutdown,
         Disconnect, At, HoldsLaunch
<1>3. /\ launchMutex' = launchMutex /\ handles' = handles
      /\ \A w \in Workers : wpc'[w] \in {"created", "duplicate"} => wpc'[w] = wpc[w]
  BY DEF Begin, Open, OpenBusy, OpenNotFound, GiveUp, Handshake, TellShutdown,
         Disconnect, workerVars
<1>4. PICK s : Become(c, s) /\ ~HoldsLaunch(s)
  <2>1. CASE Begin(c)
    BY <1>1, <2>1, WhereItGoes DEF Begin, HoldsLaunch
  <2>2. CASE Open(c)
    <3>1. PICK w \in Workers :
              Become(c, IF kind[w] = "elevated" THEN Fails(r)
                        ELSE [r EXCEPT !.pc = "ping", !.peer = w])
      BY <2>2 DEF Open
    <3>2. ~HoldsLaunch([r EXCEPT !.pc = "ping", !.peer = w])
      BY <1>1 DEF HoldsLaunch, ClientRecords
    <3> QED
      BY <1>1, <3>1, <3>2, WhereItGoes
  <2>3. CASE OpenBusy(c) \/ OpenNotFound(c) \/ GiveUp(c)
    <3>1. ~HoldsLaunch(Asks(r, "first"))
      BY <1>1, WhereItGoes DEF HoldsLaunch
    <3> QED
      BY <1>1, <2>3, <3>1, WhereItGoes DEF OpenBusy, OpenNotFound, GiveUp
  <2>4. CASE Handshake(c)
    <3>1. /\ ~HoldsLaunch([r EXCEPT !.pc = "tell", !.replacing = TRUE])
          /\ ~HoldsLaunch(Quiet("connected", r.peer))
          /\ ~HoldsLaunch(Goes(r, "tell"))
      BY <1>1 DEF HoldsLaunch, ClientRecords, Quiet, Goes
    <3> QED
      BY <2>4, <3>1 DEF Handshake
  <2>5. CASE TellShutdown(c)
    <3> DEFINE where == IF r.replacing THEN "drain" ELSE "leaving"
               s == [Asks(r, where) EXCEPT !.peer = NoWorker]
    <3>1. s.pc = "probe" /\ s.site = where
      BY <1>1 DEF Asks, ClientRecords
    <3>2. ~HoldsLaunch(s)
      BY <3>1 DEF HoldsLaunch
    <3> QED
      BY <2>5, <3>2 DEF TellShutdown
  <2>6. CASE Disconnect(c)
    BY <2>6 DEF Disconnect, Quiet, HoldsLaunch
  <2> QED
    BY <2>1, <2>2, <2>3, <2>4, <2>5, <2>6
<1> QED
  BY <1>2, <1>3, <1>4, OutsideLaunch

\* What a smooth step has of the invariant: the holder of the launch mutex is
\* the only client in the launch, and a created worker has it looking.
LEMMA OneLauncher ==
    ASSUME LaunchesOne, NEW c \in Clients, HoldsLaunch(client[c])
    PROVE  /\ launchMutex = c
           /\ \A d \in Clients \ {c} : ~HoldsLaunch(client[d])
           /\ \A w \in Workers : wpc[w] = "created" => AtLastLook(client[c])
<1>1. launchMutex = c /\ \A d \in Clients : HoldsLaunch(client[d]) => d = c
  BY DEF LaunchesOne
<1>2. \A d \in Clients : AtLastLook(client[d]) => HoldsLaunch(client[d])
  BY DEF AtLastLook, HoldsLaunch
<1> QED
  BY <1>1, <1>2 DEF LaunchesOne

\* The holder goes on while no worker is on its way to the server mutex.
LEMMA HolderMoves ==
    ASSUME ClientInv, LaunchesOne, NEW c \in Clients, NEW r,
           Become(c, r), HoldsLaunch(client[c]), HoldsLaunch(r) => launchMutex' = c,
           \A w \in Workers : wpc[w] # "created", wpc' = wpc,
           r.pc = "create" => handles' = {}
    PROVE  LaunchesOne'
<1>1. client'[c] = r /\ \A d \in Clients \ {c} : client'[d] = client[d]
  BY DEF Become, ClientInv
<1>2. \A d \in Clients \ {c} : ~HoldsLaunch(client[d])
  BY OneLauncher
<1>3. \A d \in Clients \ {c} : ~HoldsLaunch(client'[d]) /\ client'[d].pc # "create"
  BY <1>1, <1>2 DEF HoldsLaunch
<1> QED
  BY <1>1, <1>3 DEF LaunchesOne

LEMMA SmoothProbing ==
    ASSUME ClientInv, LaunchesOne, smooth, NEW c \in Clients,
           ProbeAbsent(c) \/ ProbePresent(c) \/ ProbeClose(c)
    PROVE  LaunchesOne'
<1> DEFINE r == client[c]
<1>1. r \in ClientRecords /\ handles \subseteq Clients \cup Workers
  BY DEF ClientInv, WorkersOK
<1>2. launchMutex' = launchMutex /\ wpc' = wpc
  BY DEF ProbeAbsent, ProbePresent, ProbeClose, workerVars
<1>3. \A w \in Workers : wpc'[w] \in {"created", "duplicate"} => wpc'[w] = wpc[w]
  BY <1>2
<1>4. \A where \in {"first", "drain", "asked", "leaving"} : ~HoldsLaunch(Asks(r, where))
  BY <1>1, WhereItGoes DEF HoldsLaunch
<1>5. \A point \in {"take", "open", "tell"} : ~HoldsLaunch(Goes(r, point))
  BY <1>1, WhereItGoes DEF HoldsLaunch
<1>6. ~HoldsLaunch(TriesAgain(r)) /\ ~HoldsLaunch(Quiet("idle", r.peer))
  BY <1>1, WhereItGoes DEF HoldsLaunch, Quiet
<1>7. CASE r.site \notin {"second", "started"}
  <2>1. r.pc \in {"probe", "close"}
    BY DEF ProbeAbsent, ProbePresent, ProbeClose, At
  <2>2. ~HoldsLaunch(r)
    BY <1>7, <2>1 DEF HoldsLaunch
  <2>3. CASE ProbeAbsent(c)
    <3>1. handles' = handles
      BY <2>3 DEF ProbeAbsent
    <3>2. \/ Become(c, Goes(r, "take")) \/ Become(c, Asks(r, "first"))
          \/ Become(c, Quiet("idle", r.peer))
      BY <1>7, <2>3 DEF ProbeAbsent
    <3> QED
      BY <1>2, <1>3, <1>4, <1>5, <1>6, <2>2, <3>1, <3>2, OutsideLaunch
  <2>4. CASE ProbeClose(c)
    <3>1. handles' \subseteq handles
      BY <2>4 DEF ProbeClose
    <3>2. \/ Become(c, TriesAgain(r)) \/ Become(c, Quiet("idle", r.peer))
          \/ \E where \in {"first", "drain", "leaving"} : Become(c, Asks(r, where))
          \/ \E point \in {"open", "tell"} : Become(c, Goes(r, point))
      BY <1>7, <2>4 DEF ProbeClose
    <3> QED
      BY <1>2, <1>3, <1>4, <1>5, <1>6, <2>2, <3>1, <3>2, OutsideLaunch
  <2>5. CASE ProbePresent(c)
    <3>1. handles # {} /\ Become(c, Goes(r, "close"))
      BY <2>5 DEF ProbePresent, NameTaken
    <3>2. /\ \A d \in Clients : client[d].pc # "create"
          /\ \A w \in Workers : wpc[w] # "created"
      BY <3>1 DEF LaunchesOne
    <3>3. ~HoldsLaunch(Goes(r, "close")) /\ Goes(r, "close").pc = "close"
      BY <1>1, <1>7, WhereItGoes DEF HoldsLaunch
    <3>4. client'[c] = Goes(r, "close") /\ \A d \in Clients \ {c} : client'[d] = client[d]
      BY <3>1 DEF Become, ClientInv
    <3>5. \A d \in Clients : HoldsLaunch(client'[d]) => launchMutex = d
      BY <3>3, <3>4 DEF LaunchesOne
    <3> QED
      BY <1>2, <3>2, <3>3, <3>4, <3>5 DEF LaunchesOne
  <2> QED
    BY <2>3, <2>4, <2>5
<1>8. CASE r.site \in {"second", "started"}
  <2>1. r.pc \in {"probe", "close"} /\ HoldsLaunch(r) /\ launchMutex = c
    BY <1>8 DEF ProbeAbsent, ProbePresent, ProbeClose, At, HoldsLaunch, LaunchesOne
  <2>2. CASE ProbeAbsent(c)
    <3>1. handles' = handles /\ handles = {}
      BY <2>2 DEF ProbeAbsent, NameTaken
    <3>2. CASE r.site = "second"
      <4>1. Become(c, Goes(r, "create"))
        BY <2>2, <3>2 DEF ProbeAbsent
      <4>2. \A w \in Workers : wpc[w] # "created"
        BY <2>1, <3>2, OneLauncher DEF AtLastLook
      <4> QED
        BY <1>2, <2>1, <3>1, <4>1, <4>2, HolderMoves
    <3>3. CASE r.site = "started"
      <4>1. Become(c, Goes(r, "release")) /\ MayRunOut
        BY <2>2, <3>3 DEF ProbeAbsent
      <4>2. \A w \in Workers : wpc[w] # "created"
        BY <4>1 DEF MayRunOut, Settled, Coming
      <4>3. Goes(r, "release").pc # "create"
        BY <1>1, WhereItGoes
      <4> QED
        BY <1>2, <2>1, <4>1, <4>2, <4>3, HolderMoves
    <3> QED
      BY <1>8, <3>2, <3>3
  <2>3. CASE ProbePresent(c)
    <3>1. handles # {} /\ Become(c, Goes(r, "close"))
      BY <2>3 DEF ProbePresent, NameTaken
    <3>2. \A w \in Workers : wpc[w] # "created"
      BY <3>1 DEF LaunchesOne
    <3>3. Goes(r, "close").pc # "create"
      BY <1>1, WhereItGoes
    <3> QED
      BY <1>2, <2>1, <3>1, <3>2, <3>3, HolderMoves
  <2>4. CASE ProbeClose(c)
    <3>1. Become(c, Goes(r, "release")) /\ r.pc = "close"
      BY <1>8, <2>4 DEF ProbeClose, At
    <3>2. \A w \in Workers : wpc[w] # "created"
      BY <2>1, <3>1, OneLauncher DEF AtLastLook
    <3>3. Goes(r, "release").pc # "create"
      BY <1>1, WhereItGoes
    <3> QED
      BY <1>2, <2>1, <3>1, <3>2, <3>3, HolderMoves
  <2> QED
    BY <2>2, <2>3, <2>4
<1> QED
  BY <1>7, <1>8

LEMMA SmoothLaunching ==
    ASSUME ClientInv, LaunchesOne, smooth, NEW c \in Clients,
           TakeLaunchMutex(c) \/ CreateWorker(c) \/ ReleaseLaunchMutex(c)
    PROVE  LaunchesOne'
<1> DEFINE r == client[c]
<1>1. /\ r \in ClientRecords
      /\ wpc \in [Workers -> {"none", "created", "loading", "ready", "told",
                             "closing", "returning", "duplicate"}]
  BY DEF ClientInv, WorkersOK
<1>2. CASE TakeLaunchMutex(c)
  <2> DEFINE t == [r EXCEPT !.pc = "probe", !.site = "second"]
  <2>1. /\ launchMutex = NoClient /\ launchMutex' = c /\ Become(c, t)
        /\ wpc' = wpc /\ handles' = handles
    BY <1>2 DEF TakeLaunchMutex, SecondCheck, workerVars
  <2>2. \A d \in Clients : ~HoldsLaunch(client[d])
    BY <2>1, LaunchAssumption DEF LaunchesOne
  <2>3. \A w \in Workers : wpc[w] # "created"
    BY <2>2 DEF LaunchesOne, AtLastLook, HoldsLaunch
  <2>4. client'[c] = t /\ \A d \in Clients \ {c} : client'[d] = client[d]
    BY <2>1 DEF Become, ClientInv
  <2>5. t.pc = "probe"
    BY <1>1 DEF ClientRecords
  <2>6. /\ \A d \in Clients : HoldsLaunch(client'[d]) => d = c
        /\ \A d \in Clients : client'[d].pc # "create"
    BY <2>2, <2>4, <2>5 DEF HoldsLaunch
  <2> QED
    BY <2>1, <2>3, <2>6 DEF LaunchesOne
<1>3. CASE CreateWorker(c)
  <2>1. r.pc = "create" /\ HoldsLaunch(r)
    BY <1>3 DEF CreateWorker, At, HoldsLaunch
  <2>2. PICK w \in Workers : wpc' = [wpc EXCEPT ![w] = "created"]
    BY <1>3 DEF CreateWorker
  <2>3. /\ Become(c, Asks(r, "started")) /\ launchMutex' = launchMutex
        /\ handles' = handles /\ handles = {}
    BY <1>3, <2>1 DEF CreateWorker, LaunchesOne
  <2>4. /\ launchMutex = c
        /\ \A d \in Clients \ {c} : ~HoldsLaunch(client[d])
        /\ \A v \in Workers : wpc[v] # "created"
    BY <2>1, OneLauncher DEF AtLastLook
  <2>5. client'[c] = Asks(r, "started") /\ \A d \in Clients \ {c} : client'[d] = client[d]
    BY <2>3 DEF Become, ClientInv
  <2>6. AtLastLook(client'[c])
    BY <1>1, <2>5, WhereItGoes DEF AtLastLook
  <2>7. /\ \A d \in Clients : HoldsLaunch(client'[d]) => d = c
        /\ \A d \in Clients : client'[d].pc # "create"
    BY <2>4, <2>5, <2>6 DEF HoldsLaunch, AtLastLook
  <2>8. \A v \in Workers : wpc'[v] = IF v = w THEN "created" ELSE wpc[v]
    BY <1>1, <2>2
  <2> QED
    BY <2>3, <2>4, <2>6, <2>7, <2>8 DEF LaunchesOne
<1>4. CASE ReleaseLaunchMutex(c)
  <2>1. r.pc = "release" /\ HoldsLaunch(r)
    BY <1>4 DEF ReleaseLaunchMutex, At, HoldsLaunch
  <2>2. Become(c, TriesAgain(r)) /\ wpc' = wpc
    BY <1>4 DEF ReleaseLaunchMutex, workerVars
  <2>3. \A w \in Workers : wpc[w] # "created"
    BY <2>1, OneLauncher DEF AtLastLook
  <2>4. ~HoldsLaunch(TriesAgain(r)) /\ TriesAgain(r).pc # "create"
    BY <1>1, WhereItGoes
  <2> QED
    BY <2>1, <2>2, <2>3, <2>4, HolderMoves
<1> QED
  BY <1>2, <1>3, <1>4

\* The one worker on its way finds the server mutex free and takes it; the
\* others only leave, and none of them turns a client's head.
LEMMA SmoothWorkers ==
    ASSUME ClientInv, LaunchesOne, NEW w \in Workers, Working(w)
    PROVE  LaunchesOne'
<1>1. wpc \in [Workers -> {"none", "created", "loading", "ready", "told",
                          "closing", "returning", "duplicate"}]
  BY DEF ClientInv, WorkersOK
<1>2. CASE CreateServerMutex(w)
  <2>1. wpc[w] = "created" /\ handles = {}
    BY <1>2 DEF CreateServerMutex, LaunchesOne
  <2>2. /\ wpc' = [wpc EXCEPT ![w] = "loading"]
        /\ client' = client /\ launchMutex' = launchMutex
    BY <1>2, <2>1 DEF CreateServerMutex, MutexIsNew, WorkerGoto
  <2>3. \A v \in Workers : wpc'[v] # "created"
    BY <1>1, <2>1, <2>2 DEF LaunchesOne
  <2>4. PICK c \in Clients : AtLastLook(client[c])
    BY <2>1 DEF LaunchesOne
  <2>5. HoldsLaunch(client[c]) /\ client[c].pc # "create"
    BY <2>4 DEF AtLastLook, HoldsLaunch
  <2>6. \A d \in Clients : client[d].pc # "create"
    BY <2>5, OneLauncher DEF HoldsLaunch
  <2>7. \A v \in Workers : wpc'[v] # "duplicate"
    BY <1>1, <2>2 DEF LaunchesOne
  <2> QED
    BY <2>2, <2>3, <2>6, <2>7 DEF LaunchesOne
<1>3. CASE Load(w) \/ LeaveLoop(w) \/ LetGo(w) \/ ProcessEnds(w)
  <2>1. /\ \E point \in {"ready", "closing", "returning", "none"} :
              wpc' = [wpc EXCEPT ![w] = point]
        /\ launchMutex' = launchMutex /\ handles' \subseteq handles
    BY <1>3 DEF Load, LeaveLoop, LetGo, ProcessEnds, Vanish, WorkerGoto
  <2>2. \A v \in Workers : wpc'[v] \in {"created", "duplicate"} => wpc'[v] = wpc[v]
    BY <1>1, <2>1
  <2>3. \A d \in Clients : /\ client'[d].pc = client[d].pc
                           /\ client'[d].site = client[d].site
    <3>1. CASE client' = client
      BY <3>1
    <3>2. CASE Vanish(w)
      BY <3>2 DEF Vanish, ClientInv, ClientRecords
    <3> QED
      BY <1>3, <3>1, <3>2 DEF Load, LeaveLoop, LetGo, ProcessEnds
  <2>4. \A d \in Clients : /\ HoldsLaunch(client'[d]) => HoldsLaunch(client[d])
                           /\ AtLastLook(client[d]) => AtLastLook(client'[d])
    BY <2>3 DEF HoldsLaunch, AtLastLook
  <2> QED
    BY <2>1, <2>2, <2>3, <2>4 DEF LaunchesOne
<1> QED
  BY <1>2, <1>3 DEF Working

LEMMA SmoothStep == SmoothInv /\ [Next]_vars => SmoothInv'
<1> SUFFICES ASSUME SmoothInv, [Next]_vars PROVE SmoothInv'
  OBVIOUS
<1>1. ClientInv /\ ClientInv'
  BY ClientStep DEF SmoothInv
<1>2. smooth' = smooth
  BY DEF Next, Connecting, Working, Begin, BeginShutdown, Open, OpenBusy, OpenNotFound,
         GiveUp, Handshake, TellShutdown, ProbeAbsent, ProbePresent, ProbeClose,
         TakeLaunchMutex, CreateWorker, ReleaseLaunchMutex, Disconnect, HostDies,
         CreateServerMutex, Load, LeaveLoop, LetGo, ProcessEnds, Vanish, WorkerDies, vars
<1>3. ASSUME smooth PROVE LaunchesOne'
  <2>1. LaunchesOne
    BY <1>3 DEF SmoothInv
  <2>2. CASE UNCHANGED vars
    BY <2>1, <2>2 DEF vars, workerVars, LaunchesOne, HoldsLaunch, AtLastLook
  <2>3. \A c \in Clients : ~BeginShutdown(c) /\ ~HostDies(c)
    BY <1>3 DEF BeginShutdown, HostDies
  <2>4. \A w \in Workers : ~WorkerDies(w)
    BY <1>3 DEF WorkerDies
  <2>5. CASE Next
    BY <1>1, <1>3, <2>1, <2>3, <2>4, <2>5,
       SmoothOpening, SmoothProbing, SmoothLaunching, SmoothWorkers DEF Next, Connecting
  <2> QED
    BY <2>2, <2>5
<1> QED
  BY <1>1, <1>2, <1>3 DEF SmoothInv

\* As long as no wait runs out, however many hosts look, launch and replace at
\* the same time, no worker is started that finds another one at the mutex.
THEOREM NoSecondWorkerStarted == Spec => []NoSecondWorker
<1>1. SmoothInv => NoSecondWorker
  BY DEF SmoothInv, LaunchesOne, NoSecondWorker
<1> QED
  BY SmoothStart, SmoothStep, <1>1, PTL DEF Spec

-----------------------------------------------------------------------------
(* Who is told to shut down.  A client that asks a worker to go was called *)
(* for that, or has greeted it and found that it is of another version.    *)

Addressed(r) ==
    /\ r.site = "asked" => r.purpose = "shutdown"
    /\ r.pc = "tell" /\ r.purpose = "speak" /\ r.peer \in Workers => kind[r.peer] # "ours"

AddressInv == ClientInv /\ \A c \in Clients : Addressed(client[c])

\* Any step of one client that does not set out to tell, asks nothing new and
\* keeps its purpose, or makes it quiet.
LEMMA KeepsPurpose ==
    ASSUME AddressInv, NEW c \in Clients, NEW r, Become(c, r), kind' = kind,
           r.pc # "tell" \/ r.purpose = "shutdown",
           \/ r.purpose = client[c].purpose /\ r.site \in {client[c].site} \cup (Sites \ {"asked"})
           \/ r.site = "first"
           \/ r.purpose = "shutdown"
    PROVE  \A d \in Clients : Addressed(client[d])'
<1>1. client'[c] = r /\ \A d \in Clients \ {c} : client'[d] = client[d]
  BY DEF Become, AddressInv, ClientInv
<1>2. \A d \in Clients : client[d].purpose \in {"speak", "shutdown"}
  BY DEF AddressInv, ClientInv, ClientRecords
<1> QED
  BY <1>1, <1>2 DEF AddressInv, Addressed

LEMMA FieldsOfMoves ==
    ASSUME NEW r \in ClientRecords, NEW point, NEW where
    PROVE  /\ Goes(r, point).pc = point /\ Goes(r, point).site = r.site
           /\ Goes(r, point).purpose = r.purpose
           /\ Asks(r, where).pc = "probe" /\ Asks(r, where).site = where
           /\ Asks(r, where).purpose = r.purpose
           /\ TriesAgain(r).pc = "open" /\ TriesAgain(r).site = "first"
           /\ Quiet(point, where).pc = point /\ Quiet(point, where).site = "first"
BY DEF Goes, Asks, TriesAgain, Quiet, ClientRecords

LEMMA FailsQuietly ==
    ASSUME NEW r \in ClientRecords
    PROVE  /\ Fails(r).pc # "tell"
           /\ \/ Fails(r).site = "first"
              \/ Fails(r).site = "leaving" /\ Fails(r).purpose = r.purpose
BY DEF Fails, Asks, Quiet, ClientRecords

LEMMA AddressStep == AddressInv /\ [Next]_vars => AddressInv'
<1> SUFFICES ASSUME AddressInv, [Next]_vars PROVE AddressInv'
  OBVIOUS
<1>1. ClientInv /\ ClientInv'
  BY ClientStep DEF AddressInv
<1> SUFFICES \A d \in Clients : Addressed(client[d])'
  BY <1>1 DEF AddressInv
<1>2. ASSUME NEW c \in Clients, TellShutdown(c) PROVE \A d \in Clients : Addressed(client[d])'
  <2> DEFINE r == client[c]
             where == IF r.replacing THEN "drain" ELSE "leaving"
             s == [Asks(r, where) EXCEPT !.peer = NoWorker]
  <2>1. r \in ClientRecords
    BY <1>1 DEF ClientInv
  <2>2. Become(c, s) /\ kind' = kind
    BY <1>2 DEF TellShutdown
  <2>3. s.pc = "probe" /\ s.site = where /\ s.purpose = r.purpose
    BY <2>1 DEF Asks, ClientRecords
  <2> HIDE DEF s
  <2> QED
    BY <2>2, <2>3, KeepsPurpose DEF Sites
<1>3. ASSUME NEW c \in Clients, Handshake(c) PROVE \A d \in Clients : Addressed(client[d])'
  <2> DEFINE r == client[c]
             s == [r EXCEPT !.pc = "tell", !.replacing = TRUE]
  <2>1. r \in ClientRecords /\ kind' = kind
    BY <1>1, <1>3 DEF ClientInv, Handshake, workerVars
  <2>2. CASE ~Welcome(r) /\ Become(c, s)
    <3>1. client'[c] = s /\ \A d \in Clients \ {c} : client'[d] = client[d]
      BY <1>1, <2>2 DEF Become, ClientInv
    <3>2. s.site = r.site /\ s.purpose = r.purpose /\ s.peer = r.peer
      BY <2>1 DEF ClientRecords
    <3>3. r.peer \in Workers => kind[r.peer] # "ours"
      BY <2>2, LaunchAssumption DEF Welcome, OurVersion
    <3>4. Addressed(r) /\ \A d \in Clients : Addressed(client[d])
      BY DEF AddressInv
    <3> HIDE DEF s
    <3>5. Addressed(client[c])'
      BY <2>1, <3>1, <3>2, <3>3, <3>4 DEF Addressed
    <3>6. \A d \in Clients \ {c} : Addressed(client[d])'
      BY <2>1, <3>1, <3>4 DEF Addressed
    <3> QED
      BY <3>5, <3>6
  <2>3. CASE Become(c, Quiet("connected", r.peer))
    BY <2>1, <2>3, FieldsOfMoves, KeepsPurpose
  <2>4. CASE r.purpose = "shutdown" /\ Become(c, Goes(r, "tell"))
    BY <2>1, <2>4, FieldsOfMoves, KeepsPurpose
  <2> QED
    BY <1>3, <2>2, <2>3, <2>4 DEF Handshake
<1>4. ASSUME NEW c \in Clients,
             \/ Begin(c) \/ BeginShutdown(c) \/ Open(c) \/ OpenBusy(c) \/ OpenNotFound(c)
             \/ GiveUp(c) \/ Disconnect(c) \/ HostDies(c)
      PROVE  \A d \in Clients : Addressed(client[d])'
  <2> DEFINE r == client[c]
  <2>1. r \in ClientRecords
    BY <1>1 DEF ClientInv
  <2>2. kind' = kind
    BY <1>4 DEF Begin, BeginShutdown, Open, OpenBusy, OpenNotFound, GiveUp, Disconnect,
                HostDies, workerVars
  <2>3. CASE \/ Become(c, Goes(r, "open")) \/ Become(c, Fails(r)) \/ Become(c, TriesAgain(r))
             \/ Become(c, Asks(r, "first")) \/ Become(c, Quiet("idle", NoWorker))
    BY <2>1, <2>2, <2>3, FieldsOfMoves, FailsQuietly, KeepsPurpose DEF Sites
  <2>4. CASE Become(c, [Asks(r, "asked") EXCEPT !.purpose = "shutdown"])
    <3> DEFINE s == [Asks(r, "asked") EXCEPT !.purpose = "shutdown"]
    <3>1. s.purpose = "shutdown"
      BY <2>1 DEF Asks, ClientRecords
    <3> HIDE DEF s
    <3> QED
      BY <2>2, <2>4, <3>1, KeepsPurpose DEF s
  <2>5. ASSUME NEW w \in Workers, Become(c, [r EXCEPT !.pc = "ping", !.peer = w])
        PROVE  \A d \in Clients : Addressed(client[d])'
    <3> DEFINE s == [r EXCEPT !.pc = "ping", !.peer = w]
    <3>1. s.pc = "ping" /\ s.site = r.site /\ s.purpose = r.purpose
      BY <2>1 DEF ClientRecords
    <3> HIDE DEF s
    <3> QED
      BY <2>2, <2>5, <3>1, KeepsPurpose DEF s
  <2>6. Open(c) => \/ Become(c, Fails(r))
                   \/ \E w \in Workers : Become(c, [r EXCEPT !.pc = "ping", !.peer = w])
    BY DEF Open
  <2> QED
    BY <1>4, <2>3, <2>4, <2>5, <2>6
    DEF Begin, BeginShutdown, OpenBusy, OpenNotFound, GiveUp, Disconnect, HostDies
<1>5. ASSUME NEW c \in Clients, ProbeAbsent(c) \/ ProbePresent(c) \/ ProbeClose(c)
      PROVE  \A d \in Clients : Addressed(client[d])'
  <2> DEFINE r == client[c]
  <2>1. r \in ClientRecords /\ kind' = kind
    BY <1>1, <1>5 DEF ClientInv, ProbeAbsent, ProbePresent, ProbeClose, workerVars
  <2>2. \/ r.site = "asked" /\ Become(c, Goes(r, "tell"))
        \/ Become(c, TriesAgain(r))
        \/ Become(c, Quiet("idle", r.peer))
        \/ \E point \in {"take", "create", "release", "close", "open"} : Become(c, Goes(r, point))
        \/ \E where \in {"first", "drain", "leaving"} : Become(c, Asks(r, where))
    BY <1>5 DEF ProbeAbsent, ProbePresent, ProbeClose
  <2>3. CASE r.site = "asked" /\ Become(c, Goes(r, "tell"))
    <3>1. r.purpose = "shutdown"
      BY <2>3 DEF AddressInv, Addressed
    <3> QED
      BY <2>1, <2>3, <3>1, FieldsOfMoves, KeepsPurpose
  <2>4. CASE Become(c, TriesAgain(r)) \/ Become(c, Quiet("idle", r.peer))
    BY <2>1, <2>4, FieldsOfMoves, KeepsPurpose
  <2>5. ASSUME NEW point \in {"take", "create", "release", "close", "open"},
               Become(c, Goes(r, point))
        PROVE  \A d \in Clients : Addressed(client[d])'
    BY <2>1, <2>5, FieldsOfMoves, KeepsPurpose
  <2>6. ASSUME NEW where \in {"first", "drain", "leaving"}, Become(c, Asks(r, where))
        PROVE  \A d \in Clients : Addressed(client[d])'
    BY <2>1, <2>6, FieldsOfMoves, KeepsPurpose DEF Sites
  <2> QED
    BY <2>2, <2>3, <2>4, <2>5, <2>6
<1>6. ASSUME NEW c \in Clients, TakeLaunchMutex(c) \/ CreateWorker(c) \/ ReleaseLaunchMutex(c)
      PROVE  \A d \in Clients : Addressed(client[d])'
  <2> DEFINE r == client[c]
             t == [r EXCEPT !.pc = "probe", !.site = "second"]
  <2>1. r \in ClientRecords /\ kind' = kind
    BY <1>1, <1>6 DEF ClientInv, TakeLaunchMutex, CreateWorker, ReleaseLaunchMutex, workerVars
  <2>2. \/ Become(c, t) \/ Become(c, Fails(r)) \/ Become(c, TriesAgain(r))
        \/ Become(c, Asks(r, "started"))
    BY <1>6 DEF TakeLaunchMutex, CreateWorker, ReleaseLaunchMutex, SecondCheck, NotLaunched
  <2>3. t.pc = "probe" /\ t.site = "second" /\ t.purpose = r.purpose
    BY <2>1 DEF ClientRecords
  <2> HIDE DEF t
  <2> QED
    BY <2>1, <2>2, <2>3, FieldsOfMoves, FailsQuietly, KeepsPurpose DEF Sites
<1>7. ASSUME NEW w \in Workers, Working(w) \/ WorkerDies(w)
      PROVE  \A d \in Clients : Addressed(client[d])'
  <2>1. CASE client' = client /\ kind' = kind
    BY <2>1 DEF AddressInv, Addressed
  <2>2. CASE Vanish(w)
    <3> SUFFICES ASSUME NEW d \in Clients PROVE Addressed(client[d])'
      OBVIOUS
    <3>1. client[d] \in ClientRecords /\ Addressed(client[d])
      BY <1>1 DEF ClientInv, AddressInv
    <3>2. \A v \in Workers \ {w} : kind'[v] = kind[v]
      BY <1>1, <2>2 DEF Vanish, ClientInv, WorkersOK
    <3>3. /\ client'[d].pc = client[d].pc /\ client'[d].site = client[d].site
          /\ client'[d].purpose = client[d].purpose
          /\ client'[d].peer \in Workers =>
                client'[d].peer = client[d].peer /\ client[d].peer # w
      <4>1. CASE client[d].peer = w
        BY <2>2, <3>1, <4>1, LaunchAssumption DEF Vanish, ClientRecords
      <4>2. CASE client[d].peer # w
        BY <2>2, <4>2 DEF Vanish
      <4> QED
        BY <4>1, <4>2
    <3> QED
      BY <3>1, <3>2, <3>3 DEF Addressed
  <2> QED
    BY <1>7, <2>1, <2>2
    DEF Working, WorkerDies, CreateServerMutex, Load, LeaveLoop, LetGo, ProcessEnds
<1>8. CASE UNCHANGED vars
  BY <1>8 DEF vars, workerVars, AddressInv, Addressed
<1> QED
  BY <1>2, <1>3, <1>4, <1>5, <1>6, <1>7, <1>8 DEF Next, Connecting

\* A step makes a listening worker leave its loop on request only when a client
\* tells the worker it is connected to.
LEMMA TellingStep ==
    ASSUME AddressInv, Next, NEW w \in Workers,
           wpc[w] = "ready", wpc'[w] = "told", kind[w] = "ours"
    PROVE  \E c \in Clients : At(c, "tell") /\ client[c].purpose = "shutdown"
<1>1. wpc \in [Workers -> {"none", "created", "loading", "ready", "told",
                          "closing", "returning", "duplicate"}]
  BY DEF AddressInv, ClientInv, WorkersOK
<1>2. ASSUME NEW v \in Workers, Working(v) \/ WorkerDies(v) PROVE FALSE
  <2>1. \E point \in {"loading", "duplicate", "ready", "closing", "returning", "none"} :
           wpc' = [wpc EXCEPT ![v] = point]
    BY <1>2 DEF Working, WorkerDies, CreateServerMutex, Load, LeaveLoop, LetGo, ProcessEnds,
                Vanish, WorkerGoto
  <2> QED
    BY <1>1, <2>1
<1>3. ASSUME NEW c \in Clients, CreateWorker(c) PROVE FALSE
  <2>1. wpc' = wpc \/ \E v \in Workers : wpc' = [wpc EXCEPT ![v] = "created"]
    BY <1>3 DEF CreateWorker
  <2> QED
    BY <1>1, <2>1
<1>4. ASSUME NEW c \in Clients, wpc' = wpc PROVE FALSE
  BY <1>4
<1>5. PICK c \in Clients : TellShutdown(c)
  BY <1>2, <1>3, <1>4
  DEF Next, Connecting, Begin, BeginShutdown, Open, OpenBusy, OpenNotFound, GiveUp,
      Handshake, ProbeAbsent, ProbePresent, ProbeClose, TakeLaunchMutex,
      ReleaseLaunchMutex, Disconnect, HostDies, workerVars
<1>6. At(c, "tell") /\ client[c].peer = w
  BY <1>5 DEF TellShutdown, Addressee
<1>7. Addressed(client[c]) /\ client[c].purpose \in {"speak", "shutdown"}
  BY DEF AddressInv, ClientInv, ClientRecords
<1> QED
  BY <1>6, <1>7 DEF Addressed, At

\* Replacing a stale worker ends no current one: whoever is launching, greeting
\* or telling at the time, a worker of the clients' version is told to go only
\* by a client that was asked to shut it down.
THEOREM OursIsLeftAlone == Spec => OursIsNotReplaced
<1>1. Init => AddressInv
  BY ClientInit DEF AddressInv, Addressed, Init, Quiet
<1>2. AddressInv /\ [Next]_vars
         => [\A w \in Workers :
                wpc[w] = "ready" /\ wpc'[w] = "told" /\ kind[w] = "ours"
                   => \E c \in Clients : At(c, "tell") /\ client[c].purpose = "shutdown"]_vars
  BY TellingStep
<1> QED
  BY <1>1, <1>2, AddressStep, PTL DEF Spec, OursIsNotReplaced

=============================================================================
