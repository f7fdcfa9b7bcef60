---------------------------- MODULE WorkerLaunch ----------------------------
(***************************************************************************)
(* How the hosts of one machine find, start and replace the one worker:    *)
(* PipeClient::ensureConnected and what it calls, against the start and    *)
(* the end of wmain.                                                       *)
(*                                                                         *)
(* Two named mutexes are the whole coordination.  The worker holds a       *)
(* handle to the server mutex from its first statement to its last, and    *)
(* the NAME exists while anybody holds a handle: also a client inside      *)
(* isServerRunning, which opens and closes one.  The launch mutex is held  *)
(* by the client that starts a worker.  A worker answers on the pipe only  *)
(* once it has loaded the engine, and before that has been seen to hold    *)
(* the server mutex.                                                       *)
(*                                                                         *)
(* Every wait of the code has a limit (2, 3 or 5 seconds, five attempts    *)
(* 300 ms apart).  A behaviour is either smooth or not, once and for all:  *)
(* in a smooth one the waits outlast what they wait for, two looks at the  *)
(* server mutex never overlap, no host dies in the middle and no current   *)
(* worker ends; in the others any wait may run out at any time, hosts die, *)
(* workers are killed, go idle or fail to load.                            *)
(*                                                                         *)
(* A worker left over from an earlier version is "stale": it answers the   *)
(* PING with a version that is not the client's.  One that runs elevated   *)
(* refuses the pipe to everybody.  Sessions are PipeSession's subject and  *)
(* the worker's own threads AcceptLoop's.                                  *)
(***************************************************************************)
EXTENDS Integers, FiniteSets

CONSTANTS
    Clients,      \* the PipeClients of the machine's hosts
    Workers,      \* worker processes; an identity is reused when it is free
    NoWorker,     \* pipe_ is INVALID_HANDLE_VALUE
    Broken,       \* pipe_ is a handle whose worker is gone
    NoClient,     \* the launch mutex is free
    MaxAttempts   \* attempts of ensureConnected, 5 in the code

ASSUME LaunchAssumption ==
    /\ Clients \cap Workers = {}
    /\ NoClient \notin Clients
    /\ {NoWorker, Broken} \cap Workers = {} /\ NoWorker # Broken
    /\ MaxAttempts \in Nat \ {0}

VARIABLES
    smooth,       \* see above
    client,       \* the state of each PipeClient, a record: see Quiet
    launchMutex,  \* who holds the launch mutex
    wpc,          \* what each worker process is about to do; "none": not there
    kind,         \* "ours", "stale" or "elevated"
    handles       \* who has the server mutex open: workers and clients

workerVars == <<wpc, kind>>
vars == <<smooth, client, launchMutex, workerVars, handles>>

Launching == {"probe", "close", "take", "create", "release"}
Points == {"idle", "open", "ping", "tell", "connected", "failed"} \cup Launching
Sites == {"first", "second", "started", "drain", "asked", "leaving"}

\* A client between two operations: where it is, which call of isServerRunning
\* it makes next, whether launchServer was called by replaceStaleServer, what
\* ensureConnected was called for, its attempts, and pipe_.
Quiet(point, pipe) ==
    [pc |-> point, site |-> "first", replacing |-> FALSE, purpose |-> "speak",
     attempt |-> 0, peer |-> pipe]

At(c, point) == client[c].pc = point
Become(c, r) == client' = [client EXCEPT ![c] = r]

NameTaken == handles # {}

\* Workers on their way to the pipe, answering on it, and on their way out.
Coming(w) == wpc[w] \in {"created", "loading"}
Listens(w) == wpc[w] \in {"ready", "told"}
Going(w) == wpc[w] \in {"told", "closing"}

Init ==
    /\ smooth \in BOOLEAN
    /\ client = [c \in Clients |-> Quiet("idle", NoWorker)]
    /\ launchMutex = NoClient
    /\ \/ /\ wpc = [w \in Workers |-> "none"]
          /\ kind = [w \in Workers |-> "ours"]
          /\ handles = {}
       \/ \E left \in Workers :
             /\ wpc = [w \in Workers |-> IF w = left THEN "ready" ELSE "none"]
             /\ \E k \in {"stale"} \cup IF smooth THEN {} ELSE {"elevated"} :
                   kind = [w \in Workers |-> IF w = left THEN k ELSE "ours"]
             /\ handles = {left}

-----------------------------------------------------------------------------
(* What becomes of a client r. *)

Goes(r, point) == [r EXCEPT !.pc = point]

\* It calls isServerRunning at one of its six sites.
Asks(r, where) == [r EXCEPT !.pc = "probe", !.site = where]

\* ensureConnected returns false: the operation fails, except that
\* shutdownServer waits for the worker to go all the same.
Fails(r) ==
    IF r.purpose = "speak" THEN Quiet("failed", r.peer)
    ELSE [Asks(r, "leaving") EXCEPT !.replacing = FALSE]

\* launchServer returned; ensureConnected goes to its next attempt.
TriesAgain(r) ==
    [r EXCEPT !.pc = "open", !.site = "first", !.replacing = FALSE, !.attempt = @ + 1]

\* launchServer returned false, which only replaceStaleServer looks at.
NotLaunched(r) == IF r.replacing THEN Fails(r) ELSE TriesAgain(r)

\* Nothing is being started or stopped: what a smooth wait waits for.
Settled ==
    /\ \A w \in Workers : ~Coming(w) /\ ~Going(w)
    /\ \A c \in Clients : client[c].pc \in Launching =>
          client[c].site = "drain" /\ \E w \in Workers : Listens(w)

MayRunOut == smooth => Settled

-----------------------------------------------------------------------------
(* The clients. *)

\* speak, engineInfo or connect without a handle: ensureConnected.
Begin(c) ==
    /\ At(c, "idle") \/ At(c, "failed")
    /\ Become(c, Goes(client[c], "open"))
    /\ UNCHANGED <<smooth, launchMutex, workerVars, handles>>

\* shutdownServer, called when the DLL is unregistered.
BeginShutdown(c) ==
    /\ ~smooth
    /\ At(c, "idle") \/ At(c, "failed") \/ At(c, "connected")
    /\ Become(c, [Asks(client[c], "asked") EXCEPT !.purpose = "shutdown"])
    /\ UNCHANGED <<smooth, launchMutex, workerVars, handles>>

OneTry(c) == client[c].attempt < 1
AttemptLeft(c) == client[c].attempt < MaxAttempts

\* CreateFile on a pipe somebody listens on.
Open(c) ==
    /\ At(c, "open") /\ AttemptLeft(c)
    /\ \E w \in Workers :
          /\ Listens(w)
          /\ Become(c, IF kind[w] = "elevated" THEN Fails(client[c])
                       ELSE [client[c] EXCEPT !.pc = "ping", !.peer = w])
    /\ UNCHANGED <<smooth, launchMutex, workerVars, handles>>

\* ERROR_PIPE_BUSY: another client took the listening instance, or what is
\* left of a closing worker is all in use.  Waits, and tries again; in a
\* smooth behaviour it finds an instance while it has two attempts left.
OpenBusy(c) ==
    /\ At(c, "open") /\ AttemptLeft(c)
    /\ smooth => client[c].attempt + 2 < MaxAttempts
    /\ \E d \in Clients \ {c} : client[d].peer \in Workers
    /\ Become(c, TriesAgain(client[c]))
    /\ UNCHANGED <<smooth, launchMutex, workerVars, handles>>

\* ERROR_FILE_NOT_FOUND: only the first attempt starts a worker.  The last
\* one fails only when the wait before it ran out.
OpenNotFound(c) ==
    /\ At(c, "open") /\ AttemptLeft(c)
    /\ client[c].attempt = MaxAttempts - 1 => MayRunOut
    /\ \A w \in Workers : ~Listens(w)
    /\ Become(c, IF client[c].attempt = 0 THEN Asks(client[c], "first")
                 ELSE TriesAgain(client[c]))
    /\ UNCHANGED <<smooth, launchMutex, workerVars, handles>>

\* "gave up connecting to the worker"
GiveUp(c) ==
    /\ At(c, "open") /\ ~AttemptLeft(c)
    /\ Become(c, Fails(client[c]))
    /\ UNCHANGED <<smooth, launchMutex, workerVars, handles>>

AnyVersion(w) == TRUE
OurVersion(w) == kind[w] = "ours"

\* handshakeOk: another version may answer, or nobody.  A client that came to
\* shut the worker down goes on to do so.
Welcome(r) == r.peer # Broken /\ OurVersion(r.peer)

Handshake(c) ==
    /\ At(c, "ping")
    /\ LET r == client[c] IN
       \/ ~Welcome(r) /\ Become(c, [r EXCEPT !.pc = "tell", !.replacing = TRUE])
       \/ Welcome(r) /\ r.purpose = "speak" /\ Become(c, Quiet("connected", r.peer))
       \/ Welcome(r) /\ r.purpose = "shutdown" /\ Become(c, Goes(r, "tell"))
    /\ UNCHANGED <<smooth, launchMutex, workerVars, handles>>

\* sendCommand(CMD_SHUTDOWN) and disconnect, then the wait for the server
\* mutex to go.  A mutant sends it on a pipe it opens anew.
Listening == {w \in Workers : Listens(w)}
WhoeverListens(c) == Listening
Addressee(c) == {client[c].peer} \cap Listening

TellShutdown(c) ==
    /\ At(c, "tell")
    /\ wpc' = [w \in Workers |-> IF w \in Addressee(c) THEN "told" ELSE wpc[w]]
    /\ Become(c, [Asks(client[c], IF client[c].replacing THEN "drain" ELSE "leaving")
                    EXCEPT !.peer = NoWorker])
    /\ UNCHANGED <<smooth, launchMutex, kind, handles>>

\* OpenMutex fails: nobody has the server mutex.
ProbeAbsent(c) ==
    /\ At(c, "probe") /\ ~NameTaken
    /\ LET r == client[c] IN
       \/ r.site = "first" /\ Become(c, Goes(r, "take"))
       \/ r.site = "second" /\ Become(c, Goes(r, "create"))
       \/ r.site = "started" /\ MayRunOut /\ Become(c, Goes(r, "release"))
       \/ r.site = "drain" /\ Become(c, Asks(r, "first"))
       \/ r.site \in {"asked", "leaving"} /\ Become(c, Quiet("idle", r.peer))
    /\ UNCHANGED <<smooth, launchMutex, workerVars, handles>>

\* OpenMutex succeeds, and for a moment the client has the mutex open too: it
\* may be all that is left of it.
ProbePresent(c) ==
    /\ At(c, "probe") /\ NameTaken
    /\ smooth => handles \cap Workers # {}
    /\ handles' = handles \cup {c}
    /\ Become(c, Goes(client[c], "close"))
    /\ UNCHANGED <<smooth, launchMutex, workerVars>>

\* CloseHandle: isServerRunning returns true.  The waits for the mutex to go
\* ask again until they run out.
ProbeClose(c) ==
    /\ At(c, "close")
    /\ handles' = handles \ {c}
    /\ LET r == client[c] IN
       \/ r.site = "first" /\ Become(c, TriesAgain(r))
       \/ r.site \in {"second", "started"} /\ Become(c, Goes(r, "release"))
       \/ r.site = "drain" /\ MayRunOut /\ Become(c, Asks(r, "first"))
       \/ r.site = "drain" /\ ~(smooth /\ Settled) /\ Become(c, Asks(r, "drain"))
       \/ r.site = "asked" /\ Become(c, Goes(r, IF r.peer = NoWorker THEN "open"
                                                ELSE "tell"))
       \/ r.site = "leaving" /\ Become(c, Quiet("idle", r.peer))
       \/ r.site = "leaving" /\ Become(c, Asks(r, "leaving"))
    /\ UNCHANGED <<smooth, launchMutex, workerVars>>

\* Under the launch mutex isServerRunning is asked once more (not by a mutant).
NoSecondCheck == "create"
SecondCheck == "probe"

\* WaitForSingleObject(launchMutex): it is free, or was abandoned by a client
\* that died with it; or five seconds are not enough, or there is no worker
\* to launch.
TakeLaunchMutex(c) ==
    /\ At(c, "take")
    /\ \/ /\ launchMutex = NoClient
          /\ launchMutex' = c
          /\ Become(c, [client[c] EXCEPT !.pc = SecondCheck, !.site = "second"])
       \/ /\ ~smooth
          /\ Become(c, NotLaunched(client[c]))
          /\ UNCHANGED launchMutex
    /\ UNCHANGED <<smooth, workerVars, handles>>

\* CreateProcess, and the wait for the new worker to take the server mutex.
CreateWorker(c) ==
    /\ At(c, "create")
    /\ \/ /\ \E w \in Workers : wpc[w] = "none" /\ wpc' = [wpc EXCEPT ![w] = "created"]
          /\ Become(c, Asks(client[c], "started"))
          /\ UNCHANGED launchMutex
       \/ /\ ~smooth
          /\ Become(c, NotLaunched(client[c]))
          /\ launchMutex' = NoClient
          /\ UNCHANGED wpc
    /\ UNCHANGED <<smooth, kind, handles>>

ReleaseLaunchMutex(c) ==
    /\ At(c, "release")
    /\ launchMutex' = NoClient
    /\ Become(c, TriesAgain(client[c]))
    /\ UNCHANGED <<smooth, workerVars, handles>>

\* The session ends, or a speak finds its pipe broken: disconnect().
Disconnect(c) ==
    /\ At(c, "connected")
    /\ Become(c, Quiet("idle", NoWorker))
    /\ UNCHANGED <<smooth, launchMutex, workerVars, handles>>

\* The host ends wherever it is; Windows closes its handles.
HostDies(c) ==
    /\ ~smooth
    /\ ~At(c, "idle")
    /\ Become(c, Quiet("idle", NoWorker))
    /\ handles' = handles \ {c}
    /\ launchMutex' = IF launchMutex = c THEN NoClient ELSE launchMutex
    /\ UNCHANGED <<smooth, workerVars>>

Connecting(c) ==
    \/ Open(c) \/ OpenBusy(c) \/ OpenNotFound(c) \/ GiveUp(c)
    \/ Handshake(c) \/ TellShutdown(c)
    \/ ProbeAbsent(c) \/ ProbePresent(c) \/ ProbeClose(c)
    \/ TakeLaunchMutex(c) \/ CreateWorker(c) \/ ReleaseLaunchMutex(c)

-----------------------------------------------------------------------------
(* The workers. *)

WorkerGoto(w, point) == wpc' = [wpc EXCEPT ![w] = point]

\* The first statement of wmain: the mutex must be new (a mutant runs on).
\* Either way the process now has a handle to it.
MutexExists == TRUE
MutexIsNew == handles = {}

CreateServerMutex(w) ==
    /\ wpc[w] = "created"
    /\ WorkerGoto(w, IF MutexIsNew THEN "loading" ELSE "duplicate")
    /\ handles' = handles \cup {w}
    /\ UNCHANGED <<smooth, client, launchMutex, kind>>

\* engine::load, and the first pipe instance.
Load(w) ==
    /\ wpc[w] = "loading"
    /\ WorkerGoto(w, "ready")
    /\ UNCHANGED <<smooth, client, launchMutex, kind, handles>>

\* CMD_SHUTDOWN or idleness ends the accept loop: nobody listens any more.
LeaveLoop(w) ==
    /\ wpc[w] = "told" \/ (wpc[w] = "ready" /\ ~smooth)
    /\ WorkerGoto(w, "closing")
    /\ UNCHANGED <<smooth, client, launchMutex, kind, handles>>

\* ReleaseMutex, CloseHandle and return from wmain.
LetGo(w) ==
    /\ wpc[w] = "closing"
    /\ WorkerGoto(w, "returning")
    /\ handles' = handles \ {w}
    /\ UNCHANGED <<smooth, client, launchMutex, kind>>

\* The process is gone, and its ends of the pipes with it.
Vanish(w) ==
    /\ WorkerGoto(w, "none")
    /\ kind' = [kind EXCEPT ![w] = "ours"]
    /\ handles' = handles \ {w}
    /\ client' = [c \in Clients |-> IF client[c].peer = w
                                    THEN [client[c] EXCEPT !.peer = Broken]
                                    ELSE client[c]]
    /\ UNCHANGED <<smooth, launchMutex>>

\* At the end of wmain, for a duplicate at once.
ProcessEnds(w) == wpc[w] \in {"returning", "duplicate"} /\ Vanish(w)

\* A crash, taskkill, or an engine that does not load.
WorkerDies(w) ==
    /\ ~smooth
    /\ wpc[w] \in {"created", "loading", "ready", "told", "closing"}
    /\ Vanish(w)

Working(w) ==
    \/ CreateServerMutex(w) \/ Load(w) \/ LeaveLoop(w) \/ LetGo(w) \/ ProcessEnds(w)

-----------------------------------------------------------------------------
Next ==
    \/ \E c \in Clients :
          \/ Begin(c) \/ BeginShutdown(c) \/ Connecting(c)
          \/ Disconnect(c) \/ HostDies(c)
    \/ \E w \in Workers : Working(w) \/ WorkerDies(w)

Spec == Init /\ [][Next]_vars

\* Every process runs; nothing makes a host speak or hang up.
Fairness ==
    /\ \A c \in Clients : WF_vars(Connecting(c))
    /\ \A w \in Workers : WF_vars(Working(w))

\* The smooth behaviours, for the liveness that only they promise.
SmoothInit == Init /\ smooth

SmoothSpec == SmoothInit /\ [][Next]_vars /\ Fairness

-----------------------------------------------------------------------------
TypeOK ==
    /\ smooth \in BOOLEAN
    /\ client \in [Clients -> [pc : Points, site : Sites, replacing : BOOLEAN,
                              purpose : {"speak", "shutdown"},
                              attempt : 0..MaxAttempts,
                              peer : Workers \cup {NoWorker, Broken}]]
    /\ launchMutex \in Clients \cup {NoClient}
    /\ wpc \in [Workers -> {"none", "created", "loading", "ready", "told",
                           "closing", "returning", "duplicate"}]
    /\ kind \in [Workers -> {"ours", "stale", "elevated"}]
    /\ handles \subseteq Clients \cup Workers

\* "One worker per machine" (wmain): whatever runs out, is killed or is
\* started in whatever order, at most one worker is past the mutex.
OneWorker ==
    \A v, w \in Workers :
        {wpc[v], wpc[w]} \subseteq {"loading", "ready", "told", "closing"} => v = w

\* The launch mutex with the second check under it does its work: as long as
\* no wait runs out, no worker is started that finds another one there.
NoSecondWorker ==
    smooth => \A w \in Workers : wpc[w] # "duplicate"

\* "A worker built against a different wire format must not be talked to"
\* (pipe_client.cpp): a client is connected to a worker of its own version,
\* or to none that is still there.
NeverStale ==
    \A c \in Clients :
        At(c, "connected") /\ client[c].peer # Broken => kind[client[c].peer] = "ours"

\* Replacing a stale worker never ends a current one that other hosts speak
\* through: unless somebody asked for that, only other versions are told.
OursIsNotReplaced ==
    [][\A w \in Workers :
          wpc[w] = "ready" /\ wpc'[w] = "told" /\ kind[w] = "ours"
             => \E c \in Clients : At(c, "tell") /\ client[c].purpose = "shutdown"]_vars

\* As long as no wait runs out, a client that wants a worker gets one,
\* whoever else is launching, replacing or looking at the same time; and one
\* launch or replacement is all it takes.
EveryoneConnects ==
    \A c \in Clients : At(c, "open") ~> At(c, "connected")

=============================================================================
