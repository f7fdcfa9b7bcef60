----------------------------- MODULE AcceptLoop -----------------------------
(***************************************************************************)
(* The life of one worker process: the accept loop of wmain, the threads   *)
(* it starts (client_thread) and the two ways it ends, an idle half hour   *)
(* and CMD_SHUTDOWN.                                                       *)
(*                                                                         *)
(* The main thread keeps one pipe instance listening.  A host opens it at  *)
(* any moment, also while ConnectNamedPipe is not pending, and may close   *)
(* its end again at any moment (it disconnects, or is killed).  What the   *)
(* clients say on the pipe is PipeSession's subject: here a command is     *)
(* only a sign of life.  Time is an age, in ticks, since g_last_activity   *)
(* was written.                                                            *)
(*                                                                         *)
(* One assumption about time is built in: the 5 seconds ConnectNamedPipe   *)
(* is waited for are longer than a new thread takes to reach its first     *)
(* statement (see Timeout).                                                *)
(***************************************************************************)
EXTENDS Integers, FiniteSets

CONSTANTS
    Clients,      \* the hosts that may open the pipe
    Nobody,       \* no client
    NoPipe,       \* no pipe instance
    IdleTicks,    \* IDLE_TIMEOUT_MS in ticks
    MaxFailures   \* bound: failures of create_pipe_instance, _beginthreadex

ASSUME AcceptAssumption ==
    /\ IsFiniteSet(Clients)
    /\ {Nobody, NoPipe} \cap Clients = {}
    /\ Nobody # NoPipe
    /\ IdleTicks \in Nat
    /\ MaxFailures \in Nat

VARIABLES
    mpc,        \* what the main thread is about to do
    listening,  \* who has opened the listening instance, Nobody, or NoPipe
    served,     \* the client whose instance is being handed to a thread
    tooLong,    \* the idle time read at a timeout was over the limit
    why,        \* why the loop was left: "idle" or "shutdown"
    shutdown,   \* g_shutdown_event is set
    age,        \* ticks since g_last_activity was written
    active,     \* g_active_clients
    thread,     \* what the thread of each client is about to do
    host,       \* the host's end: "away", "wants", "in", "left" or "cut"
    failures    \* failures so far

main == <<mpc, listening, served, tooLong, why>>
shared == <<shutdown, age, active>>
vars == <<main, shared, thread, host, failures>>

Looping == {"connect", "wait", "decide", "next", "hand over"}
Counted == {"serve", "close", "stamp", "uncount"}

Init ==
    /\ mpc = "connect" /\ listening = Nobody /\ served = Nobody
    /\ tooLong = FALSE /\ why = "none"
    /\ shutdown = FALSE /\ age = 0 /\ active = 0
    /\ thread = [c \in Clients |-> "none"]
    /\ host = [c \in Clients |-> "away"]
    /\ failures = 0

-----------------------------------------------------------------------------
(* The hosts. *)

\* An earlier connection of the host is over at the worker's end too.  The
\* model lets a host come back no sooner: another host can.
Forgotten(c) == listening # c /\ served # c /\ thread[c] = "none"

Want(c) ==
    /\ host[c] = "away"
    /\ Forgotten(c)
    /\ host' = [host EXCEPT ![c] = "wants"]
    /\ UNCHANGED <<main, shared, thread, failures>>

\* CreateFile: it succeeds on an instance nobody has opened; otherwise the
\* host waits (ERROR_PIPE_BUSY) or, with the worker gone, gives up here.
OpenPipe(c) ==
    /\ host[c] = "wants"
    /\ listening = Nobody
    /\ mpc # "exited"
    /\ listening' = c
    /\ host' = [host EXCEPT ![c] = "in"]
    /\ UNCHANGED <<mpc, served, tooLong, why, shared, thread, failures>>

\* The host closes its end, or its process ends.
Leave(c) ==
    /\ host[c] \in {"wants", "in", "cut"}
    /\ host' = [host EXCEPT ![c] = IF host[c] = "in" /\ ~Forgotten(c)
                                   THEN "left" ELSE "away"]
    /\ UNCHANGED <<main, shared, thread, failures>>

-----------------------------------------------------------------------------
(* The accept loop. *)

\* A mutant takes an instance that is already connected for a failure.
NeverConnected == FALSE
AlreadyConnected == listening \in Clients /\ host[listening] = "in"

\* The top of the loop: the shutdown event, then ConnectNamedPipe.  It is
\* pending when nobody has opened the instance (ERROR_IO_PENDING), done when
\* somebody has and is still there (ERROR_PIPE_CONNECTED).  When somebody has
\* and is gone it says ERROR_NO_DATA: the loop sleeps and comes back to the
\* same instance, so the step changes nothing (see Stuck).
Connect ==
    /\ mpc = "connect"
    /\ \/ /\ shutdown
          /\ mpc' = "leave loop"
          /\ why' = "shutdown"
       \/ /\ ~shutdown
          /\ listening = Nobody
          /\ mpc' = "wait"
          /\ UNCHANGED why
       \/ /\ ~shutdown
          /\ AlreadyConnected
          /\ mpc' = "next"
          /\ UNCHANGED why
    /\ UNCHANGED <<listening, served, tooLong, shared, thread, host, failures>>

\* WaitForMultipleObjects with the connection made, whether or not the client
\* has left since.  The connection comes before the shutdown event.
Connected ==
    /\ mpc = "wait"
    /\ listening \in Clients
    /\ mpc' = "next"
    /\ UNCHANGED <<listening, served, tooLong, why, shared, thread, host, failures>>

ShutdownSeen ==
    /\ mpc = "wait"
    /\ listening = Nobody
    /\ shutdown
    /\ mpc' = "leave loop"
    /\ why' = "shutdown"
    /\ UNCHANGED <<listening, served, tooLong, shared, thread, host, failures>>

\* Five seconds without either: the idle time is computed first...
Timeout ==
    /\ mpc = "wait"
    /\ listening = Nobody
    /\ ~shutdown
    /\ \A c \in Clients : thread[c] # "start"
    /\ tooLong' = (age > IdleTicks)
    /\ mpc' = "decide"
    /\ UNCHANGED <<listening, served, why, shared, thread, host, failures>>

\* ... and g_active_clients is read after it.
IgnoringClients == tooLong
NobodyForLong == active = 0 /\ tooLong

\* The instance survives CancelIo with whoever opened it meanwhile.
FreshInstance == Nobody
SameInstance == listening

Decide ==
    /\ mpc = "decide"
    /\ IF NobodyForLong
       THEN mpc' = "leave loop" /\ why' = "idle"
       ELSE mpc' = "connect" /\ UNCHANGED why
    /\ listening' = SameInstance
    /\ UNCHANGED <<served, tooLong, shared, thread, host, failures>>

\* The next instance is created while the one just connected still exists.
\* If that fails the connected one stays where it is and is met again at the
\* top of the loop.
Kept == listening

NextInstance ==
    /\ mpc = "next"
    /\ \/ /\ served' = listening
          /\ listening' = Nobody
          /\ mpc' = "hand over"
          /\ UNCHANGED failures
       \/ /\ failures < MaxFailures
          /\ failures' = failures + 1
          /\ listening' = Kept
          /\ mpc' = "connect"
          /\ UNCHANGED served
    /\ UNCHANGED <<tooLong, why, shared, thread, host>>

\* _beginthreadex, or CloseHandle(served) when it fails, which cuts the
\* client off.
HandOver ==
    /\ mpc = "hand over"
    /\ \/ /\ thread' = [thread EXCEPT ![served] = "start"]
          /\ UNCHANGED <<host, failures>>
       \/ /\ failures < MaxFailures
          /\ failures' = failures + 1
          /\ host' = [host EXCEPT ![served] = IF @ = "in" THEN "cut" ELSE "away"]
          /\ UNCHANGED thread
    /\ served' = Nobody
    /\ mpc' = "connect"
    /\ UNCHANGED <<listening, tooLong, why, shared>>

\* CloseHandle(listening), DeleteCriticalSection, ReleaseMutex and return
\* from wmain, which ends every thread that is left.
Exit ==
    /\ mpc = "leave loop"
    /\ mpc' = "exited"
    /\ listening' = NoPipe
    /\ thread' = [c \in Clients |-> "none"]
    /\ host' = [c \in Clients |-> IF host[c] = "in" THEN "cut"
                                  ELSE IF host[c] = "left" THEN "away"
                                  ELSE host[c]]
    /\ UNCHANGED <<served, tooLong, why, shared, failures>>

Main ==
    \/ Connect \/ Connected \/ ShutdownSeen \/ Timeout \/ Decide
    \/ NextInstance \/ HandOver \/ Exit

-----------------------------------------------------------------------------
(* The client threads. *)

ThreadGoto(c, point) == thread' = [thread EXCEPT ![c] = point]

StartThread(c) ==
    /\ thread[c] = "start"
    /\ active' = active + 1
    /\ ThreadGoto(c, "serve")
    /\ UNCHANGED <<main, shutdown, age, host, failures>>

\* The thread has read a command and answers it.
ServeCommand(c) ==
    /\ thread[c] = "serve"
    /\ host[c] = "in"
    /\ age' = 0
    /\ UNCHANGED <<main, shutdown, active, thread, host, failures>>

\* CMD_SHUTDOWN: the whole worker is to end, whoever else it serves.
ServeShutdown(c) ==
    /\ thread[c] = "serve"
    /\ host[c] = "in"
    /\ age' = 0
    /\ shutdown' = TRUE
    /\ ThreadGoto(c, "close")
    /\ UNCHANGED <<main, active, host, failures>>

\* The read of a header fails: the client is gone.
HangUp(c) ==
    /\ thread[c] = "serve"
    /\ host[c] = "left"
    /\ ThreadGoto(c, "close")
    /\ UNCHANGED <<main, shared, host, failures>>

\* FlushFileBuffers, DisconnectNamedPipe, CloseHandle.
ClosePipe(c) ==
    /\ thread[c] = "close"
    /\ host' = [host EXCEPT ![c] = IF @ = "in" THEN "cut" ELSE @]
    /\ ThreadGoto(c, "stamp")
    /\ UNCHANGED <<main, shared, failures>>

\* g_last_activity is written before g_active_clients is decremented.
StampActivity(c) ==
    /\ thread[c] = "stamp"
    /\ age' = 0
    /\ ThreadGoto(c, "uncount")
    /\ UNCHANGED <<main, shutdown, active, host, failures>>

NotUncounted == active
Uncounted == active - 1

Uncount(c) ==
    /\ thread[c] = "uncount"
    /\ active' = Uncounted
    /\ ThreadGoto(c, "none")
    /\ host' = [host EXCEPT ![c] = IF @ = "left" THEN "away" ELSE @]
    /\ UNCHANGED <<main, shutdown, age, failures>>

\* What a thread does by itself; that a client sends commands is up to it.
Thread(c) ==
    StartThread(c) \/ HangUp(c) \/ ClosePipe(c) \/ StampActivity(c) \/ Uncount(c)

-----------------------------------------------------------------------------
\* Time passes.  Past the limit it makes no difference how much.
Tick ==
    /\ age <= IdleTicks
    /\ age' = age + 1
    /\ UNCHANGED <<main, shutdown, active, thread, host, failures>>

Host(c) == Want(c) \/ OpenPipe(c) \/ Leave(c)

Next ==
    \/ Main
    \/ Tick
    \/ \E c \in Clients :
          Host(c) \/ Thread(c) \/ ServeCommand(c) \/ ServeShutdown(c)

Spec == Init /\ [][Next]_vars

\* The worker's threads run, time passes, and a host that wants the pipe
\* takes an instance that stays free.
FairSpec ==
    /\ Spec
    /\ WF_vars(Main)
    /\ WF_vars(Tick)
    /\ \A c \in Clients : WF_vars(Thread(c)) /\ WF_vars(OpenPipe(c))

-----------------------------------------------------------------------------
TypeOK ==
    /\ mpc \in Looping \cup {"leave loop", "exited"}
    /\ listening \in Clients \cup {Nobody, NoPipe}
    /\ served \in Clients \cup {Nobody}
    /\ tooLong \in BOOLEAN
    /\ why \in {"none", "idle", "shutdown"}
    /\ shutdown \in BOOLEAN
    /\ age \in 0..IdleTicks + 1
    /\ active \in 0..Cardinality(Clients)
    /\ thread \in [Clients -> {"none", "start"} \cup Counted]
    /\ host \in [Clients -> {"away", "wants", "in", "left", "cut"}]
    /\ failures \in 0..MaxFailures

\* A host that got the pipe open is never lost sight of, whenever it did so:
\* before ConnectNamedPipe, between a timeout and CancelIo, or when the next
\* instance could not be created.  It is at the listening instance, being
\* handed over, or has its thread.
NoHostLost ==
    mpc \in Looping =>
        \A c \in Clients : host[c] = "in" =>
            listening = c \/ served = c \/ thread[c] \in {"start", "serve", "close"}

\* The worker does not leave for idleness while it serves somebody.
IdleExitServesNobody ==
    mpc = "leave loop" /\ why = "idle" => \A c \in Clients : thread[c] = "none"

\* A host that got the pipe open is answered, unless it leaves or is cut off.
OpenedIsServed ==
    \A c \in Clients :
        listening = c /\ host[c] = "in" ~> thread[c] = "serve" \/ host[c] # "in"

\* The listening instance was opened and closed again before the loop saw it:
\* ConnectNamedPipe answers ERROR_NO_DATA from now on.
Stuck ==
    /\ mpc = "connect"
    /\ listening \in Clients
    /\ host[listening] = "left"

\* An instance that a host has opened is never the last: the loop comes back
\* to a free one, whichever host took it, however soon that left and whatever
\* failed on the way, as long as the worker lasts.
OpensAgain == []~Stuck => []<>(listening = Nobody \/ mpc = "exited")

Quiet == \A c \in Clients : host[c] \in {"away", "left"}

\* "Short enough that a machine nobody is speaking on does not keep the
\* process forever" (IDLE_TIMEOUT_MS): once the hosts are quiet for good the
\* worker ends, provided its listening instance was never spoilt.
LeavesWhenIdle == <>[]Quiet /\ []~Stuck => <>(mpc = "exited")

\* The same with no proviso, as the comment says it.
AlwaysLeavesWhenIdle == <>[]Quiet => <>(mpc = "exited")

=============================================================================
