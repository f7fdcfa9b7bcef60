# A TLA+ development of AcuVoice SAPI 5

AcuVoice SAPI 5 makes a 1998 text-to-speech engine, a 32-bit DLL called
`avcore.dll`, speak through the Microsoft Speech API of a present-day Windows.
A 32-bit program has the engine in its own process. A 64-bit program cannot, so
its voice talks over a named pipe to a 32-bit worker process, `AcuVoiceServer.exe`,
of which there is one on the machine for every host. What is hard about the
program is that worker: how several hosts find, start, replace and share it, how
one utterance gets through a pipe of finite size while its listener may cancel
at any moment, and what is left when a process in the middle of that is gone.

The modules here model that and are checked with TLC; what matters most is
proved with TLAPS for every value of the constants. Paths below are those of the
repository (`src/av_server.cpp` and so on).

Contents: 1 the system, 2 the modules, 3 the runs, 4 fairness and other
assumptions, 5 the proofs, 6 what was found, 7 what is not modelled, 8 the plan.

## 1. The system

| component | state it keeps | operations |
|---|---|---|
| engine sharing (`av_server.cpp` handle_speak, `av_engine.cpp` speak) | `g_engine_lock`, the engine's process-wide pause lengths, its channel | set the pauses, `initialize_SSB`, one segment after another, `close_SSB` |
| pipe session (`pipe_client.cpp`, `av_server.cpp` client_thread, `pipe_protocol.h`) | a handle at the client, the two directions of a pipe, the utterance in hand | speak, engineInfo, handshake, stop, disconnect |
| accept loop (`av_server.cpp` wmain) | the listening instance, `g_active_clients`, `g_last_activity`, `g_shutdown_event` | accept, hand over to a thread, time out, leave for idleness or shutdown |
| worker launch (`pipe_client.cpp` ensureConnected and what it calls, start and end of wmain) | two named mutexes, a handle at each client, attempts | probe, launch, ping, replace a stale worker, shut down |
| Speak of the SAPI engine (`ISpTTSEngineImpl.cpp`) | `SpeakContext`: bytes written, aborted; rate and volume | fragments, pieces, chunks, writes to the site, events |
| text preparation (`text_prep.cpp`) | none between calls; the position of a loop | normalise, encode, split |
| audio path (`av_dsp.cpp`) | two static cross-fade tables | time-scale, resample, gain |
| settings and presets (`settings.hpp`, `voices.hpp`) | registry values of each voice and a global set | load, clamp, save |
| COM objects (`com.hpp`, `sapi_main.cpp`) | reference counts, a module count | create, query, release, DllCanUnloadNow |
| voice tokens (`IEnumSpObjectTokensImpl.cpp`, `ISpDataKeyImpl.cpp`, `voice_token.cpp`) | a list and a position | Next, Skip, Reset, Clone, Item |
| debug log (`debug_log.h`) | a file many processes append to, a retry time | open, rotate, write |
| registration (`registry.cpp`, `sapi_main.cpp`) | registry keys | register, unregister |
| configuration utility (`tools/acuvoice_config.cpp`) | the window's controls | load, change, Defaults, copy a preset, save, test; `/reset` in a process of its own |
| installer (`installer/AcuVoiceSAPI.iss`) | the engine's `acuvoice.ini` and its backup | install, reinstall, uninstall |
| diagnostics, paths, build | none | reports, lookups |

How they interact. A host calls Speak on its voice. Speak cuts each fragment into
pieces; for a piece a 64-bit host calls `PipeClient::speak`, which first makes
sure of a connection (worker launch), writes `CMD_SPEAK` and reads chunks until
`AUDIO_END`; each chunk goes to a callback that writes it to the host's site and
refuses it when the host has cancelled. In the worker the accept loop has given
the connection a thread of its own. The thread waits for the engine lock, sets
the pauses and synthesizes the whole piece under it, then renders it and streams
it outside the lock, and looks between two chunks for a `CMD_STOP`.

What is hard, and what makes each part correct:

- *Interleaving.* Threads of the worker share one engine whose pauses are global:
  an utterance must be made with its own pauses from its first segment to its last.
  Hosts share one worker and race to start it: there must be one, of the right
  version, and nobody's current worker may be replaced. Renders share static
  tables that must be filled before they are used. Settings are saved, reset and read
  one registry value at a time, by processes that know nothing of each other.
- *Ordering.* A cancel races the last chunk. Whatever the order, the two ends of
  the pipe must agree again before the next operation, and the callback must hear
  its own chunks only, in order, and none after it refused one.
- *Failure.* The worker may die anywhere; instances and threads may fail to be
  created; a Write may fail or be taken in part. Nothing may hang, no host may be
  lost, no audio may be dropped in silence, and a channel of the engine, which is
  counted machine-wide, must come back.
- *Timeouts.* The worker leaves when it is idle, and must not while it serves
  somebody. Every wait of the launch code is limited and may run out.
- *Boundaries.* The split window, a site that reports nonsense, a full pipe, the
  last slot of a table; numbers that somebody has put into the registry by hand, and
  the rounding between a number and one of the 101 positions of a slider.

`PROJECT.json` lists these as hazards, each at its line, with the properties that
would catch it going wrong.

## 2. The modules

`PROJECT.json` maps each definition to its lines. In each module one action is one
step between two points at which another process can be seen: a system call, a
lock, a shared variable, a read or a write of the pipe.

**EngineSharing** is `handle_speak` from `EnterCriticalSection` to
`LeaveCriticalSection`, with `engine::speak` inside it. `pc[c]` is where the thread
of client `c` is; `ask` is what came with its command; `pausation` is the table
inside `avcore.dll`; `heard[c]` collects the tables its segments were made with,
which is what the properties speak of. `InitializeSSB` may refuse, as the engine
does for a text with nothing to say (2870) or when no channel is left (3010, the
count shared with `others`); `MakeSegment` goes on as long as the engine says and
stops past `MAX_SEGMENTS`.

**SpeechService** is what `PipeClient::speak` promises with no pipe in sight: chunks
of the call's own utterance, in order; none after a refusal; true only when
everything was heard or refused. **PipeSession** is how it is done: the client's
`ensureConnected`, handshake, `sendCommand`, the listening loop and `CMD_STOP`; the
worker's command loop, `stop_requested`, the chunk loop and `AUDIO_END`; two FIFO
queues with room for `PipeRoom` messages in between, which block their writer; and
a worker that dies at any step, the end of what it wrote lost or not. A host may run
out of memory where `speak` allocates: for its command (`NoMemoryToAsk`), or for the
payload of a message of which it has read the header (`NoMemoryToHear`). The second
leaves the session adrift: the handle is kept, and what comes next for a header is the
middle of a message. The model then gives up the queues and lets the next calls hear
noise, fail, return true or throw again (`SendAdrift`, `ListenAdrift`), until one of
them fails and drops the handle. Tools do not catch the exception and end with it.

PipeSession is checked to implement SpeechService (`ServiceProvided`): `phase` is mapped
to whether a speak is under way, `lost`, under which SpeechService promises nothing of
what is heard, to whether the session is adrift, and the other variables have the same
names in both. SpeechService lets a session be lost by a call that throws and by nothing
else, and found again by a call that fails.

**AcceptLoop** is `wmain`'s loop and `client_thread`'s accounting. Hosts open and
close the pipe at any moment, also while `ConnectNamedPipe` is not pending. Time is
the age of `g_last_activity`. `Timeout` reads the age and `Decide` reads
`g_active_clients` after it, as the code does.

**WorkerLaunch** is `ensureConnected`, `launchServer`, `isServerRunning`,
`replaceStaleServer` and `shutdownServer` in any number of hosts, against the start
and the end of the worker. `handles` is who has the server mutex open: the mutex
exists while anybody has, and a client that looks at it has, for a moment. A client
is a record: where it is, from which of six sites it calls `isServerRunning`, what
for, how many attempts it has made, and its pipe. A worker found at the start may
be of another version, or elevated, so that it refuses everyone. A process identity
is used again when it is free.

**SpeakCall** is `ISpTTSEngineImpl::Speak` in both builds, with `write_to_site`,
`write_silence` and `pipe_callback`, against a site that aborts, skips or changes
settings at any moment, takes a Write in part and fills in `pcbWritten` or not. Audio
is a difference of running totals: `owed` is what Speak has handed to
`write_to_site` and the site has not taken, `drift` is how far `bytes_written` is
off.

**TextSplit** is `text::split_for_synthesis`, one action for each turn of its loop,
over texts of the four kinds of character it tells apart.

**FadeTables** is the filling and the use of the two static vectors of
`dsp::time_scale` by several threads.

**ComObjects** is the life of the DLL's COM objects: `com::object`, `IUnknownImpl`,
`interface_ptr`, `object_counter`, and the calls that make objects, from factories
to the tokens of one `Next`. A pointer is a place that holds a reference, on the
stack of a thread or outside the DLL; `pointsTo` says what each one points to, so
that `ref_count_` can be compared with the references there really are. An object is
"raw" between `new` and `object_counter::increment`, "dying" once its count is zero,
"gone" after `object_counter::decrement`, and its place is free when the memory is.
Each step of a call may fail. The host keeps to COM's rules: it releases what it has
been given, not while a call of its own goes through it.

**VoiceSettings** is the arithmetic of `settings.hpp` and `voices.hpp`: defaults,
clamps, presets, `build_params` and the way between a number and a slider, all as
operators. A value of the registry is a pair of a key and a name; a DWORD is the int
the code casts it to, so that one above 2^31 is negative. The rate slider's powers
of four are a table that the instance gives.

**ConfigDialog** puts these numbers to use. The window is loaded from the registry,
changed and saved; `/reset` writes the shipped values; a voice reads what it needs
for each utterance. Each reads or writes one value in one step, any write may fail,
and any number of voices may read meanwhile. `controls` is what the window shows;
`at` and `got` are how far a reader is and what it has read; `write` is how far a
writer is and whether all its writes have worked. `agreed`, `lone`, `expects` and
`found` are there for the properties, as the module says.

**DebugLog** is `Enabled`, `Handle`, `Rotate` and `Log` in any number of processes
that share one file and its previous copy. A size is a number of lines. `now` is the
tick count, which wraps, and `next_try` is when an open that failed is tried again.

The modules whose names end in `_proofs` hold theorems and proofs about the module
they are named for. The MC modules say in their first comment why their constants
are as they are.

An operator with a comment such as "a mutant ..." next to a definition is the same
definition with a plausible mistake in it. No action uses it: it is there so that
each property can be seen to fail when the code is wrong in that way.

## 3. The runs

| run | asks | bounds | result |
|---|---|---|---|
| `sharing` | does each utterance get its own pauses, the channel and the lock come back | 2 threads, 2 slots, 2 lengths, 2 segments, 2 channels | holds |
| `session` | do speak and its worker keep the promise of SpeechService, stay in step, stop promptly and return | 3 calls, 3 chunks, 2 attempts, room for 2 messages | holds |
| `accept` | is every host served and an instance free again after each, does the worker leave when idle and only then | 2 hosts, an idle limit of 1 tick, 1 failure | holds |
| `accept_stuck` | does the worker always leave once the hosts are quiet | as `accept` | fails: finding 1 |
| `launch` | is there one worker, of the right version, and is a current one left alone, whatever runs out or dies | 2 hosts, 2 workers, 3 attempts | holds |
| `launch_smooth` | does every host get connected when no wait runs out | 3 hosts, 2 workers, 3 attempts | holds |
| `speak` | is nothing truncated, are offsets true, is nothing said after a cancel, are settings current, does Speak return | 2 fragments, 2 pieces, 2 chunks, 3 units, 2 to a Write | holds |
| `split` | do pieces fit, keep order, lose nothing, halve words only where they must, and does the loop end | every text of up to 7 characters, a limit of 4 | holds |
| `com_objects` | does nobody keep a pointer to a deleted object, does the DLL stay loaded while it is used, is nothing left in the end | 2 threads, 3 objects, 4 pointers outside, 1 lock | holds |
| `config` | is what is spoken after a save or a reset what was promised, does "saved" mean saved, does saving what was loaded change nothing, does every number stay on its scale | 1 voice, 3 tokens, a scale, a pause, a switch and all that is for every voice, 2 events | holds |
| `log_capped` | does the log stay near its cap | 2 processes, a cap of 2 lines | fails: finding 2 |
| `fade_tables` | do the weights a thread uses belong together | 2 threads, 2 samples | fails: finding 3 |

A type invariant that section 5 proves is not run for EngineSharing, AcceptLoop,
WorkerLaunch, TextSplit and ComObjects.

Why these bounds are enough to meet the interesting cases:

- Two threads are all it takes for one to write pauses under another; the second
  of two slots is one that a client may leave alone; a segment limit of one is met
  and passed. The theorems of section 5 lift the bound.
- In a session, what one operation leaves behind meets the next one, and what that
  leaves behind meets the third; room for two messages makes the worker block with
  a chunk in hand while the client has a stop to write. Three chunks let the stop
  come before, at and after the last. One call to throw, one to hear noise and one on a
  new handle are the three calls of an exception. A call adrift hears as much noise as
  an utterance has chunks at most.
- The accept loop treats its hosts alike and takes one at a time: with two, one is
  being accepted while the other is served, cut off or on its way out. One failure
  can be of either kind, at each place.
- In the launch, with two hosts every order of a look, a launch and a replacement
  occurs; a third host matters for liveness only (one that looks, while the second
  launches and the third holds the mutex open) and is there in `launch_smooth`. Two
  worker processes give a duplicate, or an old one and a new one; `OneWorker` is
  proved for any number. Three of the five attempts leave one before and one after
  the attempt that launches.
- In Speak, two of each thing give one that comes after the one at which something
  happened. Three units with two to a Write make a chunk take two Writes and let a
  Write be taken in part.
- Two threads let one release an object that the other copies or calls through;
  three objects and four pointers let a `Next` of two tokens fail at the second.
  The theorems of section 5 lift the bounds.
- Of the settings there is one of each sort: a scale that starts above zero, a pause
  that a preset scales, a switch that two keys share, both multipliers and the
  override. Every loop over values then has a first, a middle and a last one. Two
  events, of opening the window, changing a control, `/reset` and a write that fails
  (but for that of `Logging`, which may fail at any time), give each pair in each order, such as a save in which one write fails, a `/reset`
  in the middle of one that does not, or a window opened on what was saved. The
  registry at the start holds values that are missing, too large, negative and above
  one where a switch is meant. The theorems lift the one slider position the user
  moves to, and the one registry.
- With a limit of four, `soft_limit / 4` is one, so the window has a part that is
  never cut in; with seven characters the loop turns three times.

`CHECK_DEADLOCK FALSE` is given where the system may really stop: a session whose
client has made its last bounded call, and a splitting loop that has ended.

## 4. Fairness and other assumptions

Fairness is what Windows' scheduler gives and no more. Each thread or process that
can take a step of its own in the end takes one (`WF` on the steps of a thread, of
the accept loop, of the client's and of the worker's side of a session, of Speak, of
a process that is on its way). Nothing makes a host call, cancel, hang up or come
back, and nothing makes a process die. `g_engine_lock` is not fair: `LockReturned`
says that its owner gives it back, and nothing says that a given waiter gets it.
`AcceptLoop` also assumes that time passes and that a host that wants the pipe opens
an instance that stays free. One liveness property depends on the segment limit
(without it `LockReturned` fails: the engine may go on for ever). Nothing makes a host
run out of memory, and nothing makes a call on a handle adrift return: it may wait for
the rest of a payload that nobody sends, so `OperationReturns` promises a return or a
session adrift.

The models rest on these assumptions about time and the outside, which the code
also makes:

- *AcceptLoop*: the five seconds `ConnectNamedPipe` is waited for are longer than a
  new thread takes to its first statement, so that a timeout never falls between
  `_beginthreadex` and the increment of `g_active_clients`.
- *WorkerLaunch*: a behaviour is smooth or not from the start. In a smooth one the
  limited waits outlast what they wait for, two looks at the server mutex do not
  overlap, nobody dies midway and a busy pipe frees itself while two attempts are
  left. `EveryoneConnects` and `NoSecondWorker` are claims about smooth behaviours
  alone; `OneWorker`, `NeverStale` and `OursIsNotReplaced` are claims about all of them.
- *SpeakCall*: the site keeps a request until it is answered, and a Write that
  succeeds and leaves `pcbWritten` at zero or at more than was offered took
  everything, which is what the code takes it to mean.
- *ConfigDialog*: a registry value is read and written whole; two utterances of one
  voice do not overlap, as SAPI serialises them. An utterance that begins while a save
  is under way may be spoken with part of each record: the code promises nothing for
  it, and the properties speak of those that begin after the save.
- *PipeSession*: a message is written and read whole. A client that drops its handle
  leaves a thread that ends by itself, which the model drops with it. Of the exceptions
  the code may throw only `bad_alloc` is modelled: the client's own, in a host, as a
  step, and the worker's as its death. `InStep`, `PromptStop` and `OperationReturns` say
  nothing while a session is adrift; that nothing but that exception begins it, and that only
  a failed call ends it, is part of the model and of `ServiceProvided`.

## 5. The proofs

All are checked to the last leaf by TLAPS, and none depends on the bounds of the
runs.

`EngineSharing_proofs`, for any number of clients, slots, lengths, segments and
channels: `TypeCorrect`, `OwnPacingCorrect`, `OnePacingCorrect`,
`ChannelReturned`. `OwnPacing` is not inductive: a step of one thread keeps it only
because no other thread is between its first `set_pause` and its last segment.
`SharingInv` adds that exactly the threads at a point inside the critical section
own the lock, that the slots a thread has passed hold what it asked for, that
nothing was made before the slots were all written and everything since was made
with the table as it is, and that exactly the threads between `initialize_SSB` and
`close_SSB` hold a channel. Two more theorems are the part of `LockReturned` that can be
put without fairness: the lock's owner is at most `PauseCount + MaxSegments + 5` of its
own steps from leaving it (`OwnerIsNearlyDone`), each of them takes one away, and nothing
that others do adds any (`OwnerGetsOn`). The assumption used is `SharingAssumption`.

`WorkerLaunch_proofs`, for any number of hosts and processes, with every crash and
every wait that runs out: `OneWorkerPerMachine`, `LaunchTypeOK`, `StaleIsNeverUsed`,
`NoSecondWorkerStarted`, `OursIsLeftAlone`. For the first the invariant (`LaunchInv`)
is that a worker past the mutex has it open; it gets past only when nobody has.
Clients' steps close no handle of a worker, which one lemma says for all of them. For
the second and third it is `ClientInv`: a client is short of its last attempt wherever
it is but at the opening of the pipe and on its way out of `shutdownServer`, has a
pipe when it greets, and is connected to a worker of its own version or to a broken
pipe. `OneClientMoves` says what has to be shown of a step of one client, and a lemma
for each way a step leaves it (`FailsSound`, `TriesAgainSound` and so on) shows it.
The fourth is about the smooth behaviours: `LaunchesOne` says that whoever is between
the second check and the release holds the launch mutex, that nobody has the server
mutex open when that client creates its worker nor until that worker takes it, and
that the client is at its last look all that time, so that there is one such worker.
The last needs that a client that is about to tell a worker to go was called for that,
or greeted that worker and found another version (`AddressInv`).

`PipeSession_proofs`, for any number of calls, chunks and attempts and any room in the
pipe: `SessionTypeOK`, `AlwaysInStep`, `StopsArePrompt`, `InfoFailsUnreached`, and
`SpeakKeepsItsPromise`, that PipeSession implements SpeechService. `InStep` only speaks
of the client between two operations in a session that is not adrift; `PipeInv` says for each place the client can be
at what the two queues and the worker thread have between them. In `speak` that is
either `Pending` (the text is the last of what the worker has to read, after stops
that came too late) or `Streaming`: what the client still has to read is a run of
answers to an earlier stop, a run of consecutive chunks, the end, and the answer to
this call's stop (`Stream`), and how long the run of chunks is follows from where the
worker is (`Progress`). Three lemmas say what happens to such a queue when it grows
(`LongerStream`), is cut short by a death (`ShorterStream`) and is read
(`HeadOfStream`); `TakenFromStream` is what the refinement needs of it: that the chunk
at the head is the next one the callback has not heard. That a tool never stops
(`Tool`) is why `engineInfo` finds nothing but its answer. `NeverAStandoff` is the safety
part of `OperationReturns`: the client and a live worker never both wait, neither for
room nor for a message, even with room for one message in each direction. `PipeInv` alone
does not give it, as it lets any number of late stops and their answers fill both
directions between two calls; `FewStops` says that there is one at most
(`StopsDoNotPileUp`), because a call that goes on to its `AUDIO_END` takes the answer to
an earlier stop off the pipe before it can send its own. `StopNeverWaits` says that there
is room for `CMD_STOP` whenever it is written. The invariants are about sessions that are not
adrift, in which the client's and the worker's steps keep them as they did; a lemma for
the step that throws (`LostStep`) and one for those of a call adrift (`AdriftStep`) say
that nothing is owed meanwhile and that what ends it leaves a dropped handle.
`StopNeverWaits` and `NeverAStandoff` have the same condition. `SpeakKeepsItsPromise` has
none: what may happen adrift is written into SpeechService. The assumption is
`SessionAssumption`.

`AcceptLoop_proofs`, for any finite number of hosts, any idle limit and any number of
failures: `AcceptTypeOK`, `NoHostIsLost`, `IdleExitLeavesNobody`. `IdleExitServesNobody`
needs that `g_active_clients` is the number of threads that are counted (`CountInv`,
in terms of `Cardinality`), and that no thread is on its way to its first statement
when the idle time is judged (`IdleInv`). The count in turn needs that a thread is
started only where there is none: `PlaceInv` says that a connection is at the
listening instance, being handed over or with its thread, one at a time, and that a
host comes back only when it is nowhere.

`SpeakCall_proofs`, for any number of fragments, pieces, chunks and units and any size
of a site chunk: `SpeakTypeOK`, `OffsetsAlwaysTrue`, `NothingIsTruncated`,
`CancelsArePrompt`, `SettingsAreCurrent`, `NothingAfterCancel`, `SpeakGetsOn`. `SpeakInv` has a part for
each thing a step can upset: what is owed is what the Write under way still has to
bring; once a cancel is seen Speak is on its way out; before it is seen no Write was
decided on after it was asked for; what the host has changed since is all that a
fragment may not know of. `CreditIsTaken` is the heart of the first part: whatever the
site leaves in `pcbWritten`, what the code credits is what was taken. It also carries
`SpeakGetsOn`: every step of Speak leaves less to do, in the lexicographic order of
fragments, pieces, chunks and what remains of a chunk, and no request of the host adds
to it, so that a Speak whose site answers comes to an end for all bounds.

`ConfigDialog_proofs`, for any number of hosts, any registry to begin with, any
positions the user may move to and any number of events: `DialogTypeOK`,
`SavedIsSpoken`, `ResetIsSpoken`, `SavedIsSaved`, `NothingDrifts`. None of the last four
is inductive: each speaks of the end of a sequence of reads or writes, and says nothing
of the middle, where the other processes come in. `DialogInv` does: a reader to whom
something was promised has read so far what is there (`ReadersAgree`); a writer that
began alone and has had no failure has written so far what it means (`Progress`); what
was agreed is what the registry holds, with nobody writing (`Agreement`); what the
message box says is of the controls as they are (`Told`); and what the window found is
still there and is what its controls mean, so that a save under way writes what it
finds (`Found`). `LoadedAsAgreed` turns the first into what a voice is spoken with, and
`SaveOrderIsComplete` and `ReadOrderIsComplete` say that the loops leave no value out.
`Found` rests on two theorems about the operators: `SlidersSettle`, that a number saved
from any position of any slider is shown at a position that means the same number
(arithmetic for each scale, by whether it has more than a hundred steps); and
`NumbersStayOnScale`, that whatever integers are in the registry, every number
`build_params` gives the engine is on its scale, which needs that each key holds what is
looked for in it (`KeysAreComplete`). The assumptions are `SettingsAssumption` and
`DialogAssumption`. `NoDrift` was first stated for every value, and the run agreed: with
more events than it has, a save whose write of `Logging` fails unseen is found, and the
next save changes that value. The property now asks for as much of the log's switch as
the code gives, which is that it is read the same, and a write of `Logging` that fails
costs no event, so that the run meets the case.

`TextSplit_proofs`, for every limit and every text: `SplitTypeOK`, `PiecesAlwaysFit`,
`PiecesInOrder`, `NothingIsLost`, `OnlyLongTokensAreHalved`, `EveryTurnGetsOn`. `SplitInv`
is the conjunction of the first four. The argument has three lemmas: a cut lies past
`start` and not past the window (`CutInWindow`), a turn that adds no piece skips only
spaces (`SkipKeeps`), and a piece that covers what is not a space in what the turn moves
over keeps all four (`PieceKeeps`), which serves both the cut and the last piece. The
fifth is about two pieces that touch, so that its invariant (`HalvesInv`) has to say of
the last piece what will be asked of it if the loop goes on at its very end. The sixth
is an action property, that every turn ends the loop or moves `start` forward: the
measure for which `SplitEnds`, which TLC checks, holds for any text.

`ComObjects_proofs`, for any number of threads, objects and pointers:
`ObjectsTypeOK`, `NeverDangling`, `LoadedWhileUsed`, `NothingEverLeaks`. All four come
down to counting. `ComInv` says that `ref_count_` is the number of pointers to the
object (`RefsExact`) and that the counter is the number of objects counted plus the
locks (`CountExact`), in terms of `Cardinality`; that every pointer is to a live
object, but for the one a maker has to an object it has not counted yet; which
pointers a thread has on its stack at each of its steps; that two threads never
delete the same object; and that an object with no pointer to it is being deleted.
Three lemmas carry the steps: one for those that change no pointer
(`NoPointerChanges`), one for those that add one (`PointerAdded`), and one for those
that take one away (`PointerDropped`). The assumption is `ComAssumption`: finitely
many threads, objects and pointers, and different names for them. How many there
are is open, so that nothing in the theorems depends on it.

Only model-checked: what is said of liveness (`LockReturned`, `OperationReturns`,
`OpenedIsServed`, `OpensAgain`, `LeavesWhenIdle`, `EveryoneConnects`, `SpeakReturns`,
`SplitEnds`), which the prover does not reach. `EveryTurnGetsOn`, `OwnerGetsOn`,
`SpeakGetsOn` and `NeverAStandoff` are as much of it as is proved: that a step gets
nearer to the end, or that somebody can take one. That the steps are then taken is what
the runs check, under the fairness of section 4.

## 6. What was found

1. *The accept loop can be stuck* (`accept_stuck`). A host that opens the listening
   instance and is gone before `ConnectNamedPipe` is called leaves it in a state in
   which `ConnectNamedPipe` fails with `ERROR_NO_DATA` for ever, as nothing calls
   `DisconnectNamedPipe` (`av_server.cpp:389`). The worker sleeps and retries, serves
   nobody new, and never leaves for idleness. `LeavesWhenIdle` and `OpensAgain` hold with
   the proviso that this does not happen.
2. *The log is not capped while a process keeps it open* (`log_capped`). The size is
   looked at when a process opens the file and never again (`debug_log.h:127`), so a
   worker or a screen reader that stays up writes past `MAX_LOG_BYTES` without end,
   where the comment at `debug_log.h:20` says that leaving it on cannot fill a disk.
   Nor can another process help: `DeleteFileW` throws the previous copy away and then
   `MoveFileW` fails, as the file is open. Two processes that rotate at once can also
   lose the copy the first has just made, when the second looked before it.
3. *The cross-fade tables race* (`fade_tables`). One render fills them while another
   finds the first of them sized and uses both.

Seen while modelling, and in the models as the code has it:

- A host that runs out of memory in the middle of an utterance keeps its handle
  (`NoMemoryToHear`). `readResponse` allocates after it has read the header
  (`pipe_client.cpp:307`), `speak` is left without `disconnect()`,
  `ISpTTSEngineImpl::Speak` catches the exception (`ISpTTSEngineImpl.cpp:537`), and the
  next `ensureConnected` trusts the handle (`pipe_client.cpp:192`). That call takes the
  old payload for headers: it may hear audio of the call before, return true on its
  `AUDIO_END`, fail, or wait for a payload that never comes, while the worker may
  discard its `CMD_SPEAK` in `stop_requested`. `InStep` without its condition would be
  false. Nothing in the repository claims otherwise.
- A log message says "the utterance stops here" (`ISpTTSEngineImpl.cpp:499`); the
  `break` after it ends one fragment, and the next one is tried.
- A `;`, `:` or comma ends a piece whatever follows it, so 10:30 may be cut in two
  while a space to cut at is there (`text_prep.cpp:196`); a sentence mark needs a
  space after it.
- Defaults shows the nearest position of each slider, and saving it then writes 660,
  510 and 360 for the pauses 650, 500 and 350, and 32768 for the volume 32767.
  `NoDrift` says that this happens once: what was saved from the window comes back the
  same. `/reset` writes the numbers themselves.
- The result of writing `Logging` is not looked at (`acuvoice_config.cpp:179`), a
  process reads it once, and `/reset` leaves it alone. When the Custom Voice could
  not be saved, what is for every voice is not tried (`acuvoice_config.cpp:178`).
- The comments in `settings.hpp` give 50 to 200 for the rate; the code clamps to 25
  to 400.

## 7. What is not modelled

- *Floating point*: `time_scale`'s frame walk, `resample`, the gain and the numbers of
  the prosody, whose rounding is what could be wrong in them. TLC has no floating
  point, and a model of them over the integers would be about another program.
- *Tables*: what normalises and encodes text, and the wording of messages.
- *The enumerator's position* under Next, Skip and Reset: arithmetic on one number by
  one thread. What it makes and gives up is in ComObjects.
- *Two voices of one host*: `PipeClient::cs_` is held for a whole playback, so that the
  second waits. It is one lock, never taken twice; PipeSession has what happens in it.
- *The first Speak of a 32-bit host* (`engine_lock()`): a flag that is looked at without
  a lock, as in FadeTables; a critical section that is initialized twice has no
  defined state.
- *Registration and the installer*: sequences of registry and file steps, run by one
  process at a time. What outlives a run of the installer is `acuvoice.ini` and its
  backup, which is made when there is a file and no backup (`AcuVoiceSAPI.iss:271`). On a
  machine that never had the 1999 product the first install finds no file; a reinstall
  finds this product's own and saves it as the original, and the uninstaller puts it
  back, with its dead paths, where it would otherwise have deleted it.
- *Pipe security*: one constant; its effect, a worker that refuses the pipe, is in
  WorkerLaunch.
- *Diagnostics, probes, path lookups, the build*: no state. Of the configuration
  utility, the test button's rendering, the scrolling and the launching of other
  programs.

`CMD_SHUTDOWN` ends a worker with threads in it: what a thread does in the last
moments with a critical section that has been deleted is undefined, and the model
ends it at once. Between `~IUnknownImpl` and the end of `delete` a thread is still in
the DLL although `DllCanUnloadNow` may say yes; COM waits before it unloads, and
ComObjects makes no claim about it.

## 8. The plan

The order of the work was: the worker and its pipe first (EngineSharing, PipeSession
with SpeechService, AcceptLoop, WorkerLaunch), as every word a 64-bit host speaks
depends on them; then Speak and the text and audio it hands on (SpeakCall, TextSplit,
FadeTables), and the objects it all hangs on (ComObjects); then the settings a voice
speaks with (VoiceSettings, ConfigDialog) and the log (DebugLog). Each is done.
