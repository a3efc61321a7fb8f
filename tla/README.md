# Verification of Bowser's Fury Online

Bowser's Fury Online is a mod of a single-player game: every player runs the
whole game, a server redistributes events between the games and keeps the
progress and the save file they share. This directory holds TLA+ modules that
model the parts where several threads and machines meet, TLC configurations
that check them on small instances, and TLAPS proofs for every instance.

Paths below are relative to `src/` (so `server/...` is the server, `src/pe/...`
the mod, `lib/penet/...` the packet library they share).

## 1. Inventory

| Part | Code | State it keeps | Operations |
|---|---|---|---|
| Server event loop and sessions | `server/Source/pe/Enet/Server.cpp`, `Client.cpp`, `ServerUtil.cpp` | `mClients` by address hash, per client `mHasGreeting`, uid, name, ghost flag, `mEnetMutex` | CONNECT (ghost replacement), RECEIVE (greeting required), DISCONNECT, player list, broadcast |
| Save transfer, server side | `ProjectPacketHandler.cpp` (`handleSaveChunk`), `Client.cpp` (`uploadSaveThread`) | `mSaveDataAck`, `mCurrentSaveDataUploader`, work buffer and size, `sharedSave`, `mSaveDataMutex` | assemble an upload, commit it, download to a player that greets |
| Save sync, client side | `src/pe/Multiplayer/SaveDataSync.cpp`, `Hacks/TopMenuSceneMod.cpp` | work buffer, acknowledgements, upload event, menu nerve | receive a chunk, download through the menu, save hook, upload thread |
| Progress, server side | `ProjectPacketHandler.cpp`, `ServerSaveData.cpp`, `Console.cpp` | shine counter and list, shards, toads, scenarios, jump-flip state | record and redistribute events, replay all to a player that enters the scene (own thread), operator's commands |
| Progress, client side | `GoalItemSync.cpp`, `MiscMapSync.cpp` | the game's own progress, echo-suppression flags | hooks that send, handlers that apply |
| Persistence | `ServerSaveData.cpp`, `Util.cpp` | `SaveData.json`, `GameData.bin`, `GameDataDefault.bin` | save, load, reset |
| Players and puppets | `MultiplayerManager.cpp`, `PlayerData.cpp`, `Puppets/` | player array, host flag, puppet pools, action queues | player list, poses, actions, figure changes |
| Connection | `src/pe/Enet/NetClient.cpp` | nerve (Stall, Connect, Service), host, peer, `mClientCS` | connect, disconnect, reconnect, send |
| Title menu | `TopMenuSceneMod.cpp` | menu nerve, save mode | character, mode, address, connect, download |
| Jump-flip panels | `MiscMapSync.cpp`, `ProjectPacketHandler.cpp` | panel state, debounce clocks | flip, redistribute over an unreliable channel |
| Disaster mode | `DisasterSync.cpp` | the host's controller | host sends, others apply |
| Clock-driven map parts | `Multiplayer/MapObj/*`, `NetClient::getSyncClock` | clock offset | position as a function of the clock |
| Patan panels | `MapObj/PatanPanel*.cpp` | nerves of panels and starters, one stage switch | touch a starter, unfold one after the other, fold |
| Console | `Console.cpp` | none | list, save, resetsave, setshines, tpall |
| Packets | `lib/penet` | none | layouts and dispatch |
| Game patches, debug windows, vendored code | `Hacks/`, `DbgGui/`, `flips/`, `include/al`, `include/Game` | the game's | not modelled: the behaviour is the game's or third-party |

Interaction. The server has one thread for the event loop and all handlers,
except `ToS_SingleModeSceneEnter`, which runs on a detached thread of its own;
each greeting starts one more detached thread that sends the save; the console
is another. The client has the game thread (hooks, menu, puppets), the network
thread (all packet handlers) and the save upload thread. ENet channels are per
packet type: reliable ones are ordered per channel, and nothing is ordered
across channels. None of the data the threads share is locked except by
`mEnetMutex`, `mSaveDataMutex` and `mClientCS`.

What makes each part correct, and what is hard about it, is listed line by line
under `hazards` in `PROJECT.json`.

What makes each part correct, in a sentence each:

| Part | Correct when |
|---|---|
| Save transfer | uploads never interleave; a committed save is one save; a download is one moment's save; no thread waits for the lock for ever; the last save of a game reaches the server |
| Progress | a shine, toad or shard counts once; every game that hears everything ends with the server's state; a change made locally is sent once, and one applied from the network is not sent again |
| Persistence | what is saved is what is loaded; a crash or two saves at a time lose nothing that a later save does not bring back |
| Sessions, players | every client is in the list once under its own uid; at most one game takes itself for the host |
| Connection, menu | a connection attempt ends; no thread leaves with a lock; nobody uses a host that is gone |
| Jump-flip panels | a flip that nothing disturbs brings all games to the server's state |
| Disaster mode | all games come to the host's phase, whoever becomes the host |
| Puppets | a puppet comes back to its player's place and figure; its animations are played once, in time |
| Clock parts, Patan panels | positions are a function of the shared clock; a chain folds from its first panel, and a starter can be touched again |

## 2. Modules

The shared save, in three layers:

| Module | Models | State and actions against the code |
|---|---|---|
| `AtomicSave` | the abstract promise | a register with `Put`, `BeginRead`/`EndRead`, and a counted `Reset` |
| `SaveServer` | the server's side of the shared save | `acked`, `uploader`, `workBuf`, `workSize` are `mSaveDataAck`, `mCurrentSaveDataUploader`, `mSharedSaveWorkBuffer`, `mSharedSaveWorkBufferSize`; `StoreChunk`/`IgnoreChunk`/`CommitSave` are `handleSaveChunk` up to the lock of `mSaveDataMutex` and from it; `WorkerLock`/`WorkerSend`/`WorkerUnlock` are `uploadSaveThread`; `Connect`/`Greet`/`Disconnect` are the event loop; `ResetSave` is the console's `resetsave` |
| `SaveSync` | the games, the connections and the server | instantiates `SaveServer`; adds each game's work buffer (`buf`, `got`), its menu (`phase`), save hook (`BeginWrite`, `CopyChunk`), upload thread (`UploadStart`, `UploadSend`), and the queue of each connection |
| `Persistence` | the two files | `mem` is what the handlers write, `json` and `bin` are `SaveData.json` and `GameData.bin` with how much of them is written; the handlers, the console's commands and the saves of both threads are walked through statement by statement (`at`): `TakeShine`/`WriteCount`/`PushShine` is a new shine, `SetShines`, `SaveCommand` and `ResetCount`/`ClearList`/`ClearOthers`/`LoadDefault` are `setshines`, `save` and `resetsave`; `Crash` may happen at any statement; `LoadNothing`, `LoadTorn`, `LoadWhole` are `load()` |

Players and connections:

| Module | Models | State and actions against the code |
|---|---|---|
| `Sessions` | who is connected, listed, and host | `client` and `order` are `mClients` by the hash of the address and the order it iterates in; `GameConnect`, `RejectPacket`, `ReceiveHello`, `ReceiveEnter`, `ServerDisconnect` are `Server::exeService`; `ThreadWrite`, `ThreadMake`, `ThreadSend` are the packet thread of `handleSingleModeSceneEnter` up to its list, with the pointer it keeps; `ReceiveList` is `handlePlayerListPacket` with `mLocalPlayer` and the host flag |
| `Connection` | one game's menu, network and upload thread | `nerve` and `step` are `NetClient`'s, `net` the function the network thread is in, `lock` is `mClientCS`, `host` and `peer` are `mClient` and `mServerPeer`; each nerve of `TopMenuExt` is a value of `menu`, a frame of it that calls into the network a step of its own |
| `DisasterSync` | the phase of the disaster mode | `phase`, `lastPhase`, `isHost` per game; `SeeNewNerve` and `Refresh` are the end of `PlayerData::updateLocal`, `handleUpdate` the handler |
| `PuppetSync` | where a game shows another's player | `lastPlace`, `still`, `lastFigure` are `mLastTrans`, `mFramesWithZeroDelta`, `mLastFigure` of the player's local data; `NewData` is the `PlayerData` a list makes; `updateLocal`, `handlePosePacket`, `handleFigureChangePacket` have their names |
| `ActionQueue` | the animations of a puppet | `queue` is `mActionQueue`, `index` the loop's `i`: `StepEntry` is one turn of the loop of `PlayerData::update`, `handleActionPacket` may come between two |

Progress:

| Module | Models | State and actions against the code |
|---|---|---|
| `GoalSync` | the shines | server: `num`, `goals` (`numCollectedGoalItems`, `collectedGoalItems`); `TakeGoal` (`RepeatGoal` for a shine in the list), `WriteCount`, `PushGoal`, `FillInfo`, `SendInfo` and `SendReply` are `handleGoalItemInfo` access by access; `StartReplay`/`ReadCounter`/`SendCounter` are `handleSingleModeSceneEnter`; `SetShines`/`TellShines` and `ClearCount`/`ClearList` are the console's `setshines` and `resetsave`; games: `Collect` is the hook, `DropInfo`/`HandleInfo` the handler |
| `ScenarioSync` | an island's scenario | `Change` and `Report` are `setScenarioIDHook` before and after it looks at the flag (`hookEnabled`), `BeginUpdate`/`ApplyUpdate`/`EndUpdate` the handler that clears and sets it; `Redistribute` and `Store` the two statements of the server's; `ReadScenario`/`SendReplay` the replay |
| `ShardSync` | a zone's shards and its one shine | `Take` and `GotByHook` are the nerve of a shard with its two hooks, `handleShardCollect` the handler; `Redistribute`/`Record` the server's, `Replay` its replay |
| `JumpFlip` | the jump-flip panels | both debounces, the server's answer and the unreliable channel |
| `BowserHealth` | the dark bowser | `Hit` is `bowserDamageHook`, `ReadHealth`/`ApplyDamage` the handler, whose damage goes through the hook |
| `KillSync` | objects that are gone for all | `Kill` is the hooks that report, `handleKill` the handler, whose kill goes through the hook; `killedByHook` is `mKilledByHook` |

Map objects:

| Module | Models | State and actions against the code |
|---|---|---|
| `ClockParts` | parts that follow the shared clock | `getCurrentNerveByClock`, `getProgressIntoNrvByClock` and the key-pose functions as operators; `ExecuteNerve` and `Control` are the halves of a frame, between which the clock may go on |
| `PatanPanels` | a chain of panels and its starters | every nerve of both is a value of `nerve` and `starter`; one action per nerve that changes something |

Each module that is proved about has its proofs in a module of its own
(section 5): `SaveServerProofs`, `SaveSyncProofs`, `GoalSyncProofs`,
`PersistenceProofs`, `SessionsProofs`, `ConnectionProofs`, `PatanPanelsProofs`,
and `AgreementProofs` for the parts of `MCAgreement`. `MCSaveServer`,
`MCSaveSync`, `MCGoalSync` and `MCPersistence` only declare model values, amounts
and symmetries.
`MCSessions` leaves out the scenes. `MCClient` and `MCAgreement` hold several
modules that share nothing but the connection: a behaviour chooses one of them
in its first state (`part`) and the variables of the others never change. That
is the disjoint union of their state spaces, not their product; it lets one run
ask one question of many parts.

Abstractions. A chunk's bytes are the save image they come from; sizes count
chunks, of which there are two or more instead of eight. A slot is the place of
a `Client` object: it can be reused after the object is erased, which is what a
thread with a stale `Client*` sees. `mEnetMutex` is not modelled: it is
recursive, the server thread holds it while it serves, and nobody who holds it
waits for a worker except through `mSaveDataMutex` (see `CommitNotBlocked`).
`handleSaveChunk` is one step up to its lock, because only the server thread
writes what it writes; the exception, `ResetSave` of `SaveServer`, may leave a
mixture of the two saves when it meets a commit. The counter and the list of the
shines have three kinds of threads that read or write them and no lock, so in
`GoalSync` and `Persistence` `handleGoalItemInfo`, `setshines` and `resetsave`
are a step for each access of the one or the other: a reset may fall between
the counter and the list of a handler, and a whole handler between those of a reset.
A `push_back` that meets the `clear()` may write the end it had read before and
so undo it. What is left out of this race is memory corruption, should the vector
move at that moment, and the counter's width: it would take 2^31 shines. The
fields `reset()` clears after the list are cleared in one step.

What the code leaves undefined is a choice: the order in which `mClients`
iterates after an insertion, the host flag of a `mLocalPlayer` whose array was
refilled, the memory behind a packet thread's pointer once its client is erased,
whether the player seems to have moved in the first frame of new data.

The games are not in the repository. What the modules take from them is stated
at the head of each: that taking a shine adds one to the counter and
`completeScenario` one for a scenario that was not complete (the comment at
`GoalItemSync.cpp:192` says so), that `requestDamage` subtracts what it is given,
that a stage switch calls its listeners when it changes, that an object stays
dead while its scene lasts.

History variables (`author`, `everShared`, `joins`, `events`, `excuse`, `missed`,
`since`, `unseen`, `crossed`, ...) are read by properties and bounds, and by no
guard of the code's behaviour. They are marked where they are declared.

## 3. Runs

| Run | Asks | Instance |
|---|---|---|
| `save_server` | Is the shared save an atomic register, and is the lock never lost? | 2 slots, 2 workers, 2 chunks, 2 images, 1 reset |
| `save_sync` | With one game that saves: does the last save reach the server, is every download whole, is no save forgotten? | 2 players, one saves twice, the other comes and goes |
| `save_two_writers` (violation) | Is the save that is left one game's save when both saved? | 2 players that save twice, nobody leaves |
| `save_lost` (violation) | Does the last save of a player that stays reach the server when the other leaves during an upload? | 2 players that save once, one may leave |
| `goal_sync` | Is a shine counted once, and do games end with the server's counter and shines? | 2 players, 2 shines, 1 replay thread; 3 shines taken, replays or commands; 2 lost connections, scenes left or commands |
| `goal_race` (violation) | Does a game that missed nothing end with the global counter? | the same without incidents |
| `sessions_rejoin` | Is the settled list free of ghosts, and is a game whose client was erased by another's event listed again? | 2 games, 3 places, 2 hashes, 1 lost connection, 1 shared hash |
| `persistence_files` | Is what the players have what a restart brings back, and does the server start again after a crash? | 2 shines, 1 toad, 1 uploaded save, 2 writers, 2 crashes, 1 command |
| `persistence_toads` (violation) | Is an unlocked toad in the file? | the same |
| `client` | One game: can a connect be cancelled, is no null pointer used, does a download end; do the starters come back; do the games come to the host's phase? | 2 chunks, 2 lost connections, 1 connect that makes no host or finds no peer; 3 panels, 2 starters; 2 players, 1 phase, 1 change of stage, 1 change of host |
| `agreement` | What two games have to agree on, eleven invariants of ten parts | 2 players each; see below |
| `bowser_health` (violation) | Have the bowsers of two games the same health when all reports have arrived? | 2 players, 3 amounts of damage, 3 hits |

The properties:

* `SingleSource`, `SizeMatchesChunks`, `OneHolder`, `ImplementsRegister`,
  `CommitNotBlocked` (`SaveServer`): one uploader per transfer; the size is that
  of the chunks although chunks may repeat; the lock is held by one worker; the
  save server implements `AtomicSave`; the server thread is not left waiting.
* `SavedWhenQuiet`, `DownloadedWhole`, `SavesReachServer`, `SettledSave`
  (`SaveSync`): the last save is there when uploads have ended; a game starts
  from a content the shared save had; a save that is made arrives; what is kept
  is one save.
* `NoDoubleCount`, `CountsSettle`, `ShinesSettle`, `CountsAgree` (`GoalSync`):
  the list has no shine twice, whatever the operator does, and the counter is its
  length, one more with a shine about to be pushed, unless since the last reset
  the operator has set it or that reset met the counting of a shine; a game that got
  everything ends with the server's counter, unless the last number it got had
  been outdated between reading and sending, or it had completed the shine
  already; it has every shine whose announcement reached it in the scene.
* `NoGhostListed`, `ListsSettle`, `OneHost`, `ErasedComesBack` (`Sessions`): when
  all has settled, only players that are there are listed, every game shows the
  server's list, and exactly one listed game times the disasters, unless the
  last list sent had been made before another; a game erased under a living
  connection comes back.
* `ProgressOnDisk`, `NeverStuck`, `SharedSaveThere`, `CounterMatches`
  (`Persistence`): while nobody saves, the files are the memory unless saves
  overlapped or one was cut short; after a crash the server starts unless it was
  in its first save; it has a shared save unless a file did not parse; the
  counter is the number of shines also after a restart, unless `setshines` was used
  or both threads were at a time between a counter and its list.
* `CancelSticks`, `NoNullPointer`, `LockComesBack`, `SinglePlayerStarts`,
  `DownloadEnds` (`Connection`): a cancelled connect stays cancelled whatever
  step the network thread was in; neither thread uses a host or a peer that
  the other has taken away; `mClientCS` is released; a single player can start; a download ends.
* `StartersComeBack`, `FoldsFromTheFirst` (`PatanPanels`); `DisasterFollows`.
* `FlipsAgree`, `ScenariosAgree`, `OneShine`, `LagsAHit`, `KillsSettle`,
  `PuppetSettles`, `ActionsInTime`, `ClockPartsAgree`, one for each of the
  modules of section 2 that say so; each compares two games, or a game and the
  server, once everything that was on its way has arrived (or, for the last two
  and the first half of `LagsAHit` and `KillsSettle`, at every moment).

Excuses. Several properties have an *unless*. Each excuse is a history variable
that the one action sets that does the harm, and that a later packet that
repairs the harm takes back, so the property also says which packet repairs
what. They were found by checking the property without them and reading the
counterexample: `missed` in `DownloadEnds` is `NetClient.cpp:185`, where
`exeConnect` drops a DISCONNECT; `raced` in `NoNullPointer` is the test of the
peer before the lock (`NetClient.cpp:78`); `early` is a chunk before the menu's
first step (`TopMenuSceneMod.cpp:288`); `failures` is the lock kept by a connect
without a peer (`NetClient.cpp:170`); "unmade" in `NoNullPointer` is the host
that `enet_host_create` could not make, which the code logs and goes on to use
(`NetClient.cpp:160-169`); `adjusted` in `NoDoubleCount` and `split` in
`CounterMatches` are `setshines` and the unlocked meeting of two threads at the
counter and its list (`ProjectPacketHandler.cpp:111-112`,
`ServerSaveData.cpp:124-125` and 15-24); `cut` in `SinglePlayerStarts` is the
mode that stays at `Server` (`TopMenuSceneMod.cpp:281`). They are defects of the
code that no comment or document of the repository denies, so they are recorded
as hazards and not as findings.

Bounds, and why they are enough. Two clients are what every race of the save
needs: one that owns the transfer and one that is refused; two workers are what
the lock needs. Two chunks distinguish head from tail, the unit of every mixing.
In `save_server` slots are reused: clients leave and others come. Two saves of
one game cover a save made during an upload; a third repeats the second. One
replay thread and two shines are what the race of the replay needs: one shine in
the list to replay, one that is counted meanwhile. `MaxEvents = 3` leaves room
for two shines and a replay or a command, for a shine, a replay and a command,
for two commands and a shine, or for a shine that another player has taken
already; with `MaxIncidents = 2` a connection or scene may be lost besides.
`setshines` takes any integer; `-1` is one that no list has as its length, and a
second amount would differ in nothing the properties see. The `GoalSync` runs
use the symmetry of players and shines, the `Persistence` runs that of shines,
`MCAgreement.cfg` that of players and hashes; all check invariants only and the
constants occur in symmetric positions.

`sessions_rejoin` has a third place so that a game can be back while its old
connection still waits for its DISCONNECT, and a shared hash so that the
DISCONNECT erases another's client; the scenes, whose packet thread needs no
third place, are in `agreement`, where the hashes differ (`MaxShared = 0`): that
hashes which clash change nothing for the lists is proved (`ListsAgree`). Two
crashes in `persistence_files` are one that tears a file and one during the save
that would repair it; one command meets every state of the handlers and of their
saves, and for more of them the proofs stand. Two lost connections in `client`
are one in a download and one in the game. A chain of three has a panel that is
neither first nor last. The clock of 13 frames starts again within a cycle of 5,
as that of four hours does within most cycles; the part delays by one frame, so
that the delay is no multiple of the cycle. Six actions overflow a queue of
four. The damages 2, 3 and 10 are even, odd and several hits' worth.
`PuppetSync` allows three events (scenes, lists that others bring about, moves,
figures, lost poses) in any combination: a list, a change and a loss are what
its argument is about.

`MaxJoins = 1` in `SaveSync` excludes one behaviour on purpose. With
`MaxJoins = 2` and one place for two connections, `DownloadedWhole` fails: the
worker of a connection that is gone sends its tail to the `Client` that took its
place, and the new download accepts chunks of both. For this the connection must
be lost and be up again before the menu sees it gone, and the 48 ms step of
`NetClient` makes that need a menu frame of nearly 100 ms. The run is left out of
the project as too unlikely to be of interest, and the hazard is listed.

Deadlock checking is off where the system really comes to rest (nobody has to
join, save or take a shine); it is on in `save_server`.

Fairness. `SaveServer` and `SaveSync` assume weak fairness for threads that the
code keeps running once started: a worker's loop, the server thread at its lock,
the game's menu, the upload thread, and the delivery of what a reliable channel
holds (ENet resends until the connection is declared lost). Weak fairness of the
commit is enough: a worker that holds the lock releases it, and in the instances
finitely many workers are started. `Sessions` assumes that the event loop and
the packet thread run, that a game in `Connect` tries again, and that a player
that plays moves, for a pose is what the server rejects of a game it has
forgotten. `Connection` assumes weak fairness of both threads, and strong
fairness of `Drop` and of the arrival of chunks: who waits for `mClientCS` gets
it, for the network thread sleeps without it between two steps, and the lock is
free again and again but not for ever. `PatanPanels` assumes that live actors
are executed and animations end, `DisasterSync` that games run frame by frame
and reliable packets arrive. Nobody is assumed to join, leave, save, touch, or
type a command. The other modules have no fairness: their properties are
invariants of settled states.

## 4. Findings

1. `save_two_writers`: chunks of a second uploader are dropped one at a time,
   not as a transfer. When the first transfer ends, the next chunk of the second
   uploader starts a new one in the middle of a file; its next upload completes
   it. The save committed is then a mixture, and remains one when all uploads
   are over.
2. `save_lost`: `Client::disconnect` is empty. A player that leaves during an
   upload leaves `mSaveDataAck` partly filled and itself as the uploader, and
   every chunk of everybody else is refused until the server restarts (or a
   `Client` is constructed in the same place and completes it).
3. `goal_race`: the replay thread reads the counter into a packet and sends it
   later. A shine recorded in between is announced first, and the replayed
   number, arriving last, sets the player's counter back until the next shine.
4. `persistence_toads`: `save()` pushes the toads into the array of the islands,
   which it has stored already, and stores an empty array for them. A restarted
   server has no toad.
5. `bowser_health`: the handler of a health report calls the hooked
   `requestDamage`, which halves the difference, so that the bowsers of two
   games never have the same health again. What is left of the promise is
   `LagsAHit`: while only one player hits, the others are behind by at most one
   hit.

## 5. Proofs

`SaveServerProofs` proves for every number of slots, workers, images and chunks
(at least one) `TypeOK`, `SingleSource`, `SizeMatchesChunks`, `OneHolder` and
the refinement `ImplementsRegister`. The inductive invariant adds to these that
a transfer is never complete between two handlers, that one under way has an
uploader, and that a commit starts with no transfer under way: without them
the last chunk could not be shown to fill the buffer. The refinement needs the
lock invariant: a commit cannot meet a worker that is sending, so it maps to
`Put` with no reader open; a worker's lock, send and unlock map to `BeginRead`,
a stutter and `EndRead`; only `ResetSave` maps to `Reset`.

`SaveSyncProofs` is about the whole way of a save, for any number of players,
slots, workers, chunks, images and saves. It uses an instance of
`SaveServerProofs`, so that nothing of the server is proved twice: `ServerRefined`
shows that every step of the games, menus, threads and connections is a step of
`SaveServer` or none of it, and `EndToEndAtomic` that the save server therefore
still implements `AtomicSave` with all that around it. `TypeCorrect` needs that a
game plays only with all its chunks and saves only when it plays, or the zeroes of
an empty work buffer could reach the server. The two safety properties of the run
need three more layers, each proved on top of the one before:

* `LinkInv`: a player's chunks come from the one thread that its greeting started.
* `HandedInv`: what a player has been handed is the first *n* chunks of a content
  the shared save has had; the last of them are on their way, in order, and those
  that arrived are in its buffer. The last chunk to arrive is therefore the last
  one the thread sent, and a download that is complete is of one content
  (`DownloadsAreWhole`).
* `SoleInv`: the chunks of a player who is `Alone`, the only one with something to
  upload, come in turn, each upload after the other, and the chunks of the latest copy are of the latest save wherever they are
  by now: in the game's buffer, on their way, in the server's work buffer, or in
  the shared save (`LastSaveArrives`). What makes this hard is a save made during
  an upload, whose chunks share a transfer with older ones.

The last layer stands while one player is alone with its save, and another may
come after it: the one who saved last leaves nothing in the transfer that a next
one could meet (`TurnsInv`). `WritersInTurn` says so: however many players save,
if never two of them have something to upload at a time, the server keeps one save
of one game (`SettledSave`). That is the property of finding 1, so the theorem says
what the finding takes: two uploads at a time, not just two players that save. The
premise `[]OneUpload` is about a behaviour, not about a state the code could test.

The three theorems `DownloadsAreWhole`, `LastSaveArrives` and `WritersInTurn` are
about players that are `Steady`: nobody else's client gets their client's place, and they connect once if they ever
leave. That is not for the prover's sake: without it they are false, as section 3
says of `MaxJoins = 2`. In the run `save_sync` both players are steady and the
writer stays, so the theorems cover what it checks. Where several players save,
`SavedWhenQuiet` promises nothing (finding 1).

`GoalSyncProofs` proves for every number of players, shines, replay threads and
bounds `TypeOK`, `NoDoubleCount`, `CountsSettle` and `ShinesSettle`. The invariant
of the first two adds that a replay thread has a counter in hand only while it
owes a packet and owes packets only to a player (or its next packet would have no
receiver), that the handler has its finder and shine in hand at the steps that
need them (`HandlerInv`), and that without the excuses `reset()` and the counting
of a shine do not overlap and the counter read is still the counter when it is
written (`CounterInv`, or a shine would be added to the wrong base with nobody to
blame). That of the settling says what a game with something on its way will come
to: every queue that is not empty ends with the counter unless the handler has
still to tell it (`Untold`), every recorded shine is completed, missed, announced
in the game's queue or about to be (`Unannounced`), and a game completes what it
reports.

`PersistenceProofs` proves for every set of shines, toads and saves, and any
number of crashes and commands, `TypeOK`, `ProgressOnDisk`, `NeverStuck`,
`SharedSaveThere` and `CounterMatches`. The invariant follows a save through its
statements: what the document has and what the file has got of it, at each of
them (`SaveInv`); what a save leaves when no other overlapped it (`RestInv`); where
the counter is not its list's length: one ahead before a handler pushes, zero
before `reset()` clears, and, while `split` is false, never one thread between
the two while the other changes them (`MemoryMatches`, `CountInv`); that `GameData.bin` never goes away once it is there (`BinInv`), which
is why the server starts again; and that the shared save has a content while no
save was cut short (`HarmInv`).

`SessionsProofs` proves for every number of games, places and hashes its types,
`NoGhostListed`, `ListsSettle` and `OneHost`. The invariant says who stands behind
a client the server holds (`GhostInv`: the player that greeted from a place with
its hash, or one whose greeting is still to come, though a shared hash lets one
player's event erase another's client); that every connected game has the current
list last in its queue, or will get one from a late greeting or from the packet
thread (`ListInv`, `MadeInv`); and what a game made of the list it read last
(`LocalInv`). At rest all games have one and the same list, whose last entry is
the one host.

`ConnectionProofs` proves for every number of chunks, lost connections and
failed connects `TypeOK`, `CancelSticks`, `NoNullPointer`, `LockComesBack`,
`SinglePlayerStarts` and `MenuKeepsCourse` (that `CharSelect` goes where the
player came from and on to what the player chose; no run has it). The invariant
has two halves. The network's: a nerve that begins is not `Stall` (`StallInv`);
between taking and releasing the lock the network thread has a host, unless none
could be made (`HostInv`, which is why `disconnect`, needing the lock, cannot take it away);
who has passed the test of the peer and finds none behind the lock was overtaken
by a `disconnect` or waits for a lock that was lost (`PeerInv`). The menu's: a
half frame knows its nerve (`FrameInv`); a mode of `Server` that no cut download
has left is that of a game on its way (`ModeInv`); title and file select belong
to a single player's way (`WayInv`), without which the two fields for the way
before and after `CharSelect` could not be shown to fit.

It also has the safety half of `DisasterFollows`, for any number of players and in
two steps. `HostIsHeard`: once the games agree who the host is and no other game's
update is on its way (`HostKnown`, as at the start), they go on doing so while the
host stays, and each update the host sends puts all games in step (`InStep`): a game
in the ocean has the phase the host has seen last, or the last update on its way to
it says so. Nothing is asked of what the games did before. `HostLeads`: they stay
in step while no other game ends a phase or comes to the ocean, unless an update
is on its way to it, and when all updates have arrived every game in the ocean is in
the host's phase. What is left to TLC is that updates are sent and arrive.

`GameComesTogether` carries both over to `MCClient`: a behaviour of the union is one
of each of its parts, so that the theorems about the connection and the menu, and
`HostIsHeard` from the first state on, hold of the specification that the run
`client` checks.

`PatanPanelsProofs` proves for chains of any length from two on and any
starters `TypeOK` (which no run checks) and `FoldsFromTheFirst`. The property
alone is not inductive: the invariant says that the chain is at rest, unfolds
at one panel or folds at one panel, and what all panels before and behind it
are doing; the last panel's step from the one to the other is where the state
of the whole chain is needed.

`AgreementProofs` is about the parts of `MCAgreement`, each by itself and for any
number of players, with an invariant of its own:

* `ObjectsGone` (`KillsSettle`): the handler and the player are the two that can
  report, each once a scene; and a game that has heard of a report still has one
  on its way while its object lives.
* `SpectatorsLag` (`LagsAHit`): the reports on their way to a game fall, none by
  more than one hit; the game's bowser is never more than two hits above what it
  hears of next, for taking half of two hits leaves one, and the report after that
  is at most one more hit below.
* `PanelsAgree` (`FlipsAgree`): one or two jumps are in one of six situations,
  from on their way to taken by all.
* `IslandsAgree` (`ScenariosAgree`): the only change is on its way, or the server
  has it, and then every game with a scene has it or will hear of it last, from the
  queue, the handler it is in, or the replay it waits for.
* `ShardsGiveOneShine` (`OneShine`): a shard that was recorded is known to a game,
  in its queue, or still before the replay's index; what is redistributed but not
  yet recorded is not left to the replay.
* `PuppetsFollow` (`PuppetSettles`): a pose or figure is on its way, has been seen,
  or lists are coming, the watcher's no sooner than the player's.
* `ActionsPlayed` (`ActionsInTime`): the loop skips an entry at most once for every
  entry before it that is erased, so the frames left, the frame and the position of
  an entry never add up to more than it is due.
* `PlayersListed`, `OneTimesDisasters` (`ListsSettle`, `OneHost`): what
  `SessionsProofs` proves, carried over to the instance of `Sessions` in
  `MCAgreement`, whose operators are shown to be the same.
* `PartsFollowClock` (`ClockPartsAgree`): for any times, delay, period, number of
  turns and key poses. That a part turns with the clock rests on lemmas about
  division: the remainder of c rounds of m steps each by n rounds is the remainder of
  c by n, times m. Where a part is on its way is a sum over its key poses, written as
  a recursive function. `FramesAreSums` and `MovesAreSums` prove what the two
  functions are by induction over the number of poses, from the lemma `AllNumbers`
  (the least number that is not in a set has one before it that is). With them
  `WayFollows` shows that one frame later a part is no more than one frame ahead, from
  one pose to the next and from one round to the next.

`GamesAgree` puts them together: every behaviour of `MCAgreement` is one of each of
its parts, for the part that is chosen steps and the others stand still, so that
all of the above, and what `PatanPanelsProofs` has about the panels, hold of the
specification that the run `agreement` checks: it states every property of that run.

Assumed: only the named `ASSUME`s about constants. Those of `SaveServer`,
`SaveSync`, `GoalSync`, `Persistence`, `Sessions`, `Connection` and `PatanPanels`
stand in these modules; those of the parts are `PartsAssumption`,
`ListsAssumption` and `ClocksAssumption` of `MCAgreement`, and
`DisastersAssumption` of `MCClient`: bounds are numbers, what stands for "none" is
none of the things it stands beside, chunks, panels and frames that the code has at
least one of are at least one, and a part that moves does so for a frame at least
(`MovesWithClock` counts the frames of its way round; one that only waits has none).

Only model-checked: the liveness properties (`CommitNotBlocked`,
`SavesReachServer`, `ErasedComesBack`, `DownloadEnds`, `StartersComeBack`,
`DisasterFollows`), for the prover does no fairness. Every other property of a
passing run is stated by a theorem.

## 6. Not modelled, and the plan

* The game's own code and the patches of it at fixed offsets (`Hacks/`,
  `Factory/`, `Execute/`): what they change is not in the repository. For the
  same reason `PhaseUnlock`, which copies the game's phase data from one game
  to another: whether two games agree after it depends on what
  `setUnlockedPhase` and `setPhaseEnd` do.
* `RotateMapPartsNet` (an angle that is the clock times a speed) and
  `NeedleSwitchParts` (three nerves that one switch sets), `Foomin` and
  `CoinVideoPlayer`, which are local to a game and meet nothing else.
* The interpolation between two poses, the pools of puppets, nameplates, the
  texts on the screen, the menu's animations, the parsing of an address, the
  packet layouts: data that no property tells apart. That the status text is
  shared by two threads without a lock is listed as a hazard; so is the array
  of players that is refilled while the game thread walks it. Any overlap of
  these is undefined from its first statement on.
* The SD-card cache of the save, which is local to a game.
* The debug windows, the logger, the exception handler: user interface.
* `flips/`, `imgui_nvn.cpp`, `sead/`, and the headers of the game's and the
  console's types (`include/al`, `include/Game`, `include/sys`): third-party
  code and declarations without behaviour. They are most of the repository's
  lines, which is why the modules map a small share of it although they cover
  nearly all of the server, the packet handlers, the network client, the menu
  and the synced map objects.

The proofs go as far as the prover does: what is left is the liveness, for which
the theorems about `DisasterSync` and the shared save have the safety half. A next
step would be to model what `PhaseUnlock` does, once the game's side of it is known.
