# A verification project for dansuri-testcodes

The repository is DanSuRii's collection of working code and test units, most of
it C++ for Windows (Visual C++ 2005 to 2010): pieces of an online game's servers
that were taken home from work, utilities of its common library, and
experiments.  There is no program that links all of it, so there is no single
state machine either.  This project models the parts that keep state and that
are hard to get right, each in a module of its own, checks them with TLC on
small instances, and proves the most important facts with TLAPS for every
instance.

Sources are CP949 text; the line numbers below and in `PROJECT.json` are those of
the files as they are.  Short names:

| name | directory |
|---|---|
| `critsect.h` | `src/CPPSourceCodes/TestUnits/TestUnits/critsect.h` |
| master server | `src/WorkCodeBackup/20140417 Session Validator/` |
| host resources | `src/WorkCodeBackup/20140517 HostResourceMgr/` |
| auth provider | `src/preludeWork/authprovider/` |
| TestUnits, TestUnitsNew | `src/CPPSourceCodes/TestUnits/TestUnits/`, `src/CPPSourceCodes/TestUnitsNew/TestUnitsNew/` |

## 1. Inventory

### Synchronisation primitives (`critsect.h`)

*State*: one or a few words of shared memory per object, changed by interlocked
operations.  *Operations*: `Enter`/`Try`/`Leave` of the critical sections,
`ReadLock`/`WriteLock`/`EndRead`/`EndWrite` of three spinning reader-writer locks
(reader preference `_NS_RP`, writer preference `_NS_WP`, fair `_NS_FAIR`),
`RefAdd`/`RefDec` of `CRefCount`, `TryIncrement`/`Decrement`/`Lock`/`WaitZeroRef`/
`Unlock` of `CLockingRefCountLite`, and auto lockers over them.  *Interaction*:
every other multi-threaded component of the author's uses them through the auto
lockers; `ReadWriteLockTest.cpp` drives the fair lock from many threads.
*Hard*: everything is an interleaving of single interlocked operations; counters
wrap; two counters share one word and are changed by two visible writes;
decisions are made on copies that may be stale.  *Correct means*: a writer is
alone, the words count exactly who is there, the promised preference or order
holds, a promised waiter gets in, an object is freed once and never revived.

### Master server: players, sessions, handlers

*State*: `CPlayerManager` (three maps to heap-allocated `CPlayer`s, by uid, by
account and by session key, the id container and a count), `CSessionValidator`
(the list of sessions that wait for a check in, in order of expiration, and a
generator of keys), `CSvcConfig` (the servers that are registered, by `LKEY`).
*Operations*: log in, kick, log out (on report, by force, by expiry), check in,
reserve a move, register and release a server, the tick of the validator.
*Interaction*: the lobby server asks for a login, the master asks the database,
the answer comes later; community servers report arrivals, log outs and moves,
and send their player list to a master that has restarted; the frame of the
service ticks the validator.  *Hard*: the answer of the database meets another
state than the question; several ways to log out must keep five containers
consistent; time outs race arrivals; servers come back under another key.
*Correct means*: the containers agree, sessions expire exactly those players
that are due and everyone who is under way can expire, an accepted login is
carried out, and on a live server.

### Host resource manager (`CHostResourceMgr`)

*State*: the described connections as resources, the pool of clients that can
host, the hosting info of every stage (which client and which host serve it),
and a queue of messages.  *Operations*: callbacks of the connection manager,
`push_msg` from any thread, and the main thread's `Update`, which handles up to 99
messages.  *Interaction*: zone code and the handlers of host connections post
messages; the main thread pops and handles them.  *Hard*: a message is built
before the lock is taken and handled long after; a client may disconnect while
an assignment for it is in the queue; a search finds any one of several infos.
*Correct means*: no client is allocated twice, a host serves one stage, and a
client that has left is released from its stage.

### Authentication provider

*State*: per connection a socket, an event object, a send queue with an offset,
and a state (not connected, connecting, ready, ...); the network thread's own
state and the owner's.  *Operations*: the constructor starts the network thread,
which connects, serves the events of its two communicators and flushes queues;
any thread sends; the destructor tells the thread to stop and waits.
*Interaction*: one wait for all communicators names the lowest event; sends of
other threads meet the network thread's flush and disconnect.  *Hard*: partial
sends, a queue that is looked at outside its lock, a state that is set after the
thread that reads it was created.  *Correct means*: bytes arrive in order, once;
the destructor returns; no open connection is lost, and one that was closed is made
again.  The answer handlers and session maps
behind it are never reached as built and are not modelled.

### Chat and echo servers (boost asio)

*State*: the room's recent messages and participants, per session the queue of
messages to write; the echo unit's two services, the thread that runs each, and
the pointer by which the second can be stopped.  *Operations*: completion
handlers, one at a time per service, and the operator's `q`.  *Hard*: the queue is
the only record of a write under way; reads, writes and errors complete in any
order; the pointer may be set too late.  *Correct means*: the room is a broadcast,
a member is served, a `q` that can be heard ends the unit.

### Host process pool, spin-locked queue, debugger strings (`workTemplate.cpp`)

*State*: the slots of the pool and the processes in them; the queue under its spin
lock; the expression that assigns a string in the debugger.  *Hard*: a wait that
fails on gaps and beyond its limit of handles, a test outside the lock, the chunks
at the end of string and buffer.

### Smaller components

* `templateSingleton.cpp`: double-checked creation by a constructor that publishes
  the object, destruction at exit.
* `ZoneMsgDispatcher.h`: handlers in a vector indexed by message id.
  `ObserverGeneric.cpp`: observers by event.  The menus of the two test programs:
  units and works by number.  What is registered is what has to be called.
* `BLOBAgent.cpp`: records saved by one version of a form and loaded by another.
  `bytebuffer.cpp`: flags in bits.  `utf8_v2_3_4`: a vendored library, which one
  of the tests runs on.  What is decoded has to be what was encoded.
* `vectorPqueuePerformance.cpp`: the same events in four ordered containers.  The
  scroller: rows that come down in the order they were drawn.
* The household ledger: entries and a total that have to agree, a file that is
  saved and opened.

`PROJECT.json` lists every component with its files and status, and under
"hazards" what is hard to test, at the line where it bites.

## 2. The modules and the code they stand for

| module | models | composed of |
|---|---|---|
| `RWLockSpec` | what a reader-writer lock promises (abstract) | |
| `RWLockWord` | the word of the two spinning locks | |
| `RWLockRP` | `CReaderWriterLock_NS_RP` | extends `RWLockWord`, implements `RWLockSpec` |
| `Counters` | the `LONG` counters that wrap | |
| `RWLockWP` | `CReaderWriterLock_NS_WP` | extends `RWLockWord`, `Counters`, implements `RWLockSpec` |
| `MCRWLock` | one of `RWLockRP`, `RWLockWP`, selected at the start | extends `RWLockWP`, instantiates `RWLockRP` |
| `RWLockFair` | `CReaderWriterLock_NS_FAIR`, `InterlockedClearAdd` | implements `RWLockSpec` |
| `CritSect` | the recursive, the flag and the ticket lock under the auto locks | extends `Counters`, implements `RWLockSpec`, per lock |
| `RefCount` | `CRefCount` | |
| `LockingRefCount` | `CLockingRefCountLite` and its inner spin lock | implements `RWLockSpec` |
| `PlayerManager` | `CPlayerManager`, `CSessionValidator`, as operators on a record | |
| `MasterServer` | handlers, server table, environment | extends `PlayerManager` |
| `MCMasterServer` | the servers and accounts of the runs | extends `MasterServer` |
| `HostResourceMgr` | `CHostResourceMgr` | |
| `Broadcast` | what the chat room promises (abstract) | |
| `AsioChat` | `chat_server`, `chat_room`, `chat_session` | implements `Broadcast` |
| `AsioEcho` | the two echo services and their three threads | |
| `AuthSock` | `AuthSock`: socket, send queue, flush | |
| `AuthProvider` | `AuthProviderGF`, its network thread and communicators | |
| `HostProcessPool` | `HOSTEXECUTER`, `HostProcessPool` | |
| `QueueSpinLocked`, `DebugAssignString` | the classes of these names | |
| `Singleton` | `CSingleton` | |
| `ZoneMsgDispatcher`, `Observer`, `Menus` | registration and dispatch | |
| `BLOBAgent`, `BitBuff`, `Utf8` | codings | |
| `EventQueues`, `ScrollGame`, `Ledger` | a performance test and two exercises | |
| `MCShared` | one of `RefCount`, `LockingRefCount`, `Singleton`, `AsioChat`, `AsioEcho`, `AuthSock`, `AuthProvider`, selected at the start | instantiates them |
| `MCUnits` | one of the twelve units from `HostProcessPool` on, without `Singleton`, selected at the start | instantiates them |
| `RWLockRPProofs`, `RWLockWPProofs`, `RWLockFairProofs`, `CritSectProofs`, `MasterServerProofs`, `HostResourceMgrProofs`, `SharedProofs`, `UnitsProofs` | theorems | extend their module (`MCRWLock`, `MasterServer`, `MCShared`, `MCUnits`) |

**Locks.**  `pc` says where a thread is in the code, the other variables are the
members.  One action is one interlocked operation or one test of a spin loop.
An iteration of a loop that finds its condition false and changes nothing is not
a step.  `RWLockFair` splits `InterlockedClearAdd` in the two writes it consists of,
because readers of the word see the state in between; the C++ critical section
around the two is part of the guards.  `RWLockWP` reads the two counters of the
readers' loop in two steps, in either order, since C++ leaves it open.  Its
variable `ahead` is history only: it remembers who was queued when a reader came.
`RWLockSpec` describes holders and nothing else; a lock that nobody reads is a
plain critical section, which is how `CritSect` uses it.  In `CritSect` every thread
has one `CAutoLock`, assigned one lock after the other, and inside of it may enter a
lock again or another one by hand and hand it to a `CAutoLeave`; `asked` is a thread
between the two halves of `IsOwnedByCurrentThread`.

**Counts.**  In `RefCount` a user holds at most one reference and releases only
what it holds; that is the contract of the class, not something it checks.
`LockingRefCount` is the class with the only use the code makes of it: increment
and decrement around a use, lock, wait for zero, unlock.  The loops of `Increment`
and `WaitZeroRef` appear as a return to the call.

**Master server.**  The master is one thread, so a handler is one action; its
helpers are operators from record to record, so that the order of the calls in a
handler is the order of application.  The concurrency is in the environment:
which message comes when, servers that connect, register and disconnect, logins
at the database (`pending`), the clock.  Objects are named by the session key of
their login; a deleted object's name is never used again.  Two members of the record are
history: `overlapped` has the players that were given a session while they had an open
one, and `wild` those on which `LogOut` was called when they were deleted.  The code
reads freed memory there, so the step that does it ends the behaviour (`Defined`); a
tick that meets such a player is still a whole one, which the model lets do what it
does to the others.  A wait list entry has the time `left` and not a date.

**Host resources.**  `Build` and `Push` are the two halves of `push_msg`; `hand` is
the message in between.  `UpdateBegin`, `UpdateStep` and `UpdateBreak` are one call of
`Update`.  Callbacks happen on the main thread, outside `Update`.  `PostZone`,
`PostJoin`, `PostLeave` and `AllocFromUser` are not in the repository (the last is
declared only) and are modelled from how the messages they post are handled:
a host connection hosts one stage at a time and sends its requests one after the
other (`m_HostStage` of the connection), and an allocation takes the client out of
the pool.

**Units.** The small programs share neither state nor calls with each other, so
`MCShared` (those whose own threads, callbacks or completions meet, and the two
counts) and `MCUnits` (the rest) do not interleave them: a behaviour selects one and
the others stay where they are, which keeps the state space the sum of theirs. `Only`
says so; each unit's actions and properties are those of its own module. The
parameters of the units are constants of these two modules, with assumptions where the
proofs need one, and get their values in the `.cfg` files. In `AsioChat` and
`AsioEcho` one action is one completion handler, with or without an error. `writing`
has the messages of all the writes of a session under way, of which there must be one;
the code does not count them. `AuthProvider` steps from one wait or one shared access
of a thread to the next; `AuthSock` splits a flush where the queue's lock is free.
`Singleton` splits `GetInstance` at each access to `instance_` and to the lock.
`QueueSpinLocked` separates the test of `pop` from its lock. `HostProcessPool` takes a
whole turn of the operator's loop as a step, and lets processes end between.
`ZoneMsgDispatcher` is built with assertions or without: with them a second
registration of an id ends the program, without them it replaces the first. In
`Observer` a callback may register an observer for another event than the one being
notified; for the same one it would change the vector whose iterators `notify` holds,
and a callback that notifies again is left out (no observer of the test does either).
Sequential units take a call, or an iteration of a loop, as a step. In `Utf8` text
arrives octet by octet, and a loop of the library is a recursive function over the
positions of its text, which ends where the code throws; `is_overlong_sequence` and
its like test ranges of numbers, shifts and masks are divisions and remainders. Of the
unchecked functions `next`, `prior`, `append`, `utf8to32`, `utf32to8` and `utf8to16` are
modelled, as functions of valid text; on any other they may read past its end.
`unchecked::utf16to8` is left out.

## 3. The runs

| run | question | bounds |
|---|---|---|
| `rwlock_spin` | of the one: exact word, refinement, announced readers do not starve; of the other: one writer at a time at the word, writer preference, refinement, queued writers do not starve | 4 threads; 3 threads, counters wrap at 6 |
| `rwlock_fair` | service in order, the turn is visible though writes come in two, refinement, nobody starves | 3 threads, counts wrap at 4 |
| `critsect` | every lock knows its holder though tickets wrap, refinement, assignments of the fair lock end | 3 threads, one lock of each kind, tickets wrap at 4 |
| `master_login` | maps and types agree; an accepted login succeeds, on a live server | 2 accounts, 2 servers, 2 registrations, 3 session keys, 1 query at the database, lists of up to 2 players |
| `master_move` | sessions, wait list and expiry agree and sessions expire in turn, a tick logs out exactly the due, every session closes, also when moves overlap | 1 account, 3 servers, 3 registrations, 3 session keys, 1 query, lists of up to 2 players |
| `master_move_dangling` | (violation) log out of a deleted player | as `master_move` |
| `host_resource` | a client in one place, a host on one stage, the index lists the connected, clients that left are released | 2 clients, 1 host, 2 stages, 1 posting thread, queue of 2, 2 messages per `Update` |
| `host_resource_pool` | (violation) the pool keeps clients that left | 1 client, 1 host, 1 stage |
| `shared` | of the counts: exact, freed once, never revived, a drained closer is alone; one instance; the chat room is a broadcast and serves; the stream is in order; no connection is begun over an open one; the echo servers and the provider end | 4 users or threads of a count, 2 threads and 2 objects of the singleton, 2 sessions, 4 messages in the room with 2 recent ones, 3 sends of 1 or 3 bytes |
| `units` | each unit's own promises | 6 slots of which one wait watches 3, 3 versions of a form, 4 octets of 16, strings and buffers of up to 9, 4 events at 2 times, 3 pushes and 2 threads at the queue, a field of 3 by 2 and 4 rows, 3 message ids of which the sizes are known, 2 works, 2 events and 2 observers, 3 ledger entries in 2 slots |
| `ledger_file` | (violation) a saved file's lines do not add up to its total | 2 slots |
| `provider_touch` | (violation) a connection that was lost is not made again | the two communicators |

*Why the bounds are enough.*  Locks: with three threads there is a holder, a
waiter that is next and one that overtakes; the moduli are the smallest that the
assumption on them allows or one more, so counters wrap many times in every run.
Counts: an object needs a last holder, a late `RefAdd` and two stale copies.
Master: two accounts show what one player's log out does to another's entries; three
session keys are a login, a move and a relogin; a server may register, disconnect
and register again.  `MaxIds` is 1, so that the id container overflows.  Host
resources: two clients and two stages give every conflict of assignments; an
`Update` of two messages leaves messages behind in a queue the posting thread
refills.  Units: a third message drops the oldest of two recent
ones; three sends leave one in the queue while another is flushed in part; six
slots hold a pool that one wait can watch and one that it cannot; three versions
of the form keep, drop, add and resize a field; the sixteen octets are the first
and last of each class that the coding tells apart, and four are the longest
sequence; nine characters are two chunks and one; two slots and three entries fill
the ledger.  `KeysLeft`, `MaxServerKeys`, `MaxPending`, `MaxListed` and `QueueCap` are bounds of the
model and not of the code; they appear in guards and are named in `CONSTANTS`.

*Restrictions.*  A player may ask to move while a session of its is open, in every run
of the master.  What is then no longer true is in `SessionsAgree`: its second part is
about players that were never `overlapped`, and `master_move_dangling` shows what becomes
of the others.  After a log out of a deleted player a behaviour stops, which is why
`MCMasterMove.cfg` does not check for deadlock; `SessionsClose` promises nothing of
such a behaviour.  `UidOf` gives every account its uid: a login that the database answers
with `UID_INVALID` is not modelled.  Server keys never repeat.  The reader-writer
locks' `Free` and the debug statistics are left out.

*Fairness.*  Liveness is checked under weak fairness of every thread's own steps
(the scheduler runs every thread, and a holder leaves its section); calling a
lock is never fair.  The locks' progress needs no more, because each waits on a
condition that stays true until the waiter acts.  Under reader preference a writer has no
such promise and none is stated.  In `critsect` a thread that guards a
lock assigns again in the end (its destructor); the recursive and the flag lock
promise no turn, so only assignments of the fair lock are said to end.  The master's tick and the clock are
fair (the frame of the service loops for ever); messages are not.  `Update` is
called in every turn of the main loop; posting threads and callbacks need never
act, but may act for ever.  `LockingRefCount` has no liveness property: its inner
spin lock is unfair, so that a closer gets in cannot be promised.  In `shared` the
threads that have work run, a write of the chat completes (well or with an error)
while the service runs, and a read need not; nobody has to start a unit, to enter a
`q` or to destroy the provider.  The other units, and all of `units`, state safety only.

*Findings.*  `master_move_dangling`: `ReserveMoveSession` opens a second session beside
one that is open; `LogOut` erases only the entry of the current key, and the other
one, when it expires, logs out a deleted object.  `host_resource_pool`: `RemoveResource`
deletes a client that `m_HostableClt` still points to.  `ledger_file`: the comment on the
flag of an entry, by which saving names it, has 1 for an expense and 2 for income;
entering has them the other way round, and the complete list, a third way, tests for 0.
`provider_touch`: the comments say that disconnected sockets are connected again by
`TryConnect`; `DisconnectFromServer` does not enter the state in which that would.

*What the properties except.*  Some units keep less than their names promise, and
the property states what they do keep, with the exception in its comment:

* A second thread that finds `instance_` set may get an incomplete object
  (`OneInstance` says this only of a thread that came by the lock).
* A direct send of a part of a message, and a queue that is cleared when its front
  was sent in part, tear the stream (`StreamInOrder`).
* What `myState` was before the constructor set it may end the network thread at once
  (`ProviderEnds` holds then too).  The loop serves events of an index above 0 only, so
  those of the first communicator, the middleware's, are never served and hide those of
  the second; no property says otherwise.
* A `q` that comes before `PLSSThread` has set its pointer leaves the unit running
  (`QuitEndsUnit`).  The echo sessions and the chat's `io_service`, which is not reset,
  serve one run of the unit only.
* One wait names one ended process, and a pool beyond its limit of handles, or with
  a gap, is not watched (`TurnRestoresPool`).
* A player that is given a session beside an open one keeps both; `SessionsAgree` says of
  it only that both will expire.
* Two consumers may pass the test of `pop` together and pop an empty queue
  (`QueuesInOrder`).
* A buffer with old contents behind the last record is read on (`LoadedAsSaved`).
* A string longer than its buffer gives an expression that ends in `&` or writes
  behind the buffer, as the work's own example does (`EncodingsAgree`).
* The ledger adds an entry of the day 0 to the total and overwrites it, and opens a
  format other than the one it saves (`LedgerBalances`).  Its complete list (`fnPrint`)
  shows every expense as income; of its names the property keeps those of income.  Its
  statistics overwrite the years.
* Text typed into the works' menu counts as 0 and runs the first work (`Menus`).

## 4. What is proved

Each theorem holds for all values of the constants that satisfy the assumptions:
a finite set of threads or users (with the creator among them), and counters wide
enough to tell them apart.  Those of `MCShared` and `MCUnits` are that the null pointer
is no object, that sizes, lengths and counts are natural numbers, and that moduli,
the number of recent messages and the number of events are not 0; that octets are
numbers up to 255, that positions of bits are signed and sizes unsigned numbers of one
width, that a string is shorter than sizes wrap, and that the fields of a version of
the form have types of their own, none of which is the 0 that ends the records.  `RWLockWP` needs a modulus of at least twice the number of
threads (a reader must not take a value from before for one from after), the tickets
of `CritSect` a modulus above it, the counts of `RWLockFair` a top bit not below it, and
`LockingRefCount` an unsigned short above it.  `CritSect` has any sets of locks, of which
none is of two kinds.

* **`RWLockRPProofs`**, about the lock as `MCRWLock` has it: the conjunction of `TypeOK`,
  `WordCountsHolders` and `MutualExclusion` is inductive.  Mutual exclusion alone is not: that an exchange of 0 finds nobody
  inside, and that an even word means no writer, both follow from what the word
  counts.  From it: `TypeCorrect`, `WordCounts`, `MutualExclusionHolds`, and
  `Implementation`, that every step is a step of `RWLockSpec` or invisible there.
* **`RWLockWPProofs`**: the invariant has three parts.  `TicketsInLine`: there are as
  many queued writers as requests not completed, each with its own ticket among them.
  `ReadersRemember`: as long as a writer is ahead of a reader, the counter which the
  reader has read first still differs from anything the other one can be, although
  both move on; this is where a modulus of twice the threads is needed.  `WordInv`: the
  word counts the readers and the writer.  From them: `WritersFirstHolds`,
  `MutualExclusionHolds`, `Implementation`.
* **`RWLockFairProofs`**: `Line` says how far a count of requests is ahead of its
  completions, `Behind` how far what a thread has fetched is, both up to the top bit,
  which `InterlockedClearAdd` clears and the addition sets again; `SectionInv` says that
  the thread between these two writes is alone there and has left the bit clear.
  `TurnInv`: a thread with nobody ahead sees equal counts.  From them:
  `TurnsAreInOrder`, `Implementation`.
* **`CritSectProofs`**: a step changes what one thread has of at most one lock.  So one
  layer of lemmas says what entering and leaving do to a lock of each kind
  (`SectionInv`: the depth is the number of the owner's entries; `FlagInv`: the bit is set
  exactly while somebody holds; `TicketInv`: the users' tickets are distinct and follow
  the one served), and the other which of these each action is, from what `Shape` says
  of the auto locks.  From them: `HoldersAreKnown`, `Implementation`.
* **`MasterServerProofs`**: for any accounts, servers, settings and bounds.  A handler is a
  composition of operators on the player manager, so the invariant is one of managers,
  and each operator keeps it, whichever handler calls it.  `ManagerInv` holds however
  moves overlap: the maps, count and ids agree with the heap (`MapsInv`), keys in the
  wait list rise up to the one given out last and the times with them (`WaitInv`), no two
  players have the same session, and who is under way has an open one (`MovingInv`).
  `OpenInv` is the part about overlapping moves: an open session of a player that was
  never `overlapped` is its current one, so that a log out erases it, and only an
  `overlapped` player can be `wild`.  A tick expires any number of sessions and a list logs in any number of
  players: that these recursive functions exist (`ExpireFirstSteps`, `LogInAllSteps`) and
  what holds after each element (`ExpireFirstKeeps`, `LogInAllKeeps`) is proved by
  induction on the set of lengths for which it holds (`SetInduction`).  That a tick stops
  at the right place is `ExpiredAreTheDue`, which needs the order of the list.  From them:
  `MapsAlwaysAgree`, `ExpireInTurn`, and the action properties `AcceptedLogin` and
  `NewPlayersOnLive`; `SessionsAlwaysAgree` and `TickExact`.
* **`HostResourceMgrProofs`**: for any sets of clients, hosts, other connections, stages and
  threads, and any length of the queue; no connection is of two types.  `PlaceInv` says
  of a client that it is in one place and has been connected before it was in any, so
  that describing a new connection offers it only once.  Of a host the queue has to be
  known: `HostPath` says there is a path of the host, from the stage whose info names it
  along its queued messages to the stage it hosts or is about to join or leave, on which
  each message finds the host where the one before it has left it (`Path`) and from
  each stage of which it leaves or which it still hosts (`WillLeave`).  A pop drops the
  first step of the path, a push adds one.  From them: `ResourcesAreInOnePlace`,
  `LossesAreCleared`.

* **`SharedProofs`**: for each program an invariant of its own variables, which the
  steps of the others leave alone (`RefSteps` and its like).
  * `RefCount`: the invariant adds to the exact count and to `FreedOnce` that a copy at
    hand is never 0 (`CopiesArePositive`), without which an exchange could succeed on a
    released object.  From it: `CountIsExact`, `FreedOnceHolds` and the action property
    `NeverRevivedHolds`.
  * `LockingRefCount`: the inner lock admits one thread (`SyncExcludes`), what it has
    read is current (`ReadIsCurrent`), there is one closer exactly while the count is
    locked (`CloserLocks`), the count is that of the users (`UsersAreCounted`), and a
    closer that has finished waiting has no user beside it (`AloneMeansDrained`).  Each
    operation writes values it has read earlier, so the count is exact only with the
    first two.  From it: `CountIsUsersHolds` and the refinement `LiteImplementsRWLock`.
  * `Singleton`: until the exit one thread is in the lock (`LockIsExclusive`), an object
    comes only there and once (`MadeOnce`), and `instance_` names it only when it is
    complete or its constructor still runs (`CompleteOrConstructed`).  From it:
    `OneInstanceHolds`.
  * `AsioChat`: a session writes one message at a time, the front of its queue (`Fits`);
    what was written to a session and what waits for it are consecutive
    messages, up to the last of the room for a member (`ChatInv`).  From it the refinement
    `ChatImplementsBroadcast`, in which a join enters with the recent messages and a
    completed write is a delivery.
  * `AuthSock`: while no message is torn, the wire and what waits are together what was
    accepted (`SockStream`).  What waits is the concatenation of a queue of sequences, a
    recursive function of the community modules: its laws (`FlattenEmpty`,
    `FlattenAppend`, `FlattenFront`) are proved first, by induction on the set of lengths
    for which they hold.  From it: `StreamInOrderHolds`.
  * `AuthProvider`: a communicator that has a socket is not in the state from which
    connections are begun (`ProviderInv`).  From it the action property
    `ConnectsClosedSocketsHolds`.
* **`UnitsProofs`**, laid out in the same way:
  * `HostProcessPool`: whatever the wait returns, the least of the ended processes is the
    one started again (`PoolRun`), and growing the pool fills every slot it can
    (`PoolGrowSize`).  From them the action property `TurnRestoresPoolHolds`.
  * `EventQueues`: `Lines` says that a sequence has the elements of a set, in an order.
    What is inserted before the first element it precedes keeps a line (`InsertedInLine`),
    two lines of the same elements are the same (`LinesAgree`) and a reversed line is one
    of the opposite order (`LinesReversed`).  The priority queue breaks ties as it likes, so
    of it only times can agree: the next one out has the time of the next in line, since
    otherwise more events would be earlier than there are places for (`NextTime`, by the
    pigeonhole principle).
  * `QueueSpinLocked`: nobody but the thread that found the queue not empty pops it, until
    two have found it so (`QueueInv`).  `ScrollGame`: a row of the field is the one drawn
    so many intervals ago (`ScrollInv`).  With the events: `QueuesInOrderHolds`.
  * `ZoneMsgDispatcher`, `Menus`, `Observer`: the handlers are those that were registered,
    wherever the vector of them ends (`DispatcherInv`), the map of a menu numbers each
    initialised unit once (`MenuInv`), and the observers of an event stand in the order of
    their registration (`SubjectInv`).  From them: `DispatchedAsRegisteredHolds`.
  * `Ledger`: the sum of the community modules is a recursive function over the subsets of
    a set, which takes any element first.  That it exists and that it is the same
    whichever is taken is proved by induction on the number of elements; an entry
    more or less then changes it by its money.  `LedgerInv`: the slots that are free have
    no flag, so that no list has them, an entry without a flag has no money, and the
    total is the one of the lists.  From it: `LedgerBalancesHolds`.
  * `BLOBAgent`: the reader's recursion follows the lengths in the records and the
    writer's the fields of its version.  That they go through the same positions is an
    induction on the number of records; after each of them the form has what the fields
    so far say (`BlobInv`: the buffer holds what was saved last, by a version that compiles).
    From it the action property `LoadedAsSavedHolds`.
  * `BitBuff`: each position has a character and a bit of its own, so setting one leaves
    the others alone; the import is an induction on the length of the string (`FlagInv`).
  * `DebugAssignString`: the assignments stand one behind the other, each writes the bytes
    from its place on, and the byte is the one of the string at that place
    (`AssignInv`); no piece is put where another has written.
  * `Utf8`: `validate_next` accepts exactly the well-formed sequences (`NextIsSequence`), and
    `append` makes the same octets of their code points (`Decoded`); for each length this is
    linear arithmetic in at most four octets.  Every loop goes from a position to a later
    one, so what holds at a position if it holds at the later ones holds at all
    (`Backwards`), which gives both that these recursive functions exist (`WalkExists`)
    and what they compute.  A text is well formed if it can be cut into sequences
    (`WellFormedIsCut`).  A walk of `find_invalid` meets every cut (`CutsAreFound`), hence
    `ValidIsWellFormed`; the round trips (`BackFromPoints`, `BackFromWords`) take one code
    point off the front; what `replace_invalid` writes is a well-formed sequence before
    a well-formed rest (`Prepended`).  `TextInv` says that the iterator stands between two
    sequences, which `prior` needs, since it goes back to any octet that is no trail.
    The unchecked functions follow the same cut on valid text, so they give what the
    checked ones give (`UncheckedAt`, `SamePoints`, `SameWords`, `SameEncoded`,
    `SamePrior`).
    With the flags and the strings: `EncodingsAgreeHolds`.

*Only model-checked*: all liveness (`AnnouncedReaderEnters`, `QueuedWriterEnters`,
`QueuedThreadEnters`, `AssignmentEnds`, `SessionsClose`, `GoneClientReleased`,
`MemberIsServed`, `QuitEndsUnit`, `ProviderEnds`), since fairness and `ENABLED` are out of
TLAPS's reach here.  Every invariant and every action property of a passing run, and
every refinement, is a theorem.  The library's induction theorems take an operator as a
parameter, which the provers here cannot instantiate; where a proof needs an
induction, it is on the set of numbers for which the statement holds.

## 5. Not modelled

* *Answer handlers and sessions of the authentication provider*: what is received is
  never cut into messages, so nothing calls them.
* *`SvrStatus` and `ShutdownSvr` of the master*: load figures that are stored and sent
  on, and an order to a control manager that is not in the repository.  The choice
  of the least loaded game server is any live one in the model.
* *Console exit event*: a handler that sets one of two events, and a main that waits.
* *Field info classes, template and language demonstrations* (`packetVersionComparsion`,
  `StatTraits`, `bitPartition`, the visitor, `exportableMap`, `NetOrdering`, `VoteBase`,
  `IterateRegister`, `Multicaster`, the multi-index test): data or types fixed at compile
  time, or one call that prints; they keep no state between calls.
* *CLI tools*: a user interface around a few lines of arithmetic.
* *Build files, macros, database scripts*: no program logic.
* *A client taken out of the host pool by a message that is dropped*
  (`HostResourceMgr.cpp:599`), *a player whose server came back under another key*
  (`SvcConfig.cpp:103`) and *the unfair spin lock under the closer* (`critsect.h:655`) are
  in the models, but nothing in the source says what should hold; no property does.

## 6. Plan

1. The remaining handlers of the master server and the console exit event.
