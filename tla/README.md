# TAP42 in TLA+

TAP42 is a small multi-user dungeon: a C++ server that keeps one shared world, a
line protocol over TCP (`PROTOCOL.md`), a terminal client and a Qt client. This
directory models the server: what its threads do to the sockets, to the
characters and their files, to the groups and to the world, and in which orders;
how a client's bytes become commands; and the terminal client: its two threads,
their connection, and what happens in its windows.
TLC checks the models on small instances; TLAPS proves for every size all their
invariants, the action property and the four refinements, that is, everything but
liveness. Paths below are relative to `server/src/` unless they say otherwise.

## The system

The process has one thread per accepted connection (`network/server.cpp`). The
thread reads a line, runs the command and writes the answer; it also writes the
events the command causes to other clients' sockets. Threads meet in:

| Component | State | Operations | Shared through |
|---|---|---|---|
| Sessions (`network/session.*`, `server.cpp`, `platform_socket.cpp`) | descriptor, `connected`, `player_id`, `current_room`, `write_mutex`, receive buffer | accept, `read_line`, `send_line`, close | `shared_ptr<Session>` held by any broadcasting thread |
| Line reader (`network/line_reader.cpp`) | receive buffer | cut at newlines, limit, timeout on partial lines | own thread only |
| Registry (`network/registry.cpp`) | name → session | add, remove, find, all, count | its own mutex |
| World (`world/world.hpp`) | rooms, items, NPCs, quests, players, groups, memberships, invitations | the commands | `World::mutex` |
| Dispatcher (`commands/dispatcher.cpp`) | none | CREATE_CHARACTER, CONNECT, LOOK, MOVE, WHO, PROFILE, CHAT, QUIT, dispatch, `handle_disconnect` | World, registry, store |
| Items, combat, quests, NPCs (`commands/*_commands.cpp`) | in World | TAKE, DROP, USE, INVENTORY, ATTACK, STATUS, QUESTS, TALK | World, store |
| Groups (`commands/group_commands.cpp`) | in World | GROUP CREATE, INVITE, ACCEPT, LEAVE | World, registry |
| Broadcasts (`commands/common.cpp`) | none | to a room, to a group, to all, STATS | World, registry, sessions |
| Character store (`world/character_store.cpp`) | one JSON file per name, a mutex per name | init, exists, load, save | the file system |
| Loader (`world/loader.cpp`) | none | builds World from `world.json` at start | runs before the threads |
| Abuse monitor, logger (`logging/`) | windows of time stamps; a stream | record, log | their own mutexes |
| Client connection (`client/shared/source/ClientHTTP.cpp`) | buffers, poll set, `keepAlive`, `preStop` | the worker's poll loop, reconnection, stop | a socket pair and a wake-up pipe |
| Client interface (`client/shared/source/UI.cpp`, `client/cli/`, `client/gui/`) | phase, window, queue of commands | enter, send, read, dispatch, handle exceptions, draw | the same, and the protocol |
| Terminal windows (`client/cli/source/*Tab.cpp`, `*Window.cpp`) | the line typed, its cursor, history and suggestions; panes of lines and their place; the active tab | keys, drawing, clearing, resizing | a pipe of entered lines |

What is hard here is what happens *between* critical sections. No mutex is
meant to be held during network I/O and only the name lock during file I/O, so
every command is a chain: a critical section of `World::mutex`, then saves,
sends and registry calls that use copies made in the section. Other threads act
between any two links. Besides, the kernel reuses descriptor numbers, clients
go away or stop reading at any moment, and the server can be killed between two
steps of a save. There are no retries, no acknowledgements and no background
threads.

What makes each component correct:

- **Sessions**: a line reaches only the client it is for, whole; nothing is
  written to a descriptor number that has been closed; the descriptor of a lost
  client is given back.
- **Presence**: a name is played by one session; unless a save fails, it is
  created once and can always be found again, and no state of a character is
  forgotten; no finished session stays registered.
- **STATS**: after overlapping broadcasts everyone has been told the truth, and
  they do end when clients read.
- **Broadcasts**: who belongs to the audience of an event all along is told; who
  listens knows who is in the room.
- **Intake**: bytes become lines whatever pieces they come in; the buffer is
  bounded; a message that has begun is settled; the monitor counts a window.
- **Store**: the file always holds one whole state; concurrent saves and loads
  and crashes behave as operations on an atomic register.
- **Groups**: the two tables that hold each membership agree; members are
  online; who comes into a group with members was invited by one of them; names
  are taken as long as used.
- **World**: an item is in one place as long as no login brings it back; an NPC is in
  its room until it dies; a defeat quest completes for everyone online when it is
  settled, and only when its targets are dead; a fallen player is back at once, in a room the session agrees on.
- **Client**: an answer is taken for the command it answers; the end of the
  connection is heard of; the client can be stopped at any time.
- **Windows**: an input line behaves as an editor and the screen shows what it
  holds; a pane shows its lines, the newest unless the user has gone up.

## The modules

| Module | Models | Abstract / composed with |
|---|---|---|
| `Delivery` | what a session promises its users: lines arrive whole, in open connections only | abstract specification |
| `SessionIO` | threads, `send_line`, `client_loop`, accept, close, descriptor reuse, lost and stalled clients | implements `Delivery` |
| `Presence` | CREATE_CHARACTER, CONNECT, `handle_disconnect` with players, registry and files | stands on a save that happens or fails in one step |
| `CharacterFile` | one character's file as an atomic register | abstract specification |
| `CharacterStore` | `save` and `load` down to open, write, rename, read, with crashes | implements `CharacterFile` |
| `Stats` | `broadcast_stats` over a changing registry | |
| `Broadcast` | the events of rooms and groups, CHAT and LOOK, over changing audiences | logins as far as they change who is told |
| `Groups` | `groups`, `player_group`, `pending_invites` and the GROUP commands | |
| `Realm` | places, items, combat, quests, dialogues, logins and restarts | a login plays the last state or an older copy, as `Presence` shows it can |
| `Framing` | what a client may rely on when it sends lines | abstract specification |
| `Intake` | accept, `read_line`, the entry of `handle_command`, the sliding windows | implements `Framing` |
| `ClientUI` | what the methods of `UI` do to the interface's own state | operators, used by `Client` |
| `Client` | the two threads of a terminal client, socket pair, connection, user | the server as far as it answers |
| `LineEditor` | what somebody who types a line expects | abstract specification |
| `InputTab`, `OutputTab` | the input line and the pane of lines, one operator per method | operators, used by `Window` |
| `Window` | a window with its tabs and buttons, under keys, lines that arrive, and resizing | each input tab implements `LineEditor` |
| `X_proofs` | theorems about `X`: `SessionIO`, `Presence`, `Broadcast`, `Intake`, `Client`, `Window` | extends `X` |
| `GroupsAndStats_proofs`, `RealmAndStore_proofs` | theorems about `Groups` and `Stats`, `Realm` and `CharacterStore` | extend both, for which the definitions of `Stats` and `CharacterStore` begin with their names (`StatsSpec`, `StoreSpec`) |
| `MCX` | constants and symmetry for TLC | extends `X` |

Variables have the names of the fields they stand for, actions the names of the
functions; a variable marked *history* in its module records the past for a
property and influences no action. An operator marked *(bug)* in a comment is
a plausible mistake in the definition that follows it. No specification uses
one; each is there to be put in that definition's place, to see that a property
notices.

**SessionIO.** `pc[t]` is the place of connection `t`'s thread; `call[t]` its
current `send_line`. A line takes `Parts` calls of `send()`, each its own step;
a part goes to whatever connection the *number* stands for in `fdConn` at that
moment, so misdirected and spliced bytes are possible in the model and have to
be prevented by `write_mutex` and the check of `connected`, as in the code. What
a command does inside `World::mutex` is left out; that it takes the mutex is
not. `shared` are the sessions other threads may hold a pointer to: it never
shrinks, which covers a broadcast that took its list long ago.

**Presence.** One step for each critical section, registry call and file
operation of the three handlers. The contents of a character are a version
number, new with each change, so that an older state can be told from a newer
one; `snap[s]` are the copies the thread has still to save. `ChangeOwn` stands
for every command that changes its own player and `DefeatQuest` for
`on_npc_defeated`, which changes and saves others' characters too. A save is
one step, in which it happens or fails: `CharacterStore` looks inside. When the
temporary file cannot be opened or renamed, `save` logs that and returns
(`world/character_store.cpp:132-143`), and no caller can tell: CREATE_CHARACTER
answers OK and goes on. `lost` are the states this happened to. CONNECT can be
answered 404 at any time, as a file may be there and not open.

**CharacterStore.** Names of the directory, inodes and open streams: an open
stream keeps its inode through a rename. Contents are a whole state or
`Truncated`. Opening and renaming can fail anywhere; a write that fails unseen
is possible when `DiskFull`. A crash ends every thread and leaves the files. The
machine itself does not crash: nothing is lost that was written.

**Groups.** Each command is one critical section and so one action; `groups[g]`
counts how often each player is listed and `pending_invites` how often each
pair is in the multimap, so that duplicates show. ACCEPT compares an iterator it
has just erased (`group_commands.cpp:113-117`); with the library of the build
the comparison is false, and that is the outcome modelled. Invitations are to a
name, and stay when the group that has it is disbanded
(`leave_group_locked`): `asked` counts, as history, those to the group that has
the name now, and `disbanded` are the names that groups have lost. Of the
invitations to one name the oldest counts as used up first, as in the multimap.

**Stats.** Counting, listing and each send are steps of their own. A send to a
client that does not read (`stalled`) does not return, and the broadcast waits
in it. Every session logs in once and leaves once, under its own name.

**Broadcast.** A thread that has changed the world goes through its `events`:
for each it collects the names of the audience in one step and looks one up and
writes to it in each that follows. Every event carries, as history, who is
`owed` it: the sessions that have been in its audience ever since it came up.
`heard` is what a client can conclude of the room from LOOK and the two PRESENCE
events; `misled` are the clients and players an event of another time was on its way to
or from when they moved, logged in or looked. Logging in tells nobody
(`dispatcher.cpp:155-161`), so what a client knows of a player ends there. Two
players have three sessions: one of them can be back before its disconnect is over.

**Intake.** The connections of one address, one after the other. Bytes are a
letter, a newline and a carriage return; `recv` gives any number up to `Chunk`.
`timed` is `SO_RCVTIMEO`, which `read_line` sets before every `recv`: it starts
again with every byte, so a client that drips is ended by the limit and not by
the clock. Times are kept as ages, and `Tick` is a second of the code. Blank lines
are refused before they are counted (`dispatcher.cpp:312-317`). `Framing` knows
neither buffer nor pieces: it takes the first line of what was sent, and may
close on a client only when it is gone, has quit, or owes a line that no prefix
within the limit completes.

**Realm.** One action per critical section. After a kill or a TAKE the thread
goes on to `on_npc_defeated` or `on_item_taken`, a second critical section:
`pending[p]` says so, and others act in between. `at[i][x]` counts how often
item `i` is listed in room or inventory `x`. `progress` is the place in an NPC's
lines; `ValidWorld` is what the loader checks, `RealmAssumption` adds what it
takes for granted. A login plays the character as it was left (`Connect`), or an
older copy of it (`ConnectOlder`): `Load` keeps a copy of any moment, and stands
both for the load of a `cmd_connect` that another session of the character
overtakes (`dispatcher.cpp:134-148`) and for a file that later saves did not
reach. `replayed` are the items such a login has brought back or taken away,
`late` the defeat quests that were over and settled when a player came, which
nothing completes for it any more. A restart reloads the world and keeps the
characters. `load` does not check that the room of a character still exists
(`world/character_store.cpp:83`); a restart with another world is not in the model,
nor is a character created anew after all its saves have failed.

**Client.** Both threads poll and then handle what was ready in the fixed order of the
code; `turn` and `due` are what is left of the turn. `due` can change on the way: a
handler that meets the end of the stream overwrites `revents` with `POLLHUP`, so that
`handleServerError` comes next and a pending `POLLOUT` is forgotten. The streams are
sequences of whole lines, each with the command it answers, which the code does not
know. `conn` is the connection as the client's kernel sees it: `closed` after the
server's FIN, `broken` when something was sent after it, `reset`. The server is
external: it answers in order, and closes, resets or breaks off for no reason. `app`
is the interface's own state, one record, and `ClientUI` has one operator per method
of `UI`, with the overriding method of `CLI` where there is one; a `Fails` line stands
for an `assert` that ends the process (`ui = "aborted"`). Commands are of the kinds
the code treats differently: QUIT, a text that contains it (`ClientHTTP.cpp:213` looks
for the word anywhere), a name, and any other.

**Window.** One window at a time, of any kind; `Client` says which is shown when. A
tab is a record: `commandBuffer` is what the code sends, `x` and `drawn` are what
ncurses has, `rows` what the window of a pane shows. The code keeps no cursor of its
own but asks ncurses (`getyx`), so `ImplementsEditor` is about two states that every
key changes separately. `LineEditor` is a form of several fields, here the tabs, since
a key changes one line and a redrawing several. A line that reaches the width of its
window ends its promise: the cursor then stays in the last column, over another
character. So does an *odd* character, one not shown in one column: every key that
is bound to nothing goes into the line (`InputTab.cpp:325-333`), ESC and Ctrl-x are
shown as two columns, a letter of two bytes as one, and the place in the buffer is
the column of the cursor. `ColumnsOf` is what ncurses makes of a line. Right of the
end of the line a character goes where it does not belong (`stale` is what the line
then gets longer by), and a deletion there, of a negative number of bytes, ends the
client. `LineEditor` takes an odd line back as soon as it is written anew without.
Its `TakeBack` is the key that goes down in the history: it takes the line kept aside
for the one typed, also when nothing is aside. The places of the suggestions that fit
go up, and are kept as a set with the one shown last. `UpdateContent` says in one step
what printing row after row comes to: of the lines too wide for a row only the last is
seen to go on. Height 0 stands for a terminal in which a window cannot be made. `open =
"aborted"` is where an assertion fails or memory outside of a buffer is written;
nothing is claimed from there on.

## Runs

| Run | Instance | Checks |
|---|---|---|
| `session` | 2 connections, 2 descriptors, one client may stall, 2 parts, 2 lines each, fair | `OnlyOwnBytes`, `NoSendAfterClose`, `LinesIntact`, `ImplementsDelivery`, `DescriptorReturned` |
| `presence` | 3 sessions, 2 names, 3 versions, any save may fail | `OneSessionPerName`, `NameCreatedOnce`, `CreatedIsOnDisk`, `NoDeadSessionRegistered`, `EveryStateWritten` |
| `presence_registered` | 3 sessions, 1 name, 2 versions | `PlayersRegistered` is violated |
| `stats` | 3 sessions, the client of one may stall, fair broadcasts | `StatsReachEveryone`, `CountArrives` |
| `broadcast` | 3 sessions of 2 players, 2 rooms, 1 group, 3 commands | `EventReaches`, `OnlookersKnow` |
| `groups` | 3 players, each of whose names can be a group's | `MembershipAgrees`, `MembersOnline`, `NameTakenWhileUsed`, `JoinsByInvitation` |
| `store` | 3 threads, 2 states, 5 inodes | `NeverTruncated`, `ImplementsFile` |
| `realm` | 2 players, 2 rooms, 2 rats, potion and grenade, both kinds of quest, a line unlocked by one, 1 incident (a login that plays an older copy, or a restart) | `DefeatSettled`, `CompletedMeansDead`, `ItemUnique`, `NpcPresentIffAlive`, `NextLineThere`, `SessionRoomAgrees` |
| `intake` | limit 1, chunks and 2 bytes on their way, 2 windows | `BufferBounded`, `WarnsOfTooMany`, `ImplementsFraming`, `BegunIsSettled` |
| `client` | 2 inputs, 1 incident (an event, a line in two pieces, an end of the connection, possibly inside a line), fair threads | `PlaceholderNeverSent`, `LostTold`, `AnswersMatch`, `StopReturns`, `LossArrives` |
| `client_assert` | the same | `WriteHasCommand` is violated |
| `window` | a buffer and a width of 3, panes of 1 and 2 rows, 2 letters and ESC, of which 3 are typed in a login window and 1 in a game window, 3 lines | `TypeOK`, `ScreenIsLine`, `RowsShowContent`, `NewestShown`, `ImplementsEditor` |

Every module states its `TypeOK` (`StatsTypeOK`, `StoreTypeOK`), and TLAPS proves it;
only that of `Window` is in a run, as it bounds the cursors and indexes of the tabs.

Why the bounds are enough:

- `session`: a number can be misused when a connection closes, another gets its
  number and a thread still holds the first session; with two connections the
  holder is the one that has the number now, and the theorems cover a third. Two
  lines are the greeting and one more, to itself or to the other. Two parts per
  line and two writers per client are the least that can splice.
- `presence`: two sessions race, and the third plays the character in between;
  two names let `on_npc_defeated` save somebody else's. Three versions are a
  creation and two changes, or a creation that is not saved, the next and a change.
- `stats`: two broadcasts overlap over a third client that stays, and may hold them up.
- `broadcast`: a mover, one who listens, and a session that takes over a name;
  three commands let one telling overlap a move and a LOOK or CHAT of the other.
- `store`: two writers and a reader, or a writer and two readers; five inodes
  serve both names and every open stream.
- `groups`: three players give a group that outlives its founder, invitations
  to two groups at once, and a name founded again under old invitations.
- `realm`: two rats make a kill that does not finish the quest and two that race
  to; a rat has one hit point and a blow deals none or three, so a hit is overkill;
  counterattacks miss or fell, as a player has one too: wounds are left to the proofs;
  two rooms and a respawn in one of them. One incident meets every moment of a
  fight and of a quest; an older copy and a restart in one behaviour, or two of
  either, are in the proofs only.
- `intake`: lines that are empty, at and above the limit, in one piece or several, with
  bytes left over; the client may go on for ever, as nothing but what is on its
  way is bounded. `MCIntake` gives the windows lengths and thresholds that can be
  passed at different ages. `Happened` makes the history a set, one element for each
command or connection, so that it can be counted in the property and in its proof.
- `client`: two inputs are a login and a command, two names, a command and one
  whose text contains QUIT, or a login and a reconnection; windows can be changed
  and the client closed at any time besides. One incident meets every state of the
  two threads. Two losses, and what a second request to reconnect leaves in the
  pipe, are above the bound.
- `window`: three characters pass through lines that fit and one as wide as the
  window, with the buffer full; one of the three can be ESC, which by itself puts the
  cursor behind the end, and recalling, deleting and typing go on from there; a fourth,
  written behind the buffer, would end the model. Hints of one and two letters fit or not; three lines are more than a pane has rows. A login window has
  the keys, a game window the panes, an error window the buttons that come and go.

Symmetry is used only in runs without liveness, over sets whose members the
specification treats alike. `realm` leaves `last_target` out of what
tells states apart (`VIEW`): STATUS alone reads it (`combat_commands.cpp:168`),
which changes nothing, and none of its properties is about it; and
it leaves out a copy that no login may play any more. `groups` leaves out
`reply`, which no action and none of its properties reads. Where sessions are finitely many and may all
be over (`SessionIO`, `Presence`, `Stats`, `Broadcast`), or the user may have stopped the
client or do nothing (`Client`, `Window`), the end is not a deadlock and
deadlock is not checked; it is everywhere else.

**Fairness.** `SessionIO` assumes that a thread with a step of its own to take is
in the end scheduled, and that `recv()` on a connection whose client is gone in
the end returns (a client leaves finitely many commands behind). Nothing makes
a client send. A mutex is not assumed to be fair: the number of lines is
bounded, so contention is finite. `DescriptorReturned` excepts the
behaviours in which a client again and again stops reading, and without that
exception TLC refutes it: nothing in the code limits how long `send()` may
block, so a client that neither reads nor leaves holds, with its write mutex,
every thread that writes to it. `Stats`
assumes that a thread in the middle of a broadcast is scheduled, but for the
time it has a client on its list that does not read (`Runs`), and nothing of the
clients: `CountArrives` excepts the behaviours in which one again and again stops
reading, as a broadcast that waits tells nobody further and none is repeated. `Client`
assumes that its two threads are scheduled, and nothing of the user and the
server. `Intake` assumes that
the connection's thread is scheduled and that time goes on, so that a `recv`
with a timeout ends (`network/line_reader.cpp:27`), and nothing of the client: an
idle one is never closed on. `LossArrives` excepts a client that has said QUIT (or sent a text with
that word), which is not told on purpose, and a worker that has ended.

## Known divergences

Two of the runs above show the code doing what a document or comment excludes:

- `PlayersRegistered`: `handle_disconnect` frees the name in `World::players`
  first and removes it from the registry last, by name
  (`dispatcher.cpp:387-399`). A session that has connected in between loses its
  entry and gets no event while it plays. `PROTOCOL.md:428-430`.
- `WriteHasCommand`: after anything it reads, an event or half a line included,
  the client wants to write if a command is in the queue, though it has been sent
  and waits for its answer (`UI.cpp:143-144`). Mostly it sends the command
  again, and the second answer is dropped or taken for the next command's. When
  the answer is read at the start of the very turn, the queue is empty and the
  assertion at `UI.cpp:107` ends the client.

The modules state further claims of the documents that TLC refutes; put one in
the place of the properties of the configuration named to see the trace. The first
three are where this project excepts something from a property that is checked:
`JoinsByInvitation`, `ItemUnique` and `ImplementsEditor` say that nothing else goes
wrong in their place.

| Claim | Configuration | What happens |
|---|---|---|
| `InvitationIsSpecific` (`group_commands.cpp:99-100`) | `Groups` | an invitation is to a name and outlives the group (`group_commands.cpp:149-158`): it admits into another group that is founded under the name later, whose members have invited nobody |
| `UniqueWhileRunning` (`README.md:103`) | `Realm` | a `cmd_connect` that loads a character, is overtaken by another session of it that drops an item and leaves, and then plays its copy (`dispatcher.cpp:134-148`), brings the item back: it lies in a room and in an inventory |
| `EditingGoesOn` (`README.md:169`) | `Window` | after ESC, which is shown as `^[`, the cursor is two columns from the prompt and the line has one character: Backspace or Delete there calls `memmove` with a length of -1 (`client/cli/source/InputTab.cpp:92`, `69`) |
| `ConnectRestores` (`PROTOCOL.md:148-152`) | `Presence` | `cmd_connect` plays the copy it has loaded, although the character may have been played since, or the disconnect may not have saved yet (`dispatcher.cpp:134-148`) |
| `NameCreatedOnce`, `CreatedIsOnDisk` and `EveryStateWritten` without `lost` | `Presence` | a save fails, CREATE_CHARACTER answers OK all the same (`dispatcher.cpp:91-98`), and after the disconnect there is no character to CONNECT to and the name is free |
| `NeverTruncated` (`PROTOCOL.md:31-33`, `character_store.cpp:124-127`) | `CharacterStore` with `DiskFull = TRUE` | `save` does not look whether the write worked (`character_store.cpp:136`): a truncated file is renamed over the good one |
| `OnlookersAlwaysKnow` (`PROTOCOL.md:194-195`, `416`) | `Broadcast` | LOOK reads the room, the other player logs in, which nobody is told, and the answer says that it is not there; or an event and an answer come in the wrong order |
| `LastCountRight` (`PROTOCOL.md:426-430`) | `Stats` | two broadcasts reach a client in the wrong order, and the older count is the last (`common.cpp:83-88`) |
| `OverMeansCompleted` (`PROTOCOL.md:345-348`) | `Realm` | a quest in progress that others completed while the player was away stays so for good (`quest_commands.cpp:41`) |
| `LastPhaseKept` (`UI.cpp:88`) | `Client` | a name is entered, the loss is shown, the command is handled: a double error, and the way back leads to the error window |
| `LossShown` (`ClientHTTP.cpp:244`) | `Client` | an error in the same read raises before the line that tells of the loss, which stays unread in the buffer (`UI.cpp:205`) |
| `NoSendUnderWorldMutex` (`world.hpp:86-89`) | `SessionIO` | NAME_IN_USE is sent inside the critical section (`dispatcher.cpp:129`) |
| `SavesGoForward` (`quest_commands.cpp:111-114`) | `Presence` | `on_npc_defeated` saves a copy older than the file |
| `OneInvitePerInvitee` (`PROTOCOL.md:398-399`) | `Groups` | invitations pile up in a multimap |
| `InviteCreatesGroup` (`group_commands.cpp:13-16`) | `Groups` without its `VIEW` | INVITE without a group is refused |
| `AcceptNeverInternal` (`PROTOCOL.md:381`) | `Groups` without its `VIEW` | ACCEPT of another group than the one that invited: 500 |
| `CombatEndsWithFall` (`README.md:182`) | `Realm` | STATUS reports the fight the player fell in |
| `RewardUnique` (`README.md:190`) | `Realm` | two players fetch one item and both get the reward |
| `UniqueAcrossRestarts` (`README.md:103`) | `Realm` | the item a character carries lies in its room again |

Modelling the client showed more that no document excludes, in the order of
`client/shared/source`: `startWorker` stores `keepAlive` after it starts the
thread, which may end at once (`ClientHTTP.cpp:54-55`); a read error of the
socket (a reset) ends the worker in silence (`:132-133`, `Utils.cpp:170`), and
what was read together with the end of the stream is dropped (`Utils.cpp:162`);
a text with QUIT in it keeps a later loss from being told (`ClientHTTP.cpp:213`);
`connectToServer` asks for `POLLOUT` by the wrong buffer (`:46`), and a command
that was under way goes out on the new connection; the line that tells of a loss
is glued to a line that was cut off (`:251`); a loss before the first greeting
shows a window without a keyboard (`cli/source/CLI.cpp:26`, `196`). All of it is in the
model, and the properties say what holds nevertheless.

So did modelling the windows, in `client/cli/source`: a full line is written
behind the end of its buffer (`InputTab.cpp:406-429`, where a comment asks whether
that is safe); in a line that does not fit the cursor is not where the next character goes;
the line kept aside is not reset by Enter and comes back with the down key, which
erases the line that is typed when nothing is aside (`:259-278`; `README.md:167` calls
the key one for looking at the history); a key that is not shown in one column parts
the cursor and the buffer, so that the next letter is written behind the line and
what stood there becomes part of it (`:419-429`); suggestions of before a recall are still offered after it; a resize
while an error is shown ends the client by an assertion (`ErrorWindow.cpp:25`), and an
error in a terminal that is too small ends it by an exception nobody catches; after
a resize to nothing the next key writes before the buffer (`InputTab.cpp:317-333`);
`InOutTab::draw` keeps the place of its pane where `OutputTab::draw` goes to the
end, so that after a resize the newest answer can be out of sight (`NewestShown` is
about the pane of events); a line too wide for a row moves those after it.
And the full buffer of the connection (`ClientHTTP.cpp:180`): `recv` is then asked for
nothing and returns 0, which is taken for the end of the connection. `Client` has no
full buffers.
And the line reader: a line longer than `MAX_LINE_LENGTH` is accepted if its
end arrives in the piece that passes the limit (`network/line_reader.cpp:23`), up to `Limit + Chunk`.

## Proofs

An inductive invariant is proved of each module (`IInv`, in `Invariant`) and the
properties are drawn from it; TLC has checked every one of them on the instance of the module's
run.

**SessionIO** (`TypeCorrect`, `SendTheorem`, `OwnBytesTheorem`, `IntactTheorem`,
`DeliveryTheorem`), for any number of connections, numbers, parts and lines.
`Locking` adds the discipline to `OnlyOwnBytes`: a thread between lock and unlock
holds that session's write mutex, `connected` is true for it while it sends, and a
session that is connected owns its number. `connected` goes false and the number is
closed in one step under that mutex, so a sender cannot be overtaken. On it rests
`Splicing`: what a client has of an unfinished line is what the one thread that is
sending to it has sent so far, and nothing when nobody is. Then a last part makes the
line whole, and the step that sends it is `Deliver` of `Delivery`; accepting and
closing are `Open` and `Close`, and every other step stutters.

**Presence** (`TypeCorrect`, `OneSessionTheorem`, `CreatedOnceTheorem`,
`CreatedOnDiskTheorem`, `NoDeadSessionTheorem`, `WrittenTheorem`), for any
sessions, names and versions. `Identity`: types, names known past the login, and
one session per name, inductive because both logins look at the map in the
section that adds to it and only the owner removes. On it rests `Saving`: where
copies are by the place of their thread (`SnapShape`), nothing newer than the
newest state and nothing in a file that was not written (`Bounded`), and every
state written, lost to a failed save or held by a thread (`Accounted`); CONNECT may
drop its copy because it came from the file. `Creation` is the last part: when a
name is free in memory and on disk, `CreatedIsOnDisk` leaves nothing for each
creation before this one but a save that failed, and so `NameCreatedOnce`
goes on.

**CharacterStore** (`StoreTypeCorrect`, `WholeTheorem`, `FileTheorem`), for any threads,
states and inodes and across crashes. One thread is between lock and unlock
(`Locked`); the inode it writes to has the temporary name and not the file's
(`Apart`), and no reader has it open (`LoadsAreWhole`): an inode that a reader still
holds is in use and not given out again. So what is renamed is the state to be saved, whole.
The last two theorems assume `~DiskFull`: a write that fails unseen is a truncated
file, as the divergence `NeverTruncated` shows. Failures to open and to rename
are covered. In `FileTheorem` the rename is `Commit` and opening for reading is `Load`.

**Stats** (`StatsTypeCorrect`, `StatsTheorem`), for any finite number of sessions. Alone,
`StatsReachEveryone` says nothing while a broadcast is on. `ToldOrWill`: whoever is
registered has been told the present count, or some thread is about to count, or
has counted right and will list or has listed it. A change of the registry makes
every other count stale, but the thread that made it has not counted yet. Clients
that stall keep a broadcast from ending, and the theorem speaks of rest.

**Broadcast** (`TypeCorrect`, `EventTheorem`, `OnlookersTheorem`), for any sessions,
players, rooms and groups and any number of commands. For `EventReaches`: who is
owed an event is in its audience now (`Owing`), and once names have been
collected, among those still to be looked up (`Told`). `OnlookersKnow` says
something only when no thread has anything left to tell; `Informed` says it of every state: what
a client has heard, and what a LOOK under way has seen, is how it is, or news of that
player are on their way to it. To show that the news that come are right takes the
rest of `KInv`: events still to be told agree with where their player is (`Current`),
and who is being told is still in that room (`Aimed`), both but for the misled; a
player not misled has one session at work, so that his news cannot overtake each other (`Alone`);
a session is in the game from its login to its disconnect (`Lives`); and a client
not yet registered has heard nothing (`Fresh`). What a step leaves of the news under
way is the lemma `SteadyIs` and those after it, from which the proof argues.

**Groups** (`TypeCorrect`, `MembershipTheorem`, `OnlineTheorem`, `NameTheorem`,
`JoinTheorem`), for any players and group names. The safety properties are
inductive together, not alone: that names are taken while used needs the
tables to agree, and that founding a group makes no double membership needs the
name to be free. `JoinTheorem` is an action property; it rests on `AskedAll`: as long
as no group of a name was disbanded, the invitations to the name are all to the
group that has it.

**Realm** (`TypeCorrect`, `SessionRoomTheorem`, `NpcPresentTheorem`,
`NextLineTheorem`, `CompletedTheorem`, `DefeatTheorem`, `ItemTheorem`), for any world the loader
lets in. They need more than themselves: that a character nobody created is as
it was made and that who is online has every quest begun (`Known`), and that
the place in the lines of an NPC who has none is 0 (`LinesThere`). A login with an
older copy does undo quests; but the copy has its quests and its places of one
moment, so `LineThere` is kept of each copy too, and `CopiesCompleted` says of
copies what `CompletedMeansDead` says of characters: until a restart the dead of
the moment of the copy are dead still. `DefeatSettled` rests on what a command leaves: a kill
that ends a quest keeps `pending[p]` until `on_npc_defeated` has completed it for
everybody online, and no other step of `p` comes between; who logs in meanwhile is
reached by it, with whatever copy, and only who finds the quest over and settled is
`late`. What each kind of step may
do is a lemma (`CommandIs`, `StrikeIs`, `SettleIs`, `CompleteIs`), and the proofs of
preservation argue from these. `ItemTheorem` assumes `RewardsNotPlaced`: no item is both
put in a room and given as a reward; items that an older copy brought back are
excepted in the property. The loader does not check that, and without it
the reward is a second copy; `world.json` gives no rewards, and the instance of `realm` gives one
that meets it.

**Intake** (`TypeCorrect`, `BufferTheorem`, `FramingTheorem`, `WarnsTheorem`), for any
limit, size of a `recv` and number of bytes on their way. Who waits in `recv` has
looked for a newline and at the limit (`Waiting`), so a piece is added to no more than
`Limit`. For the refinement, the first newline of the buffer is the first of the
buffer and all that is on its way, so taking a line from the buffer is `Take` of
`Framing`, and a close is for one of its reasons: with no newline in more than `Limit`
bytes no line within it was owed. For the monitor, what is kept goes from the oldest
to the newest, so that what is too old is in front and pruning from there leaves
exactly the window; and its entries can be numbered (`Numbers`) so that each age has
as many as there have been commands of that age. The numbering and not the number is
inductive: time takes a whole age out of the window, so that the total alone would not
say what is left. When all that is kept is young, the numbering is a bijection with
`Happened`, and the two have the same size.

**Client** (`TypeCorrect`, `PlaceholderTheorem`, `LostToldTheorem`,
`AnswersMatchTheorem`), for any number of inputs, events and incidents. `Shape` is
what the threads rely on besides the types: what a turn has noted to handle is there,
and a wake-up is the user's or the one that ends the worker. `PlaceholderNeverSent`
needs that the placeholder is the first of the queue and there only without a
connection (`WaitsFirst`), and that none is in the buffers. `LostTold` says something
only when all has been read; `NewsOnItsWay` says of every state that the last of all
lines on their way is the news, for which a torn line must mean that the stream was
cut off (`TornCutOff`). `AnswersMatch` is about the moment an answer is taken, and the
code has nothing to tell answers apart by; what is inductive is `Undisturbed`: until
something has come between a command and its answer, the connection is the first one,
greets once and before anything is sent, no command is sent while one or its answer is
on the way, and the one answer there may be, in any of the four buffers between the
server and the user interface, is for the first of the queue. What a line does to the
interface when it is taken is said once (`TakenAsLost`, `TakenFails`, `TakenRaises`,
`TakenDispatched`), and the three proofs argue from it.

**Window** (`TypeCorrect`, `ScreenTheorem`, `RowsTheorem`, `NewestTheorem`,
`EditorTheorem`), for any sizes, letters, suggestions and numbers of keys and lines.
`Frame`: how many tabs there are and which can be active, by the kind of window; that
a tab which takes no input is never active while the window is shown rests on
`Switched` being the nearest that does (`LeastIs`). `LinesOK` says of each input line
(`LineOK`) that the cursor is in it and the screen shows it, but for odd characters
and for a line too long when it was last drawn, and that the lines to recall and to suggest are where the
indexes say. `PanesOK`: each pane shows its lines from `topLineScroll` on, with
nothing left below the last, without which an update, which prints only the rows that
have a line, would leave old text; and the pane of events is at its end unless the
user has gone up. Each method of `InputTab` is shown to do to its line what one action
of `LineEditor` does to the line, to what is aside and to what can be recalled, and to
keep `LineOK`, from nothing but `LineOK`; the refinement
then follows, since every step of the window leaves a tab alone, redraws it or applies
one method to it.

The assumptions are those of the modules, named there and evaluated by TLC: the null
value is none of the others, and bounds are positive; in `CharacterStore` also that a
truncated file is not a state. `RealmAssumption` adds `ValidWorld`, finitely many
quests, and that things of two kinds are never one; `Stats` needs finitely many
sessions, to count them. In `Window` a suggested command is shorter than the buffer,
a line without odd characters is shown in as many columns as it has characters, `toupper` of a capital is that capital, and a pane that is drawn has a row. `DiskFull`
and `RewardsNotPlaced` are hypotheses of the theorems named above, and of no others.

Model-checked only: liveness (`DescriptorReturned`, `CountArrives`, `BegunIsSettled`,
`StopReturns`, `LossArrives`), which is out of the prover's reach.

## Not modelled

- WHO, PROFILE, INVENTORY and QUESTS, which change nothing and tell only the one
  who asks; the delivery of what they say is `SessionIO`'s.
- The parsing of commands, of `world.json` and of saved JSON, and the wording of
  answers: sequential text. What the loader checks is `ValidWorld`.
- Power failure: the store does not flush before it renames.
- In the client: full sockets and buffers (1024 bytes); the parsing of messages
  (`JsonParser.cpp`, most of `Message.cpp` and `Utils.cpp`); geometry, colours and
  borders of the terminal's windows; more than one window at a time in `Window`,
  and drawing that fails while an answer is dispatched, which would take `Window`
  and `Client` composed. `suggestPrevious` and `suggestNext` are never called.
- The Qt client, whose windows are the library's. The logger and start-up.

## Plan

The order of work: the server's concurrency first (sessions, presence, store,
groups, broadcasts, the world), then its sequential parts, then the client.
All of that is there. What remains, in this order:

1. `Client`: buffers that fill up, a second loss, and `GUI` beside `CLI`.
2. The framing of the client's side (`UI::splitIntoMessages`) against that of the server.
