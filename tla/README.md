# Nostalgia Repack: a TLA+ model

The repository is a portable Windows release of a "vanilla" game server: server
binaries, MariaDB, Apache with PHP, a launcher, a controller bridge, and the
AddOns a player copies into the game client. Nearly all of its files are data,
vendored software or binaries kept in Git LFS. What is written here, and what
this project is about, is some 7,500 lines: five AddOns in Lua and one
administration page in PHP.

## 1. The system

| Part | Source | Runs in |
|---|---|---|
| DinoMacroManager: chains of spells behind one action button | `AddOns/DinoMacroManager/DinoMacroManager.lua` | game client |
| DinoController: key bindings, options, quest help, targets, ground spells | `AddOns/DinoController/DinoController.lua`, `DinoGroundSpells.lua`, `BridgeMappings.lua` | game client |
| DinoController UI mode: navigation of windows with the D-pad | `AddOns/DinoController/DinoControllerUI.lua` | game client |
| DinoController HUD | `AddOns/DinoController/DinoControllerHUD.lua` | game client |
| SellGrey, Clock, xbot | `AddOns/SellGrey`, `AddOns/Clock`, `AddOns/xbot` | game client |
| Administration page: accounts, characters, dumps | `Web/www/index.php` | Apache/PHP |
| Stop script of the website | `Web/Stop-NostalgiaWeb.ps1` | Windows |
| Launcher, bridge, realm and world server, databases | binaries | Windows |

How they interact: the bridge turns gamepad buttons into key presses; the
client looks the key up in its bindings, which DinoController owns, and calls
an AddOn function. DinoMacroManager casts through the client (ground spells
through DinoController's `.gcast` chat command) and learns of the result from
client events only. The administration page writes the account and character
databases, and sends the world server `pdump write` and `pdump load` commands
through a pipe; it sees their effect only as files in the server's directory.

Inside one client all AddOn code runs in one thread: a handler is atomic. What
interleaves is the order of handlers: key presses, client events, and the
OnUpdate scripts that run with every frame, each reading state (windows, rolls,
casts, cooldowns) that changed since the last look. On the web side every
browser request is a process of its own, sharing files with the others and with
the world server.

### Inventory

**Macro chains** (`DinoMacroManager.lua` 198-350, 852-1130, 1340-1515). State:
the slots (steps, reset time, reset on target change, current step, last use),
the single `pendingCast`, `updateElapsed`, the editor's slot. Operations:
`TriggerSlot`, `SaveEditor`, `ClearEditorSlot`, `ConfirmPendingCast`, the reset
timers, OnUpdate, eight kinds of event. Hard: the answer to a cast comes later,
as events that do not say which cast they are about, and that announce success
before failure; meanwhile the slot may be edited, cleared, reset. Correct: a
chain moves on by one step per successful cast of that step and never for an
interrupted one; its step always exists; the pending cast that blocks all slots
always ends.

**Bindings and UI mode** (`DinoController.lua` 470-700, 1130-1320, 1400-1560;
`DinoControllerUI.lua` 1425-1560). State: the options, the client's live and
saved bindings, `uiModeActive`, `temporaryBindings`. Operations: entering and
leaving UI mode, every option that rebinds keys, `InstallBindings`,
`PLAYER_ENTERING_WORLD`. Hard: options change while UI mode has other commands
on the same keys; a loading screen, reload or crash may come at any moment;
options and bindings are saved by different parties at different times. Correct:
outside UI mode the keys do what the options say, and that is what is saved; in
UI mode Confirm and Cancel work.

**UI focus and loot rolls** (`DinoControllerUI.lua` 150-730, 1180-1420,
1560-2088). State: the list of elements, the focus, the suspended focus, the
pending loot position. Operations: the scan `RefreshElements` and the direction,
Confirm and Cancel keys. Hard: the list is a snapshot of windows that change
under it; loot rolls take priority and time out; frames are reused. Correct: the
focus is on an element; keys do not act on a dead roll; Confirm sends the
choice that was highlighted; the focus returns after the rolls.

**Backups** (`index.php` 247-380). State: dump files, temporary files, the pipe.
Operations: create, restore, upload, delete. Hard: check-then-act across
requests, polling with a timeout, a server that stops, PHP's stat cache.
Correct: a dump is of the character it is filed under and complete; uploads
overwrite nothing; what is restored is what was asked for; requests end.

**Accounts** (`index.php` 177-246, 381-426). Two databases, check-then-act, one
transaction. Hard: every statement may be the last one executed, the
tables of one transaction are not all transactional, and the world server keeps
characters in memory and saves them over the database. Correct: one account per
name; no realm row without account; a raised level is never lost.

**Map and quest-log buttons** (`DinoController.lua` 438-468, 721-778, 1579-1586).
Which of two windows a button opens next, and a window opened by a later frame.
Hard: the variable that says which is next is not told what the player opens
and closes by other means; presses, the option and the map come between a press
and the frame it waits for. Correct: the log never opens while the map is there;
the log a press asked for opens at last unless it was called off.

**Quest automation** (`DinoController.lua` 890-1015, 1598-1606). The ambiguity
flag and the snapshot of the quest log, each with a five-second deadline. Hard:
windows open and close in any order around the deadline; the client does not say
which quest was accepted, the log changes before its event says so, quests may
share a title, and collapsed headers hide entries. Correct: no quest is picked
while the choice is the player's; what is tracked is what came in.

**Chain editor** (`DinoMacroManager.lua` 45-56, 458-744, 852-896, 1185-1327).
State: the slot being edited, the step fields, the text fields, the spell index
noted by the hook of PickupSpell. Operations: opening, inserting, dropping,
removing, Save, Clear, Cancel, the macro of a slot. Hard: fields with gaps are
saved compacted; the check for unsaved changes and Save are written apart; the
cursor and the spellbook change between a pick-up and a drop. Correct: only
complete chains of castable entries are saved, into the slot shown; the macro
dragged out runs the chain the editor shows.

**HUD** (`DinoControllerHUD.lua`). State: the modifiers held and the last one
pressed, the slots of the D-pad buttons, the highlight frames, two flash
deadlines, the frame's visibility and lock. Operations: modifier keys, options,
lock, show and hide, bar pages, loading screens, OnUpdate. Hard: the slot a
button shows is stored, the slot the D-pad uses is computed; highlights and
visibility are refreshed by hand from many handlers. Correct: both slots are
the same, the highlights show the page of the last modifier still held, the HUD
is shown as the options say, flashes end.

**SellGrey, Clock, xbot**: a loop, a toggle, a panel of chat commands. **Pixels,
camera, target cycling, reticle**: functions of the client's state that keep
none of their own.

## 2. The modules

| Module | Models | Composed with |
|---|---|---|
| `SpellChain` | abstract: what a user is promised of the chains | - |
| `MacroManager` | the run-time of DinoMacroManager | `SpellChain`, by a refinement mapping |
| `MacroManagerProofs` | theorems about it, and that it implements `SpellChain` | EXTENDS `MacroManager`, TLAPS |
| `ControllerBindings` | bindings, options, UI mode, sessions and crashes | - |
| `ControllerBindingsProofs` | theorems about it | EXTENDS `ControllerBindings`, TLAPS |
| `ChainStore` | abstract: what the editor promises the run-time | - |
| `ChainEditor` | the editor of DinoMacroManager | `ChainStore`, by a refinement mapping |
| `ChainEditorProofs` | theorems about it, and that it implements `ChainStore` | EXTENDS `ChainEditor`, TLAPS |
| `ControllerHud` | modifiers, pages, highlights, visibility of the HUD | - |
| `ControllerHudProofs` | theorems about it | EXTENDS `ControllerHud`, TLAPS |
| `UiFocus` | elements, focus, loot rolls | - |
| `UiFocusProofs` | theorems about it | EXTENDS `UiFocus`, TLAPS |
| `MapQuest` | the map and quest-log button | - |
| `QuestAssist` | Auto Quest, auto-tracking, OnUpdate | EXTENDS `MapQuest`: one OnUpdate |
| `QuestAssistProofs` | theorems about both | EXTENDS `QuestAssist`, TLAPS |
| `BackupAdmin` | backup requests, files, pipe and world server | - |
| `BackupAdminProofs` | theorems about it | EXTENDS `BackupAdmin`, TLAPS |
| `AccountAdmin` | account requests, tables and world server | - |
| `AccountAdminProofs` | theorems about it | EXTENDS `AccountAdmin`, TLAPS |
| `MC...` | the instances TLC checks | EXTENDS the module |

### MacroManager

`chain`, `resetSeconds`, `resetOnTarget`, `current` and `lastUsed` are fields of
`slot`, one function each; `pending` is `DMM.pendingCast`. Lua compares the
steps *table* of the pending cast with the slot's by identity, which the code
relies on, so `table` keeps identities and a rewrite takes an unused one. Times
are ages in ticks which stop growing where no comparison can tell more
(`PendingTimeout + 1`, the reset time of the slot).

`TriggerSlot` has one disjunct per outcome: incomplete slot (opens the editor),
cast pending, step not ready (the pointer has already moved), command, spell,
ground spell. `av` is what the client says of each entry at that moment. OnUpdate,
SPELLCAST_STOP, failures, target change, entering the world and `/reload` are
one action each. The client is external: `cast` is the last cast a chain began,
`echo` the time left for the SPELLCAST_INTERRUPTED that follows the
SPELLCAST_STOP of an interrupted cast. `LagAssumption` says it comes sooner than
`SUCCESS_DELAY`. That is an assumption about the client: nothing in the
repository states it, it is inferred from what the code does with the delay: it
drops a confirmation that is still waiting when SPELLCAST_INTERRUPTED arrives. `otherActivity`, chosen at the start among `Activities`, lets the
player cast by hand and meet unrelated errors.

`SpellChain` has no clock, event, cooldown or editor: chains with a pointer, of
which at most one is *armed*. The mapping is the length of `chain`, `current`,
and the slot whose pending cast would be confirmed if it succeeded
(`PendingIsCurrent`).

### ChainEditor

`slots` holds what MacroManager calls `chain` and `resetSeconds`; the editor is
the only writer of both, so `MacroManager` may take any complete chain as the
result of an edit: that is the promise `ChainStore` states. `fields` is
`DMM.editorSpells` with its gaps, `resetText` the text of the reset field, which
is compared (invalid text counts as the default) in another way than it is saved
(invalid text is refused). `picked` is `DMM.pickedSpellIndex` on the path this
client takes, which has no `GetCursorInfo`; the pet's book is `None`. The client
is external: the cursor may get a spell without the hook, and the spellbook may
be renumbered at any moment. The name and the target check, which are treated
like a valid reset time, are left out.

The mapping to `ChainStore` is the steps of each slot, and the slot shown.
Opening another slot over unsaved edits is an `Open` there: no text forbids it.

### ControllerHud

`page` is what the D-pad buttons remember (`dinoActionSlot` less the button's
number), `marks` what the highlight frames show, `flash` the time left to the two
deadlines. Every handler is an action with the refresh it calls:
`UpdateActivePage` or `UpdateActionbarHighlights` as in the code, none where the
code calls none. `pressed`, the keys the player holds in the order of pressing,
is external: the properties compare the HUD with it. A session ends by logout,
`/reload` or crash, and the next may find any options saved.

### ControllerBindings

The client keeps `live` (SetBinding) and `saved` (SaveBindings); the options
`db` reach `savedDB` at a clean logout only. One key stands for each group that
the code always binds alike (listed in the module). Actions are the scan that
enters or leaves UI mode, the taxi map, one handler per option, `/dino bind`,
PLAYER_ENTERING_WORLD, logout, reload (with or without the saved set loaded
again), crash, and windows that come and go.

### UiFocus

Three windows stand for all, in the code's order of priority: popup, loot, bags.
`ui` is the add-on's `state`; `rolls` and `windows` are the client's. A window is
`None` if it is closed, else the set of its usable buttons, which may be empty: the
code takes the first window on the screen (`BuildContext`), and leaves UI mode if
that one has no element, whatever is under it. A roll counts only with a usable
choice. `scene` says which frames and windows the client uses in a behaviour.
`Refreshed` is RefreshElements as a function of the state, in the code's order: build the
list, suspend or resume, keep the focus by key, by roll choice, by position,
clip. The loops over the list are `Picked` (append the usable ones), `Find` (the
first that fits) and the least or greatest of a set of positions. Keys call it where the code does. `command` is what the last Confirm asked
the client for. Directions among spatially arranged buttons may go anywhere
(`MoveSpatial`); among rolls they follow the code. Not modelled: scroll areas,
tooltips, and the special first focus of merchant, bank, talents, stable, quest
log.

### BackupAdmin

A request is a small program: `request[r].at` is the step it will take next, and
other requests, the world server and the clock act in between. Requests of one
browser never overlap, because PHP holds the session's lock. The world server
takes commands from the pipe one at a time and writes a dump in steps, so a
request can see the file before it is complete. A restore lists the left-over
files (`ListLoadFiles`), deletes them one by one (`UnlinkLoadFile`), copies, sends,
and then holds its browser's session for the half second it sleeps (`EndRestore`).
Opening the pipe may fail also while the server runs, and so may every rename, copy,
move and deletion, where the code goes on with its error path or, for a
deletion, as if nothing had happened. A request that ends forgets its variables
(`Blank`). `size` is kept as the code gets it, with PHP's stat cache. Names carry what the code puts into them: character
and second for temporary files, character and minute for dumps. A dump is open
while the server writes it, then complete, or cut if the server stopped.
`session` assigns requests to browsers, in every way that `Sessions` holds.

### AccountAdmin

One step per SQL statement: `request[r].at` is the next one, the record holds
what the earlier ones found. `account` and `lastId` are logon.account and its
AUTO_INCREMENT, `realmRows` logon.realmcharacters (one realm), `character` the
characters table with, in `played`, the level the world server has in memory
while a character is online. Which engine a table has is read off the data
directory: `account.ibd` is InnoDB, `realmcharacters.MYD` and `characters.MYD`
are MyISAM, so the transaction of delete_account undoes only half of what it
does. Whether `account` has a unique key cannot be seen in the repository
(the files' contents are in LFS), so `uniqueKey` is either. `RequestFails` ends a
request after any statement.

Three things are assumed of the world server that the sources rely on but do not
show. It marks a character online before it loads it, and offline only after it has
saved it; it clears the marks when it starts (`PushedLevelKept` rests on this). It
writes no row of realmcharacters: the page inserts them with `numchars` 0 and
nothing in the repository updates them; a server that did insert one for a deleted
account would break `RealmRowsHaveAccount`. And no account is created or deleted at
its console, which the page mentions as another way to do it (`index.php:517`): a
console command between the two statements of create_account would be a second
browser to `OneAccountPerName`.

### MapQuest and QuestAssist

`nextWindow` and `pendingLog` are `nextMapQuestWindow` and
`pendingMapQuestWindow`; the windows themselves are the client's. A full-screen
map takes every key (the comment at `DinoController.lua:780`), so no key of the
client opens the log over it; whether it closes a log that is open is left open.

In QuestAssist a window of a non-player character comes up or closes in any
order, and a close may be about a window that is already shown again. `log` is a
set: which entries of one title the code takes for the new ones depends on the
log's order, so `TrackNewlyAcceptedQuest` may take any of them, as many as the
snapshot lacks. The log changes in actions of its own, before QUEST_LOG_UPDATE.
`choosing`, `arrived`, `unseen`, `lost` and `did` are observations that no
action of the code reads. OnUpdate is the one script both modules share. `uses`,
chosen at the start, says which of the three features the player touches; they
share OnUpdate and the hook of AcceptQuest only, and the others' options and the
log still have any value they may start with.

## 3. What is checked

All modules are parsed by SANY; every run below is made by TLC. "violation"
runs check one sentence of the repository's own text and end with a trace.

| Run | Checks | Bounds |
|---|---|---|
| `chains_busy` | `PendingStepExists`, `InterruptedCastNeverAdvances`, `ImplementsSpellChain`, with commands, ground spells, casts by hand and errors | 2 slots, chains of 2 |
| `chains_live` | `TypeOK`, `AdvanceProvesCast`: without other casts, a chain moves past a spell only if that spell was cast to its end; `PendingCastEnds` under fairness | 1 slot, chains of 2 and 4, with other activity or without |
| `chain_editor` | `TypeOK`, `NothingUnsavedIsSaved`, `PickedMacroIsShown`, `ImplementsChainStore` | 2 slots, chains of 2 or 3, one active and one passive spell, one command, two spellbooks |
| `bindings_world` | `TypeOK`, `WorldBindingsRestored`, `NothingUnsaved`, `ConfirmAndCancel` | none: the model is finite, all options |
| `bindings_saved` | violation of `SavedBindingsAreWorld` | fewer options |
| `hud_pages` | `TypeOK`, `DPadUsesWhatIsShown`, `MarksFollowKeys`, `HudAsSaved`, and `FlashEnds` under fairness | flashes of 2 ticks, an update per tick; all options |
| `focus` | `TypeOK`, `FocusOnElement`, `MoveLandsOnLiveRoll`, `ConfirmKeepsChoice`, `SuspendedFocusReturns` | windows of 2 buttons; 1 roll over each two kinds of window, or 2 rolls over the bags |
| `backups_browsers` | `TypeOK`, `BackupOfRightCharacter`, `BackedUpIsComplete`, `UploadNeverOverwrites`, and `RequestEnds` under fairness, with a world server that stops | 2 requests of any kind, of one browser or two, 2 seconds, a minute each |
| `backups_restored` | violation of `RestoredIsRequested` | 2 restores of one browser |
| `accounts` | `TypeOK`, `OneAccountPerName`, `RealmRowsHaveAccount`, `PushedLevelKept` | 3 requests of one browser or with one of another, 2 names, 2 ids, 1 character, 3 levels of which the second is 55 |
| `accounts_orphans` | violation of `OnlyEmptyAccountsDeleted` | 1 request, 1 name, 1 character |
| `quests` | `TypeOK`, `LogNeverOverMap`, `ChoiceIsThePlayers`, `OnlyNewTitlesTracked`, `NewQuestTracked`, and `PendingLogOpens`, `FlagEnds` under fairness | 3 quests, two with one title, deadlines of 3 and 2 ticks, one feature used at a time |

Why the bounds are enough. *Chains*: slots meet only through the one pending
cast, so two show every interference (another slot pending, another slot reset
by the same update); two slots, the pending cast and the next rewrite can hold
at most four tables apart. Times are small but keep the order of the code's:
lag < delay <= timeout (the delay is 0.12 s, the timeout 30 s); the reset time, which
the user chooses, may run out before or after a confirmation. A chain of four has
steps that are neither first nor last; lengths two and four are in `chains_live`.
*Focus*: two rolls are needed for one to end while the other stays, two buttons
for one to vanish before the focused one; the code treats further ones alike. One
roll over two kinds of window shows a suspended focus with another window opening in
front of it, for each pair of kinds; the code compares the suspended context with
one other at a time. The theorems hold for any number of rolls, buttons and kinds of window.
*Backups*: two requests give every pair; two seconds
allow equal names for temporary files and different ones, and each is a minute, so
that dumps meet under one name and under two. *Accounts*: three requests are the
creation of a name, its deletion, and a third of any kind between their
statements, of the same browser or another; a deletion frees a name for the
second id; levels are below 55, 55, and above. Characters meet only in
their account, which one character does. *Quests*: two quests with one title are
counted, a third tells titles apart; the deadlines leave a tick in which windows
come after a close and before the deadline. *Editor*: three
fields allow a gap before, between and after steps and a full chain; two books
with the spells exchanged make every noted index stale. *HUD*: two ticks
(0.2 s at 0.1 s per update) let the two flashes overlap and end in different updates;
bars beyond the second are one. Table identities in the two-slot
safety runs of `MacroManager` and the slots of `ChainEditor` are symmetric;
liveness runs use no symmetry.

Names are symmetric in `accounts`. Deadlock is checked except for BackupAdmin,
where every request runs once, so the system stops when all have ended and the
clock is at its bound.

### Fairness

`chains_live`: weak fairness of `Tick` (time passes), `OnUpdate` (a shown client
draws frames and runs the script in each) and `CastInterrupted` (an event the
client has announced arrives). Nothing is assumed of the user, of the server's
answer to a cast, or of events in general: `PendingCastEnds` rests on
`PENDING_TIMEOUT` alone, although SPELLCAST_STOP may keep putting the
confirmation off. `backups_browsers`: weak fairness of the next step of a
request that has begun (PHP runs it; file and pipe calls return, with success or
failure). The world
server has no fairness at all. `hud_pages`: weak fairness of `Tick` and of `OnUpdate`, whose
script belongs to a frame of its own that is always shown. `quests`: weak fairness
of `Tick` and `OnUpdate`, whose frame has no parent that could be hidden, and
strong fairness of a frame drawn while the map is closed: the code closes the map
in each frame until the log is open, and a player does not open it again in
every one.

### Where the code and its text disagree

1. `bindings_saved`: a loading screen passed in UI mode saves the temporary
   bindings (`DinoController.lua:1555`), which the comment at 541-543 forbids.
   The next scan or leaving UI mode repairs it; a crash in between does not,
   but `WorldBindingsRestored` shows that the next login does for the keys it
   rebinds.
2. `backups_restored`: a restore deletes the file an earlier one has queued for
   the world server (`index.php:364`), which was already reported as being
   restored. It takes a world server that is further behind than the half second
   the first restore sleeps.
3. `accounts_orphans`: delete_account counts the characters in one database and
   deletes the account in another, later (`index.php:227`), so an account is
   deleted although a character was created on it or restored to it in between. The
   page says at 524 that only accounts without characters can be deleted.

The models also have behaviour no sentence forbids, noted with the hazards in
`PROJECT.json`: a chain rewound by its timer during its own cast; a chain that
has skipped an unavailable first step and failed to cast, which stays off step 1
because the timer starts with a cast (`DinoMacroManager.lua:1013`); Confirm on a
bag button that loots the slot of its number in the 80 ms before a loot window is
scanned (`DinoControllerUI.lua:1949`); unsaved edits replaced when another slot
is opened, and a dropped spell that is not the one on the cursor
(`DinoMacroManager.lua:1004`, `534`); the D-pad on
the action bar after a loading screen in UI mode; a dump that is not seen to
grow; with two browsers, an upload that replaces a backup finished between
its check and its move (`UploadNeverOverwrites` is stated for one browser), a
dump cut short by a stop of the world server and filed (`BackedUpIsComplete` says
only that none is filed that is still being written); with two browsers, a
realm row inserted for an account just deleted; quests under a header that was
collapsed when another was accepted, tracked when it is expanded within five
seconds, and a second quest accepted before the first has arrived, not tracked
(`DinoController.lua:961`, `981`); and a suspended focus forgotten when a popup is
in front at the moment the last roll goes (the last case that
`SuspendedFocusReturns` allows).

## 4. What is proved

For every value of the constants, by TLAPS (SMT, Zenon, PTL), from nothing but
the modules' named ASSUMEs:

* `MacroManagerProofs`: `TypeCorrect`, `StepAlwaysInRange`,
  `PendingStepAlwaysExists`. The inductive invariant `IInv` is their
  conjunction: the pointer stays in range at a confirmation only because the
  pending step exists in the chain whose table it remembers, and that holds only
  because a rewrite takes a table that neither a slot nor the pending cast has.
  `LeastOffset` and `EffectiveStepInRange` show that the search for an available
  step never leaves the chain. The assumptions on the constants that matter:
  chains have two to four steps, times are natural numbers, `EventLag` is one.
  The same module proves `RefinesSpellChain`, `InterruptedCastsNeverAdvance` and
  `AdvanceAlwaysProvesCast`. `CastIInv` adds to `IInv` what a pending cast stands
  for. `PendingOrRewound`: while a cast is pending and its table is still the
  slot's, the slot is at the pending step or was rewound to step 1, so a rewound
  slot is never armed again; this is what the refinement needs. `AbortIsAnnounced`:
  if the cast was aborted, SPELLCAST_INTERRUPTED comes before the confirmation is
  due, which holds at every SPELLCAST_STOP only because `EventLag < SuccessDelay`
  (`LagAssumption`). `PendingIsCast`: without other activity the pending spell is the
  cast the client knows, and no confirmation is announced while it runs. A chain
  moves on only by a confirmation (`AdvanceIsConfirmation`), where the last two leave
  nothing but a completed cast. Every action maps to an action of `SpellChain`:
  a ready trigger to `Fire`, Save and Clear to `Rewrite`, a confirming frame to
  `Advance`, everything else to `Rewind`.
* `ControllerBindingsProofs`: `TypeCorrect`, `WorldAlwaysRestored`,
  `NothingStaysUnsaved`, `ConfirmAndCancelStay`, `TemporaryBindingsStayWorld`,
  for every set of options. `IInv` strengthens the properties by what is known
  *inside* UI mode: the temporary bindings hold the layout of the options as
  they were, no key has been lost, the target keys follow the option at once
  (`UIPart`, `TargetPart`), and the keys the add-on never rebinds carry no UI
  command (`UnmanagedPart`).
* `ChainEditorProofs`: `TypeCorrect`, `NothingUnsavedIsAlwaysSaved`,
  `PickedMacroIsAlwaysShown`, `RefinesChainStore`, for any slots, commands, books and
  number of steps. The check for unsaved changes compares fields by position, Save
  leaves the empty ones out; they agree because as many filled fields as saved steps,
  each equal to its step, must be the first ones (`FirstFieldsFilled`, by counting).
  `EntriesPart` adds to the types that no field ever holds a passive spell, which
  Save does not check again. Opening, saving, clearing and closing map to the actions of
  `ChainStore`, everything else to a stutter.
* `ControllerHudProofs`: `TypeCorrect`, `DPadAlwaysUsesWhatIsShown`,
  `HudAlwaysAsSaved`, `MarksAlwaysFollowKeys`. `IInv` says that the buttons' page is the one computed
  from the keys and the layout, and that the HUD's options form a record of two
  fields, so that changing one leaves the other in force. `HeldIInv` relates the
  add-on's two flags and `lastMod` to the order in which the player holds the keys:
  of two held keys `lastMod` is the later one, of one it may be the one released.
* `UiFocusProofs`: `TypeCorrect`, `FocusAlwaysOnElement`, `MovesLandOnLiveRolls`,
  `ConfirmSendsTheChoice`, `SuspendedFocusIsKept`, for any number of rolls and buttons
  and any windows. `UiOK`, which every scan keeps whatever it finds (`RefreshedFacts`),
  adds to the types that each listed element, and the suspended one, is one its context
  may have. Three facts of the list carry the rest (`ElementsFacts`): it has exactly
  the usable elements, so a moved focus is on a roll that is shown and a suspended
  element that is missing is unusable; and a frame's icon comes first. A shown roll has
  its icon (`RollsOK`), so Confirm with another choice than the highlighted one would
  have to find it before an icon. The list is built by a loop: its first failure gives
  the induction (`LeastNatural`, `PickedFacts`).
* `BackupAdminProofs`: `TypeCorrect`, `BackupsOfRightCharacter`,
  `BackedUpAlwaysClosed`, `UploadsNeverOverwrite`, for any number of requests,
  browsers and characters. Temporary files and commands are named after their
  character (`NamedByCharacter`); the world server has open exactly the dump that is
  unfinished (`OpenPart`), and an open file cannot be renamed; a browser has one
  active request, so the name an upload found free is still free (`UploadPart`);
  `RequestsReady` says that a request about to move or load a dump has one.
* `AccountAdminProofs`: `TypeCorrect`, `PushedLevelIsKept`,
  `OneAccountForEachName`, `EveryRealmRowHasAccount`, for any number of requests,
  browsers, names and characters. A level is kept because a character that is
  online has at least its saved level in memory, and the UPDATE touches no
  online character. With one browser at most one request is active, so a request
  about to insert a name still finds it free, and one about to insert a realm row
  finds its account.
* `QuestAssistProofs`: `TypeCorrect`, `LogNeverOpensOverMap`,
  `ChoiceStaysThePlayers`, `SnapshotAlwaysHasDeadline`,
  `OnlyNewTitlesEverTracked`, `NewQuestsAreTracked`, for any quests, titles and
  delays. `FlagLasts` says that
  the flag is up as long as the choice is the player's, and that the time since
  the last window and the time left to the deadline add up to the whole delay.
  `SnapshotExplainsLog` says that the log is always made up of a set of quests that
  the snapshot counts exactly, the arrivals, and what the snapshot could not see; more
  entries of a title than counted then need one of the latter two. `CountedStay` says
  that until something goes the counted quests are still shown beside the arrivals, so
  an arrival that is shown makes its title exceed the count.

`StepAlwaysInRange`, `TemporaryBindingsStayWorld` and `SnapshotAlwaysHasDeadline`
state invariants that no run lists: the proofs hold them for every instance.

Only model-checked: liveness (`PendingCastEnds`, `RequestEnds`, `FlashEnds`,
`PendingLogOpens`, `FlagEnds`), which needs fairness and ENABLED, out of the prover's
reach. Every invariant, action property and refinement the passing runs check is
proved.

## 5. What is not modelled

Drawing, icons, text fields, sounds, tooltips, localisation tables; the name
tables of spells; pixels, camera, target cycling and reticle, which keep no
state; dropping actions on HUD buttons and moving the HUD; SellGrey, Clock and
xbot; the stop script; the download of dumps, which changes nothing; the
binaries (launcher, bridge, servers, databases), which appear as external
actions only where the sources rely on them; and the Apache, PHP and MariaDB trees with
their headers and scripts, which are other projects' software shipped unchanged.

## 6. Plan

In order of importance:

1. Scroll areas and the special first focus of some windows in `UiFocus`.
2. Actions dropped on HUD buttons, and the position of the HUD.
3. Target cycling over a group that changes between two presses.
